--------------------------- MODULE UploadEndpoint ---------------------------
(***************************************************************************)
(* The one-time presigned PUT endpoints (transfer/upload_http.go) on top   *)
(* of the upload manager of UploadTasks.                                   *)
(*                                                                         *)
(* The coordinator and the manager have a mutex each.  Preparing an upload *)
(* registers the handle with the manager and then the endpoint with the    *)
(* coordinator; a PUT claims its token, hands the read end of a pipe to    *)
(* the manager, copies its body into the write end, and closes that.  In   *)
(* between, other PUTs, polls, cancels, the upload's worker and its        *)
(* watchdog run.  All uploads come through an endpoint here.               *)
(*                                                                         *)
(* The executor is external as in UploadTasks, and honest: it reports      *)
(* success only of a stream it has read to its end.  io.Pipe is external   *)
(* too: the reader sees the end of the stream once the writer is closed    *)
(* and as long as it is not closed itself, and a write needs a reader.     *)
(* A body is at least a byte long; what it contains is left out, but for   *)
(* whether all of it arrived.                                              *)
(***************************************************************************)
EXTENDS UploadTasks

CONSTANTS
  Tokens,  \* what newHTTPToken can return, each once
  Puts     \* PUT requests, each served once

(* "none" marks an endpoint without a handle, and a PUT without a token.   *)
ASSUME UploadEndpointAssumption == "none" \notin Ids \cup Tokens

VARIABLES
  issued,    \* every token registered so far
  tokens,    \* tokens[t]: the registered httpToken
  byHandle,  \* byHandle[h]: the token of the prepared handle h
  minting,   \* minting[h]: the ttl of an h that still lacks its endpoint, or 0
  put,       \* put[r]: how far the request r has got, and with what
  pipe       \* pipe[i]: the pipe the upload i reads from

endpoints == <<issued, tokens, byHandle, minting>>
manager == vars
allVars == <<vars, endpoints, put, pipe>>

EndpointInit ==
  /\ Init
  /\ issued = {}
  /\ tokens = <<>>
  /\ byHandle = <<>>
  /\ minting = [i \in Ids |-> 0]
  /\ put = [r \in Puts |-> [pc |-> "waiting", token |-> "none",
                            id |-> "none", status |-> "none"]]
  /\ pipe = [i \in Ids |-> [whole |-> FALSE, closed |-> FALSE, eof |-> FALSE]]

Minus(f, gone) == [x \in DOMAIN f \ gone |-> f[x]]
Put(f, x, v) == [y \in DOMAIN f \cup {x} |-> IF y = x THEN v ELSE f[y]]

-----------------------------------------------------------------------------
(* The coordinator's maps.                                                 *)

Over(t) == clock > tokens[t].expires

Usable(t) == t \in DOMAIN tokens /\ ~tokens[t].used /\ ~Over(t)

KeepReferences(ts) == byHandle

(* The back-references without those of the handles of some tokens. *)
WithoutReferences(ts) == Minus(byHandle, {tokens[t].handle : t \in ts})

(* A minted endpoint has no handle yet. *)
Refer(refs, handle, t) ==
  IF handle = "none" THEN refs ELSE Put(refs, handle, t)

(* Both ways to an endpoint sweep what has expired and add a token. *)
Register(t, handle, ttl) ==
  LET gone == {u \in DOMAIN tokens : Over(u)}
  IN  /\ t \notin issued
      /\ issued' = issued \cup {t}
      /\ tokens' = Put(Minus(tokens, gone), t,
                       [expires |-> clock + ttl, used |-> FALSE,
                        handle |-> handle])
      /\ byHandle' = Refer(WithoutReferences(gone), handle, t)

(* Mint: an endpoint that will start an upload of its own. *)
Mint(t, ttl) ==
  /\ Register(t, "none", ttl)
  /\ UNCHANGED <<manager, minting, put, pipe>>

(* Upload.Prepare: the manager first; without a slot that was all. *)
PrepareHandle(i, ttl) ==
  /\ Prepare(i, ttl)
  /\ minting' = [minting EXCEPT
                   ![i] = IF task'[i].state = "prepared" THEN ttl ELSE 0]
  /\ UNCHANGED <<issued, tokens, byHandle, put, pipe>>

PrepareEndpoint(i, t) ==
  /\ minting[i] > 0
  /\ Register(t, i, minting[i])
  /\ minting' = [minting EXCEPT ![i] = 0]
  /\ UNCHANGED <<manager, put, pipe>>

-----------------------------------------------------------------------------
(* putHandler.                                                             *)

Answer(r, status) ==
  put' = [put EXCEPT ![r].pc = "answered", ![r].status = status]

LeaveUnused(t) == UNCHANGED tokens

MarkUsed(t) == tokens' = [tokens EXCEPT ![t].used = TRUE]

(* claim: a used token stays until somebody asks for it again.             *)
Claim(r, t) ==
  /\ put[r].pc = "waiting"
  /\ byHandle' = WithoutReferences({t} \cap DOMAIN tokens)
  /\ \/ /\ Usable(t)
        /\ MarkUsed(t)
        /\ put' = [put EXCEPT ![r].pc = "claimed", ![r].token = t,
                              ![r].id = tokens[t].handle]
     \/ /\ ~Usable(t)
        /\ tokens' = Minus(tokens, {t})
        /\ Answer(r, "404")
  /\ UNCHANGED <<manager, issued, minting, pipe>>

Started(r, i) == put' = [put EXCEPT ![r].pc = "copying", ![r].id = i]

Refused(r) == put' = [put EXCEPT ![r].pc = "answered", ![r].id = "none",
                                 ![r].status = "failed"]

(* The manager took the pipe for the upload i, or had no slot for it. *)
Begun(r, i) == IF worker'[i] = "spawned" THEN Started(r, i) ELSE Refused(r)

(* The pipe goes to the manager: for the upload the endpoint was minted    *)
(* for, unless that can no longer be claimed, or for a new one.            *)
HandOver(r) ==
  /\ put[r].pc = "claimed"
  /\ LET h == put[r].id
     IN  \/ h # "none" /\ Fulfill(h) /\ Begun(r, h)
         \/ h # "none" /\ ~Claimable(h) /\ Refused(r) /\ UNCHANGED manager
         \/ h = "none" /\ \E i \in Ids : Start(i) /\ Begun(r, i)
  /\ UNCHANGED <<endpoints, pipe>>

(* io.Copy: all of the body went through the pipe to a running executor. *)
CopyEnds(r) ==
  LET i == put[r].id
  IN  /\ put[r].pc = "copying"
      /\ worker[i] = "exec" /\ closes[i] = 0
      /\ pipe' = [pipe EXCEPT ![i].whole = TRUE]
      /\ put' = [put EXCEPT ![r].pc = "copied"]
      /\ UNCHANGED <<manager, endpoints>>

(* The body is too large, or the client goes away. *)
BodyBreaks(r) ==
  /\ put[r].pc = "copying"
  /\ put' = [put EXCEPT ![r].pc = "broken"]
  /\ UNCHANGED <<manager, endpoints, pipe>>

(* The next write finds the read end closed. *)
PipeBreaks(r) ==
  /\ put[r].pc = "copying"
  /\ closes[put[r].id] > 0
  /\ put' = [put EXCEPT ![r].pc = "broken"]
  /\ UNCHANGED <<manager, endpoints, pipe>>

Cancellable(i) == i \in tasks /\ task[i].state \in Active \cup {"prepared"}

AbortByClosing(r) ==
  /\ put[r].pc = "broken"
  /\ pipe' = [pipe EXCEPT ![put[r].id].closed = TRUE]
  /\ put' = [put EXCEPT ![r].pc = "aborted"]
  /\ UNCHANGED <<manager, endpoints>>

(* The handler cancels its own upload; a Cancel that is refused returns at *)
(* once, whoever ended the upload.                                         *)
Abort(r) ==
  LET i == put[r].id
  IN  /\ put[r].pc = "broken"
      /\ \/ Cancel(i) /\ put' = [put EXCEPT ![r].pc = "aborting"]
         \/ /\ ~Cancellable(i)
            /\ put' = [put EXCEPT ![r].pc = "aborted"]
            /\ UNCHANGED manager
      /\ UNCHANGED <<endpoints, pipe>>

(* The handler's Cancel has run its context and its reader step. *)
CancelReturns(r) ==
  /\ put[r].pc = "aborting"
  /\ canceller[put[r].id] = "done"
  /\ put' = [put EXCEPT ![r].pc = "aborted"]
  /\ UNCHANGED <<manager, endpoints, pipe>>

(* pw.Close, and the answer. *)
CloseWriter(r) ==
  /\ put[r].pc \in {"copied", "aborted"}
  /\ pipe' = [pipe EXCEPT ![put[r].id].closed = TRUE]
  /\ Answer(r, IF put[r].pc = "copied" THEN "202" ELSE "failed")
  /\ UNCHANGED <<manager, endpoints>>

-----------------------------------------------------------------------------
(* The executor at the read end. *)
ReadsEnd(i) ==
  /\ worker[i] = "exec"
  /\ pipe[i].closed /\ closes[i] = 0 /\ ~pipe[i].eof
  /\ pipe' = [pipe EXCEPT ![i].eof = TRUE]
  /\ UNCHANGED <<manager, endpoints, put>>

Returns(i) ==
  /\ ExecReturns(i)
  /\ result'[i] = "ok" => pipe[i].eof
  /\ UNCHANGED <<endpoints, put, pipe>>

(* The manager's other steps, and the clients of its handles. *)
ManagerAlone == UNCHANGED <<endpoints, put, pipe>>

ManagerStep ==
  /\ \/ \E i \in Ids : Cancel(i) \/ Unattended(i) \/ Deadline(i)
     \/ Poll
     \/ Tick
  /\ ManagerAlone

EndpointNext ==
  \/ \E t \in Tokens, ttl \in EndpointTTLs :
       \/ Mint(t, ttl)
       \/ \E i \in Ids : PrepareHandle(i, ttl)
  \/ \E i \in Ids : \/ \E t \in Tokens : PrepareEndpoint(i, t)
                     \/ ReadsEnd(i) \/ Returns(i)
  \/ \E r \in Puts : \/ \E t \in Tokens : Claim(r, t)
                      \/ HandOver(r) \/ CopyEnds(r) \/ BodyBreaks(r)
                      \/ PipeBreaks(r) \/ Abort(r) \/ CancelReturns(r)
                      \/ CloseWriter(r)
  \/ ManagerStep

EndpointSpec == EndpointInit /\ [][EndpointNext]_allVars

(* The manager's goroutines are scheduled and an armed timer fires unless  *)
(* it is stopped; the handlers run on; and a client that goes on sending   *)
(* finds out that the pipe is closed.  Nothing makes an executor return or *)
(* a client finish, and no context has to reach its deadline.              *)
EndpointFairness ==
  /\ \A i \in Ids : WF_allVars(Unattended(i) /\ ManagerAlone)
  /\ \A r \in Puts :
       /\ WF_allVars(PipeBreaks(r))
       /\ WF_allVars(Abort(r)) /\ WF_allVars(CancelReturns(r))
       /\ WF_allVars(CloseWriter(r))

FairEndpointSpec == EndpointSpec /\ EndpointFairness

-----------------------------------------------------------------------------
(* Properties.                                                             *)

(* An upload whose body did not arrive whole is never reported completed:  *)
(* the handler cancels before it closes the write end, whatever else       *)
(* cancels, times out or ends the upload meanwhile (putHandler).           *)
NoTruncatedResult ==
  \A i \in Ids : task[i].state = "completed" => pipe[i].whole

(* The two maps agree: a handle refers to the live, unused endpoint minted *)
(* for it, and every such endpoint is found through its handle, across     *)
(* claims, repeated PUTs and sweeps (Prepare, FindUpload, claim).          *)
ReferencesInSync ==
  /\ \A h \in DOMAIN byHandle :
       /\ byHandle[h] \in DOMAIN tokens
       /\ tokens[byHandle[h]].handle = h /\ ~tokens[byHandle[h]].used
  /\ \A t \in DOMAIN tokens :
       tokens[t].handle # "none" /\ ~tokens[t].used
         => tokens[t].handle \in DOMAIN byHandle

(* One endpoint, one upload: of any number of PUTs to it at most one has   *)
(* its body taken, also when the endpoint was minted without a handle and  *)
(* only the token stands in the way of a second Start (claim, Fulfill).    *)
NoSiblingUploads ==
  \A t \in Tokens :
    Cardinality({r \in Puts : put[r].token = t /\ put[r].id # "none"}) <= 1

(* A PUT that keeps sending is answered, though its executor may never     *)
(* read: in the end the watchdog closes the pipe under the copy.           *)
EveryPutIsAnswered ==
  \A r \in Puts : put[r].pc = "copying" ~> put[r].pc = "answered"

=============================================================================
