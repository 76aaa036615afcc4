-------------------------- MODULE DownloadEndpoint --------------------------
(***************************************************************************)
(* The one-time filedrop GET endpoints (transfer/download_http.go) and the *)
(* capped writer the bytes go through (transfer/download_limits.go).       *)
(*                                                                         *)
(* A GET claims its token under the coordinator's mutex and then streams   *)
(* without it, next to other GETs for the same token and to mints, which   *)
(* sweep expired tokens.  Every path that ends a token's life calls the    *)
(* token's cleanup hook, which gives up the resource the bytes come from.  *)
(*                                                                         *)
(* The serve closure is external: it writes the file's chunks one by one   *)
(* through a SizeLimitedWriter, may fail at any moment with an error of    *)
(* its own, and returns the writer's error as it is.  So is net/http: it   *)
(* cuts the connection of a response that falls short of the size it has   *)
(* announced, and ends any other in a way that looks complete.  What the   *)
(* response has taken is taken to arrive, unless a write reports that the  *)
(* connection has broken.  Headers but the status and the length, CORS and *)
(* the credential on the context are left out.                             *)
(***************************************************************************)
EXTENDS Integers, FiniteSets

CONSTANTS
  Tokens,   \* what newDownloadToken can return, each once
  Gets,     \* GET requests, each served once
  Sizes,    \* file sizes in chunks, as they are and as they are declared
  Cap,      \* cap of the writer in chunks, none when <= 0
  TTL,      \* life of an endpoint
  MaxTime   \* bound: the clock stops there

ASSUME DownloadEndpointAssumption ==
  /\ "none" \notin Tokens
  /\ Sizes \subseteq Nat
  /\ Cap \in Int
  /\ TTL \in Nat \ {0}
  /\ MaxTime \in Nat

VARIABLES
  clock,     \* hd.now()
  file,      \* file[t]: what t was minted for, the length of the file its
             \* closure serves and the size declared for it, 0 if unknown
  tokens,    \* tokens[t]: the registered downloadToken
  released,  \* released[t]: how often the cleanup hook of t has run
  get        \* get[r]: how far the request r has got

vars == <<clock, file, tokens, released, get>>

Errors == {"tooLarge", "other"}

(* sent and left: the chunks the response has taken and those to come;     *)
(* wrote: the status is committed; end: how the response ends.             *)
Waiting == [pc |-> "waiting", token |-> "none", sent |-> 0, left |-> 0,
            wrote |-> FALSE, status |-> "none", err |-> "none", end |-> "open"]

TypeOK ==
  /\ clock \in Nat
  /\ DOMAIN file \subseteq Tokens
  /\ file \in [DOMAIN file -> [length : Sizes, size : Sizes \cup {0}]]
  /\ DOMAIN tokens \subseteq DOMAIN file
  /\ tokens \in [DOMAIN tokens -> [expires : Nat, used : BOOLEAN]]
  /\ released \in [Tokens -> Nat]
  /\ get \in [Gets -> [pc : {"waiting", "serving", "returned", "done"},
                       token : Tokens \cup {"none"},
                       sent : Nat, left : Nat, wrote : BOOLEAN,
                       status : {"none", "200", "404", "413", "500"},
                       err : Errors \cup {"none"},
                       end : {"open", "clean", "cut"}]]
  /\ \A r \in Gets : get[r].pc \in {"serving", "returned"}
                       => get[r].token \in DOMAIN file

Init ==
  /\ clock = 0
  /\ file = <<>>
  /\ tokens = <<>>
  /\ released = [t \in Tokens |-> 0]
  /\ get = [r \in Gets |-> Waiting]

Expired(t) == clock > tokens[t].expires

Set(f, t, v) == [u \in DOMAIN f \cup {t} |-> IF u = t THEN v ELSE f[u]]

-----------------------------------------------------------------------------
(* Under the mutex: Mint and claim.                                        *)

Without(gone) == [t \in DOMAIN tokens \ gone |-> tokens[t]]

ReleaseNone(gone) == UNCHANGED released

(* release: the cleanup hook of each of these tokens runs. *)
ReleaseEach(gone) ==
  released' = [t \in Tokens |->
                 IF t \in gone THEN released[t] + 1 ELSE released[t]]

(* A mint sweeps what has expired, used or not, and registers its token.   *)
(* Nothing compares the declared size with the file.                       *)
Mint(t, length, size) ==
  LET gone == {u \in DOMAIN tokens : Expired(u)}
  IN  /\ t \notin DOMAIN file
      /\ file' = Set(file, t, [length |-> length, size |-> size])
      /\ tokens' = Set(Without(gone), t,
                       [expires |-> clock + TTL, used |-> FALSE])
      /\ ReleaseEach(gone)
      /\ UNCHANGED <<clock, get>>

ClaimableUntilExpiry(t) == t \in DOMAIN tokens /\ ~Expired(t)

Claimable(t) == t \in DOMAIN tokens /\ ~tokens[t].used /\ ~Expired(t)

DropRemembering(t) ==
  tokens' = Set(tokens, t, [expires |-> clock, used |-> TRUE])

Drop(t) == tokens' = Without({t})

(* A used token stays registered until the next GET for it, or the next    *)
(* mint after its expiry, finds it and drops it.                           *)
Claim(r, t) ==
  /\ get[r].pc = "waiting"
  /\ \/ /\ Claimable(t)
        /\ tokens' = [tokens EXCEPT ![t].used = TRUE]
        /\ get' = [get EXCEPT ![r].pc = "serving", ![r].token = t,
                              ![r].left = file[t].length]
        /\ UNCHANGED released
     \/ /\ ~Claimable(t)
        /\ Drop(t)
        /\ ReleaseEach({t} \cap DOMAIN tokens)
        /\ get' = [get EXCEPT ![r].pc = "done", ![r].status = "404",
                              ![r].end = "clean"]
  /\ UNCHANGED <<clock, file>>

-----------------------------------------------------------------------------
(* The serve closure behind the deferred response writer.                  *)

Fits(r) == Cap <= 0 \/ get[r].sent + 1 <= Cap

AnnouncesNothing(r) == FALSE

(* Content-Length is set: a size was declared. *)
Announces(r) == file[get[r].token].size > 0

Exceeds(r) == Announces(r) /\ get[r].sent + 1 > file[get[r].token].size

(* The first write commits status 200, whatever becomes of it: the chunk   *)
(* reaches the response, or would exceed the announced length and is       *)
(* refused, or the connection has broken.                                  *)
Write(r) ==
  /\ get[r].pc = "serving" /\ get[r].left > 0 /\ Fits(r)
  /\ LET begun == [get EXCEPT ![r].wrote = TRUE, ![r].status = "200"]
     IN  \/ /\ ~Exceeds(r)
            /\ get' = [begun EXCEPT ![r].sent = @ + 1, ![r].left = @ - 1]
         \/ /\ Exceeds(r)
            /\ get' = [begun EXCEPT ![r].pc = "returned", ![r].err = "other"]
         \/ get' = [begun EXCEPT ![r].pc = "returned", ![r].err = "other",
                                 ![r].end = "cut"]
  /\ UNCHANGED <<clock, file, tokens, released>>

(* So does a write of nothing. *)
WriteNothing(r) ==
  /\ get[r].pc = "serving"
  /\ get' = [get EXCEPT ![r].wrote = TRUE, ![r].status = "200"]
  /\ UNCHANGED <<clock, file, tokens, released>>

(* The chunk that would exceed the cap is refused as a whole, before it    *)
(* comes to the response.                                                  *)
WriteTooMuch(r) ==
  /\ get[r].pc = "serving" /\ get[r].left > 0 /\ ~Fits(r)
  /\ get' = [get EXCEPT ![r].pc = "returned", ![r].err = "tooLarge"]
  /\ UNCHANGED <<clock, file, tokens, released>>

SourceFails(r) ==
  /\ get[r].pc = "serving"
  /\ get' = [get EXCEPT ![r].pc = "returned", ![r].err = "other"]
  /\ UNCHANGED <<clock, file, tokens, released>>

Served(r) ==
  /\ get[r].pc = "serving" /\ get[r].left = 0
  /\ get' = [get EXCEPT ![r].pc = "returned"]
  /\ UNCHANGED <<clock, file, tokens, released>>

(* The status of a response that has none yet. *)
StatusFor(err) ==
  CASE err = "none"     -> "200"
    [] err = "tooLarge" -> "413"
    [] err = "other"    -> "500"

(* net/http: a 200 that is short of its Content-Length is cut, an error    *)
(* answer has none.                                                        *)
FallsShort(r) == Announces(r) /\ get[r].sent # file[get[r].token].size

EndOf(r, status) ==
  IF get[r].end = "cut" \/ (status = "200" /\ FallsShort(r))
    THEN "cut" ELSE "clean"

(* serve has returned: the hook, then the status unless it is committed,   *)
(* and the response ends with the handler.                                 *)
Answer(r) ==
  LET status == IF get[r].wrote THEN get[r].status ELSE StatusFor(get[r].err)
  IN  /\ get[r].pc = "returned"
      /\ ReleaseEach({get[r].token})
      /\ get' = [get EXCEPT ![r].pc = "done", ![r].status = status,
                            ![r].end = EndOf(r, status)]
      /\ UNCHANGED <<clock, file, tokens>>

Tick == /\ clock < MaxTime
        /\ clock' = clock + 1
        /\ UNCHANGED <<file, tokens, released, get>>

Next ==
  \/ \E t \in Tokens : \/ \E length \in Sizes, size \in Sizes \cup {0} :
                            Mint(t, length, size)
                       \/ \E r \in Gets : Claim(r, t)
  \/ \E r \in Gets : \/ Write(r) \/ WriteNothing(r) \/ WriteTooMuch(r)
                     \/ SourceFails(r) \/ Served(r) \/ Answer(r)
  \/ Tick

Spec == Init /\ [][Next]_vars

-----------------------------------------------------------------------------
(* Properties.                                                             *)

(* The GET that claims a token is the only one ever served its file,       *)
(* although the token stays registered after it was used and is dropped    *)
(* by whichever GET or mint comes first (Mint, claim).                     *)
ServedOnce ==
  \A t \in Tokens : Cardinality({r \in Gets : get[r].token = t}) <= 1

(* No endpoint leaks its resource: one that is registered no more and that *)
(* no GET is serving has had its hook run, whichever of the paths ended it *)
(* (release: every terminal path).                                         *)
Held(t) == \E r \in Gets : get[r].token = t /\ get[r].pc # "done"

ResourceReleased ==
  \A t \in DOMAIN file : t \notin DOMAIN tokens /\ ~Held(t) => released[t] > 0

(* What the client can tell from an answer.  A GET that fails before it    *)
(* has written gets the status of its failure.  One that fails later has   *)
(* its 200 already: the file looks complete and is not only if its size    *)
(* was not declared, or declared wrong, however the source, the cap and    *)
(* the connection fail.  And a whole file, declared right or not at all,   *)
(* does look complete (getHandler, SizeLimitedWriter).                     *)
LooksComplete(g) == g.status = "200" /\ g.end = "clean"

AnswersItsClient(g) ==
  LET f == file[g.token]
  IN  /\ g.err # "none" /\ ~g.wrote => g.status = StatusFor(g.err)
      /\ LooksComplete(g) /\ (g.err = "none" \/ f.size = f.length)
           => g.sent = f.length
      /\ g.err = "none" /\ f.size \in {0, f.length} => LooksComplete(g)

HonestAnswer ==
  \A r \in Gets : get[r].pc = "done" /\ get[r].token # "none"
                  => AnswersItsClient(get[r])

(* The comment on release: the hook is called after the GET serves the     *)
(* bytes; and a GET for a used token is rejected.  So while nothing        *)
(* expires, nobody's resource is released under it.                        *)
HeldWhileServing ==
  \A r \in Gets : get[r].pc = "serving" => released[get[r].token] = 0

=============================================================================
