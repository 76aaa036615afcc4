--------------------------- MODULE HandoffEndpoint ---------------------------
(***************************************************************************)
(* A coordinator of one-time hand-off URLs (handoff/handoff.go).           *)
(*                                                                         *)
(* An HTTP request is two or three critical sections of the endpoint's     *)
(* mutex with the handler's own code between them: Resolve looks the token *)
(* up, the handler renders the page or takes the input, and Remove spends  *)
(* the token.  Requests run concurrently, next to the reaper, to children  *)
(* that poll, and to coordinators that remove a token themselves.          *)
(*                                                                         *)
(* The handler is external.  "handler" says which of the two choices its   *)
(* interface leaves open it makes: whether a GET consumes the token        *)
(* (ConsumeOnGET), and whether its ConsumePOST calls Claim before it       *)
(* starts to work, as Claim's comment asks of handlers that block.         *)
(* The loopback listener and the wording of the pages are left out, and so *)
(* are the times kept with the tombstones, which nothing reads.            *)
(***************************************************************************)
EXTENDS Integers, SequencesExt

CONSTANTS
  Tokens,              \* what StrongRandomID can return, each once
  Requests,            \* HTTP requests, each served once
  TTL,                 \* life of a link
  MaxSpentTombstones,  \* cap on remembered spent links
  MaxTime              \* bound: the clock stops there

ASSUME HandoffEndpointAssumption ==
  /\ IsFiniteSet(Tokens)
  /\ TTL \in Nat \ {0}
  /\ MaxSpentTombstones \in Nat
  /\ MaxTime \in Nat

VARIABLES
  clock,       \* h.now()
  minted,      \* every token issued so far
  items,       \* items[t]: when the pending token t expires
  spent,       \* the tokens remembered as spent
  spentOrder,  \* their FIFO
  reaper,      \* whether the reaper goroutine runs
  handler,     \* the choices of this endpoint's handler
  request,     \* request[r]: how far request r has got, and for which token
  shown,       \* shown[t]: how often t's page was rendered
  worked       \* worked[t]: how often a POST for t began its work

links == <<minted, items, spent, spentOrder>>
vars == <<clock, links, reaper, handler, request, shown, worked>>

Methods == {"GET", "POST"}

TypeOK ==
  /\ clock \in Nat
  /\ minted \subseteq Tokens
  /\ DOMAIN items \subseteq minted
  /\ items \in [DOMAIN items -> Nat]
  /\ spent \subseteq minted
  /\ spentOrder \in Seq(minted)
  /\ reaper \in BOOLEAN
  /\ handler \in [consumeOnGET : BOOLEAN, claims : BOOLEAN]
  /\ request \in [Requests -> [pc : {"waiting", "working", "consuming", "done"}
                                      \cup Methods,
                               token : Tokens \cup {"none"}]]
  /\ \A r \in Requests :
       request[r].pc \in {"working", "consuming"} \cup Methods
         => request[r].token \in minted
  /\ shown \in [Tokens -> Nat]
  /\ worked \in [Tokens -> Nat]

Init ==
  /\ clock = 0
  /\ minted = {}
  /\ items = <<>>
  /\ spent = {}
  /\ spentOrder = <<>>
  /\ reaper = FALSE
  /\ handler \in [consumeOnGET : BOOLEAN, claims : BOOLEAN]
  /\ request = [r \in Requests |-> [pc |-> "waiting", token |-> "none"]]
  /\ shown = [t \in Tokens |-> 0]
  /\ worked = [t \in Tokens |-> 0]

-----------------------------------------------------------------------------
(* Spent links.                                                            *)

Pending(t) == t \in DOMAIN items

Expired(t) == Pending(t) /\ clock > items[t]

(* The items without some of them. *)
Without(gone) == [t \in DOMAIN items \ gone |-> items[t]]

Tombs == [set |-> spent, order |-> spentOrder]

MarkAgain(tombs, t) == [set   |-> tombs.set \cup {t},
                        order |-> Append(tombs.order, t)]

(* markSpentLocked: a token that is already marked keeps its place. *)
Mark(tombs, t) ==
  IF t \in tombs.set THEN tombs
  ELSE [set |-> tombs.set \cup {t}, order |-> Append(tombs.order, t)]

(* Several tokens, none of them marked yet, in one critical section. *)
MarkEach(tombs, batch) == [set   |-> tombs.set \cup Range(batch),
                           order |-> tombs.order \o batch]

DropYoungest(tombs, k) ==
  LET n == Len(tombs.order) - k
  IN  [set   |-> tombs.set \ {tombs.order[j] : j \in n + 1..Len(tombs.order)},
       order |-> SubSeq(tombs.order, 1, n)]

(* The k oldest tombstones of the FIFO go. *)
Drop(tombs, k) ==
  [set   |-> tombs.set \ {tombs.order[j] : j \in 1..k},
   order |-> SubSeq(tombs.order, k + 1, Len(tombs.order))]

(* pruneSpentLocked: as few as bring the map down to its cap. *)
Prune(tombs) ==
  LET fits(k) == \/ k = Len(tombs.order)
                 \/ Cardinality(Drop(tombs, k).set) <= MaxSpentTombstones
  IN  Drop(tombs, CHOOSE k \in 0..Len(tombs.order) :
                    fits(k) /\ \A j \in 0..k - 1 : ~fits(j))

Remember(tombs) ==
  /\ spent' = tombs.set
  /\ spentOrder' = tombs.order

-----------------------------------------------------------------------------
(* The endpoint's operations, each under its mutex.                        *)

Mint(t) ==
  /\ t \notin minted
  /\ minted' = minted \cup {t}
  /\ items' = [u \in DOMAIN items \cup {t} |->
                 IF u = t THEN clock + TTL ELSE items[u]]
  /\ UNCHANGED <<clock, spent, spentOrder, reaper, handler, request, shown,
                 worked>>

Usable(t) == Pending(t) /\ t \notin Prune(Tombs).set /\ ~Expired(t)

ResolveMarkingUnknown(t) ==
  LET unusable == ~Usable(t)
  IN  /\ items' = IF unusable THEN Without({t}) ELSE items
      /\ Remember(IF unusable THEN Mark(Prune(Tombs), t) ELSE Prune(Tombs))
      /\ UNCHANGED minted

(* Resolve: tombstones are pruned first; a pending token found expired     *)
(* becomes one more.                                                       *)
Resolve(t) ==
  LET lapsed == Expired(t) /\ t \notin Prune(Tombs).set
  IN  /\ items' = IF lapsed THEN Without({t}) ELSE items
      /\ Remember(IF lapsed THEN Mark(Prune(Tombs), t) ELSE Prune(Tombs))
      /\ UNCHANGED minted

(* Remove, also called by coordinators for a token that is gone already.   *)
RemoveToken(t) ==
  /\ items' = Without({t})
  /\ Remember(Prune(Mark(Tombs, t)))
  /\ UNCHANGED minted

TakeAnyway(t) == RemoveToken(t)

(* What Claim does when it finds the token. *)
Take(t) == Pending(t) /\ RemoveToken(t)

KeepExpired ==
  /\ Remember(Prune(Tombs))
  /\ UNCHANGED <<minted, items>>

DropExpired ==
  /\ items' = Without({t \in DOMAIN items : Expired(t)})
  /\ Remember(Prune(Tombs))
  /\ UNCHANGED minted

(* pruneExpired: every expired item, in the map's arbitrary order; what is *)
(* marked already keeps its place.                                         *)
PruneExpired ==
  /\ \E batch \in SetToSeqs({t \in DOMAIN items : Expired(t)} \ spent) :
       Remember(Prune(MarkEach(Tombs, batch)))
  /\ items' = Without({t \in DOMAIN items : Expired(t)})
  /\ UNCHANGED minted

-----------------------------------------------------------------------------
(* handle.                                                                 *)

Goes(r, pc) ==
  request' = [request EXCEPT
                ![r] = [pc |-> pc,
                        token |-> IF pc = "done" THEN "none" ELSE @.token]]

Open(r, t, method) ==
  /\ request[r].pc = "waiting"
  /\ Resolve(t)
  /\ request' = [request EXCEPT
                   ![r] = IF Usable(t) THEN [pc |-> method, token |-> t]
                                       ELSE [pc |-> "done", token |-> "none"]]
  /\ UNCHANGED <<clock, reaper, handler, shown, worked>>

(* RenderGET, then the question whether that consumed the token. *)
Render(r) ==
  /\ request[r].pc = "GET"
  /\ shown' = [shown EXCEPT ![request[r].token] = @ + 1]
  /\ Goes(r, IF handler.consumeOnGET THEN "consuming" ELSE "done")
  /\ UNCHANGED <<clock, links, reaper, handler, worked>>

(* A POST without an accepted origin. *)
Forbid(r) ==
  /\ request[r].pc = "POST"
  /\ Goes(r, "done")
  /\ UNCHANGED <<clock, links, reaper, handler, shown, worked>>

(* ConsumePOST begins its work, having claimed the token if that is its    *)
(* way; a claim that fails ends the request.                               *)
Submit(r) ==
  /\ request[r].pc = "POST"
  /\ \/ /\ handler.claims => Take(request[r].token)
        /\ ~handler.claims => UNCHANGED links
        /\ worked' = [worked EXCEPT ![request[r].token] = @ + 1]
        /\ Goes(r, "working")
     \/ /\ handler.claims /\ ~Pending(request[r].token)
        /\ Goes(r, "done")
        /\ UNCHANGED <<links, worked>>
  /\ UNCHANGED <<clock, reaper, handler, shown>>

(* ConsumePOST returns whether it consumed the token. *)
Worked(r) ==
  /\ request[r].pc = "working"
  /\ \E consumed \in BOOLEAN : Goes(r, IF consumed THEN "consuming" ELSE "done")
  /\ UNCHANGED <<clock, links, reaper, handler, shown, worked>>

Consume(r) ==
  /\ request[r].pc = "consuming"
  /\ RemoveToken(request[r].token)
  /\ Goes(r, "done")
  /\ UNCHANGED <<clock, reaper, handler, shown, worked>>

-----------------------------------------------------------------------------
(* A child polls its item, or a coordinator withdraws a token. *)
Lookup(t) == /\ Resolve(t)
             /\ UNCHANGED <<clock, reaper, handler, request, shown, worked>>

Withdraw(t) == /\ t \in minted
               /\ RemoveToken(t)
               /\ UNCHANGED <<clock, reaper, handler, request, shown, worked>>

Count == /\ PruneExpired
         /\ UNCHANGED <<clock, reaper, handler, request, shown, worked>>

Reap == reaper /\ Count

StartReaper == /\ reaper' = TRUE
               /\ UNCHANGED <<clock, links, handler, request, shown, worked>>

Stop == /\ reaper' = FALSE
        /\ UNCHANGED <<clock, links, handler, request, shown, worked>>

Tick == /\ clock < MaxTime
        /\ clock' = clock + 1
        /\ UNCHANGED <<links, reaper, handler, request, shown, worked>>

Next ==
  \/ \E t \in Tokens : Mint(t) \/ Lookup(t) \/ Withdraw(t)
  \/ \E r \in Requests :
       \/ \E t \in Tokens, method \in Methods : Open(r, t, method)
       \/ Render(r) \/ Forbid(r) \/ Submit(r) \/ Worked(r) \/ Consume(r)
  \/ Count \/ Reap \/ StartReaper \/ Stop
  \/ Tick

Spec == Init /\ [][Next]_vars

(* The reaper's ticker goes on firing while the reaper runs; only a pass   *)
(* that finds something matters.                                           *)
ReapSome == (\E t \in Tokens : Expired(t)) /\ Reap

FairSpec == Spec /\ WF_vars(ReapSome)

-----------------------------------------------------------------------------
(* Properties.                                                             *)

(* A token is never both pending and spent, and the FIFO names every       *)
(* tombstone exactly once, although a token may be spent several times     *)
(* over: by racing requests, a coordinator and the reaper                  *)
(* (markSpentLocked, pruneSpentLocked).                                    *)
SpentInSync ==
  /\ DOMAIN items \cap spent = {}
  /\ spent = Range(spentOrder)
  /\ IsInjective(spentOrder)

(* The tombstone given up is always the oldest: whoever is left in the     *)
(* FIFO was spent later than whoever leaves it.                            *)
OldestForgottenFirst ==
  [][\A j, k \in DOMAIN spentOrder :
       spentOrder[j] \in spent' /\ spentOrder[k] \notin spent' => k < j]_vars

(* The work of a handler that claims first is entered at most once per     *)
(* token, however many POSTs resolved it before one of them claimed it     *)
(* and even after its tombstone is gone (Claim).                           *)
WorkEnteredOnce == handler.claims => \A t \in Tokens : worked[t] <= 1

(* What a person who opens a link gets to see. *)
LinkStatus(t) ==
  CASE t \notin minted -> "unissued"
    [] Pending(t)      -> "pending"
    [] t \in spent     -> "explained"
    [] OTHER           -> "forgotten"

Links == INSTANCE OneTimeLinks WITH
           Cap <- MaxSpentTombstones,
           status <- [t \in Tokens |-> LinkStatus(t)]

LinksKeepTheirPromise == Links!Spec

(* While the reaper runs, pending items do not accumulate: an expired one  *)
(* goes although nobody opens it (StartReaper).                            *)
ExpiredItemsAreReaped ==
  \A t \in Tokens : Expired(t) ~> ~Pending(t) \/ ~reaper

(* The comment on Handler.ConsumeOnGET: a read-direction flow shows its    *)
(* secret exactly once.                                                    *)
SecretShownOnce == handler.consumeOnGET => \A t \in Tokens : shown[t] <= 1

==============================================================================
