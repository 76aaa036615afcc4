----------------------------- MODULE OneTimeLinks -----------------------------
(***************************************************************************)
(* What an endpoint of one-time hand-off URLs promises the people who open *)
(* them: a link works until it is used or has expired and never again, and *)
(* a link that no longer works is explained rather than answered with a    *)
(* bare 404, as long as it is not older than the Cap youngest spent ones.  *)
(* HandoffEndpoint refines this.                                           *)
(***************************************************************************)
EXTENDS Integers, FiniteSets

CONSTANTS
  Tokens,   \* one-time tokens
  Cap       \* how many spent links are explained at least

VARIABLE status

Status == {"unissued", "pending", "explained", "forgotten"}

(* The steps one link may take.  A forgotten link is explained again when  *)
(* a request that had resolved it before it was spent spends it once more. *)
Step(from, to) ==
  \/ from = to
  \/ from = "unissued" /\ to = "pending"
  \/ from = "pending" /\ to \in {"explained", "forgotten"}
  \/ from \in {"explained", "forgotten"} /\ to \in {"explained", "forgotten"}

(* Links are only forgotten while at least Cap others are explained; one   *)
(* more than Cap may be, as long as nobody asks.                           *)
Moves(from, to) ==
  LET explained == Cardinality({t \in Tokens : to[t] = "explained"})
  IN  /\ to \in [Tokens -> Status]
      /\ \A t \in Tokens : Step(from[t], to[t])
      /\ explained <= Cap + 1
      /\ explained < Cap =>
           \A t \in Tokens : to[t] = "forgotten" => from[t] = "forgotten"

Init == status = [t \in Tokens |-> "unissued"]

Next == Moves(status, status')

Spec == Init /\ [][Next]_status

==============================================================================
