----------------------------- MODULE MCAppViews -----------------------------
(* A small instance of AppViews for TLC. *)
EXTENDS AppViews, TLC

CONSTANTS u1, a, b

(* u1 has two helpers and two tools, and shares the second with the others. *)
MCAttachTo == [u \in Views |-> IF u = u1 THEN <<a, b>> ELSE <<b>>]
MCHelpers == [u \in Views |-> IF u = u1 THEN 2 ELSE 0]

Symmetry == Permutations(Ports) \cup Permutations(Calls)

=============================================================================
