--------------------------- MODULE MCResumeRegistry -------------------------
(* Model checking of ResumeRegistry: handles and calls are interchangeable. *)
EXTENDS ResumeRegistry, TLC

Symmetry ==
  Permutations(Handles) \cup Permutations(Starters) \cup Permutations(Resumers)

=============================================================================
