-------------------------- MODULE MCUploadEndpoint --------------------------
(* Small instances of UploadEndpoint for TLC. *)
EXTENDS UploadEndpoint, TLC

Symmetry ==
  Permutations(Ids) \cup Permutations(Tokens) \cup Permutations(Puts)

=============================================================================
