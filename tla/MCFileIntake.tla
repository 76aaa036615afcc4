---------------------------- MODULE MCFileIntake ----------------------------
(* A small instance of FileIntake for TLC: an invalid cap, the default, and *)
(* caps below and above it.                                                *)
EXTENDS FileIntake

MCCaps == {-1, 0, 2, 6, 8}

=============================================================================
