---------------------------- MODULE MCUploadTasks ----------------------------
(* Small instances of UploadTasks for TLC. *)
EXTENDS UploadTasks, TLC

(* Handles are interchangeable; sound for the safety runs only. *)
HandleSymmetry == Permutations(Ids)

==============================================================================
