--------------------------- MODULE HandleLifecycle ---------------------------
(***************************************************************************)
(* What the upload task manager promises the holder of an upload handle.   *)
(*                                                                         *)
(* The only thing a client sees of an upload is the status that Get, List  *)
(* and Cancel report for its handle.  A status only moves forward: bytes   *)
(* are supplied once, an upload ends once, and a handle that has left the  *)
(* manager's memory never comes back.  UploadTasks refines this.           *)
(***************************************************************************)

CONSTANT Ids      \* opaque handles

VARIABLE status   \* status[i]: what a poll of handle i reports

Finished == {"completed", "failed", "cancelled"}
Status   == {"none", "prepared", "queued", "running", "expired", "unknown"}
              \cup Finished

(* The steps a reported status may take. *)
Forward(from, to) ==
  \/ from = "none"     /\ to \in {"prepared", "queued"}
  \/ from = "prepared" /\ to \in {"queued", "cancelled", "expired"}
  \/ from = "queued"   /\ to \in {"running", "cancelled"}
  \/ from = "running"  /\ to \in Finished
  \/ from \in Finished \cup {"expired"} /\ to = "unknown"

Init == status = [i \in Ids |-> "none"]

(* One step of the manager may retire several handles at once. *)
Next ==
  /\ status' \in [Ids -> Status]
  /\ \A i \in Ids : status'[i] = status[i] \/ Forward(status[i], status'[i])

Spec == Init /\ [][Next]_status

==============================================================================
