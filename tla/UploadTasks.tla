----------------------------- MODULE UploadTasks -----------------------------
(***************************************************************************)
(* The asynchronous upload manager (transfer/upload_tasks.go).             *)
(*                                                                         *)
(* Every handle has one task record, at most one background worker, one    *)
(* ExecTimeout watchdog, one run context and one owned reader.  Each step  *)
(* below is one critical section of the manager's mutex, or one effect the *)
(* code performs outside it (closing a reader, cancelling a context), so   *)
(* the worker, the watchdog and a concurrent Cancel interleave as the      *)
(* goroutines do.  A time the code reads just before it takes the lock is  *)
(* read in the critical section: no wait for the lock is as long as a tick.*)
(*                                                                         *)
(* ExecTimeout is any duration: the run context's deadline and the         *)
(* watchdog may fire at any moment after they are armed, in either order.  *)
(* The clock matters only to retention.  The executor is external: it      *)
(* returns when it likes or never, with success, an error of its own (a    *)
(* read of a closed reader included), or the error its context carries.    *)
(***************************************************************************)
EXTENDS Integers, SequencesExt

CONSTANTS
  Ids,            \* handles; newTaskID never hands out the same one twice
  MaxActive,      \* cap on queued and running uploads, none when <= 0
  MaxPrepared,    \* cap on prepared uploads, none when <= 0
  TTL,            \* retention of a finished task (ttl)
  PreparedTTL,    \* window of a prepared task that brought none of its own
  EndpointTTLs,   \* windows Prepare may be called with
  MaxTime         \* bound: the clock stops there

ASSUME UploadTasksAssumption ==
  /\ IsFiniteSet(Ids)
  /\ MaxActive \in Int /\ MaxPrepared \in Int
  /\ TTL \in Nat \ {0}
  /\ PreparedTTL \in Nat
  /\ EndpointTTLs \subseteq Int
  /\ MaxTime \in Nat

VARIABLES
  clock,           \* time.Now()
  task,            \* task[i]: the UploadTask record of handle i
  tasks,           \* the handles registered in m.tasks
  tombstones,      \* tombstones[i]: the snapshot kept of a retired handle
  tombstoneOrder,  \* the FIFO of tombstoned handles
  worker,          \* worker[i]: the goroutine spawned for i
  result,          \* result[i]: what exec returned, until it is recorded
  watchdog,        \* watchdog[i]: the AfterFunc timer and its callback
  timedOut,        \* the handles whose watchdog force-failed the task
  ctx,             \* ctx[i]: the run context
  canceller,       \* canceller[i]: what a successful Cancel(i) has left to do
  closes           \* closes[i]: how often i's owned reader has been closed

registry == <<tasks, tombstones, tombstoneOrder>>
vars == <<clock, task, registry, worker, result, watchdog, timedOut, ctx,
          canceller, closes>>

Active   == {"queued", "running"}
Terminal == {"completed", "failed", "cancelled"}

(* The fields of a task the manager acts on.  "at" is CreatedAt while the  *)
(* task is prepared and FinishedAt once it is terminal; nothing reads a    *)
(* time of an active task.  "ttl" is the endpoint lifetime of a prepared   *)
(* one.  The error text matters only as far as it names the timeout.       *)
Task == [state : {"none", "prepared"} \cup Active \cup Terminal,
         err   : {"none", "timeout", "own"},
         at    : Nat,
         ttl   : Int]

NoTask      == [state |-> "none", err |-> "none", at |-> 0, ttl |-> 0]
NoTombstone == [state |-> "none", at |-> 0]

TypeOK ==
  /\ clock \in Nat
  /\ task \in [Ids -> Task]
  /\ tasks \subseteq Ids
  /\ tombstones \in
       [Ids -> [state : {"none", "expired"} \cup Terminal, at : Nat]]
  /\ tombstoneOrder \in Seq(Ids)
  /\ worker \in [Ids -> {"idle", "spawned", "exec", "returned", "stopped",
                         "releasing", "done"}]
  /\ result \in [Ids -> {"none", "ok", "own", "ctx"}]
  /\ watchdog \in [Ids -> {"idle", "armed", "fired", "locking", "done",
                           "stopped"}]
  /\ timedOut \subseteq Ids
  /\ ctx \in [Ids -> {"none", "live", "ended"}]
  /\ canceller \in [Ids -> {"idle", "cancelling", "closing", "done"}]
  /\ closes \in [Ids -> Nat]

Init ==
  /\ clock = 0
  /\ task = [i \in Ids |-> NoTask]
  /\ tasks = {}
  /\ tombstones = [i \in Ids |-> NoTombstone]
  /\ tombstoneOrder = <<>>
  /\ worker = [i \in Ids |-> "idle"]
  /\ result = [i \in Ids |-> "none"]
  /\ watchdog = [i \in Ids |-> "idle"]
  /\ timedOut = {}
  /\ ctx = [i \in Ids |-> "none"]
  /\ canceller = [i \in Ids |-> "idle"]
  /\ closes = [i \in Ids |-> 0]

-----------------------------------------------------------------------------
(* Retention: pruneLocked.                                                 *)

IsTombstoned(i) == tombstones[i] # NoTombstone

(* The window an unfulfilled handle is kept for. *)
Window(i) == IF task[i].ttl > 0 THEN task[i].ttl ELSE PreparedTTL

Lapsed(i) == /\ task[i].state = "prepared"
             /\ Window(i) > 0
             /\ task[i].at < clock - Window(i)

AtCutoff(at) == at <= clock - TTL

(* The one cutoff that evicts finished tasks and retires tombstones. *)
PastCutoff(at) == at < clock - TTL

Evictable(i) == task[i].state \in Terminal /\ PastCutoff(task[i].at)

Evicted == {i \in tasks : Lapsed(i) \/ Evictable(i)}

SnapshotAsIs(i) ==
  [state |-> task[i].state,
   at    |-> IF task[i].state = "prepared" THEN clock ELSE task[i].at]

(* What is remembered of an evicted handle: a lapsed one expires now. *)
Snapshot(i) ==
  [state |-> IF task[i].state = "prepared" THEN "expired" ELSE task[i].state,
   at    |-> IF task[i].state = "prepared" THEN clock ELSE task[i].at]

(* The orders in which one prune may append to the FIFO: oldest FinishedAt *)
(* first, handles already in the FIFO keeping their place.                 *)
Batches ==
  {s \in SetToSeqs({i \in Evicted : ~IsTombstoned(i)}) :
     \A j, k \in DOMAIN s : j < k => Snapshot(s[j]).at <= Snapshot(s[k]).at}

(* The registry after a prune that appended "batch" and then retired the   *)
(* longest prefix of the FIFO that is past the retention window.           *)
Swept(batch) ==
  LET queue == tombstoneOrder \o batch
      snaps == [i \in Ids |-> IF i \in Evicted THEN Snapshot(i)
                                               ELSE tombstones[i]]
      aged(i) == snaps[i] # NoTombstone /\ PastCutoff(snaps[i].at)
      count == Cardinality({k \in DOMAIN queue :
                              \A j \in 1..k : aged(queue[j])})
      retired == {queue[k] : k \in 1..count}
  IN  [tasks |-> tasks \ Evicted,
       tombstones |-> [i \in Ids |-> IF i \in retired THEN NoTombstone
                                                      ELSE snaps[i]],
       order |-> SubSeq(queue, count + 1, Len(queue))]

Pruned == {Swept(batch) : batch \in Batches}

-----------------------------------------------------------------------------
(* Admission.                                                              *)

RoomForOneMore(registered) ==
  Cardinality({i \in registered : task[i].state \in Active}) <= MaxActive

SlotFree(registered) ==
  \/ MaxActive <= 0
  \/ Cardinality({i \in registered : task[i].state \in Active}) < MaxActive

PreparedSlotFree(registered) ==
  \/ MaxPrepared <= 0
  \/ Cardinality({i \in registered : task[i].state = "prepared"}) < MaxPrepared

KeepTombstone(p, i) == p

(* untombstoneLocked: a handle that becomes live again leaves the FIFO. *)
Untombstone(p, i) ==
  IF p.tombstones[i] = NoTombstone
    THEN p
    ELSE [tasks |-> p.tasks,
          tombstones |-> [p.tombstones EXCEPT ![i] = NoTombstone],
          order |-> RemoveAt(p.order,
                             CHOOSE k \in DOMAIN p.order : p.order[k] = i)]

Registered(p, i) ==
  [tasks |-> p.tasks \cup {i}, tombstones |-> p.tombstones, order |-> p.order]

Settle(p) ==
  /\ tasks' = p.tasks
  /\ tombstones' = p.tombstones
  /\ tombstoneOrder' = p.order

(* beginLocked, then spawn: the handle is registered as queued and its     *)
(* goroutine exists.  Without a free slot only the prune took place (the   *)
(* caller's reader is closed at once).                                     *)
Begin(i) ==
  \E p \in Pruned :
    \/ /\ SlotFree(p.tasks)
       /\ Settle(Untombstone(Registered(p, i), i))
       /\ task' = [task EXCEPT ![i] = [state |-> "queued", err |-> "none",
                                       at |-> 0, ttl |-> 0]]
       /\ worker' = [worker EXCEPT ![i] = "spawned"]
       /\ ctx' = [ctx EXCEPT ![i] = "live"]
       /\ UNCHANGED <<clock, result, watchdog, timedOut, canceller, closes>>
    \/ /\ ~SlotFree(p.tasks)
       /\ Settle(p)
       /\ UNCHANGED <<clock, task, worker, result, watchdog, timedOut, ctx,
                      canceller, closes>>

(* Start: a brand-new handle whose bytes are at hand. *)
Start(i) == task[i].state = "none" /\ Begin(i)

(* Prepare: a brand-new handle whose bytes come later. *)
Prepare(i, ttl) ==
  /\ task[i].state = "none"
  /\ \E p \in Pruned :
       \/ /\ PreparedSlotFree(p.tasks)
          /\ Settle(Registered(p, i))
          /\ task' = [task EXCEPT ![i] = [state |-> "prepared", err |-> "none",
                                          at |-> clock, ttl |-> ttl]]
       \/ /\ ~PreparedSlotFree(p.tasks)
          /\ Settle(p)
          /\ UNCHANGED task
  /\ UNCHANGED <<clock, worker, result, watchdog, timedOut, ctx, canceller,
                 closes>>

ClaimableUnlessBusy(i) ==
  /\ ~IsTombstoned(i)
  /\ i \in tasks
  /\ task[i].state \notin Active

(* Fulfill decides before beginLocked prunes: a handle whose window has    *)
(* lapsed but that nobody has pruned yet is still claimed.                 *)
Claimable(i) ==
  /\ ~IsTombstoned(i)
  /\ i \in tasks
  /\ task[i].state = "prepared"

Fulfill(i) == Claimable(i) /\ Begin(i)

(* Get and List change nothing but what their prune changes. *)
Poll == /\ \E p \in Pruned : Settle(p)
        /\ UNCHANGED <<clock, task, worker, result, watchdog, timedOut, ctx,
                       canceller, closes>>

-----------------------------------------------------------------------------
(* The owned reader and the run context.                                   *)

CloseReaderEachTime(i) == closes' = [closes EXCEPT ![i] = @ + 1]

(* trackedTask.closeReader: closeOnce makes every later call a no-op. *)
CloseReader(i) == closes' = [closes EXCEPT ![i] = 1]

(* cancel().  Whether a context was cancelled or ran into its deadline     *)
(* makes no difference to what is recorded, and is not told apart.         *)
CancelCtx(i) == ctx' = [ctx EXCEPT ![i] = "ended"]

(* The run context's own deadline, ExecTimeout after beginLocked. *)
Deadline(i) ==
  /\ ctx[i] = "live"
  /\ CancelCtx(i)
  /\ UNCHANGED <<clock, task, registry, worker, result, watchdog, timedOut,
                 canceller, closes>>

-----------------------------------------------------------------------------
(* Cancel: the state under the lock, then the context, then the reader.    *)

Finish(i, state, err) ==
  task' = [task EXCEPT ![i] = [state |-> state, err |-> err, at |-> clock,
                               ttl |-> task[i].ttl]]

Cancel(i) ==
  /\ i \in tasks
  /\ task[i].state \in Active \cup {"prepared"}
  /\ Finish(i, "cancelled", task[i].err)
  /\ canceller' = [canceller EXCEPT
                     ![i] = IF worker[i] = "idle" THEN "done"
                                                  ELSE "cancelling"]
  /\ UNCHANGED <<clock, registry, worker, result, watchdog, timedOut, ctx,
                 closes>>

CancelContext(i) ==
  /\ canceller[i] = "cancelling"
  /\ CancelCtx(i)
  /\ canceller' = [canceller EXCEPT ![i] = "closing"]
  /\ UNCHANGED <<clock, task, registry, worker, result, watchdog, timedOut,
                 closes>>

CancelReader(i) ==
  /\ canceller[i] = "closing"
  /\ CloseReader(i)
  /\ canceller' = [canceller EXCEPT ![i] = "done"]
  /\ UNCHANGED <<clock, task, registry, worker, result, watchdog, timedOut,
                 ctx>>

-----------------------------------------------------------------------------
(* The watchdog's callback: reader, context, then the lock.                *)

WatchdogOnlyCancels(i) ==
  /\ watchdog[i] = "armed"
  /\ watchdog' = [watchdog EXCEPT ![i] = "fired"]
  /\ UNCHANGED <<clock, task, registry, result, worker, timedOut, ctx,
                 canceller, closes>>

WatchdogFires(i) ==
  /\ watchdog[i] = "armed"
  /\ CloseReader(i)
  /\ watchdog' = [watchdog EXCEPT ![i] = "fired"]
  /\ UNCHANGED <<clock, task, registry, result, worker, timedOut, ctx,
                 canceller>>

WatchdogCancels(i) ==
  /\ watchdog[i] = "fired"
  /\ CancelCtx(i)
  /\ watchdog' = [watchdog EXCEPT ![i] = "locking"]
  /\ UNCHANGED <<clock, task, registry, result, worker, timedOut, canceller,
                 closes>>

ForceFailNothing(i) == UNCHANGED <<task, timedOut>>

(* Only a task that has not ended may be failed by its watchdog. *)
ForceFail(i) ==
  \/ /\ task[i].state \in Active
     /\ timedOut' = timedOut \cup {i}
     /\ Finish(i, "failed", "timeout")
  \/ /\ task[i].state \notin Active
     /\ UNCHANGED <<task, timedOut>>

WatchdogFails(i) ==
  /\ watchdog[i] = "locking"
  /\ ForceFail(i)
  /\ watchdog' = [watchdog EXCEPT ![i] = "done"]
  /\ UNCHANGED <<clock, registry, result, worker, ctx, canceller, closes>>

-----------------------------------------------------------------------------
(* The worker goroutine of spawn.                                          *)

Run(i) ==
  /\ worker[i] = "spawned"
  /\ task[i].state = "queued"
  /\ task' = [task EXCEPT ![i] = [state |-> "running", err |-> task[i].err,
                                  at |-> task[i].at, ttl |-> task[i].ttl]]
  /\ worker' = [worker EXCEPT ![i] = "exec"]
  /\ watchdog' = [watchdog EXCEPT ![i] = "armed"]
  /\ UNCHANGED <<clock, registry, result, timedOut, ctx, canceller, closes>>

Bail(i) ==
  /\ worker[i] = "spawned"
  /\ task[i].state # "queued"
  /\ worker' = [worker EXCEPT ![i] = "done"]
  /\ UNCHANGED <<clock, task, registry, result, watchdog, timedOut, ctx,
                 canceller, closes>>

(* The executor returns; a context error only from a context that ended. *)
ExecReturns(i) ==
  /\ worker[i] = "exec"
  /\ \E ret \in {"ok", "own", "ctx"} :
       /\ ret = "ctx" => ctx[i] = "ended"
       /\ result' = [result EXCEPT ![i] = ret]
  /\ worker' = [worker EXCEPT ![i] = "returned"]
  /\ UNCHANGED <<clock, task, registry, watchdog, timedOut, ctx, canceller,
                 closes>>

(* watchdog.Stop reports whether it was in time. *)
StopWatchdog(i) ==
  /\ worker[i] = "returned"
  /\ \/ /\ watchdog[i] = "armed"
        /\ watchdog' = [watchdog EXCEPT ![i] = "stopped"]
        /\ UNCHANGED closes
     \/ /\ watchdog[i] # "armed"
        /\ CloseReader(i)
        /\ UNCHANGED watchdog
  /\ worker' = [worker EXCEPT ![i] = "stopped"]
  /\ UNCHANGED <<clock, task, registry, result, timedOut, ctx, canceller>>

AbortedByWatchdog(i) == i \in timedOut

Aborted(i) == task[i].state = "cancelled" \/ i \in timedOut

(* The completion's critical section: a task already aborted keeps what    *)
(* was recorded; a context error counts as the execution timeout.          *)
Complete(i) ==
  /\ worker[i] = "stopped"
  /\ \/ Aborted(i) /\ UNCHANGED task
     \/ /\ ~Aborted(i)
        /\ \/ /\ result[i] = "ok"
              /\ Finish(i, "completed", task[i].err)
           \/ /\ result[i] = "ctx"
              /\ Finish(i, "failed", "timeout")
           \/ /\ result[i] = "own"
              /\ Finish(i, "failed", "own")
  /\ worker' = [worker EXCEPT ![i] = "releasing"]
  /\ result' = [result EXCEPT ![i] = "none"]
  /\ UNCHANGED <<clock, registry, watchdog, timedOut, ctx, canceller, closes>>

Release(i) ==
  /\ worker[i] = "releasing"
  /\ CloseReader(i)
  /\ CancelCtx(i)
  /\ worker' = [worker EXCEPT ![i] = "done"]
  /\ UNCHANGED <<clock, task, registry, result, watchdog, timedOut, canceller>>

Tick == /\ clock < MaxTime
        /\ clock' = clock + 1
        /\ UNCHANGED <<task, registry, worker, result, watchdog, timedOut, ctx,
                       canceller, closes>>

-----------------------------------------------------------------------------
Client(i) == Start(i) \/ Fulfill(i) \/ Cancel(i)
               \/ \E ttl \in EndpointTTLs : Prepare(i, ttl)

(* What the Go runtime goes on to execute once it has been set off. *)
Unattended(i) ==
  \/ Run(i) \/ Bail(i) \/ StopWatchdog(i) \/ Complete(i) \/ Release(i)
  \/ WatchdogFires(i) \/ WatchdogCancels(i) \/ WatchdogFails(i)
  \/ CancelContext(i) \/ CancelReader(i)

Next == \/ \E i \in Ids : Client(i) \/ Unattended(i)
                            \/ Deadline(i) \/ ExecReturns(i)
        \/ Poll
        \/ Tick

Spec == Init /\ [][Next]_vars

-----------------------------------------------------------------------------
(* Properties.                                                             *)

(* The caps hold whatever mixture of Start, Prepare, Fulfill, Cancel and   *)
(* timeouts led here: a handle moving from prepared to queued trades one   *)
(* cap for the other (acquireSlotLocked, acquirePreparedSlotLocked).       *)
Capped(states, cap) ==
  cap > 0 => Cardinality({i \in tasks : task[i].state \in states}) <= cap

AdmissionCaps == Capped(Active, MaxActive) /\ Capped({"prepared"}, MaxPrepared)

(* A handle is never live and tombstoned at once, and the FIFO lists every *)
(* tombstone exactly once, although Fulfill may have its own handle        *)
(* tombstoned by the prune it makes (pruneLocked, untombstoneLocked).      *)
TombstonesInSync ==
  /\ \A i \in tasks : ~IsTombstoned(i)
  /\ \A i \in Ids : IsTombstoned(i) <=> i \in Range(tombstoneOrder)
  /\ IsInjective(tombstoneOrder)

(* The outcome of an upload is recorded once: of a user's Cancel, the      *)
(* watchdog and the completion, whoever takes the lock first decides, and  *)
(* a late result changes neither state, error nor finish time.             *)
OutcomeIsFinal ==
  [][\A i \in Ids : task[i].state \in Terminal => task'[i] = task[i]]_vars

(* When the worker, the watchdog and a Cancel are all through with a       *)
(* handle, its reader has been closed exactly once: not leaked by the      *)
(* bail-out, which closes nothing, and not closed twice by a race.         *)
Quiescent(i) == /\ worker[i] = "done"
                /\ watchdog[i] \in {"idle", "stopped", "done"}
                /\ canceller[i] \in {"idle", "done"}

ReaderReleasedOnce ==
  \A i \in Ids : closes[i] <= 1 /\ (Quiescent(i) => closes[i] = 1)

(* What a poll reports of a handle (Get). *)
Reported(i) ==
  CASE i \in tasks                           -> task[i].state
    [] i \notin tasks /\ IsTombstoned(i)     -> tombstones[i].state
    [] i \notin tasks /\ ~IsTombstoned(i)
         /\ task[i].state = "none"           -> "none"
    [] OTHER                                 -> "unknown"

(* A result stays available for at least TTL after the upload ended,       *)
(* however the prunes are spread (pruneLocked).                            *)
ResultRetained ==
  \A i \in Ids : task[i].state \in Terminal /\ clock - task[i].at <= TTL
                   => Reported(i) = task[i].state

(* Polled at any moments, a handle's status only moves forward. *)
Lifecycle == INSTANCE HandleLifecycle WITH status <- [i \in Ids |-> Reported(i)]

StatusMovesForward == Lifecycle!Spec

(* An upload that was started ends, though its executor may ignore both    *)
(* its context and its closed reader and never return: the slot it holds   *)
(* is given back (the watchdog's reason to exist).                         *)
EveryUploadEnds ==
  \A i \in Ids : task[i].state \in Active ~> task[i].state \in Terminal

(* The reader of every claimed handle is closed in the end, a hung         *)
(* executor's too.                                                         *)
EveryReaderReleased ==
  \A i \in Ids : worker[i] # "idle" ~> closes[i] > 0

=============================================================================
