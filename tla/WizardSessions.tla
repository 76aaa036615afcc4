--------------------------- MODULE WizardSessions ---------------------------
(***************************************************************************)
(* Wizard sessions (session/session.go).                                   *)
(*                                                                         *)
(* The store has a mutex, every session a second one for its expiry and a  *)
(* third that AdvanceSession holds while the handler of a step runs.  Get  *)
(* takes them one after the other: it looks the session up, reads its      *)
(* expiry, and deletes it, with other calls in between.                    *)
(*                                                                         *)
(* The wizard tool is external: a call comes with the id of a session,     *)
(* looks it up, may Touch it, and advances it.  The handler of a step is   *)
(* external too: it takes any time and fails, informs or succeeds.  Steps  *)
(* are counted; the wizard's own data, the schemas and the requestState in *)
(* which a client may carry the id are left out.                           *)
(***************************************************************************)
EXTENDS Integers, FiniteSets

CONSTANTS
  Ids,          \* session ids, each generated once
  Calls,        \* calls of the wizard tool
  Steps,        \* number of steps of a wizard
  MaxSessions,  \* capacity of the store
  TTL,          \* life of a session, and by how much Touch extends it
  MaxTime       \* bound: the clock stops there

ASSUME WizardSessionsAssumption ==
  /\ IsFiniteSet(Ids)
  /\ "nobody" \notin Calls
  /\ Steps \in Nat \ {0}
  /\ MaxSessions \in Nat
  /\ TTL \in Nat
  /\ MaxTime \in Nat

VARIABLES
  clock,     \* time.Now()
  sessions,  \* the sessions in the store
  session,   \* session[i]: the Session itself, which callers hold by pointer
  call       \* call[c]: how far the call c has got, and with which session

vars == <<clock, sessions, session, call>>

TypeOK ==
  /\ clock \in Nat
  /\ sessions \subseteq Ids
  /\ session \in [Ids -> [made : {"no", "stored", "refused"},
                          expires : Nat,
                          step : 0..Steps, holder : Calls \cup {"nobody"}]]
  /\ call \in [Calls -> [pc : {"idle", "found", "expired", "got", "handling",
                               "firing"},
                         id : Ids \cup {"none"}, step : 0..Steps]]

Idle == [pc |-> "idle", id |-> "none", step |-> 0]

Init ==
  /\ clock = 0
  /\ sessions = {}
  /\ session = [i \in Ids |-> [made |-> "no", expires |-> 0,
                               step |-> 0, holder |-> "nobody"]]
  /\ call = [c \in Calls |-> Idle]

IsExpired(i) == clock > session[i].expires

-----------------------------------------------------------------------------
(* The store.                                                              *)

ReclaimNothing == sessions

(* Create drops what has expired once the store is full. *)
Reclaimed == IF Cardinality(sessions) >= MaxSessions
               THEN {i \in sessions : ~IsExpired(i)} ELSE sessions

Room(kept) == Cardinality(kept) < MaxSessions

(* Without room the session is returned to the caller, but not stored. *)
Create(i) ==
  /\ session[i].made = "no"
  /\ LET stored == Room(Reclaimed)
     IN  /\ sessions' = Reclaimed \cup (IF stored THEN {i} ELSE {})
         /\ session' = [session EXCEPT
                          ![i].made = IF stored THEN "stored" ELSE "refused",
                          ![i].expires = clock + TTL]
  /\ UNCHANGED <<clock, call>>

Delete(i) ==
  /\ i \in sessions
  /\ sessions' = sessions \ {i}
  /\ UNCHANGED <<clock, session, call>>

Cleanup ==
  /\ sessions' = {i \in sessions : ~IsExpired(i)}
  /\ UNCHANGED <<clock, session, call>>

-----------------------------------------------------------------------------
(* A call: Get by its three locks, then Touch and AdvanceSession.          *)

Moved(c, pc) == call' = [call EXCEPT ![c].pc = pc]

(* The call is over, and the tool is there for another. *)
Done(c) == call' = [call EXCEPT ![c] = Idle]

(* The id is not found, and the call over, or its session is looked at     *)
(* next.                                                                   *)
Get(c, i) ==
  /\ call[c].pc = "idle" /\ session[i].made # "no"
  /\ \/ i \notin sessions /\ UNCHANGED call
     \/ i \in sessions /\ call' = [call EXCEPT ![c].pc = "found", ![c].id = i]
  /\ UNCHANGED <<clock, sessions, session>>

Check(c) ==
  /\ call[c].pc = "found"
  /\ Moved(c, IF IsExpired(call[c].id) THEN "expired" ELSE "got")
  /\ UNCHANGED <<clock, sessions, session>>

(* What Get then deletes may have been extended since it was checked. *)
Discard(c) ==
  /\ call[c].pc = "expired"
  /\ sessions' = sessions \ {call[c].id}
  /\ Done(c)
  /\ UNCHANGED <<clock, session>>

Touch(c) ==
  /\ call[c].pc = "got"
  /\ session' = [session EXCEPT ![call[c].id].expires = clock + TTL]
  /\ UNCHANGED <<clock, sessions, call>>

(* CurrentStep: the complete state has no step to advance. *)
StepsForever(i) == TRUE

Active(i) == session[i].step < Steps

EnterUnlocked(c) ==
  LET i == call[c].id
  IN  /\ call[c].pc = "got" /\ Active(i)
      /\ call' = [call EXCEPT ![c].pc = "handling", ![c].step = session[i].step]
      /\ UNCHANGED <<clock, sessions, session>>

(* The advance lock is free, and the handler of the current step starts. *)
Enter(c) ==
  LET i == call[c].id
  IN  /\ call[c].pc = "got" /\ session[i].holder = "nobody" /\ Active(i)
      /\ session' = [session EXCEPT ![i].holder = c]
      /\ call' = [call EXCEPT ![c].pc = "handling", ![c].step = session[i].step]
      /\ UNCHANGED <<clock, sessions>>

(* A wizard that is complete does not advance. *)
Complete(c) ==
  LET i == call[c].id
  IN  /\ call[c].pc = "got" /\ session[i].holder = "nobody" /\ ~Active(i)
      /\ Done(c)
      /\ UNCHANGED <<clock, sessions, session>>

(* The handler failed or had something to tell, or the event was refused:  *)
(* the session stays put.                                                  *)
Stay(c) ==
  /\ call[c].pc = "handling"
  /\ session' = [session EXCEPT ![call[c].id].holder = "nobody"]
  /\ Done(c)
  /\ UNCHANGED <<clock, sessions>>

Succeed(c) ==
  /\ call[c].pc = "handling"
  /\ Moved(c, "firing")
  /\ UNCHANGED <<clock, sessions, session>>

(* The event of the step the handler ran for leads out of that step only.  *)
Fire(c) ==
  LET i == call[c].id
  IN  /\ call[c].pc = "firing"
      /\ session' = [session EXCEPT
                       ![i].step = IF @ = call[c].step THEN @ + 1 ELSE @,
                       ![i].holder = "nobody"]
      /\ Done(c)
      /\ UNCHANGED <<clock, sessions>>

Tick == /\ clock < MaxTime
        /\ clock' = clock + 1
        /\ UNCHANGED <<sessions, session, call>>

Next ==
  \/ \E i \in Ids : \/ Create(i) \/ Delete(i)
                     \/ \E c \in Calls : Get(c, i)
  \/ \E c \in Calls : \/ Check(c) \/ Discard(c) \/ Touch(c)
                       \/ Enter(c) \/ Complete(c)
                       \/ Stay(c) \/ Succeed(c) \/ Fire(c)
  \/ Cleanup \/ Tick

Spec == Init /\ [][Next]_vars

-----------------------------------------------------------------------------
(* Properties.                                                             *)

(* A session is refused only by a store that is full of live ones: Create  *)
(* reclaims what has expired, however long ago, before it counts again.    *)
RefusedOnlyWhenFull ==
  [][\A i \in Ids :
       session[i].made = "no" /\ session'[i].made = "refused"
         => /\ Cardinality(sessions') = MaxSessions
            /\ \A j \in sessions' : ~IsExpired(j)']_vars

(* The step a handler runs for is still the current one when its event is  *)
(* fired, however long the handler took and whoever else advances the      *)
(* session: no step is handled twice over (AdvanceSession).                *)
StepIsCurrent ==
  \A c \in Calls : call[c].pc \in {"handling", "firing"}
                     => call[c].step = session[call[c].id].step

=============================================================================
