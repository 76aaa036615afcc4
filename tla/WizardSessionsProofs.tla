------------------------ MODULE WizardSessionsProofs ------------------------
(***************************************************************************)
(* Theorems about WizardSessions, for every capacity, any number of        *)
(* sessions, calls and steps, and every TTL.                               *)
(***************************************************************************)
EXTENDS WizardSessions, FiniteSetTheorems, TLAPS

Sessions == [made : {"no", "stored", "refused"}, expires : Nat,
             step : 0..Steps, holder : Calls \cup {"nobody"}]

CallRecords == [pc : {"idle", "found", "expired", "got", "handling", "firing"},
                id : Ids \cup {"none"}, step : 0..Steps]

(* The handler of a step runs under the session's advance lock. *)
Advancing(c) ==
  call[c].pc \in {"handling", "firing"} =>
    LET s == session[call[c].id]
    IN  s.holder = c /\ call[c].step = s.step /\ s.step < Steps

StoreType == /\ clock \in Nat
             /\ sessions \subseteq Ids
             /\ session \in [Ids -> Sessions]

CallsType == /\ call \in [Calls -> CallRecords]
             /\ \A c \in Calls : call[c].pc # "idle" => call[c].id \in Ids

StoreInv == /\ \A i \in sessions : session[i].made = "stored"
            /\ Cardinality(sessions) <= MaxSessions

WizardInv == /\ StoreType /\ CallsType /\ StoreInv
             /\ \A c \in Calls : Advancing(c)

-----------------------------------------------------------------------------

LEMMA Fewer ==
  ASSUME NEW S \in SUBSET Ids, NEW T \in SUBSET S
  PROVE  /\ IsFiniteSet(S) /\ IsFiniteSet(T)
         /\ Cardinality(T) \in Nat /\ Cardinality(S) \in Nat
         /\ Cardinality(T) <= Cardinality(S)
<1>1. IsFiniteSet(S)
  BY FS_Subset, WizardSessionsAssumption
<1>2. IsFiniteSet(T) /\ Cardinality(T) <= Cardinality(S)
  BY <1>1, FS_Subset
<1>3. QED
  BY <1>1, <1>2, FS_CardinalityType

LEMMA WizardInit == Init => WizardInv
<1> SUFFICES ASSUME Init
             PROVE  WizardInv
  OBVIOUS
<1>1. /\ clock = 0 /\ sessions = {}
      /\ session = [i \in Ids |-> [made |-> "no", expires |-> 0,
                                   step |-> 0, holder |-> "nobody"]]
      /\ call = [c \in Calls |-> Idle]
  BY DEF Init
<1>2. Steps \in Nat /\ MaxSessions \in Nat
  BY WizardSessionsAssumption
<1>3. Idle \in CallRecords /\ Idle.pc = "idle"
  BY <1>2 DEF Idle, CallRecords
<1>4. Cardinality(sessions) = 0
  BY <1>1, FS_EmptySet
<1>5. QED
  BY <1>1, <1>2, <1>3, <1>4 DEF WizardInv, StoreType, CallsType, StoreInv,
     Advancing, Sessions

(* A step that changes one call only, and starts no handler.               *)
LEMMA CallMoves ==
  ASSUME WizardInv, NEW c \in Calls, call' \in [Calls -> CallRecords],
         \A d \in Calls \ {c} : call'[d] = call[d],
         call'[c].pc # "idle" => call'[c].id \in Ids,
         call'[c].pc \in {"handling", "firing"} =>
           /\ call[c].pc \in {"handling", "firing"}
           /\ call'[c].id = call[c].id /\ call'[c].step = call[c].step,
         UNCHANGED <<clock, session>>, sessions' \subseteq sessions
  PROVE  WizardInv'
<1>1. /\ StoreType /\ StoreInv /\ Advancing(c)
      /\ \A d \in Calls : call[d].pc # "idle" => call[d].id \in Ids
  BY DEF WizardInv, CallsType
<1>2. CallsType'
  BY <1>1 DEF CallsType
<1>3. Advancing(c)'
  BY <1>1 DEF Advancing
<1>4. ASSUME NEW d \in Calls \ {c}
      PROVE  Advancing(d)'
  BY DEF WizardInv, Advancing
<1>5. StoreType'
  BY <1>1 DEF StoreType
<1>6. StoreInv'
  <2>1. /\ Cardinality(sessions') <= Cardinality(sessions)
        /\ Cardinality(sessions') \in Nat /\ Cardinality(sessions) \in Nat
    BY <1>1, Fewer DEF StoreType
  <2>2. Cardinality(sessions') <= MaxSessions
    BY <1>1, <2>1, WizardSessionsAssumption DEF StoreInv
  <2>3. QED
    BY <1>1, <2>2 DEF StoreInv
<1>7. QED
  BY <1>2, <1>3, <1>4, <1>5, <1>6 DEF WizardInv

(* Looking up, checking, discarding, and what needs no session.            *)
LEMMA CallStep ==
  ASSUME WizardInv, NEW c \in Calls,
         \/ \E i \in Ids : Get(c, i)
         \/ Check(c) \/ Discard(c) \/ Complete(c) \/ Succeed(c)
  PROVE  WizardInv'
<1>0. /\ call \in [Calls -> CallRecords]
      /\ \A d \in Calls : call[d].pc # "idle" => call[d].id \in Ids
  BY DEF WizardInv, CallsType
<1>1. /\ sessions' \subseteq sessions
      /\ UNCHANGED <<clock, session>>
  BY DEF Get, Check, Discard, Complete, Succeed
<1>2. CASE Done(c)
  <2>1. Idle \in CallRecords /\ Idle.pc = "idle"
    BY WizardSessionsAssumption DEF Idle, CallRecords
  <2>2. /\ call' \in [Calls -> CallRecords] /\ call'[c] = Idle
        /\ \A d \in Calls \ {c} : call'[d] = call[d]
    BY <1>0, <1>2, <2>1 DEF Done
  <2>3. QED
    BY <1>1, <2>1, <2>2, CallMoves
<1>3. ASSUME NEW i \in Ids, Get(c, i)
      PROVE  WizardInv'
  <2>1. CASE UNCHANGED call
    BY <1>0, <1>1, <1>3, <2>1, CallMoves DEF Get
  <2>2. CASE call' = [call EXCEPT ![c].pc = "found", ![c].id = i]
    <3>1. /\ call' \in [Calls -> CallRecords]
          /\ call'[c].pc = "found" /\ call'[c].id = i
          /\ \A d \in Calls \ {c} : call'[d] = call[d]
      BY <1>0, <2>2 DEF CallRecords
    <3>2. QED
      BY <1>1, <3>1, CallMoves
  <2>3. QED
    BY <1>3, <2>1, <2>2 DEF Get
<1>4. CASE Check(c) \/ Succeed(c)
  <2>1. PICK pc \in {"expired", "got", "firing"} :
          /\ call' = [call EXCEPT ![c].pc = pc]
          /\ call[c].pc # "idle"
          /\ pc = "firing" => call[c].pc = "handling"
    BY <1>4 DEF Check, Succeed, Moved
  <2>2. /\ call' \in [Calls -> CallRecords]
        /\ call'[c].pc = pc /\ call'[c].id = call[c].id
        /\ call'[c].step = call[c].step
        /\ \A d \in Calls \ {c} : call'[d] = call[d]
    BY <1>0, <2>1 DEF CallRecords
  <2>3. QED
    BY <1>0, <1>1, <2>1, <2>2, CallMoves
<1>5. CASE Discard(c) \/ Complete(c)
  BY <1>2, <1>5 DEF Discard, Complete
<1>6. QED
  BY <1>3, <1>4, <1>5

(* The steps that change a session through the pointer the call holds.     *)
LEMMA PointerStep ==
  ASSUME WizardInv, NEW c \in Calls, Touch(c) \/ Enter(c) \/ Stay(c) \/ Fire(c)
  PROVE  WizardInv'
<1> DEFINE i == call[c].id
<1>0. /\ call \in [Calls -> CallRecords] /\ session \in [Ids -> Sessions]
      /\ \A d \in Calls : call[d].pc # "idle" => call[d].id \in Ids
      /\ \A d \in Calls : Advancing(d)
      /\ StoreType /\ StoreInv /\ clock \in Nat
      /\ Steps \in Nat /\ TTL \in Nat /\ "nobody" \notin Calls
      /\ call[c].pc # "idle" /\ i \in Ids
      /\ UNCHANGED <<clock, sessions>>
  BY WizardSessionsAssumption
     DEF WizardInv, CallsType, StoreType, Touch, Enter, Stay, Fire
<1>1. /\ session[i].step \in 0..Steps /\ call[c].step \in 0..Steps
      /\ Idle \in CallRecords /\ Idle.pc = "idle"
  BY <1>0 DEF Sessions, CallRecords, Idle
<1>2. CASE Touch(c)
  <2>1. /\ session' \in [Ids -> Sessions]
        /\ \A j \in Ids : /\ session'[j].made = session[j].made
                          /\ session'[j].step = session[j].step
                          /\ session'[j].holder = session[j].holder
    BY <1>0, <1>2 DEF Touch, Sessions
  <2>2. UNCHANGED call
    BY <1>2 DEF Touch
  <2>3. \A d \in Calls : Advancing(d)'
    BY <1>0, <2>1, <2>2 DEF Advancing
  <2>4. QED
    BY <1>0, <2>1, <2>2, <2>3 DEF WizardInv, StoreType, StoreInv, CallsType
<1>3. CASE Enter(c)
  <2>1. /\ session' = [session EXCEPT ![i].holder = c]
        /\ call' = [call EXCEPT ![c].pc = "handling",
                                ![c].step = session[i].step]
        /\ session[i].holder = "nobody" /\ session[i].step < Steps
    BY <1>3 DEF Enter, Active
  <2>2. /\ session' \in [Ids -> Sessions] /\ session'[i].holder = c
        /\ session'[i].step = session[i].step
        /\ session'[i].made = session[i].made
        /\ \A j \in Ids \ {i} : session'[j] = session[j]
    BY <1>0, <2>1 DEF Sessions
  <2>3. /\ call' \in [Calls -> CallRecords]
        /\ call'[c].id = i /\ call'[c].step = session[i].step
        /\ \A d \in Calls \ {c} : call'[d] = call[d]
    BY <1>0, <1>1, <2>1 DEF CallRecords
  <2>4. Advancing(c)'
    BY <1>0, <2>1, <2>2, <2>3 DEF Advancing
  <2>5. ASSUME NEW d \in Calls \ {c}, call[d].pc \in {"handling", "firing"}
        PROVE  call[d].id \in Ids /\ call[d].id # i
    BY <1>0, <2>1, <2>5 DEF Advancing
  <2>6. ASSUME NEW d \in Calls \ {c}
        PROVE  Advancing(d)'
    BY <1>0, <2>2, <2>3, <2>5 DEF Advancing
  <2>7. CallsType'
    BY <1>0, <2>3 DEF CallsType
  <2>8. StoreInv'
    BY <1>0, <2>2 DEF StoreInv, StoreType
  <2>9. QED
    BY <1>0, <2>2, <2>4, <2>6, <2>7, <2>8 DEF WizardInv, StoreType
<1>4. CASE Stay(c) \/ Fire(c)
  <2>1. /\ session[i].holder = c /\ call[c].step = session[i].step
        /\ session[i].step < Steps
    BY <1>0, <1>4 DEF Advancing, Stay, Fire
  <2>2. /\ session' \in [Ids -> Sessions]
        /\ session'[i].made = session[i].made
        /\ \A j \in Ids \ {i} : session'[j] = session[j]
    <3>1. CASE Stay(c)
      BY <1>0, <3>1 DEF Stay, Sessions
    <3>2. CASE Fire(c)
      <4>1. session[i].step + 1 \in 0..Steps
        BY <1>0, <1>1, <2>1
      <4>2. session' = [session EXCEPT ![i].step = session[i].step + 1,
                                       ![i].holder = "nobody"]
        BY <1>0, <2>1, <3>2 DEF Fire
      <4>3. QED
        BY <1>0, <4>1, <4>2 DEF Sessions
    <3>3. QED
      BY <1>4, <3>1, <3>2
  <2>3. /\ call' \in [Calls -> CallRecords] /\ call'[c] = Idle
        /\ \A d \in Calls \ {c} : call'[d] = call[d]
    BY <1>0, <1>1, <1>4 DEF Stay, Fire, Done
  <2>4. ASSUME NEW d \in Calls \ {c}, call[d].pc \in {"handling", "firing"}
        PROVE  call[d].id \in Ids /\ call[d].id # i
    BY <1>0, <2>1, <2>4 DEF Advancing
  <2>5. ASSUME NEW d \in Calls \ {c}
        PROVE  Advancing(d)'
    BY <1>0, <2>2, <2>3, <2>4 DEF Advancing
  <2>6. Advancing(c)'
    BY <1>1, <2>3 DEF Advancing
  <2>7. CallsType'
    BY <1>0, <1>1, <2>3 DEF CallsType
  <2>8. StoreInv'
    BY <1>0, <2>2 DEF StoreInv, StoreType
  <2>9. QED
    BY <1>0, <2>2, <2>5, <2>6, <2>7, <2>8 DEF WizardInv, StoreType
<1>5. QED
  BY <1>2, <1>3, <1>4

(* What Create keeps of a store that is within its capacity. *)
LEMMA ReclaimFacts ==
  ASSUME WizardInv
  PROVE  /\ Reclaimed \subseteq sessions
         /\ Cardinality(Reclaimed) \in Nat /\ IsFiniteSet(Reclaimed)
         /\ Cardinality(Reclaimed) <= MaxSessions
         /\ ~Room(Reclaimed) => /\ Cardinality(Reclaimed) = MaxSessions
                                /\ \A i \in Reclaimed : ~IsExpired(i)
<1>1. sessions \subseteq Ids /\ Cardinality(sessions) <= MaxSessions
      /\ MaxSessions \in Nat
  BY WizardSessionsAssumption DEF WizardInv, StoreType, StoreInv
<1>2. Reclaimed \subseteq sessions
  BY DEF Reclaimed
<1>3. /\ Cardinality(Reclaimed) \in Nat /\ Cardinality(sessions) \in Nat
      /\ Cardinality(Reclaimed) <= Cardinality(sessions)
      /\ IsFiniteSet(Reclaimed)
  BY <1>1, <1>2, Fewer
<1>4. ASSUME ~Room(Reclaimed)
      PROVE  /\ Cardinality(Reclaimed) = MaxSessions
             /\ \A i \in Reclaimed : ~IsExpired(i)
  <2>1. Cardinality(Reclaimed) = MaxSessions
    BY <1>1, <1>3, <1>4 DEF Room
  <2>2. Cardinality(sessions) >= MaxSessions
    BY <1>1, <1>3, <2>1
  <2>3. QED
    BY <2>1, <2>2 DEF Reclaimed
<1>5. QED
  BY <1>1, <1>2, <1>3, <1>4

LEMMA CreateStep ==
  ASSUME WizardInv, NEW i \in Ids, Create(i)
  PROVE  WizardInv'
<1> DEFINE stored == Room(Reclaimed)
           e == [session[i] EXCEPT !.made = IF stored THEN "stored" ELSE "refused",
                                   !.expires = clock + TTL]
<1>0. /\ StoreType /\ StoreInv /\ CallsType /\ \A c \in Calls : Advancing(c)
      /\ session[i].made = "no" /\ UNCHANGED <<clock, call>>
      /\ clock + TTL \in Nat /\ MaxSessions \in Nat
      /\ sessions \subseteq Ids /\ session \in [Ids -> Sessions]
  BY WizardSessionsAssumption DEF WizardInv, StoreType, Create
<1>1. /\ session' \in [Ids -> Sessions]
      /\ session'[i].made = IF stored THEN "stored" ELSE "refused"
      /\ session'[i].step = session[i].step
      /\ session'[i].holder = session[i].holder
      /\ \A j \in Ids \ {i} : session'[j] = session[j]
  <2>1. e \in Sessions
    BY <1>0 DEF Sessions
  <2>2. session' = [session EXCEPT ![i] = e]
    BY DEF Create
  <2>3. /\ e.made = IF stored THEN "stored" ELSE "refused"
        /\ e.step = session[i].step /\ e.holder = session[i].holder
    BY <1>0 DEF Sessions
  <2> HIDE DEF e
  <2>4. QED
    BY <1>0, <2>1, <2>2, <2>3
<1>2. /\ sessions' = Reclaimed \cup (IF stored THEN {i} ELSE {})
      /\ i \notin sessions
  BY <1>0 DEF Create, StoreInv
<1>3. sessions' \subseteq Ids /\ Cardinality(sessions') <= MaxSessions
  <2>1. Reclaimed \subseteq Ids /\ Cardinality(Reclaimed) <= MaxSessions
        /\ IsFiniteSet(Reclaimed) /\ i \notin Reclaimed
        /\ Cardinality(Reclaimed) \in Nat
    BY <1>0, <1>2, ReclaimFacts
  <2>2. CASE ~stored
    <3>1. sessions' = Reclaimed
      BY <1>2, <2>2
    <3>2. QED
      BY <2>1, <3>1
  <2>3. CASE stored
    <3>1. sessions' = Reclaimed \cup {i}
      BY <1>2, <2>3
    <3>2. Cardinality(Reclaimed \cup {i}) = Cardinality(Reclaimed) + 1
      BY <2>1, FS_AddElement
    <3>3. Cardinality(Reclaimed) < MaxSessions
      BY <2>3 DEF Room
    <3>4. Cardinality(sessions') <= MaxSessions
      BY <1>0, <2>1, <3>1, <3>2, <3>3
    <3>5. QED
      BY <2>1, <3>1, <3>4
  <2>4. QED
    BY <2>2, <2>3
<1>4. \A j \in sessions' : session'[j].made = "stored"
  <2>1. Reclaimed \subseteq sessions
    BY ReclaimFacts
  <2>2. QED
    BY <1>0, <1>1, <1>2, <2>1 DEF StoreInv
<1>5. \A c \in Calls : Advancing(c)'
  BY <1>0, <1>1 DEF Advancing, CallsType
<1>6. QED
  BY <1>0, <1>1, <1>3, <1>4, <1>5 DEF WizardInv, StoreType, StoreInv, CallsType

LEMMA WizardStep == WizardInv /\ [Next]_vars => WizardInv'
<1> SUFFICES ASSUME WizardInv, [Next]_vars
             PROVE  WizardInv'
  OBVIOUS
<1>1. ASSUME sessions' \subseteq sessions, clock' \in Nat,
             UNCHANGED <<session, call>>
      PROVE  WizardInv'
  <2>1. /\ Cardinality(sessions') <= Cardinality(sessions)
        /\ Cardinality(sessions') \in Nat /\ Cardinality(sessions) \in Nat
    BY <1>1, Fewer DEF WizardInv, StoreType
  <2>2. Cardinality(sessions') <= MaxSessions
    BY <2>1, WizardSessionsAssumption DEF WizardInv, StoreInv
  <2>3. \A c \in Calls : Advancing(c)'
    BY <1>1 DEF WizardInv, Advancing
  <2>4. QED
    BY <1>1, <2>2, <2>3 DEF WizardInv, StoreType, StoreInv, CallsType
<1>2. CASE \/ \E i \in Ids : Delete(i)
           \/ Cleanup \/ Tick \/ UNCHANGED vars
  <2>1. clock \in Nat
    BY DEF WizardInv, StoreType
  <2>2. QED
    BY <1>1, <1>2, <2>1 DEF Delete, Cleanup, Tick, vars
<1>3. CASE \E i \in Ids : Create(i)
  BY <1>3, CreateStep
<1>4. CASE \E c \in Calls : Touch(c) \/ Enter(c) \/ Stay(c) \/ Fire(c)
  BY <1>4, PointerStep
<1>5. CASE \E c \in Calls :
             \/ \E i \in Ids : Get(c, i)
             \/ Check(c) \/ Discard(c) \/ Complete(c) \/ Succeed(c)
  BY <1>5, CallStep
<1>6. QED
  BY <1>2, <1>3, <1>4, <1>5 DEF Next

(* What store, sessions and calls keep to; the theorems follow from it.    *)
LEMMA WizardInvariant == Spec => []WizardInv
BY WizardInit, WizardStep, PTL DEF Spec

-----------------------------------------------------------------------------

(* Type correctness of the store, its sessions and the calls.              *)
THEOREM TypeCorrect == Spec => []TypeOK
<1>1. WizardInv => TypeOK
  BY DEF WizardInv, StoreType, CallsType, Sessions, CallRecords, TypeOK
<1>2. QED
  BY <1>1, WizardInvariant, PTL

(* No step of a wizard is handled twice over, for any number of calls that *)
(* advance the same session (AdvanceSession).                              *)
THEOREM StepsAreCurrent == Spec => []StepIsCurrent
<1>1. WizardInv => StepIsCurrent
  BY DEF WizardInv, Advancing, StepIsCurrent
<1>2. QED
  BY <1>1, WizardInvariant, PTL

(* A session is refused only by a store full of live ones (Create).        *)
THEOREM RefusalsAreJustified == Spec => RefusedOnlyWhenFull
<1>1. ASSUME WizardInv, [Next]_vars, NEW i \in Ids,
             session[i].made = "no", session'[i].made = "refused"
      PROVE  /\ Cardinality(sessions') = MaxSessions
             /\ \A j \in sessions' : ~IsExpired(j)'
  <2>0. /\ session \in [Ids -> Sessions] /\ sessions \subseteq Ids
        /\ \A j \in sessions : session[j].made = "stored"
        /\ \A c \in Calls : call[c].pc # "idle" => call[c].id \in Ids
    BY <1>1 DEF WizardInv, StoreType, StoreInv, CallsType
  <2>1. ASSUME NEW j \in Ids, Create(j)
        PROVE  Create(i)
    <3>1. CASE j # i
      BY <1>1, <2>0, <2>1, <3>1 DEF Create
    <3>2. QED
      BY <2>1, <3>1
  <2>2. ASSUME NEW c \in Calls, Touch(c) \/ Enter(c) \/ Stay(c) \/ Fire(c)
        PROVE  session'[i].made = session[i].made
    <3>1. call[c].id \in Ids
      BY <2>0, <2>2 DEF Touch, Enter, Stay, Fire
    <3>2. QED
      BY <2>0, <2>2, <3>1 DEF Touch, Enter, Stay, Fire, Sessions
  <2>3. CASE ~\E j \in Ids : Create(j)
    <3>1. UNCHANGED session \/ \E c \in Calls :
                                 Touch(c) \/ Enter(c) \/ Stay(c) \/ Fire(c)
      BY <1>1, <2>3 DEF Next, Delete, Get, Check, Discard, Complete,
         Succeed, Cleanup, Tick, vars
    <3>2. QED
      BY <1>1, <2>2, <3>1
  <2>4. CASE Create(i)
    <3>1. ~Room(Reclaimed)
      BY <1>1, <2>0, <2>4 DEF Create, Sessions
    <3>2. sessions' = Reclaimed /\ UNCHANGED clock
      BY <2>4, <3>1 DEF Create
    <3>3. \A j \in sessions' : session'[j] = session[j]
      BY <1>1, <2>0, <2>4, <3>2, ReclaimFacts DEF Create
    <3>4. QED
      BY <1>1, <3>1, <3>2, <3>3, ReclaimFacts DEF IsExpired
  <2>5. QED
    BY <2>1, <2>3, <2>4
<1>2. WizardInv /\ [Next]_vars =>
        [\A i \in Ids :
           session[i].made = "no" /\ session'[i].made = "refused"
             => /\ Cardinality(sessions') = MaxSessions
                /\ \A j \in sessions' : ~IsExpired(j)']_vars
  BY <1>1
<1>3. QED
  BY <1>2, WizardInvariant, PTL DEF Spec, RefusedOnlyWhenFull

==============================================================================
