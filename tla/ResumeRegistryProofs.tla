------------------------ MODULE ResumeRegistryProofs -------------------------
(***************************************************************************)
(* Theorems about ResumeRegistry, for any sets of handles, starts and      *)
(* resumes, any caps and TTLs, and however long the clock runs.            *)
(***************************************************************************)
EXTENDS ResumeRegistry, FiniteSetTheorems, TLAPS

(* Whoever has passed its first step has named a handle.                   *)
HandlesNamed ==
  /\ \A s \in Starters : starter[s].pc # "idle" => starter[s].handle \in Handles
  /\ \A r \in Resumers : resumer[r].pc # "idle" => resumer[r].handle \in Handles

(* A continuation is the one its start registered, under that start's      *)
(* handle: two entries never share a flow.                                 *)
FlowsAreBegun ==
  \A h \in DOMAIN cont : /\ starter[cont[h].flow].pc = "begun"
                         /\ starter[cont[h].flow].handle = h

(* A resume works for the flow its handle was registered with.             *)
ResumesMatch ==
  \A r \in Resumers :
    /\ resumer[r].terminal => resumer[r].pc \in {"ending", "done"}
    /\ resumer[r].pc \in {"running", "ending"} \/ resumer[r].terminal
         => /\ resumer[r].flow \in Starters
            /\ starter[resumer[r].flow].pc = "begun"
            /\ starter[resumer[r].flow].handle = resumer[r].handle

(* A flow whose terminal result was delivered has no entry.                *)
DoneFlowsAreGone ==
  \A q \in Resumers :
    resumer[q].pc = "done" /\ resumer[q].terminal
      => \A h \in DOMAIN cont : cont[h].flow # resumer[q].flow

(* Only a start that has begun has anything to clean up.                   *)
SweepsFollowBegin ==
  \A s \in Starters : starter[s].pc # "begun" => sweep[s] = {}

IInv ==
  /\ TypeOK
  /\ IsFiniteSet(DOMAIN cont)
  /\ RegistryBounded
  /\ HandlesNamed
  /\ FlowsAreBegun
  /\ ResumesMatch
  /\ DoneFlowsAreGone
  /\ SweepsFollowBegin
  /\ SweptHandlesRetired

-----------------------------------------------------------------------------
(* The operators of Begin, End and pruneLocked.                            *)

(* A Begin adds its handle to what it keeps without its victim, and stays  *)
(* within the cap: either there was room, or an entry went, or the handle  *)
(* was there.                                                              *)
LEMMA EvictionMakesRoom ==
  ASSUME NEW kept, IsFiniteSet(DOMAIN kept), MaxEntries \in Nat \ {0},
         Cardinality(DOMAIN kept) <= MaxEntries,
         NEW h, NEW victim \in Evictions(kept, h)
  PROVE  /\ victim \subseteq DOMAIN kept
         /\ IsFiniteSet((DOMAIN kept \ victim) \cup {h})
         /\ Cardinality((DOMAIN kept \ victim) \cup {h}) <= MaxEntries
<1> DEFINE K == DOMAIN kept
           n == Cardinality(K)
<1>1. n \in Nat
  BY FS_CardinalityType
<1>2. CASE n < MaxEntries
  <2>1. victim = {}
    BY <1>1, <1>2 DEF Evictions, Full
  <2>2. /\ IsFiniteSet(K \cup {h})
        /\ Cardinality(K \cup {h}) = IF h \in K THEN n ELSE n + 1
    BY FS_AddElement
  <2>3. Cardinality(K \cup {h}) <= MaxEntries
    BY <1>1, <1>2, <2>2
  <2>4. K \ victim = K
    BY <2>1
  <2>5. QED
    BY <2>1, <2>2, <2>3, <2>4
<1>3. CASE n >= MaxEntries
  <2>1. PICK g \in Oldest(kept) : victim = {g} \ {h}
    BY <1>1, <1>3 DEF Evictions, Full
  <2>2. g \in K
    BY <2>1 DEF Oldest
  <2>3. CASE g = h
    <3>1. victim = {} /\ (K \ victim) \cup {h} = K
      BY <2>1, <2>2, <2>3
    <3>2. QED
      BY <3>1
  <2>4. CASE g # h
    <3>1. victim = {g}
      BY <2>1, <2>4
    <3>2. IsFiniteSet(K \ {g}) /\ Cardinality(K \ {g}) = n - 1
      BY <2>2, FS_RemoveElement
    <3> DEFINE R == K \ {g}
    <3>3. /\ IsFiniteSet(R \cup {h})
          /\ Cardinality(R \cup {h}) = IF h \in R THEN n - 1 ELSE n - 1 + 1
      <4>1. IsFiniteSet(R) /\ Cardinality(R) = n - 1
        BY <3>2
      <4> HIDE DEF R, n
      <4>2. /\ IsFiniteSet(R \cup {h})
            /\ Cardinality(R \cup {h})
                 = IF h \in R THEN Cardinality(R) ELSE Cardinality(R) + 1
        BY <4>1, FS_AddElement
      <4>3. QED
        BY <4>1, <4>2
    <3>4. Cardinality(R \cup {h}) <= MaxEntries
      BY <1>1, <3>3
    <3>5. QED
      BY <2>2, <3>1, <3>3, <3>4
  <2>5. QED
    BY <2>3, <2>4
<1>4. QED
  BY <1>1, <1>2, <1>3

(* Removing entries keeps a map finite and no larger.                      *)
LEMMA RemovalShrinks ==
  ASSUME NEW f, NEW gone, IsFiniteSet(DOMAIN f),
         Cardinality(DOMAIN f) <= MaxEntries, MaxEntries \in Nat
  PROVE  /\ IsFiniteSet(DOMAIN f \ gone)
         /\ Cardinality(DOMAIN f \ gone) <= MaxEntries
<1>1. DOMAIN f \ gone \in SUBSET DOMAIN f
  OBVIOUS
<1>2. /\ IsFiniteSet(DOMAIN f \ gone)
      /\ Cardinality(DOMAIN f \ gone) <= Cardinality(DOMAIN f)
  BY <1>1, FS_Subset
<1>3. Cardinality(DOMAIN f) \in Nat /\ Cardinality(DOMAIN f \ gone) \in Nat
  BY <1>2, FS_CardinalityType
<1>4. QED
  BY <1>2, <1>3

-----------------------------------------------------------------------------
(* The steps, by what they touch.                                          *)

(* A Begin prunes, evicts and registers.                                   *)
LEMMA BeginStep ==
  ASSUME IInv, NEW s \in Starters, Begin(s)
  PROVE  IInv'
<1> DEFINE h == starter[s].handle
           kept == Minus(cont, Pruned)
<1>1. PICK victim \in Evictions(kept, h) :
        /\ cont' = Put(Minus(kept, victim), h, [at |-> clock, flow |-> s])
        /\ sweep' = [sweep EXCEPT ![s] = victim \cup Pruned]
        /\ swept' = (swept \cup victim \cup Pruned) \ {h}
  BY DEF Begin, Retire
<1>2. /\ starter[s].pc = "created" /\ h \in Handles
      /\ starter' = [starter EXCEPT ![s].pc = "begun"]
      /\ clock' = clock /\ items' = items /\ resumer' = resumer
  BY DEF Begin, IInv, HandlesNamed
<1>3. /\ DOMAIN kept = DOMAIN cont \ Pruned
      /\ \A g \in DOMAIN kept : kept[g] = cont[g]
  BY DEF Minus
<1>4. IsFiniteSet(DOMAIN kept) /\ Cardinality(DOMAIN kept) <= MaxEntries
  BY <1>3, RemovalShrinks, ResumeRegistryAssumption DEF IInv, RegistryBounded
<1> HIDE DEF kept
<1>5. /\ victim \subseteq DOMAIN kept
      /\ IsFiniteSet((DOMAIN kept \ victim) \cup {h})
      /\ Cardinality((DOMAIN kept \ victim) \cup {h}) <= MaxEntries
  BY <1>1, <1>4, EvictionMakesRoom, ResumeRegistryAssumption
<1>6. /\ DOMAIN cont' = (DOMAIN kept \ victim) \cup {h}
      /\ cont'[h] = [at |-> clock, flow |-> s]
      /\ \A g \in DOMAIN cont' : g # h => g \in DOMAIN cont /\ cont'[g] = cont[g]
  BY <1>1, <1>3 DEF Minus, Put
<1>7. Pruned \subseteq DOMAIN cont /\ victim \subseteq DOMAIN cont
  BY <1>3, <1>5 DEF Pruned
<1>8. /\ starter'[s].pc = "begun" /\ starter'[s].handle = h
      /\ \A t \in Starters : t # s => starter'[t] = starter[t]
      /\ starter' \in [Starters -> [pc : {"idle", "created", "begun"},
                                    handle : Handles \cup {"none"}]]
  BY <1>2 DEF IInv, TypeOK
<1>9. /\ sweep'[s] = victim \cup Pruned
      /\ \A p \in Sweepers : p # s => sweep'[p] = sweep[p]
      /\ sweep[s] = {}
  BY <1>1, <1>2 DEF IInv, TypeOK, Sweepers, SweepsFollowBegin
<1> HIDE DEF h
<1>10. TypeOK'
  <2>1. cont' \in [DOMAIN cont' -> [at : Nat, flow : Starters]]
    <3>1. \A g \in DOMAIN cont' : cont'[g] \in [at : Nat, flow : Starters]
      BY <1>6 DEF IInv, TypeOK
    <3>2. cont' = [g \in DOMAIN cont' |-> cont'[g]]
      BY <1>1 DEF Put
    <3>3. QED
      BY <3>1, <3>2
  <2>2. DOMAIN cont' \subseteq Handles /\ swept' \subseteq Handles
    BY <1>1, <1>2, <1>3, <1>6, <1>7 DEF IInv, TypeOK
  <2>3. sweep' \in [Sweepers -> SUBSET Handles]
    BY <1>1, <1>7 DEF IInv, TypeOK
  <2>4. QED
    BY <1>2, <1>8, <2>1, <2>2, <2>3 DEF IInv, TypeOK
<1>11. IsFiniteSet(DOMAIN cont)' /\ RegistryBounded'
  BY <1>5, <1>6 DEF RegistryBounded
<1>12. HandlesNamed'
  BY <1>2, <1>8 DEF IInv, HandlesNamed
<1>13. FlowsAreBegun'
  <2>1. SUFFICES ASSUME NEW g \in DOMAIN cont'
                 PROVE  /\ starter'[cont'[g].flow].pc = "begun"
                        /\ starter'[cont'[g].flow].handle = g
    BY DEF FlowsAreBegun
  <2>2. CASE g = h
    BY <1>6, <1>8, <2>2
  <2>3. CASE g # h
    <3>1. g \in DOMAIN cont /\ cont'[g] = cont[g] /\ cont[g].flow \in Starters
      BY <1>6, <2>3 DEF IInv, TypeOK
    <3>2. /\ starter[cont[g].flow].pc = "begun"
          /\ starter[cont[g].flow].handle = g
      BY <3>1 DEF IInv, FlowsAreBegun
    <3>3. QED
      BY <1>2, <1>8, <3>1, <3>2
  <2>4. QED
    BY <2>2, <2>3
<1>14. ResumesMatch'
  BY <1>2, <1>8 DEF IInv, ResumesMatch
<1>15. DoneFlowsAreGone'
  <2>1. SUFFICES ASSUME NEW q \in Resumers, NEW g \in DOMAIN cont',
                        resumer[q].pc = "done", resumer[q].terminal
                 PROVE  cont'[g].flow # resumer[q].flow
    BY <1>2 DEF DoneFlowsAreGone
  <2>2. starter[resumer[q].flow].pc = "begun"
    BY <2>1 DEF IInv, ResumesMatch
  <2>3. CASE g = h
    BY <1>2, <1>6, <2>2, <2>3
  <2>4. CASE g # h
    BY <1>6, <2>1, <2>4 DEF IInv, DoneFlowsAreGone
  <2>5. QED
    BY <2>3, <2>4
<1>16. SweepsFollowBegin'
  BY <1>8, <1>9 DEF IInv, SweepsFollowBegin, Sweepers
<1>17. SweptHandlesRetired'
  <2>1. SUFFICES ASSUME NEW g \in swept'
                 PROVE  \/ g \notin DOMAIN items
                        \/ \E p \in Sweepers : g \in sweep'[p]
                        \/ \E t \in Starters : /\ starter'[t].pc = "created"
                                               /\ starter'[t].handle = g
    BY <1>2 DEF SweptHandlesRetired
  <2>2. CASE g \in victim \cup Pruned
    BY <1>9, <2>2 DEF Sweepers
  <2>3. CASE g \notin victim \cup Pruned
    <3>1. g \in swept /\ g # h
      BY <1>1, <2>1, <2>3
    <3>2. CASE g \notin DOMAIN items
      BY <3>2
    <3>3. CASE \E p \in Sweepers : g \in sweep[p]
      BY <1>9, <3>3
    <3>4. CASE \E t \in Starters : starter[t].pc = "created" /\ starter[t].handle = g
      BY <1>8, <3>1, <3>4 DEF h
    <3>5. QED
      BY <3>1, <3>2, <3>3, <3>4 DEF IInv, SweptHandlesRetired
  <2>4. QED
    BY <2>2, <2>3
<1>18. QED
  BY <1>10, <1>11, <1>12, <1>13, <1>14, <1>15, <1>16, <1>17 DEF IInv

(* A Prune removes what is past its TTL.                                   *)
LEMMA PruneStep ==
  ASSUME IInv, Prune
  PROVE  IInv'
<1>1. /\ cont' = Minus(cont, Pruned)
      /\ sweep' = [sweep EXCEPT !["prune"] = Pruned]
      /\ swept' = swept \cup Pruned
      /\ clock' = clock /\ items' = items /\ starter' = starter /\ resumer' = resumer
      /\ sweep["prune"] = {}
  BY DEF Prune
<1>2. /\ DOMAIN cont' = DOMAIN cont \ Pruned
      /\ \A g \in DOMAIN cont' : cont'[g] = cont[g]
      /\ cont' = [g \in DOMAIN cont' |-> cont'[g]]
  BY <1>1 DEF Minus
<1>3. Pruned \subseteq DOMAIN cont
  BY DEF Pruned
<1>4. /\ sweep'["prune"] = Pruned
      /\ \A p \in Sweepers : p # "prune" => sweep'[p] = sweep[p]
      /\ sweep' \in [Sweepers -> SUBSET Handles]
  BY <1>1, <1>3 DEF IInv, TypeOK, Sweepers
<1>5. TypeOK'
  <2>1. cont' \in [DOMAIN cont' -> [at : Nat, flow : Starters]]
    BY <1>2 DEF IInv, TypeOK
  <2>2. DOMAIN cont' \subseteq Handles /\ swept' \subseteq Handles
    BY <1>1, <1>2, <1>3 DEF IInv, TypeOK
  <2>3. QED
    BY <1>1, <1>4, <2>1, <2>2 DEF IInv, TypeOK
<1>6. IsFiniteSet(DOMAIN cont)' /\ RegistryBounded'
  BY <1>2, RemovalShrinks, ResumeRegistryAssumption DEF IInv, RegistryBounded
<1>7. HandlesNamed' /\ FlowsAreBegun' /\ ResumesMatch' /\ DoneFlowsAreGone'
  BY <1>1, <1>2 DEF IInv, HandlesNamed, FlowsAreBegun, ResumesMatch, DoneFlowsAreGone
<1>8. SweepsFollowBegin'
  BY <1>1, <1>4, ResumeRegistryAssumption DEF IInv, SweepsFollowBegin, Sweepers
<1>9. SweptHandlesRetired'
  <2>1. SUFFICES ASSUME NEW g \in swept'
                 PROVE  \/ g \notin DOMAIN items
                        \/ \E p \in Sweepers : g \in sweep'[p]
                        \/ \E t \in Starters : /\ starter[t].pc = "created"
                                               /\ starter[t].handle = g
    BY <1>1 DEF SweptHandlesRetired
  <2>2. CASE g \in Pruned
    BY <1>4, <2>2 DEF Sweepers
  <2>3. CASE g \notin Pruned
    BY <1>1, <1>4, <2>1, <2>3 DEF IInv, SweptHandlesRetired, Sweepers
  <2>4. QED
    BY <2>2, <2>3
<1>10. QED
  BY <1>5, <1>6, <1>7, <1>8, <1>9 DEF IInv

(* Steps that only take entries out of the store.                          *)
LEMMA StoreShrinks ==
  ASSUME IInv, DOMAIN items' \subseteq DOMAIN items,
         items' \in [DOMAIN items' -> Nat],
         UNCHANGED <<clock, cont, starter, sweep, resumer, swept>>
  PROVE  IInv'
<1>1. TypeOK'
  BY DEF IInv, TypeOK
<1>2. /\ IsFiniteSet(DOMAIN cont)' /\ RegistryBounded' /\ HandlesNamed'
      /\ FlowsAreBegun' /\ ResumesMatch' /\ DoneFlowsAreGone' /\ SweepsFollowBegin'
  BY DEF IInv, RegistryBounded, HandlesNamed, FlowsAreBegun, ResumesMatch,
         DoneFlowsAreGone, SweepsFollowBegin
<1>3. SweptHandlesRetired'
  BY DEF IInv, SweptHandlesRetired
<1>4. QED
  BY <1>1, <1>2, <1>3 DEF IInv

LEMMA StoreStep ==
  ASSUME IInv, NEW h \in Handles, Update(h) \/ Discard(h)
  PROVE  IInv'
<1>1. UNCHANGED <<clock, cont, starter, sweep, resumer, swept>>
  BY DEF Update, Discard
<1>2. \/ items' = Minus(items, {h})
      \/ h \in DOMAIN items /\ items' = Put(items, h, Deadline)
  BY DEF Update, Discard, Delete
<1>3. items \in [DOMAIN items -> Nat] /\ Deadline \in Nat
  BY ResumeRegistryAssumption DEF IInv, TypeOK, Deadline
<1>4. DOMAIN items' \subseteq DOMAIN items /\ items' \in [DOMAIN items' -> Nat]
  BY <1>2, <1>3 DEF Minus, Put
<1>5. QED
  BY <1>1, <1>4, StoreShrinks

(* A cleanup deletes the stored handle it crosses off.                     *)
LEMMA CleanupStep ==
  ASSUME IInv, NEW p \in Sweepers, Cleanup(p)
  PROVE  IInv'
<1>1. PICK h \in sweep[p] :
        /\ items' = Minus(items, {h})
        /\ sweep' = [sweep EXCEPT ![p] = @ \ {h}]
        /\ UNCHANGED <<clock, cont, starter, resumer, swept>>
  BY DEF Cleanup, Delete
<1>2. DOMAIN items' = DOMAIN items \ {h} /\ items' \in [DOMAIN items' -> Nat]
  BY <1>1 DEF IInv, TypeOK, Minus
<1>3. /\ sweep' \in [Sweepers -> SUBSET Handles]
      /\ \A q \in Sweepers : sweep'[q] \subseteq sweep[q] /\ sweep[q] \subseteq sweep'[q] \cup {h}
  BY <1>1 DEF IInv, TypeOK
<1>4. TypeOK'
  BY <1>1, <1>2, <1>3 DEF IInv, TypeOK
<1>5. /\ IsFiniteSet(DOMAIN cont)' /\ RegistryBounded' /\ HandlesNamed'
      /\ FlowsAreBegun' /\ ResumesMatch' /\ DoneFlowsAreGone'
  BY <1>1 DEF IInv, RegistryBounded, HandlesNamed, FlowsAreBegun, ResumesMatch,
              DoneFlowsAreGone
<1>6. SweepsFollowBegin'
  BY <1>1, <1>3 DEF IInv, SweepsFollowBegin, Sweepers
<1>7. SweptHandlesRetired'
  <2>1. SUFFICES ASSUME NEW g \in swept, g \in DOMAIN items, g # h
                 PROVE  \/ \E q \in Sweepers : g \in sweep'[q]
                        \/ \E t \in Starters : /\ starter[t].pc = "created"
                                               /\ starter[t].handle = g
    BY <1>1, <1>2 DEF SweptHandlesRetired
  <2>2. QED
    BY <1>3, <2>1 DEF IInv, SweptHandlesRetired
<1>8. QED
  BY <1>4, <1>5, <1>6, <1>7 DEF IInv

(* A start that creates a swept handle anew is about to register it.       *)
LEMMA StartStep ==
  ASSUME IInv, NEW s \in Starters, NEW h \in Handles, Start(s, h)
  PROVE  IInv'
<1>1. /\ starter[s].pc = "idle" /\ Create(h)
      /\ starter' = [starter EXCEPT ![s] = [pc |-> "created", handle |-> h]]
      /\ UNCHANGED <<clock, cont, sweep, resumer, swept>>
  BY DEF Start
<1>2. DOMAIN items' \subseteq DOMAIN items \cup {h} /\ items' \in [DOMAIN items' -> Nat]
  <2>1. items \in [DOMAIN items -> Nat] /\ Deadline \in Nat
    BY ResumeRegistryAssumption DEF IInv, TypeOK, Deadline
  <2>2. PICK gone : items' = Put(Minus(items, gone), h, Deadline)
    <3>1. Minus(items, {}) = items
      BY <2>1 DEF Minus
    <3>2. QED
      BY <1>1, <3>1 DEF Create
  <2>3. QED
    BY <2>1, <2>2 DEF Minus, Put
<1>3. /\ starter'[s].pc = "created" /\ starter'[s].handle = h
      /\ \A t \in Starters : t # s => starter'[t] = starter[t]
      /\ starter' \in [Starters -> [pc : {"idle", "created", "begun"},
                                    handle : Handles \cup {"none"}]]
  BY <1>1 DEF IInv, TypeOK
<1>4. TypeOK'
  BY <1>1, <1>2, <1>3 DEF IInv, TypeOK
<1>5. IsFiniteSet(DOMAIN cont)' /\ RegistryBounded' /\ DoneFlowsAreGone'
  BY <1>1 DEF IInv, RegistryBounded, DoneFlowsAreGone
<1>6. HandlesNamed'
  BY <1>1, <1>3 DEF IInv, HandlesNamed
<1>7. FlowsAreBegun' /\ ResumesMatch'
  <2>1. \A g \in DOMAIN cont : cont[g].flow \in Starters
    BY DEF IInv, TypeOK
  <2>2. FlowsAreBegun'
    BY <1>1, <1>3, <2>1 DEF IInv, FlowsAreBegun
  <2>3. ResumesMatch'
    BY <1>1, <1>3 DEF IInv, ResumesMatch
  <2>4. QED
    BY <2>2, <2>3
<1>8. SweepsFollowBegin'
  BY <1>1, <1>3 DEF IInv, SweepsFollowBegin
<1>9. SweptHandlesRetired'
  <2>1. SUFFICES ASSUME NEW g \in swept, g \in DOMAIN items'
                 PROVE  \/ \E p \in Sweepers : g \in sweep[p]
                        \/ \E t \in Starters : /\ starter'[t].pc = "created"
                                               /\ starter'[t].handle = g
    BY <1>1 DEF SweptHandlesRetired
  <2>2. CASE g = h
    BY <1>3, <2>2
  <2>3. CASE g # h
    <3>1. g \in DOMAIN items
      BY <1>2, <2>1, <2>3
    <3>2. CASE \E p \in Sweepers : g \in sweep[p]
      BY <3>2
    <3>3. CASE \E t \in Starters : starter[t].pc = "created" /\ starter[t].handle = g
      BY <1>1, <1>3, <3>3
    <3>4. QED
      BY <2>1, <3>1, <3>2, <3>3 DEF IInv, SweptHandlesRetired
  <2>4. QED
    BY <2>2, <2>3
<1>10. QED
  BY <1>4, <1>5, <1>6, <1>7, <1>8, <1>9 DEF IInv

(* A resume that finds its handle gone, or completes its flow, ends the    *)
(* continuation of its handle.                                             *)
LEMMA EndStep ==
  ASSUME IInv, NEW r \in Resumers, GiveUp(r) \/ Finish(r)
  PROVE  IInv'
<1> DEFINE h == resumer[r].handle
<1>1. /\ cont' = Minus(cont, {h})
      /\ resumer[r].pc \in {"dead", "ending"}
      /\ resumer' = [resumer EXCEPT ![r].pc = "done"]
      /\ UNCHANGED <<clock, items, starter, sweep, swept>>
  BY DEF GiveUp, Finish, End
<1>2. /\ DOMAIN cont' = DOMAIN cont \ {h}
      /\ \A g \in DOMAIN cont' : cont'[g] = cont[g]
      /\ cont' = [g \in DOMAIN cont' |-> cont'[g]]
  BY <1>1 DEF Minus
<1>3. /\ resumer'[r].pc = "done"
      /\ \A q \in Resumers : /\ resumer'[q].handle = resumer[q].handle
                             /\ resumer'[q].flow = resumer[q].flow
                             /\ resumer'[q].terminal = resumer[q].terminal
                             /\ q # r => resumer'[q].pc = resumer[q].pc
      /\ resumer' \in [Resumers -> [pc : {"idle", "dead", "lookup", "running",
                                          "ending", "done"},
                                    handle : Handles \cup {"none"},
                                    flow : Starters \cup {"none"},
                                    terminal : BOOLEAN]]
  BY <1>1 DEF IInv, TypeOK
<1>4. TypeOK'
  <2>1. cont' \in [DOMAIN cont' -> [at : Nat, flow : Starters]]
    BY <1>2 DEF IInv, TypeOK
  <2>2. QED
    BY <1>1, <1>2, <1>3, <2>1 DEF IInv, TypeOK
<1>5. IsFiniteSet(DOMAIN cont)' /\ RegistryBounded'
  <2>1. /\ IsFiniteSet(DOMAIN cont \ {h})
        /\ Cardinality(DOMAIN cont \ {h}) <= MaxEntries
    BY RemovalShrinks, ResumeRegistryAssumption DEF IInv, RegistryBounded
  <2>2. QED
    BY <1>2, <2>1 DEF RegistryBounded
<1>6. HandlesNamed' /\ FlowsAreBegun'
  <2>1. starter' = starter /\ resumer[r].handle \in Handles
    BY <1>1 DEF IInv, HandlesNamed
  <2>2. HandlesNamed'
    BY <1>3, <2>1 DEF IInv, HandlesNamed
  <2>3. FlowsAreBegun'
    BY <1>2, <2>1 DEF IInv, FlowsAreBegun
  <2>4. QED
    BY <2>2, <2>3
<1>7. ResumesMatch'
  BY <1>1, <1>3 DEF IInv, ResumesMatch
<1>8. DoneFlowsAreGone'
  <2>1. SUFFICES ASSUME NEW q \in Resumers, NEW g \in DOMAIN cont',
                        resumer'[q].pc = "done", resumer[q].terminal
                 PROVE  cont[g].flow # resumer[q].flow
    BY <1>2, <1>3 DEF DoneFlowsAreGone
  <2>2. CASE q = r
    <3>1. starter[resumer[r].flow].handle = h
      BY <2>1, <2>2 DEF IInv, ResumesMatch
    <3>2. starter[cont[g].flow].handle = g /\ g # h
      BY <1>2, <2>1 DEF IInv, FlowsAreBegun
    <3>3. QED
      BY <2>2, <3>1, <3>2
  <2>3. CASE q # r
    BY <1>2, <1>3, <2>1, <2>3 DEF IInv, DoneFlowsAreGone
  <2>4. QED
    BY <2>2, <2>3
<1>9. SweepsFollowBegin' /\ SweptHandlesRetired'
  BY <1>1 DEF IInv, SweepsFollowBegin, SweptHandlesRetired
<1>10. QED
  BY <1>4, <1>5, <1>6, <1>7, <1>8, <1>9 DEF IInv

(* The other steps of a resume.                                            *)
LEMMA ResumeStep ==
  ASSUME IInv, NEW r \in Resumers,
         Lookup(r) \/ Continued(r) \/ \E h \in Handles : Resume(r, h)
  PROVE  IInv'
<1>1. UNCHANGED <<clock, cont, starter, sweep, swept>>
  BY DEF Lookup, Continued, Resume
<1>2. DOMAIN items' \subseteq DOMAIN items /\ items' \in [DOMAIN items' -> Nat]
  <2>1. items \in [DOMAIN items -> Nat]
    BY DEF IInv, TypeOK
  <2>2. items' = items \/ \E gone : items' = Minus(items, gone)
    BY DEF Lookup, Continued, Resume, Touch
  <2>3. QED
    BY <2>1, <2>2 DEF Minus
<1>3. /\ \A q \in Resumers : q # r => resumer'[q] = resumer[q]
      /\ resumer' \in [Resumers -> [pc : {"idle", "dead", "lookup", "running",
                                          "ending", "done"},
                                    handle : Handles \cup {"none"},
                                    flow : Starters \cup {"none"},
                                    terminal : BOOLEAN]]
      /\ resumer'[r].handle \in Handles
      /\ resumer'[r].terminal => resumer'[r].pc = "ending"
      /\ resumer'[r].pc \in {"running", "ending"} =>
           /\ resumer'[r].flow \in Starters
           /\ starter[resumer'[r].flow].pc = "begun"
           /\ starter[resumer'[r].flow].handle = resumer'[r].handle
  <2>1. CASE \E h \in Handles : Resume(r, h)
    <3>1. PICK h \in Handles, pc \in {"lookup", "dead"} :
            /\ resumer[r].pc = "idle"
            /\ resumer' = [resumer EXCEPT ![r].pc = pc, ![r].handle = h]
      BY <2>1 DEF Resume
    <3>2. ~resumer[r].terminal
      BY <3>1 DEF IInv, ResumesMatch
    <3>3. /\ resumer'[r].pc = pc /\ resumer'[r].handle = h
          /\ resumer'[r].terminal = resumer[r].terminal
      BY <3>1 DEF IInv, TypeOK
    <3>4. QED
      BY <3>1, <3>2, <3>3 DEF IInv, TypeOK
  <2>2. CASE Lookup(r)
    <3>1. /\ resumer[r].pc = "lookup" /\ resumer[r].handle \in Handles
          /\ ~resumer[r].terminal
      BY <2>2 DEF Lookup, IInv, TypeOK, HandlesNamed, ResumesMatch
    <3>2. \A g \in DOMAIN cont : cont[g].flow \in Starters
      BY DEF IInv, TypeOK
    <3>3. QED
      BY <2>2, <3>1, <3>2 DEF Lookup, IInv, TypeOK, FlowsAreBegun
  <2>3. CASE Continued(r)
    <3>1. /\ resumer[r].pc = "running" /\ resumer[r].handle \in Handles
          /\ resumer[r].flow \in Starters
          /\ starter[resumer[r].flow].pc = "begun"
          /\ starter[resumer[r].flow].handle = resumer[r].handle
      BY <2>3 DEF Continued, IInv, TypeOK, HandlesNamed, ResumesMatch
    <3>2. PICK terminal \in BOOLEAN, pc \in {"ending", "done"} :
            /\ resumer' = [resumer EXCEPT ![r].pc = pc, ![r].terminal = terminal]
            /\ terminal => pc = "ending"
      BY <2>3 DEF Continued
    <3>3. /\ resumer'[r].pc = pc /\ resumer'[r].terminal = terminal
          /\ resumer'[r].handle = resumer[r].handle
          /\ resumer'[r].flow = resumer[r].flow
      BY <3>2 DEF IInv, TypeOK
    <3>4. QED
      BY <3>1, <3>2, <3>3 DEF IInv, TypeOK
  <2>4. QED
    BY <2>1, <2>2, <2>3
<1>4. TypeOK'
  BY <1>1, <1>2, <1>3 DEF IInv, TypeOK
<1>5. /\ IsFiniteSet(DOMAIN cont)' /\ RegistryBounded' /\ FlowsAreBegun'
      /\ SweepsFollowBegin'
  BY <1>1 DEF IInv, RegistryBounded, FlowsAreBegun, SweepsFollowBegin
<1>6. HandlesNamed' /\ ResumesMatch' /\ DoneFlowsAreGone'
  BY <1>1, <1>3 DEF IInv, HandlesNamed, ResumesMatch, DoneFlowsAreGone
<1>7. SweptHandlesRetired'
  BY <1>1, <1>2 DEF IInv, SweptHandlesRetired
<1>8. QED
  BY <1>4, <1>5, <1>6, <1>7 DEF IInv

-----------------------------------------------------------------------------
(* The theorems.                                                           *)

LEMMA InitIInv ==
  ASSUME Init
  PROVE  IInv
<1>1. DOMAIN cont = {} /\ DOMAIN items = {}
  BY DEF Init
<1>2. IsFiniteSet(DOMAIN cont) /\ Cardinality(DOMAIN cont) = 0
  BY <1>1, FS_EmptySet
<1>3. TypeOK
  <2>1. items = [h \in {} |-> h] /\ cont = [h \in {} |-> h]
    BY DEF Init
  <2>2. QED
    BY <1>1, <2>1 DEF Init, TypeOK
<1>4. RegistryBounded
  BY <1>2, ResumeRegistryAssumption DEF RegistryBounded
<1>5. /\ HandlesNamed /\ FlowsAreBegun /\ ResumesMatch /\ DoneFlowsAreGone
      /\ SweepsFollowBegin /\ SweptHandlesRetired
  BY <1>1 DEF Init, HandlesNamed, FlowsAreBegun, ResumesMatch, DoneFlowsAreGone,
              SweepsFollowBegin, SweptHandlesRetired, Sweepers
<1>6. QED
  BY <1>2, <1>3, <1>4, <1>5 DEF IInv

LEMMA NextIInv ==
  ASSUME IInv, [Next]_vars
  PROVE  IInv'
<1>1. CASE \E s \in Starters : Begin(s)
  BY <1>1, BeginStep
<1>2. CASE \E s \in Starters, h \in Handles : Start(s, h)
  BY <1>2, StartStep
<1>3. CASE \E r \in Resumers : GiveUp(r) \/ Finish(r)
  BY <1>3, EndStep
<1>4. CASE \E r \in Resumers :
             Lookup(r) \/ Continued(r) \/ \E h \in Handles : Resume(r, h)
  BY <1>4, ResumeStep
<1>5. CASE \E h \in Handles : Update(h) \/ Discard(h)
  BY <1>5, StoreStep
<1>6. CASE \E p \in Sweepers : Cleanup(p)
  BY <1>6, CleanupStep
<1>7. CASE Prune
  BY <1>7, PruneStep
<1>8. CASE Tick
  <2>1. clock' \in Nat /\ UNCHANGED <<items, cont, starter, sweep, resumer, swept>>
    BY <1>8 DEF Tick, IInv, TypeOK
  <2>2. QED
    BY <2>1 DEF IInv, TypeOK, RegistryBounded, HandlesNamed, FlowsAreBegun,
                ResumesMatch, DoneFlowsAreGone, SweepsFollowBegin,
                SweptHandlesRetired
<1>9. CASE UNCHANGED vars
  <2>1. items \in [DOMAIN items -> Nat]
    BY DEF IInv, TypeOK
  <2>2. QED
    BY <1>9, <2>1, StoreShrinks DEF vars
<1>10. QED
  BY <1>1, <1>2, <1>3, <1>4, <1>5, <1>6, <1>7, <1>8, <1>9 DEF Next

(* The inductive invariant holds of every reachable state.                 *)
THEOREM Invariance == Spec => []IInv
<1>1. Init => IInv
  BY InitIInv
<1>2. IInv /\ [Next]_vars => IInv'
  BY NextIInv
<1>3. QED
  BY <1>1, <1>2, PTL DEF Spec

(* The variables keep their types, whatever starts, resumes, cleanups and  *)
(* expiries do (HandoffRegistry and AsyncHandleStore).                     *)
THEOREM TypeCorrect == Spec => []TypeOK
<1>1. IInv => TypeOK
  BY DEF IInv
<1>2. QED
  BY <1>1, Invariance, PTL

(* Begin evicts before it adds: the registry never holds more than its cap.*)
THEOREM CapHolds == Spec => []RegistryBounded
<1>1. IInv => RegistryBounded
  BY DEF IInv
<1>2. QED
  BY <1>1, Invariance, PTL

(* The handle of a flow that was swept does not stay in the store, unless  *)
(* its cleanup is still to come or a start is about to register it again.  *)
THEOREM SweptFlowsLeaveNoHandle == Spec => []SweptHandlesRetired
<1>1. IInv => SweptHandlesRetired
  BY DEF IInv
<1>2. QED
  BY <1>1, Invariance, PTL

(* Begin gives up no flow younger than one it keeps.                       *)
THEOREM NewestFlowsWin == Spec => NewerFlowsWin
<1>1. IInv /\ [Next]_vars
        => [\A s \in Starters, g, k \in DOMAIN cont :
              starter[s].pc = "created" /\ starter'[s].pc = "begun"
                /\ g \notin DOMAIN cont' /\ k \in DOMAIN cont' \ {starter[s].handle}
                => cont[g].at <= cont[k].at]_vars
  <2>1. SUFFICES ASSUME IInv, Next, NEW s \in Starters,
                        NEW g \in DOMAIN cont, NEW k \in DOMAIN cont,
                        starter[s].pc = "created", starter'[s].pc = "begun",
                        g \notin DOMAIN cont',
                        k \in DOMAIN cont' \ {starter[s].handle}
                 PROVE  cont[g].at <= cont[k].at
    OBVIOUS
  <2> DEFINE h == starter[s].handle
             kept == Minus(cont, Pruned)
  <2>2. Begin(s)
    <3>1. starter' # starter
      BY <2>1
    <3>2. CASE \E t \in Starters : Begin(t)
      BY <2>1, <3>2 DEF Begin, IInv, TypeOK
    <3>3. CASE \E t \in Starters, f \in Handles : Start(t, f)
      BY <2>1, <3>3 DEF Start, IInv, TypeOK
    <3>4. QED
      BY <2>1, <3>1, <3>2, <3>3 DEF Next, GiveUp, Lookup, Continued, Finish, Resume,
                                    Update, Discard, Cleanup, Prune, Tick
  <2>3. PICK victim \in Evictions(kept, h) :
          cont' = Put(Minus(kept, victim), h, [at |-> clock, flow |-> s])
    BY <2>2 DEF Begin
  <2>4. /\ DOMAIN kept = DOMAIN cont \ Pruned
        /\ \A f \in DOMAIN kept : kept[f] = cont[f]
    BY DEF Minus
  <2>5. DOMAIN cont' = (DOMAIN kept \ victim) \cup {h}
    BY <2>3 DEF Minus, Put
  <2>6. k \in DOMAIN kept /\ g \in Pruned \cup victim
    BY <2>1, <2>4, <2>5
  <2>7. clock \in Nat /\ cont[g].at \in Nat /\ cont[k].at \in Nat
    BY <2>1 DEF IInv, TypeOK
  <2>8. CASE g \in Pruned
    <3>1. clock - cont[g].at > TTL /\ ~(clock - cont[k].at > TTL)
      BY <2>1, <2>4, <2>6, <2>8 DEF Pruned, Stale
    <3>2. QED
      BY <2>7, <3>1, ResumeRegistryAssumption
  <2>9. CASE g \notin Pruned
    <3>1. g \in victim /\ g \in DOMAIN kept
      BY <2>1, <2>4, <2>6, <2>9
    <3>2. g \in Oldest(kept)
      BY <2>3, <3>1 DEF Evictions
    <3>3. kept[g].at <= kept[k].at
      BY <2>6, <3>2 DEF Oldest
    <3>4. QED
      BY <2>4, <2>6, <3>1, <3>3
  <2>10. QED
    BY <2>8, <2>9
<1>2. QED
  BY <1>1, Invariance, PTL DEF Spec, NewerFlowsWin

(* A flow whose terminal result a resume has delivered is never run again. *)
THEOREM DoneFlowsStayDone == Spec => DoneFlowNotResumed
<1>1. IInv /\ [Next]_vars
        => [\A r, q \in Resumers :
              resumer[q].pc = "done" /\ resumer[q].terminal
                /\ resumer[r].pc = "lookup" /\ resumer'[r].pc = "running"
                => resumer'[r].flow # resumer[q].flow]_vars
  <2>1. SUFFICES ASSUME IInv, Next, NEW r \in Resumers, NEW q \in Resumers,
                        resumer[q].pc = "done", resumer[q].terminal,
                        resumer[r].pc = "lookup", resumer'[r].pc = "running"
                 PROVE  resumer'[r].flow # resumer[q].flow
    OBVIOUS
  <2>2. Lookup(r)
    <3>1. resumer' # resumer
      BY <2>1
    <3>2. PICK t \in Resumers : \/ GiveUp(t) \/ Lookup(t) \/ Continued(t) \/ Finish(t)
                                \/ \E h \in Handles : Resume(t, h)
      BY <2>1, <3>1 DEF Next, Begin, Start, Update, Discard, Cleanup, Prune, Tick
    <3>3. t = r
      BY <2>1, <3>2 DEF GiveUp, Lookup, Continued, Finish, Resume, IInv, TypeOK
    <3>4. QED
      BY <2>1, <3>2, <3>3 DEF GiveUp, Continued, Finish, Resume
  <2>3. /\ resumer[r].handle \in DOMAIN cont
        /\ resumer'[r].flow = cont[resumer[r].handle].flow
    BY <2>1, <2>2 DEF Lookup, IInv, TypeOK
  <2>4. QED
    BY <2>1, <2>3 DEF IInv, DoneFlowsAreGone
<1>2. QED
  BY <1>1, Invariance, PTL DEF Spec, DoneFlowNotResumed

=============================================================================
