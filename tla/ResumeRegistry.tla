--------------------------- MODULE ResumeRegistry ---------------------------
(***************************************************************************)
(* The start -> needs_human -> resume -> done protocol: the registry of    *)
(* resume continuations (handoff/handoff_registry.go), the store of async  *)
(* handles that backs it (session/async.go), and the two kinds of tool     *)
(* calls that run against them concurrently.                               *)
(*                                                                         *)
(* Registry and store have a mutex each, and nothing spans the two: a      *)
(* start creates its handle in the store, registers its continuation, and  *)
(* then deletes the handles of the flows it swept, one store call at a     *)
(* time; a resume looks its handle up in the store, then its continuation  *)
(* in the registry, runs it, and removes it.  A flow is the continuation   *)
(* one start registered; starting again under a handle in use replaces it. *)
(*                                                                         *)
(* What a continuation does is external: it reports that the flow is still *)
(* pending (an error counts as that, nothing is removed) or that it is     *)
(* done.  The payload and status of a handle are left out.                 *)
(***************************************************************************)
EXTENDS Integers, FiniteSets

CONSTANTS
  Handles,     \* async handles
  Starters,    \* calls of a start tool; each names the flow it registers
  Resumers,    \* calls of a resume tool
  MaxEntries,  \* cap on registered continuations
  MaxLen,      \* store size from which on expired handles are dropped
  TTL,         \* life of a registered continuation
  StoreTTL,    \* life of a handle in the store
  MaxTime      \* bound: the clock stops there

ASSUME ResumeRegistryAssumption ==
  /\ MaxEntries \in Nat \ {0}
  /\ MaxLen \in Nat \ {0}
  /\ TTL \in Nat /\ StoreTTL \in Nat
  /\ MaxTime \in Nat
  /\ "prune" \notin Starters  \* the marker of the caller of Prune

VARIABLES
  clock,    \* the clock both read
  items,    \* items[h]: when the stored handle h expires
  cont,     \* cont[h]: the continuation registered for h
  starter,  \* starter[s]: how far the start s has got, and for which handle
  sweep,    \* sweep[p]: the handles that p has swept and will yet delete
  resumer,  \* resumer[r]: how far the resume r has got, for which flow
  swept     \* the handles whose latest flow has been swept

vars == <<clock, items, cont, starter, sweep, resumer, swept>>

(* Whoever sweeps: the starts, and a caller of Prune. *)
Sweepers == Starters \cup {"prune"}

TypeOK ==
  /\ clock \in Nat
  /\ DOMAIN items \subseteq Handles
  /\ items \in [DOMAIN items -> Nat]
  /\ DOMAIN cont \subseteq Handles
  /\ cont \in [DOMAIN cont -> [at : Nat, flow : Starters]]
  /\ starter \in [Starters -> [pc : {"idle", "created", "begun"},
                               handle : Handles \cup {"none"}]]
  /\ sweep \in [Sweepers -> SUBSET Handles]
  /\ resumer \in [Resumers -> [pc : {"idle", "dead", "lookup", "running",
                                     "ending", "done"},
                               handle : Handles \cup {"none"},
                               flow : Starters \cup {"none"},
                               terminal : BOOLEAN]]
  /\ swept \subseteq Handles

Init ==
  /\ clock = 0
  /\ items = <<>>
  /\ cont = <<>>
  /\ starter = [s \in Starters |-> [pc |-> "idle", handle |-> "none"]]
  /\ sweep = [p \in Sweepers |-> {}]
  /\ resumer = [r \in Resumers |-> [pc |-> "idle", handle |-> "none",
                                    flow |-> "none", terminal |-> FALSE]]
  /\ swept = {}

(* A map without some of its keys, and with one entry set. *)
Minus(f, gone) == [h \in DOMAIN f \ gone |-> f[h]]
Put(f, h, v) == [g \in DOMAIN f \cup {h} |-> IF g = h THEN v ELSE f[g]]

-----------------------------------------------------------------------------
(* AsyncHandleStore.                                                       *)

BackdatedDeadline == clock - StoreTTL
Deadline == clock + StoreTTL

Expired(h) == clock > items[h]

Live(h) == h \in DOMAIN items /\ ~Expired(h)

(* Create and CreateWithID: a present handle is refreshed, expired or not; *)
(* a new one makes a full store drop what has expired, and is added even   *)
(* if that made no room.                                                   *)
Create(h) ==
  items' = Put(IF h \notin DOMAIN items /\ Cardinality(DOMAIN items) >= MaxLen
                 THEN Minus(items, {g \in DOMAIN items : Expired(g)})
                 ELSE items,
               h, Deadline)

(* Get, and the lookup that Set begins with, drop an expired handle. *)
Touch(h) ==
  items' = IF h \in DOMAIN items /\ Expired(h) THEN Minus(items, {h}) ELSE items

Delete(h) == items' = Minus(items, {h})

-----------------------------------------------------------------------------
(* HandoffRegistry.                                                        *)

Stale(h) == clock - cont[h].at > TTL

(* pruneLocked *)
Pruned == {h \in DOMAIN cont : Stale(h)}

(* Whether an entry must go before one is added. *)
OverFull(kept) == Cardinality(DOMAIN kept) > MaxEntries
Full(kept) == Cardinality(DOMAIN kept) >= MaxEntries

AnyEntry(kept) == DOMAIN kept
Oldest(kept) == {g \in DOMAIN kept :
                   \A k \in DOMAIN kept : kept[g].at <= kept[k].at}

(* The victims a Begin may choose: in a full registry an oldest entry,     *)
(* whichever the map's order makes it meet first, unless that is the very  *)
(* handle being registered.                                                *)
Evictions(kept, h) ==
  IF Full(kept) THEN {{g} \ {h} : g \in Oldest(kept)} ELSE {{}}

RetireVictimOnly(s, victim) == sweep' = [sweep EXCEPT ![s] = victim]

(* What a Begin leaves to be deleted from the store. *)
Retire(s, victim) == sweep' = [sweep EXCEPT ![s] = victim \cup Pruned]

(* The registry's critical section of Begin. *)
Begin(s) ==
  LET h == starter[s].handle
      kept == Minus(cont, Pruned)
  IN  /\ starter[s].pc = "created"
      /\ \E victim \in Evictions(kept, h) :
           /\ cont' = Put(Minus(kept, victim), h, [at |-> clock, flow |-> s])
           /\ Retire(s, victim)
           /\ swept' = (swept \cup victim \cup Pruned) \ {h}
      /\ starter' = [starter EXCEPT ![s].pc = "begun"]
      /\ UNCHANGED <<clock, items, resumer>>

Prune ==
  /\ sweep["prune"] = {}
  /\ cont' = Minus(cont, Pruned)
  /\ sweep' = [sweep EXCEPT !["prune"] = Pruned]
  /\ swept' = swept \cup Pruned
  /\ UNCHANGED <<clock, items, starter, resumer>>

(* The cleanup callback: one store.Delete, outside the registry's lock. *)
Cleanup(p) ==
  \E h \in sweep[p] :
    /\ Delete(h)
    /\ sweep' = [sweep EXCEPT ![p] = @ \ {h}]
    /\ UNCHANGED <<clock, cont, starter, resumer, swept>>

End(h) == cont' = Minus(cont, {h})

-----------------------------------------------------------------------------
(* The tools.                                                              *)

Start(s, h) ==
  /\ starter[s].pc = "idle"
  /\ Create(h)
  /\ starter' = [starter EXCEPT ![s] = [pc |-> "created", handle |-> h]]
  /\ UNCHANGED <<clock, cont, sweep, resumer, swept>>

Resume(r, h) ==
  /\ resumer[r].pc = "idle"
  /\ Touch(h)
  /\ resumer' = [resumer EXCEPT ![r].pc = IF Live(h) THEN "lookup" ELSE "dead",
                                ![r].handle = h]
  /\ UNCHANGED <<clock, cont, starter, sweep, swept>>

(* A dead handle: its continuation, if any, goes too. *)
GiveUp(r) ==
  /\ resumer[r].pc = "dead"
  /\ End(resumer[r].handle)
  /\ resumer' = [resumer EXCEPT ![r].pc = "done"]
  /\ UNCHANGED <<clock, items, starter, sweep, swept>>

(* The registry's Get: an entry past its TTL counts as absent. *)
Lookup(r) ==
  LET h == resumer[r].handle
  IN  /\ resumer[r].pc = "lookup"
      /\ \/ /\ h \in DOMAIN cont /\ ~Stale(h)
            /\ resumer' = [resumer EXCEPT ![r].pc = "running",
                                          ![r].flow = cont[h].flow]
         \/ /\ ~(h \in DOMAIN cont /\ ~Stale(h))
            /\ resumer' = [resumer EXCEPT ![r].pc = "done"]
      /\ UNCHANGED <<clock, items, cont, starter, sweep, swept>>

ContinuedKeeping(r) ==
  /\ resumer[r].pc = "running"
  /\ \E terminal \in BOOLEAN :
       resumer' = [resumer EXCEPT ![r].pc = "done", ![r].terminal = terminal]
  /\ UNCHANGED <<clock, items, cont, starter, sweep, swept>>

(* The continuation returns; only a terminal result removes it. *)
Continued(r) ==
  /\ resumer[r].pc = "running"
  /\ \E terminal \in BOOLEAN :
       resumer' = [resumer EXCEPT ![r].pc = IF terminal THEN "ending" ELSE "done",
                                  ![r].terminal = terminal]
  /\ UNCHANGED <<clock, items, cont, starter, sweep, swept>>

Finish(r) ==
  /\ resumer[r].pc = "ending"
  /\ End(resumer[r].handle)
  /\ resumer' = [resumer EXCEPT ![r].pc = "done"]
  /\ UNCHANGED <<clock, items, starter, sweep, swept>>

(* A coordinator reports progress (Set), which extends a live handle, or   *)
(* deletes its handle.                                                     *)
Update(h) ==
  /\ h \in DOMAIN items
  /\ IF Expired(h) THEN Delete(h) ELSE items' = Put(items, h, Deadline)
  /\ UNCHANGED <<clock, cont, starter, sweep, resumer, swept>>

Discard(h) ==
  /\ Delete(h)
  /\ UNCHANGED <<clock, cont, starter, sweep, resumer, swept>>

Tick ==
  /\ clock < MaxTime
  /\ clock' = clock + 1
  /\ UNCHANGED <<items, cont, starter, sweep, resumer, swept>>

Next ==
  \/ \E s \in Starters : Begin(s) \/ \E h \in Handles : Start(s, h)
  \/ \E r \in Resumers : \/ GiveUp(r) \/ Lookup(r) \/ Continued(r) \/ Finish(r)
                         \/ \E h \in Handles : Resume(r, h)
  \/ \E h \in Handles : Update(h) \/ Discard(h)
  \/ \E p \in Sweepers : Cleanup(p)
  \/ Prune
  \/ Tick

Spec == Init /\ [][Next]_vars

-----------------------------------------------------------------------------
(* Properties.                                                             *)

(* However starts, replacements and expiries mix, the registry never grows *)
(* past its cap: a Begin evicts before it adds, and only a Begin that      *)
(* replaces the oldest entry itself evicts nothing.                        *)
RegistryBounded == Cardinality(DOMAIN cont) <= MaxEntries

(* A flow that was swept leaves no live-but-unresumable handle behind,     *)
(* once whoever swept it is through with its cleanup and nobody is about   *)
(* to register the handle again (the cleanup callback's reason to exist).  *)
SweptHandlesRetired ==
  \A h \in swept :
    \/ h \notin DOMAIN items
    \/ \E p \in Sweepers : h \in sweep[p]
    \/ \E s \in Starters : starter[s].pc = "created" /\ starter[s].handle = h

(* Newer flows win: a full registry gives up none younger than the ones    *)
(* it keeps (Begin's capacity eviction).                                   *)
NewerFlowsWin ==
  [][\A s \in Starters, g, k \in DOMAIN cont :
       starter[s].pc = "created" /\ starter'[s].pc = "begun"
         /\ g \notin DOMAIN cont' /\ k \in DOMAIN cont' \ {starter[s].handle}
         => cont[g].at <= cont[k].at]_vars

(* A flow whose terminal result was delivered is never dispatched to       *)
(* again: the continuation is gone before the resume that completed it     *)
(* returns, whatever other resumes and starts do to its handle meanwhile.  *)
DoneFlowNotResumed ==
  [][\A r, q \in Resumers :
       resumer[q].pc = "done" /\ resumer[q].terminal
         /\ resumer[r].pc = "lookup" /\ resumer'[r].pc = "running"
         => resumer'[r].flow # resumer[q].flow]_vars

(* What the comment in Begin says: the handle being (re)registered is      *)
(* never its own eviction victim, so its cleanup does not retire the       *)
(* stored handle of the flow just refreshed.                               *)
RefreshedFlowIsResumable ==
  [][\A s \in Starters :
       LET h == starter[s].handle
       IN  h \in sweep[s] /\ h \notin sweep'[s] /\ h \in DOMAIN cont
             => cont[h].flow # s]_vars

=============================================================================
