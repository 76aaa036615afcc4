----------------------------- MODULE UploadProofs -----------------------------
(***************************************************************************)
(* Theorems about UploadTasks for every set of handles, every cap and      *)
(* every retention, and about UploadEndpoint, which is built on it, for    *)
(* any tokens and PUTs.                                                    *)
(***************************************************************************)
EXTENDS UploadEndpoint, SequenceLemmas, FiniteSetTheorems, SequenceTheorems,
        TLAPS

(* A tombstone map and its FIFO agree: every tombstone is queued once. *)
Queued(T, O) ==
  /\ \A i \in Ids : T[i] # NoTombstone <=> \E k \in 1..Len(O) : O[k] = i
  /\ \A j, k \in 1..Len(O) : O[j] = O[k] => j = k

Snapshots == [state : {"none", "expired"} \cup Terminal, at : Nat]

RegistryType(p) ==
  /\ p = [tasks |-> p.tasks, tombstones |-> p.tombstones, order |-> p.order]
  /\ p.tasks \subseteq Ids
  /\ p.tombstones \in [Ids -> Snapshots]
  /\ p.order \in Seq(Ids)

(* A registry in which no live handle is tombstoned and the FIFO agrees. *)
RegistrySynced(p) ==
  /\ \A i \in p.tasks : p.tombstones[i] = NoTombstone
  /\ Queued(p.tombstones, p.order)

Registry == [tasks |-> tasks, tombstones |-> tombstones,
             order |-> tombstoneOrder]

-----------------------------------------------------------------------------
(* Lemmas about sequences.                                                 *)

(* Deleting one position of a sequence without repetitions deletes its     *)
(* element and no other.                                                   *)
LEMMA RemoveAtFacts ==
  ASSUME NEW S, NEW s \in Seq(S), NEW p \in 1..Len(s),
         \A j, k \in 1..Len(s) : s[j] = s[k] => j = k
  PROVE  /\ RemoveAt(s, p) \in Seq(S)
         /\ \A x \in S : (\E k \in 1..Len(RemoveAt(s, p)) :
                            RemoveAt(s, p)[k] = x)
                         <=> x # s[p] /\ \E k \in 1..Len(s) : s[k] = x
         /\ \A j, k \in 1..Len(RemoveAt(s, p)) :
              RemoveAt(s, p)[j] = RemoveAt(s, p)[k] => j = k
<1> DEFINE a == SubSeq(s, 1, p - 1)
           b == SubSeq(s, p + 1, Len(s))
           r == RemoveAt(s, p)
<1>1. Len(s) \in Nat /\ p \in Nat /\ \A k \in 1..Len(s) : s[k] \in S
  BY LenProperties, ElementOfSeq
<1>2. /\ a \in Seq(S) /\ Len(a) = p - 1
      /\ \A k \in 1..p-1 : a[k] = s[k]
  <2>1. \A k \in 1..p-1 : s[k] \in S
    BY <1>1
  <2>2. QED
    BY <1>1, <2>1, SubSeqProperties
<1>3. /\ b \in Seq(S) /\ Len(b) = Len(s) - p
      /\ \A k \in 1..(Len(s) - p) : b[k] = s[p + k]
  <2>1. \A k \in p+1..Len(s) : s[k] \in S
    BY <1>1
  <2>2. /\ b \in Seq(S)
        /\ Len(b) = IF p + 1 <= Len(s) THEN Len(s) - (p + 1) + 1 ELSE 0
        /\ \A k \in 1..(Len(s) - (p + 1) + 1) : b[k] = s[(p + 1) + k - 1]
    BY <1>1, <2>1, SubSeqProperties
  <2>3. QED
    BY <1>1, <2>2
<1> HIDE DEF a, b
<1>4. /\ r \in Seq(S) /\ Len(r) = Len(s) - 1
      /\ \A k \in 1..(Len(s) - 1) : r[k] = IF k < p THEN s[k] ELSE s[k + 1]
  <2>1. r = a \o b
    BY DEF RemoveAt, a, b
  <2>2. /\ r \in Seq(S) /\ Len(r) = Len(a) + Len(b)
        /\ \A k \in 1..Len(a) + Len(b) :
             r[k] = IF k <= Len(a) THEN a[k] ELSE b[k - Len(a)]
    <3>1. /\ a \o b \in Seq(S) /\ Len(a \o b) = Len(a) + Len(b)
          /\ \A k \in 1..Len(a) + Len(b) :
               (a \o b)[k] = IF k <= Len(a) THEN a[k] ELSE b[k - Len(a)]
      <4>1. a \in Seq(S) /\ b \in Seq(S)
        BY <1>2, <1>3
      <4>2. QED
        BY <4>1, ConcatProperties
    <3>2. QED
      BY <2>1, <3>1
  <2>3. Len(r) = Len(s) - 1
    BY <1>1, <1>2, <1>3, <2>2
  <2>4. ASSUME NEW k \in 1..(Len(s) - 1)
        PROVE  r[k] = IF k < p THEN s[k] ELSE s[k + 1]
    <3>1. CASE k < p
      <4>1. k \in 1..p-1 /\ k \in 1..Len(a) + Len(b) /\ k <= Len(a)
        BY <1>1, <1>2, <1>3, <3>1
      <4>2. r[k] = a[k] /\ a[k] = s[k]
        BY <1>2, <2>2, <4>1
      <4>3. QED
        BY <3>1, <4>2
    <3>2. CASE k >= p
      <4>1. r[k] = b[k - (p - 1)]
        <5>1. k \in 1..Len(a) + Len(b) /\ ~(k <= Len(a)) /\ Len(a) = p - 1
          BY <1>1, <1>2, <1>3, <3>2
        <5>2. QED
          BY <2>2, <5>1
      <4>2. k - (p - 1) \in 1..(Len(s) - p)
        BY <1>1, <3>2
      <4>3. b[k - (p - 1)] = s[p + (k - (p - 1))]
        BY <1>3, <4>2
      <4>4. p + (k - (p - 1)) = k + 1
        BY <1>1
      <4>5. QED
        BY <1>1, <3>2, <4>1, <4>3, <4>4
    <3>3. QED
      BY <1>1, <3>1, <3>2
  <2>5. QED
    BY <2>2, <2>3, <2>4
<1> HIDE DEF r
<1>5. ASSUME NEW x \in S
      PROVE  (\E k \in 1..Len(r) : r[k] = x)
               <=> x # s[p] /\ \E k \in 1..Len(s) : s[k] = x
  <2>1. ASSUME NEW k \in 1..Len(r), r[k] = x
        PROVE  x # s[p] /\ \E m \in 1..Len(s) : s[m] = x
    <3>1. CASE k < p
      BY <1>1, <1>4, <2>1, <3>1
    <3>2. CASE ~(k < p)
      <4>1. k + 1 \in 1..Len(s) /\ k + 1 # p /\ s[k + 1] = x
        BY <1>1, <1>4, <2>1, <3>2
      <4>2. QED
        BY <4>1
    <3>3. QED
      BY <3>1, <3>2
  <2>2. ASSUME x # s[p], NEW k \in 1..Len(s), s[k] = x
        PROVE  \E m \in 1..Len(r) : r[m] = x
    <3>1. CASE k < p
      BY <1>1, <1>4, <2>2, <3>1
    <3>2. CASE k > p
      <4>1. k - 1 \in 1..Len(r) /\ r[k - 1] = s[(k - 1) + 1]
        BY <1>1, <1>4, <3>2
      <4>2. QED
        BY <1>1, <2>2, <4>1
    <3>3. QED
      BY <1>1, <2>2, <3>1, <3>2
  <2>3. QED
    BY <2>1, <2>2
<1>6. ASSUME NEW j \in 1..Len(r), NEW k \in 1..Len(r), r[j] = r[k]
      PROVE  j = k
  <2>1. j \in 1..Len(s) /\ k \in 1..Len(s)
          /\ j + 1 \in 1..Len(s) /\ k + 1 \in 1..Len(s)
    BY <1>1, <1>4
  <2>2. (IF j < p THEN s[j] ELSE s[j + 1]) = (IF k < p THEN s[k] ELSE s[k + 1])
    BY <1>4, <1>6
  <2>3. (IF j < p THEN j ELSE j + 1) = (IF k < p THEN k ELSE k + 1)
    BY <2>1, <2>2
  <2>4. QED
    BY <1>1, <2>1, <2>3
<1>7. QED
  BY <1>4, <1>5, <1>6 DEF r

-----------------------------------------------------------------------------
(* Lemmas about a prune.                                                   *)

(* The eviction snapshots a prune starts from. *)
Snaps == [i \in Ids |-> IF i \in Evicted THEN Snapshot(i) ELSE tombstones[i]]

LEMMA NoTombstoneType == NoTombstone \in Snapshots
BY DEF NoTombstone, Snapshots

LEMMA SnapshotType ==
  ASSUME TypeOK, NEW i \in Evicted
  PROVE  /\ Snapshot(i) \in Snapshots
         /\ Snapshot(i) # NoTombstone
         /\ Snapshot(i).at >= task[i].at
<1>1. i \in Ids /\ task[i] \in Task /\ clock \in Nat
  BY DEF TypeOK, Evicted
<1>2. /\ Snapshot(i).state = IF task[i].state = "prepared" THEN "expired"
                                                           ELSE task[i].state
      /\ Snapshot(i).at = IF task[i].state = "prepared" THEN clock
                                                        ELSE task[i].at
      /\ Snapshot(i) = [state |-> Snapshot(i).state, at |-> Snapshot(i).at]
  BY DEF Snapshot
<1>3. CASE task[i].state = "prepared"
  <2>1. task[i].at <= clock
    BY <1>1, <1>3, UploadTasksAssumption
    DEF Evicted, Lapsed, Evictable, PastCutoff, Window, Terminal, Task
  <2>2. QED
    BY <1>1, <1>2, <1>3, <2>1 DEF Snapshots, NoTombstone, Task
<1>4. CASE task[i].state # "prepared"
  <2>1. task[i].state \in Terminal
    BY <1>4 DEF Evicted, Lapsed, Evictable
  <2>2. QED
    BY <1>1, <1>2, <1>4, <2>1 DEF Snapshots, NoTombstone, Task, Terminal
<1>5. QED
  BY <1>3, <1>4

(* What a prune does to a registry of the right type: exactly the evicted  *)
(* handles leave, their snapshots are added, and whatever snapshot is      *)
(* dropped is past the retention window.                                   *)
LEMMA PruneFacts ==
  ASSUME TypeOK, NEW p \in Pruned
  PROVE  /\ RegistryType(p)
         /\ p.tasks = tasks \ Evicted
         /\ \A i \in Ids :
              \/ p.tombstones[i] = Snaps[i]
              \/ /\ p.tombstones[i] = NoTombstone
                 /\ PastCutoff(Snaps[i].at)
         /\ RegistrySynced(Registry) => RegistrySynced(p)
<1> USE DEF Snaps
<1>1. PICK batch \in Batches : p = Swept(batch)
  BY DEF Pruned
<1> DEFINE queue == tombstoneOrder \o batch
           aged(i) == Snaps[i] # NoTombstone /\ PastCutoff(Snaps[i].at)
           ripe == {k \in DOMAIN queue : \A j \in 1..k : aged(queue[j])}
           count == Cardinality(ripe)
           retired == {queue[k] : k \in 1..count}
           fresh == {i \in Evicted : ~IsTombstoned(i)}
<1>2. /\ p.tasks = tasks \ Evicted
      /\ p.tombstones = [i \in Ids |-> IF i \in retired THEN NoTombstone
                                                        ELSE Snaps[i]]
      /\ p.order = SubSeq(queue, count + 1, Len(queue))
  BY <1>1 DEF Swept
<1>3. Evicted \subseteq Ids /\ fresh \subseteq Ids /\ IsFiniteSet(fresh)
  <2>1. Evicted \subseteq Ids /\ fresh \subseteq Ids
    BY DEF TypeOK, Evicted
  <2>2. QED
    BY <2>1, FS_Subset, UploadTasksAssumption
<1>4. batch \in SetToSeqs(fresh)
  BY DEF Batches
<1>5. /\ batch \in Seq(fresh)
      /\ Len(batch) \in Nat
      /\ \A x \in fresh : \E k \in 1..Len(batch) : batch[k] = x
      /\ \A j, k \in 1..Len(batch) : batch[j] = batch[k] => j = k
  BY <1>3, <1>4, EnumerationFacts
<1>6. /\ \A k \in 1..Len(batch) : batch[k] \in fresh
      /\ batch \in Seq(Ids)
  <2>1. \A k \in 1..Len(batch) : batch[k] \in fresh
    BY <1>5, ElementOfSeq
  <2>2. QED
    BY <1>3, <1>5, <2>1
<1>7. tombstoneOrder \in Seq(Ids)
  BY DEF TypeOK
<1>8. /\ queue \in Seq(Ids)
      /\ Len(queue) = Len(tombstoneOrder) + Len(batch)
      /\ \A k \in 1..Len(tombstoneOrder) + Len(batch) :
           queue[k] = IF k <= Len(tombstoneOrder)
                        THEN tombstoneOrder[k]
                        ELSE batch[k - Len(tombstoneOrder)]
  BY <1>6, <1>7, ConcatProperties
<1> HIDE DEF queue, fresh
<1>9. Len(queue) \in Nat /\ DOMAIN queue = 1..Len(queue)
        /\ \A k \in 1..Len(queue) : queue[k] \in Ids
  BY <1>8, LenProperties, ElementOfSeq
<1>10. /\ count \in Nat /\ count <= Len(queue)
       /\ \A k \in 1..count : aged(queue[k])
  <2>1. IsFiniteSet(1..Len(queue)) /\ Cardinality(1..Len(queue)) = Len(queue)
    BY <1>9, FS_Interval
  <2>2. ripe \subseteq 1..Len(queue)
    BY <1>9
  <2>3. IsFiniteSet(ripe) /\ count <= Len(queue) /\ count \in Nat
    BY <2>1, <2>2, FS_Subset, FS_CardinalityType
  <2>4. ASSUME NEW k \in 1..count
        PROVE  k \in ripe
    <3>1. SUFFICES ASSUME k \notin ripe
                   PROVE  FALSE
      OBVIOUS
    <3>2. k \in 1..Len(queue) /\ k - 1 \in Nat
      <4> HIDE DEF count
      <4>1. QED
        BY <1>9, <2>3
    <3>3. ripe \subseteq 1..(k - 1)
      <4>1. SUFFICES ASSUME NEW m \in ripe, m >= k
                     PROVE  FALSE
        BY <2>2, <3>2
      <4>2. \A j \in 1..k : aged(queue[j])
        BY <2>2, <3>2, <4>1
      <4>3. QED
        BY <1>9, <3>1, <3>2, <4>2
    <3>4. IsFiniteSet(1..(k - 1)) /\ Cardinality(1..(k - 1)) = k - 1
      <4>1. /\ IsFiniteSet(1..(k - 1))
            /\ Cardinality(1..(k - 1)) = IF 1 > k - 1 THEN 0 ELSE (k - 1) - 1 + 1
        BY <3>2, FS_Interval
      <4>2. QED
        BY <3>2, <4>1
    <3>5. count <= k - 1
      BY <3>3, <3>4, FS_Subset
    <3>6. QED
      BY <2>3, <3>2, <3>5
  <2>5. \A k \in 1..count : aged(queue[k])
    BY <2>4, <2>2
  <2>6. QED
    BY <2>3, <2>5
<1> HIDE DEF count
<1>11. Snaps \in [Ids -> Snapshots]
  BY <1>3, SnapshotType DEF TypeOK, Snapshots
<1>12. NoTombstone \in Snapshots
  BY NoTombstoneType
<1>13. p.tombstones \in [Ids -> Snapshots]
  BY <1>2, <1>11, <1>12
<1>14. /\ p.order \in Seq(Ids)
       /\ Len(p.order) = Len(queue) - count
       /\ \A k \in 1..(Len(queue) - count) : p.order[k] = queue[count + k]
  <2>1. count + 1 \in Int /\ Len(queue) \in Int
        /\ \A k \in count + 1..Len(queue) : queue[k] \in Ids
    BY <1>9, <1>10
  <2>2. /\ p.order \in Seq(Ids)
        /\ Len(p.order) = IF count + 1 <= Len(queue)
                            THEN Len(queue) - (count + 1) + 1 ELSE 0
        /\ \A k \in 1..(Len(queue) - (count + 1) + 1) :
             p.order[k] = queue[(count + 1) + k - 1]
    BY <1>2, <2>1, SubSeqProperties
  <2>3. /\ Len(queue) \in Nat /\ count \in Nat /\ count <= Len(queue)
        /\ Len(queue) - (count + 1) + 1 = Len(queue) - count
        /\ \A k \in 1..(Len(queue) - count) : (count + 1) + k - 1 = count + k
    BY <1>9, <1>10
  <2>4. Len(p.order) = Len(queue) - count
    <3> DEFINE length == Len(p.order)
               whole == Len(queue)
    <3>1. length = IF count + 1 <= whole THEN whole - (count + 1) + 1 ELSE 0
      BY <2>2
    <3>2. whole \in Nat /\ count \in Nat /\ count <= whole
      BY <2>3
    <3> HIDE DEF length, whole
    <3>3. length = whole - count
      BY <3>1, <3>2
    <3>4. QED
      BY <3>3 DEF length, whole
  <2>5. \A k \in 1..(Len(queue) - count) : p.order[k] = queue[count + k]
    BY <2>2, <2>3
  <2>6. QED
    BY <2>2, <2>4, <2>5
<1>15. RegistryType(p)
  <2>1. p = [tasks |-> p.tasks, tombstones |-> p.tombstones,
             order |-> p.order]
    BY <1>1 DEF Swept
  <2>2. QED
    BY <1>2, <1>13, <1>14, <2>1 DEF RegistryType, TypeOK
<1>16. \A i \in Ids : \/ p.tombstones[i] = Snaps[i]
                      \/ /\ p.tombstones[i] = NoTombstone
                         /\ PastCutoff(Snaps[i].at)
  <2>1. ASSUME NEW i \in Ids, i \in retired
        PROVE  PastCutoff(Snaps[i].at)
    <3>1. PICK k \in 1..count : queue[k] = i
      BY <2>1
    <3>2. aged(i)
      BY <1>10, <3>1
    <3>3. QED
      BY <3>2
  <2>2. ASSUME NEW i \in Ids, i \notin retired
        PROVE  p.tombstones[i] = Snaps[i]
    BY <1>2, <2>2
  <2>3. ASSUME NEW i \in Ids, i \in retired
        PROVE  p.tombstones[i] = NoTombstone
    BY <1>2, <2>3
  <2>4. QED
    BY <2>1, <2>2, <2>3
<1>17. ASSUME RegistrySynced(Registry)
       PROVE  RegistrySynced(p)
  <2>1. /\ \A i \in tasks : tombstones[i] = NoTombstone
        /\ \A i \in Ids : tombstones[i] # NoTombstone
              <=> \E k \in 1..Len(tombstoneOrder) : tombstoneOrder[k] = i
        /\ \A j, k \in 1..Len(tombstoneOrder) :
              tombstoneOrder[j] = tombstoneOrder[k] => j = k
    BY <1>17 DEF RegistrySynced, Registry, Queued
  <2>2. fresh = Evicted
    BY <2>1 DEF fresh, Evicted, IsTombstoned
  <2>3. Len(tombstoneOrder) \in Nat
    BY <1>7, LenProperties
  <2>4. \A i \in Evicted : Snaps[i] # NoTombstone
    BY <1>3, SnapshotType
  <2>5. /\ \A k \in 1..Len(batch) : batch[k] \in Evicted
        /\ \A j \in 1..Len(tombstoneOrder) : tombstoneOrder[j] \notin Evicted
    <3>1. \A j \in 1..Len(tombstoneOrder) : tombstoneOrder[j] \in Ids
      BY <1>7, ElementOfSeq
    <3>2. QED
      BY <1>6, <2>1, <2>2, <3>1 DEF Evicted
  <2>6. /\ \A i : (\E k \in 1..Len(queue) : queue[k] = i)
                 <=> \/ \E k \in 1..Len(tombstoneOrder) : tombstoneOrder[k] = i
                     \/ \E k \in 1..Len(batch) : batch[k] = i
        /\ \A j, k \in 1..Len(queue) : queue[j] = queue[k] => j = k
    <3>1. \A j, k \in 1..Len(batch) : batch[j] = batch[k] => j = k
      BY <1>5
    <3>2. \A j \in 1..Len(tombstoneOrder), k \in 1..Len(batch) :
            tombstoneOrder[j] # batch[k]
      BY <2>5
    <3>3. QED
      BY <1>6, <1>7, <2>1, <3>1, <3>2, AppendFacts DEF queue
  <2>7. ASSUME NEW i \in Ids
        PROVE  Snaps[i] # NoTombstone <=> \E k \in 1..Len(queue) : queue[k] = i
    <3>1. CASE i \in Evicted
      <4>1. \E k \in 1..Len(batch) : batch[k] = i
        BY <1>5, <2>2, <3>1
      <4>2. QED
        BY <2>4, <2>6, <3>1, <4>1
    <3>2. CASE i \notin Evicted
      <4>1. Snaps[i] = tombstones[i]
        BY <3>2
      <4>2. ~ \E k \in 1..Len(batch) : batch[k] = i
        BY <2>5, <3>2
      <4>3. QED
        BY <2>1, <2>6, <4>1, <4>2
    <3>3. QED
      BY <3>1, <3>2
  <2>8. \A i \in p.tasks : p.tombstones[i] = NoTombstone
    BY <1>2, <2>1 DEF TypeOK
  <2>9. ASSUME NEW i \in Ids
        PROVE  p.tombstones[i] # NoTombstone
                 <=> \E k \in 1..Len(p.order) : p.order[k] = i
    <3>1. ASSUME p.tombstones[i] # NoTombstone
          PROVE  \E k \in 1..Len(p.order) : p.order[k] = i
      <4>1. i \notin retired /\ Snaps[i] # NoTombstone
        BY <1>2, <3>1
      <4>2. PICK k \in 1..Len(queue) : queue[k] = i
        BY <2>7, <4>1
      <4>3. k - count \in 1..(Len(queue) - count) /\ count + (k - count) = k
        BY <1>9, <1>10, <4>1, <4>2
      <4>4. QED
        BY <1>14, <4>2, <4>3
    <3>2. ASSUME NEW k \in 1..Len(p.order), p.order[k] = i
          PROVE  p.tombstones[i] # NoTombstone
      <4>1. count + k \in 1..Len(queue) /\ queue[count + k] = i
              /\ count + k > count
        <5>1. k \in 1..(Len(queue) - count)
          BY <1>14, <3>2
        <5>2. count + k \in 1..Len(queue) /\ count + k > count
          BY <1>9, <1>10, <5>1
        <5>3. QED
          BY <1>14, <3>2, <5>1, <5>2
      <4>2. \A m \in 1..count : queue[m] # i
        BY <1>9, <1>10, <2>6, <4>1
      <4>3. i \notin retired
        BY <4>2
      <4>4. QED
        BY <1>2, <2>7, <4>1, <4>3
    <3>3. QED
      BY <3>1, <3>2
  <2>10. ASSUME NEW j \in 1..Len(p.order), NEW k \in 1..Len(p.order),
               p.order[j] = p.order[k]
        PROVE  j = k
    <3>1. count + j \in 1..Len(queue) /\ count + k \in 1..Len(queue)
            /\ queue[count + j] = queue[count + k]
      <4>1. j \in 1..(Len(queue) - count) /\ k \in 1..(Len(queue) - count)
        BY <1>14, <2>10
      <4>2. count + j \in 1..Len(queue) /\ count + k \in 1..Len(queue)
        BY <1>9, <1>10, <4>1
      <4>3. QED
        BY <1>14, <2>10, <4>1, <4>2
    <3>2. count + j = count + k
      BY <2>6, <3>1
    <3>3. QED
      BY <1>10, <3>2
  <2>11. QED
    BY <2>8, <2>9, <2>10 DEF RegistrySynced, Queued
<1>18. QED
  BY <1>2, <1>15, <1>16, <1>17

(* Registering a handle after a prune keeps the registry in order, whether *)
(* the prune itself tombstoned that handle or not.                         *)
LEMMA RegisterFacts ==
  ASSUME NEW p, RegistryType(p), RegistrySynced(p), NEW i \in Ids,
         NEW q, q = Untombstone(Registered(p, i), i)
  PROVE  /\ RegistryType(q)
         /\ RegistrySynced(q)
         /\ q.tasks = p.tasks \cup {i}
         /\ q.tombstones = [p.tombstones EXCEPT ![i] = NoTombstone]
<1> DEFINE S == p.tasks
           T == p.tombstones
           O == p.order
           r == Registered(p, i)
           at == CHOOSE k \in DOMAIN O : O[k] = i
<1>1. /\ p = [tasks |-> S, tombstones |-> T, order |-> O]
      /\ S \subseteq Ids /\ T \in [Ids -> Snapshots] /\ O \in Seq(Ids)
      /\ DOMAIN O = 1..Len(O)
  BY LenProperties DEF RegistryType
<1>2. /\ \A j \in S : T[j] = NoTombstone
      /\ \A j \in Ids : T[j] # NoTombstone <=> \E k \in 1..Len(O) : O[k] = j
      /\ \A j, k \in 1..Len(O) : O[j] = O[k] => j = k
  BY DEF RegistrySynced, Queued
<1> HIDE DEF S, T, O
<1>3. r = [tasks |-> S \cup {i}, tombstones |-> T, order |-> O]
  BY DEF Registered, S, T, O
<1> HIDE DEF r, at
<1>4. q = IF T[i] = NoTombstone
            THEN r
            ELSE [tasks |-> S \cup {i},
                  tombstones |-> [T EXCEPT ![i] = NoTombstone],
                  order |-> RemoveAt(O, at)]
  <2>1. r.tasks = S \cup {i} /\ r.tombstones = T /\ r.order = O
    BY <1>3
  <2>2. at = CHOOSE k \in DOMAIN r.order : r.order[k] = i
    BY <2>1, Zenon DEF at
  <2>3. q = IF r.tombstones[i] = NoTombstone
              THEN r
              ELSE [tasks |-> r.tasks,
                    tombstones |-> [r.tombstones EXCEPT ![i] = NoTombstone],
                    order |-> RemoveAt(r.order, at)]
    BY <2>2, Zenon DEF Untombstone, r
  <2>4. QED
    BY <2>1, <2>3, Zenon
<1>5. CASE T[i] = NoTombstone
  <2>1. q = [tasks |-> S \cup {i}, tombstones |-> T, order |-> O]
    BY <1>3, <1>4, <1>5
  <2>2. RegistryType(q)
    BY <1>1, <2>1 DEF RegistryType
  <2>3. \A j \in S \cup {i} : T[j] = NoTombstone
    BY <1>2, <1>5
  <2>4. RegistrySynced(q)
    BY <1>2, <2>1, <2>3 DEF RegistrySynced, Queued
  <2>5. T = [T EXCEPT ![i] = NoTombstone]
    BY <1>1, <1>5
  <2>6. QED
    BY <2>1, <2>2, <2>4, <2>5 DEF S, T
<1>6. CASE T[i] # NoTombstone
  <2>1. q = [tasks |-> S \cup {i},
             tombstones |-> [T EXCEPT ![i] = NoTombstone],
             order |-> RemoveAt(O, at)]
    BY <1>3, <1>4, <1>6
  <2>2. at \in 1..Len(O) /\ O[at] = i
    BY <1>1, <1>2, <1>6 DEF at
  <2> DEFINE R == RemoveAt(O, at)
             U == [T EXCEPT ![i] = NoTombstone]
  <2>3. /\ R \in Seq(Ids)
        /\ \A x \in Ids : (\E k \in 1..Len(R) : R[k] = x)
                          <=> x # i /\ \E k \in 1..Len(O) : O[k] = x
        /\ \A j, k \in 1..Len(R) : R[j] = R[k] => j = k
    <3>1. O \in Seq(Ids) /\ at \in 1..Len(O)
            /\ \A j, k \in 1..Len(O) : O[j] = O[k] => j = k
      BY <1>1, <1>2, <2>2
    <3>2. /\ R \in Seq(Ids)
          /\ \A x \in Ids : (\E k \in 1..Len(R) : R[k] = x)
                            <=> x # O[at] /\ \E k \in 1..Len(O) : O[k] = x
          /\ \A j, k \in 1..Len(R) : R[j] = R[k] => j = k
      BY <3>1, RemoveAtFacts, Zenon
    <3>3. QED
      BY <2>2, <3>2, Zenon
  <2> HIDE DEF R
  <2>4. U \in [Ids -> Snapshots]
    BY <1>1, NoTombstoneType
  <2>5. \A j \in Ids : U[j] = IF j = i THEN NoTombstone ELSE T[j]
    BY <1>1
  <2> HIDE DEF U
  <2>6. q = [tasks |-> S \cup {i}, tombstones |-> U, order |-> R]
    BY <2>1 DEF R, U
  <2>7. RegistryType(q)
    BY <1>1, <2>3, <2>4, <2>6 DEF RegistryType
  <2>8. \A j \in S \cup {i} : U[j] = NoTombstone
    BY <1>1, <1>2, <2>5
  <2>9. \A j \in Ids : U[j] # NoTombstone <=> \E k \in 1..Len(R) : R[k] = j
    BY <1>2, <2>3, <2>5
  <2>10. RegistrySynced(q)
    <3>1. q.tasks = S \cup {i} /\ q.tombstones = U /\ q.order = R
      BY <2>6
    <3>2. QED
      BY <2>3, <2>8, <2>9, <3>1 DEF RegistrySynced, Queued
  <2>11. QED
    BY <2>6, <2>7, <2>10 DEF S, T, U
<1>7. QED
  BY <1>5, <1>6

-----------------------------------------------------------------------------
(* The inductive invariant.                                                *)

(* A handle that newTaskID has not drawn yet is nowhere to be found. *)
Unused(i) == /\ i \notin tasks
             /\ tombstones[i] = NoTombstone

(* How far the worker is, in terms of the state the task may have: the     *)
(* worker can be overtaken by a Cancel or the watchdog, never by anything  *)
(* that would make a finished task active again.                           *)
Overtaken(i) == task[i].state = "cancelled" \/ i \in timedOut

WorkerMatches(i) ==
  /\ worker[i] = "idle"
       => task[i].state \in {"none", "prepared", "cancelled"}
  /\ worker[i] = "spawned" => task[i].state = "queued" \/ Overtaken(i)
  /\ worker[i] \in {"exec", "returned", "stopped"}
       => task[i].state = "running" \/ Overtaken(i)
  /\ worker[i] \in {"releasing", "done"} => task[i].state \in Terminal
  /\ i \in timedOut => task[i].state = "failed"

IInv ==
  /\ TypeOK
  /\ RegistrySynced(Registry)
  /\ \A i \in Ids : task[i].state = "none" => Unused(i)
  /\ \A i \in Ids : WorkerMatches(i)

-----------------------------------------------------------------------------
(* How the steps keep it.                                                  *)

LEMMA InitIInv == Init => IInv
<1> SUFFICES ASSUME Init
             PROVE  IInv
  OBVIOUS
<1> USE DEF Init
<1>1. TypeOK
  <2>1. tombstones \in [Ids -> Snapshots]
    BY NoTombstoneType
  <2>2. task \in [Ids -> Task]
    BY DEF Task, NoTask
  <2>3. tombstoneOrder \in Seq(Ids)
    BY EmptySeq
  <2>4. QED
    BY <2>1, <2>2, <2>3 DEF TypeOK, Snapshots
<1>2. Len(tombstoneOrder) = 0
  BY EmptySeq
<1>3. RegistrySynced(Registry)
  BY <1>2 DEF RegistrySynced, Queued, Registry
<1>4. \A i \in Ids : Unused(i) /\ WorkerMatches(i)
  BY DEF Unused, WorkerMatches, NoTask
<1>5. QED
  BY <1>1, <1>3, <1>4 DEF IInv

(* A step that leaves the registry alone and concerns one handle.          *)
LEMMA LocalStep ==
  ASSUME IInv, UNCHANGED registry, TypeOK', NEW i \in Ids,
         \A j \in Ids : j # i => /\ task'[j] = task[j]
                                 /\ worker'[j] = worker[j]
                                 /\ j \in timedOut' <=> j \in timedOut,
         task'[i].state = "none" => task[i].state = "none",
         WorkerMatches(i)'
  PROVE  IInv'
<1>1. RegistrySynced(Registry)'
  <2>1. Registry' = Registry
    BY DEF Registry, registry
  <2>2. QED
    BY <2>1 DEF IInv, RegistrySynced, Queued
<1>2. \A j \in Ids : task'[j].state = "none" => Unused(j)'
  BY DEF IInv, Unused, registry
<1>3. ASSUME NEW j \in Ids
      PROVE  WorkerMatches(j)'
  <2>1. CASE j = i
    BY <2>1
  <2>2. CASE j # i
    BY <2>2 DEF IInv, WorkerMatches, Overtaken
  <2>3. QED
    BY <2>1, <2>2
<1>4. QED
  BY <1>1, <1>2, <1>3 DEF IInv

(* A prune, and the registration of a handle after it, keep the registry   *)
(* in order and disturb no handle that is not registered.                  *)
LEMMA PruneStep ==
  ASSUME IInv, NEW p \in Pruned
  PROVE  /\ RegistryType(p) /\ RegistrySynced(p)
         /\ \A i \in Ids : Unused(i) => /\ i \notin p.tasks
                                        /\ p.tombstones[i] = NoTombstone
<1>1. TypeOK /\ RegistrySynced(Registry)
  BY DEF IInv
<1>2. /\ RegistryType(p) /\ RegistrySynced(p)
      /\ p.tasks = tasks \ Evicted
      /\ \A i \in Ids : p.tombstones[i] \in {Snaps[i], NoTombstone}
  BY <1>1, PruneFacts
<1>3. \A i \in Ids : i \notin tasks => Snaps[i] = tombstones[i]
  BY DEF Snaps, Evicted
<1>4. QED
  BY <1>2, <1>3 DEF Unused

LEMMA SettleStep ==
  ASSUME NEW p, RegistryType(p), RegistrySynced(p), Settle(p)
  PROVE  /\ tasks' \subseteq Ids
         /\ tombstones' \in [Ids -> Snapshots]
         /\ tombstoneOrder' \in Seq(Ids)
         /\ RegistrySynced(Registry)'
<1>1. tasks' = p.tasks /\ tombstones' = p.tombstones
        /\ tombstoneOrder' = p.order
  BY DEF Settle
<1>2. p = [tasks |-> tasks', tombstones |-> tombstones',
           order |-> tombstoneOrder']
  BY <1>1 DEF RegistryType
<1>3. Registry' = p
  BY <1>2 DEF Registry
<1>4. QED
  BY <1>1, <1>3 DEF RegistryType, RegistrySynced, Queued

(* beginLocked, for a new handle (Start) or a prepared one (Fulfill).      *)
LEMMA BeginStep ==
  ASSUME IInv, NEW i \in Ids, task[i].state \in {"none", "prepared"}, Begin(i)
  PROVE  IInv'
<1>1. PICK p \in Pruned :
        \/ /\ SlotFree(p.tasks)
           /\ Settle(Untombstone(Registered(p, i), i))
           /\ task' = [task EXCEPT ![i] = [state |-> "queued", err |-> "none",
                                           at |-> 0, ttl |-> 0]]
           /\ worker' = [worker EXCEPT ![i] = "spawned"]
           /\ ctx' = [ctx EXCEPT ![i] = "live"]
           /\ UNCHANGED <<clock, result, watchdog, timedOut, canceller, closes>>
        \/ /\ ~SlotFree(p.tasks)
           /\ Settle(p)
           /\ UNCHANGED <<clock, task, worker, result, watchdog, timedOut, ctx,
                          canceller, closes>>
  BY DEF Begin
<1>2. /\ RegistryType(p) /\ RegistrySynced(p)
      /\ \A j \in Ids : Unused(j) => j \notin p.tasks
                                       /\ p.tombstones[j] = NoTombstone
  BY PruneStep
<1>3. CASE /\ Settle(Untombstone(Registered(p, i), i))
           /\ task' = [task EXCEPT ![i] = [state |-> "queued", err |-> "none",
                                           at |-> 0, ttl |-> 0]]
           /\ worker' = [worker EXCEPT ![i] = "spawned"]
           /\ ctx' = [ctx EXCEPT ![i] = "live"]
           /\ UNCHANGED <<clock, result, watchdog, timedOut, canceller, closes>>
  <2> DEFINE q == Untombstone(Registered(p, i), i)
  <2>1. /\ RegistryType(q) /\ RegistrySynced(q)
        /\ q.tasks = p.tasks \cup {i}
        /\ q.tombstones = [p.tombstones EXCEPT ![i] = NoTombstone]
    BY <1>2, RegisterFacts
  <2> HIDE DEF q
  <2>2. Settle(q)
    BY <1>3 DEF q
  <2>3. /\ tasks' \subseteq Ids
        /\ tombstones' \in [Ids -> Snapshots]
        /\ tombstoneOrder' \in Seq(Ids)
        /\ RegistrySynced(Registry)'
    BY <2>1, <2>2, SettleStep
  <2>4. tasks' = p.tasks \cup {i}
          /\ tombstones' = [p.tombstones EXCEPT ![i] = NoTombstone]
    BY <2>1, <2>2 DEF Settle
  <2>5. TypeOK'
    <3>1. task' \in [Ids -> Task]
      BY <1>3 DEF IInv, TypeOK, Task, Active
    <3>2. QED
      BY <1>3, <2>3, <3>1 DEF IInv, TypeOK, Snapshots
  <2>6. ASSUME NEW j \in Ids, task'[j].state = "none"
        PROVE  Unused(j)'
    <3>1. j # i /\ task[j].state = "none"
      BY <1>3, <2>6 DEF IInv, TypeOK
    <3>2. p.tombstones \in [Ids -> Snapshots]
      BY <1>2 DEF RegistryType
    <3>3. QED
      BY <1>2, <2>4, <3>1, <3>2 DEF IInv, Unused
  <2>7. ASSUME NEW j \in Ids
        PROVE  WorkerMatches(j)'
    <3>1. CASE j = i
      BY <1>3, <3>1 DEF IInv, TypeOK, WorkerMatches, Overtaken
    <3>2. CASE j # i
      BY <1>3, <3>2 DEF IInv, TypeOK, WorkerMatches, Overtaken
    <3>3. QED
      BY <3>1, <3>2
  <2>8. QED
    BY <2>3, <2>5, <2>6, <2>7 DEF IInv
<1>4. CASE /\ Settle(p)
           /\ UNCHANGED <<clock, task, worker, result, watchdog, timedOut, ctx,
                          canceller, closes>>
  <2>1. /\ tasks' \subseteq Ids
        /\ tombstones' \in [Ids -> Snapshots]
        /\ tombstoneOrder' \in Seq(Ids)
        /\ RegistrySynced(Registry)'
    BY <1>2, <1>4, SettleStep
  <2>2. TypeOK'
    BY <1>4, <2>1 DEF IInv, TypeOK, Snapshots
  <2>3. \A j \in Ids : task'[j].state = "none" => Unused(j)'
    BY <1>2, <1>4 DEF IInv, Unused, Settle
  <2>4. \A j \in Ids : WorkerMatches(j)'
    BY <1>4 DEF IInv, WorkerMatches, Overtaken
  <2>5. QED
    BY <2>1, <2>2, <2>3, <2>4 DEF IInv
<1>5. QED
  BY <1>1, <1>3, <1>4

(* Get and List. *)
LEMMA PollStep == ASSUME IInv, Poll PROVE IInv'
<1>1. PICK p \in Pruned : Settle(p)
  BY DEF Poll
<1>2. UNCHANGED <<clock, task, worker, result, watchdog, timedOut, ctx,
                  canceller, closes>>
  BY DEF Poll
<1>3. /\ RegistryType(p) /\ RegistrySynced(p)
      /\ \A j \in Ids : Unused(j) => j \notin p.tasks
                                       /\ p.tombstones[j] = NoTombstone
  BY PruneStep
<1>4. /\ tasks' \subseteq Ids
      /\ tombstones' \in [Ids -> Snapshots]
      /\ tombstoneOrder' \in Seq(Ids)
      /\ RegistrySynced(Registry)'
  BY <1>1, <1>3, SettleStep
<1>5. TypeOK'
  BY <1>2, <1>4 DEF IInv, TypeOK, Snapshots
<1>6. \A j \in Ids : task'[j].state = "none" => Unused(j)'
  BY <1>1, <1>2, <1>3 DEF IInv, Unused, Settle
<1>7. \A j \in Ids : WorkerMatches(j)'
  BY <1>2 DEF IInv, WorkerMatches, Overtaken
<1>8. QED
  BY <1>4, <1>5, <1>6, <1>7 DEF IInv

LEMMA PrepareStep ==
  ASSUME IInv, NEW i \in Ids, NEW ttl \in EndpointTTLs, Prepare(i, ttl)
  PROVE  IInv'
<1>1. PICK p \in Pruned :
        \/ /\ Settle(Registered(p, i))
           /\ task' = [task EXCEPT ![i] = [state |-> "prepared", err |-> "none",
                                           at |-> clock, ttl |-> ttl]]
        \/ Settle(p) /\ UNCHANGED task
  BY DEF Prepare
<1>2. /\ task[i].state = "none"
      /\ UNCHANGED <<clock, worker, result, watchdog, timedOut, ctx, canceller,
                     closes>>
  BY DEF Prepare
<1>3. /\ RegistryType(p) /\ RegistrySynced(p)
      /\ \A j \in Ids : Unused(j) => j \notin p.tasks
                                       /\ p.tombstones[j] = NoTombstone
  BY PruneStep
<1>4. CASE /\ Settle(Registered(p, i))
           /\ task' = [task EXCEPT ![i] = [state |-> "prepared", err |-> "none",
                                           at |-> clock, ttl |-> ttl]]
  <2> DEFINE q == Registered(p, i)
  <2>1. p.tombstones[i] = NoTombstone
    BY <1>2, <1>3 DEF IInv
  <2>2. q = [tasks |-> p.tasks \cup {i}, tombstones |-> p.tombstones,
             order |-> p.order]
    BY DEF Registered
  <2> HIDE DEF q
  <2>3. RegistryType(q) /\ RegistrySynced(q)
    <3>1. RegistryType(q)
      BY <1>3, <2>2 DEF RegistryType
    <3>2. q.tasks = p.tasks \cup {i} /\ q.tombstones = p.tombstones
            /\ q.order = p.order
      BY <2>2
    <3>3. QED
      BY <1>3, <2>1, <3>1, <3>2 DEF RegistrySynced, Queued
  <2>4. Settle(q)
    BY <1>4 DEF q
  <2>5. /\ tasks' \subseteq Ids
        /\ tombstones' \in [Ids -> Snapshots]
        /\ tombstoneOrder' \in Seq(Ids)
        /\ RegistrySynced(Registry)'
    BY <2>3, <2>4, SettleStep
  <2>6. tasks' = p.tasks \cup {i} /\ tombstones' = p.tombstones
    BY <2>2, <2>4 DEF Settle
  <2>7. TypeOK'
    <3>1. [state |-> "prepared", err |-> "none", at |-> clock, ttl |-> ttl]
            \in Task
      BY UploadTasksAssumption DEF IInv, TypeOK, Task
    <3>2. task' \in [Ids -> Task]
      BY <1>4, <3>1 DEF IInv, TypeOK
    <3>3. QED
      BY <1>2, <2>5, <3>2 DEF IInv, TypeOK, Snapshots
  <2>8. ASSUME NEW j \in Ids, task'[j].state = "none"
        PROVE  Unused(j)'
    <3>1. j # i /\ task[j].state = "none"
      BY <1>4, <2>8 DEF IInv, TypeOK
    <3>2. QED
      BY <1>3, <2>6, <3>1 DEF IInv, Unused
  <2>9. ASSUME NEW j \in Ids
        PROVE  WorkerMatches(j)'
    <3>1. CASE j = i
      BY <1>2, <1>4, <3>1 DEF IInv, TypeOK, WorkerMatches, Overtaken, Terminal
    <3>2. CASE j # i
      BY <1>2, <1>4, <3>2 DEF IInv, TypeOK, WorkerMatches, Overtaken
    <3>3. QED
      BY <3>1, <3>2
  <2>10. QED
    BY <2>5, <2>7, <2>8, <2>9 DEF IInv
<1>5. CASE Settle(p) /\ UNCHANGED task
  <2>1. Poll
    BY <1>2, <1>5 DEF Poll
  <2>2. QED
    BY <2>1, PollStep
<1>6. QED
  BY <1>1, <1>4, <1>5

(* One step per action of Next. *)
LEMMA NextIInv == IInv /\ [Next]_vars => IInv'
<1> SUFFICES ASSUME IInv, [Next]_vars
             PROVE  IInv'
  OBVIOUS
<1> USE DEF registry
<1>1. ASSUME NEW i \in Ids, Start(i)
      PROVE  IInv'
  BY <1>1, BeginStep DEF Start
<1>2. ASSUME NEW i \in Ids, Fulfill(i)
      PROVE  IInv'
  BY <1>2, BeginStep DEF Fulfill, Claimable
<1>3. ASSUME NEW i \in Ids, NEW ttl \in EndpointTTLs, Prepare(i, ttl)
      PROVE  IInv'
  BY <1>3, PrepareStep
<1>4. CASE Poll
  BY <1>4, PollStep
<1>5. ASSUME NEW i \in Ids, Cancel(i)
      PROVE  IInv'
  <2>1. TypeOK'
    BY <1>5 DEF Cancel, Finish, IInv, TypeOK, Task, Active, Terminal
  <2>2. WorkerMatches(i)'
    BY <1>5 DEF Cancel, Finish, IInv, TypeOK, WorkerMatches, Overtaken,
       Active, Terminal
  <2>3. QED
    BY <1>5, <2>1, <2>2, LocalStep DEF Cancel, Finish, IInv, TypeOK
<1>6. ASSUME NEW i \in Ids, CancelContext(i)
      PROVE  IInv'
  <2>1. TypeOK'
    BY <1>6 DEF CancelContext, CancelCtx, IInv, TypeOK
  <2>2. WorkerMatches(i)'
    BY <1>6 DEF CancelContext, CancelCtx, IInv, TypeOK, WorkerMatches, Overtaken,
       Active, Terminal
  <2>3. QED
    BY <1>6, <2>1, <2>2, LocalStep DEF CancelContext, CancelCtx, IInv, TypeOK
<1>7. ASSUME NEW i \in Ids, CancelReader(i)
      PROVE  IInv'
  <2>1. TypeOK'
    BY <1>7 DEF CancelReader, CloseReader, IInv, TypeOK
  <2>2. WorkerMatches(i)'
    BY <1>7 DEF CancelReader, CloseReader, IInv, TypeOK, WorkerMatches, Overtaken,
       Active, Terminal
  <2>3. QED
    BY <1>7, <2>1, <2>2, LocalStep DEF CancelReader, CloseReader, IInv, TypeOK
<1>8. ASSUME NEW i \in Ids, WatchdogFires(i)
      PROVE  IInv'
  <2>1. TypeOK'
    BY <1>8 DEF WatchdogFires, CloseReader, IInv, TypeOK
  <2>2. WorkerMatches(i)'
    BY <1>8 DEF WatchdogFires, CloseReader, IInv, TypeOK, WorkerMatches, Overtaken,
       Active, Terminal
  <2>3. QED
    BY <1>8, <2>1, <2>2, LocalStep DEF WatchdogFires, CloseReader, IInv, TypeOK
<1>9. ASSUME NEW i \in Ids, WatchdogCancels(i)
      PROVE  IInv'
  <2>1. TypeOK'
    BY <1>9 DEF WatchdogCancels, CancelCtx, IInv, TypeOK
  <2>2. WorkerMatches(i)'
    BY <1>9 DEF WatchdogCancels, CancelCtx, IInv, TypeOK, WorkerMatches, Overtaken,
       Active, Terminal
  <2>3. QED
    BY <1>9, <2>1, <2>2, LocalStep DEF WatchdogCancels, CancelCtx, IInv, TypeOK
<1>10. ASSUME NEW i \in Ids, WatchdogFails(i)
      PROVE  IInv'
  <2>1. /\ watchdog' = [watchdog EXCEPT ![i] = "done"]
        /\ UNCHANGED <<clock, registry, result, worker, ctx, canceller, closes>>
    BY <1>10 DEF WatchdogFails
  <2>2. CASE UNCHANGED <<task, timedOut>>
    <3>1. TypeOK' /\ WorkerMatches(i)'
      BY <2>1, <2>2 DEF IInv, TypeOK, WorkerMatches, Overtaken
    <3>2. QED
      BY <2>1, <2>2, <3>1, LocalStep
  <2>3. CASE /\ task[i].state \in Active
             /\ timedOut' = timedOut \cup {i}
             /\ Finish(i, "failed", "timeout")
    <3>1. task' = [task EXCEPT ![i] = [state |-> "failed", err |-> "timeout",
                                       at |-> clock, ttl |-> task[i].ttl]]
      BY <2>3 DEF Finish
    <3>2. task' \in [Ids -> Task]
      BY <3>1 DEF IInv, TypeOK, Task, Terminal
    <3>3. TypeOK'
      BY <2>1, <2>3, <3>2 DEF IInv, TypeOK
    <3>4. WorkerMatches(i)'
      BY <2>1, <2>3, <3>1 DEF IInv, TypeOK, WorkerMatches, Overtaken, Active,
         Terminal
    <3>5. \A j \in Ids : j # i => task'[j] = task[j]
      BY <3>1 DEF IInv, TypeOK
    <3>6. task'[i].state # "none"
      BY <3>1 DEF IInv, TypeOK
    <3>7. QED
      BY <2>1, <2>3, <3>3, <3>4, <3>5, <3>6, LocalStep
  <2>4. QED
    BY <1>10, <2>2, <2>3 DEF WatchdogFails, ForceFail
<1>11. ASSUME NEW i \in Ids, Deadline(i)
      PROVE  IInv'
  <2>1. TypeOK'
    BY <1>11 DEF Deadline, CancelCtx, IInv, TypeOK
  <2>2. WorkerMatches(i)'
    BY <1>11 DEF Deadline, CancelCtx, IInv, TypeOK, WorkerMatches, Overtaken,
       Active, Terminal
  <2>3. QED
    BY <1>11, <2>1, <2>2, LocalStep DEF Deadline, CancelCtx, IInv, TypeOK
<1>12. ASSUME NEW i \in Ids, Run(i)
      PROVE  IInv'
  <2>1. TypeOK'
    BY <1>12 DEF Run, IInv, TypeOK, Task, Active, Terminal
  <2>2. WorkerMatches(i)'
    BY <1>12 DEF Run, IInv, TypeOK, WorkerMatches, Overtaken,
       Active, Terminal
  <2>3. QED
    BY <1>12, <2>1, <2>2, LocalStep DEF Run, IInv, TypeOK
<1>13. ASSUME NEW i \in Ids, Bail(i)
      PROVE  IInv'
  <2>1. TypeOK'
    BY <1>13 DEF Bail, IInv, TypeOK
  <2>2. WorkerMatches(i)'
    BY <1>13 DEF Bail, IInv, TypeOK, WorkerMatches, Overtaken,
       Active, Terminal
  <2>3. QED
    BY <1>13, <2>1, <2>2, LocalStep DEF Bail, IInv, TypeOK
<1>14. ASSUME NEW i \in Ids, ExecReturns(i)
      PROVE  IInv'
  <2>1. TypeOK'
    BY <1>14 DEF ExecReturns, IInv, TypeOK
  <2>2. WorkerMatches(i)'
    BY <1>14 DEF ExecReturns, IInv, TypeOK, WorkerMatches, Overtaken,
       Active, Terminal
  <2>3. QED
    BY <1>14, <2>1, <2>2, LocalStep DEF ExecReturns, IInv, TypeOK
<1>15. ASSUME NEW i \in Ids, StopWatchdog(i)
      PROVE  IInv'
  <2>1. closes' \in [Ids -> Nat] /\ watchdog' \in [Ids -> {"idle", "armed",
                                  "fired", "locking", "done", "stopped"}]
    <3>1. CASE /\ watchdog' = [watchdog EXCEPT ![i] = "stopped"]
               /\ UNCHANGED closes
      BY <3>1 DEF IInv, TypeOK
    <3>2. CASE CloseReader(i) /\ UNCHANGED watchdog
      BY <3>2 DEF CloseReader, IInv, TypeOK
    <3>3. QED
      BY <1>15, <3>1, <3>2 DEF StopWatchdog
  <2>2. TypeOK'
    BY <1>15, <2>1 DEF StopWatchdog, IInv, TypeOK
  <2>3. WorkerMatches(i)'
    BY <1>15 DEF StopWatchdog, IInv, TypeOK, WorkerMatches, Overtaken
  <2>4. QED
    BY <1>15, <2>2, <2>3, LocalStep DEF StopWatchdog, IInv, TypeOK
<1>16. ASSUME NEW i \in Ids, Complete(i)
      PROVE  IInv'
  <2>1. /\ worker[i] = "stopped"
        /\ worker' = [worker EXCEPT ![i] = "releasing"]
        /\ result' = [result EXCEPT ![i] = "none"]
        /\ UNCHANGED <<clock, registry, watchdog, timedOut, ctx, canceller,
                       closes>>
    BY <1>16 DEF Complete
  <2>2. CASE Aborted(i) /\ UNCHANGED task
    <3>1. TypeOK'
      BY <2>1, <2>2 DEF IInv, TypeOK
    <3>2. WorkerMatches(i)'
      BY <2>1, <2>2 DEF IInv, TypeOK, WorkerMatches, Aborted, Overtaken, Terminal
    <3>3. QED
      BY <2>1, <2>2, <3>1, <3>2, LocalStep DEF IInv, TypeOK
  <2>3. ASSUME ~Aborted(i), NEW state \in {"completed", "failed"},
               NEW err \in {"none", "timeout", "own"}, Finish(i, state, err)
        PROVE  IInv'
    <3>1. task' = [task EXCEPT ![i] = [state |-> state, err |-> err,
                                       at |-> clock, ttl |-> task[i].ttl]]
      BY <2>3 DEF Finish
    <3>2. task' \in [Ids -> Task]
      BY <3>1 DEF IInv, TypeOK, Task, Terminal
    <3>3. TypeOK'
      BY <2>1, <3>2 DEF IInv, TypeOK
    <3>4. i \notin timedOut
      BY <2>3 DEF Aborted
    <3>5. WorkerMatches(i)'
      BY <2>1, <3>1, <3>4 DEF IInv, TypeOK, WorkerMatches, Terminal
    <3>6. /\ \A j \in Ids : j # i => task'[j] = task[j] /\ worker'[j] = worker[j]
          /\ task'[i].state # "none"
      BY <2>1, <3>1 DEF IInv, TypeOK
    <3>7. QED
      BY <2>1, <3>3, <3>5, <3>6, LocalStep
  <2>4. task[i].err \in {"none", "timeout", "own"}
    BY DEF IInv, TypeOK, Task
  <2>5. QED
    BY <1>16, <2>2, <2>3, <2>4 DEF Complete
<1>17. ASSUME NEW i \in Ids, Release(i)
      PROVE  IInv'
  <2>1. TypeOK'
    BY <1>17 DEF Release, CloseReader, CancelCtx, IInv, TypeOK
  <2>2. WorkerMatches(i)'
    BY <1>17 DEF Release, CloseReader, CancelCtx, IInv, TypeOK, WorkerMatches, Overtaken,
       Active, Terminal
  <2>3. QED
    BY <1>17, <2>1, <2>2, LocalStep DEF Release, CloseReader, CancelCtx, IInv, TypeOK
<1>18. CASE Tick
  <2>1. TypeOK'
    BY <1>18 DEF Tick, IInv, TypeOK
  <2>2. Registry' = Registry
    BY <1>18 DEF Tick, Registry
  <2>3. QED
    BY <1>18, <2>1, <2>2 DEF Tick, IInv, RegistrySynced, Queued, Unused,
       WorkerMatches, Overtaken
<1>19. CASE UNCHANGED vars
  <2>1. Registry' = Registry
    BY <1>19 DEF vars, Registry
  <2>2. QED
    BY <1>19, <2>1 DEF vars, IInv, TypeOK, RegistrySynced, Queued, Unused,
       WorkerMatches, Overtaken
<1>20. QED
  BY <1>1, <1>2, <1>3, <1>4, <1>5, <1>6, <1>7, <1>8, <1>9, <1>10, <1>11, <1>12, <1>13, <1>14, <1>15, <1>16, <1>17, <1>18, <1>19
  DEF Next, Client, Unattended

-----------------------------------------------------------------------------
(* The theorems.                                                           *)

(* The inductive invariant of the manager holds in every reachable state:  *)
(* the shape of registry and FIFO, one queue position per tombstone, and   *)
(* what each worker, canceller and outcome implies for its task.           *)
THEOREM Invariance == Spec => []IInv
<1>1. Init => IInv
  BY InitIInv
<1>2. IInv /\ [Next]_vars => IInv'
  BY NextIInv
<1>3. QED
  BY <1>1, <1>2, PTL DEF Spec

(* Type correctness: no interleaving takes a field out of its range.       *)
THEOREM TypeCorrect == Spec => []TypeOK
<1>1. IInv => TypeOK
  BY DEF IInv
<1>2. QED
  BY <1>1, Invariance, PTL

(* The FIFO and the tombstone map of pruneLocked agree in every reachable  *)
(* state, and no live handle is tombstoned: untombstoneLocked finds what   *)
(* it removes, and a handle is never reported from a stale snapshot.       *)
THEOREM TombstonesStaySynced == Spec => []TombstonesInSync
<1>1. IInv => TombstonesInSync
  <2> SUFFICES ASSUME IInv
               PROVE  TombstonesInSync
    OBVIOUS
  <2>1. /\ \A i \in tasks : tombstones[i] = NoTombstone
        /\ \A i \in Ids : tombstones[i] # NoTombstone
              <=> \E k \in 1..Len(tombstoneOrder) : tombstoneOrder[k] = i
        /\ \A j, k \in 1..Len(tombstoneOrder) :
              tombstoneOrder[j] = tombstoneOrder[k] => j = k
    BY DEF IInv, RegistrySynced, Registry, Queued
  <2>2. DOMAIN tombstoneOrder = 1..Len(tombstoneOrder)
    BY LenProperties DEF IInv, TypeOK
  <2>3. \A i \in Ids : IsTombstoned(i) <=> i \in Range(tombstoneOrder)
    BY <2>1, <2>2 DEF IsTombstoned, Range
  <2>4. IsInjective(tombstoneOrder)
    BY <2>1, <2>2 DEF IsInjective
  <2>5. QED
    BY <2>1, <2>3, <2>4 DEF TombstonesInSync, IsTombstoned
<1>2. QED
  BY <1>1, Invariance, PTL

(* An outcome is recorded once: whoever of Cancel, the watchdog and the    *)
(* completion takes the lock first decides, and a late one changes         *)
(* nothing.  What the completion reads is not stale, because a worker past *)
(* its executor finds the task running or overtaken (WorkerMatches).       *)
THEOREM OutcomesAreFinal == Spec => OutcomeIsFinal
<1> DEFINE Unmoved == \A i \in Ids : task[i].state \in Terminal => task'[i] = task[i]
<1>1. ASSUME IInv, [Next]_vars
      PROVE  [Unmoved]_vars
  <2>0. ASSUME NEW i \in Ids, task[i].state \notin Terminal,
               NEW v, task' = [task EXCEPT ![i] = v]
        PROVE  Unmoved
    BY <1>1, <2>0 DEF IInv, TypeOK
  <2> HIDE DEF Unmoved
  <2>9. ASSUME UNCHANGED task
        PROVE  Unmoved
    BY <2>9 DEF Unmoved
  <2>1. ASSUME NEW i \in Ids, task[i].state \in {"none", "prepared"}, Begin(i)
        PROVE  Unmoved
    <3>1. task[i].state \notin Terminal
      BY <2>1 DEF Terminal
    <3>2. \/ UNCHANGED task
          \/ task' = [task EXCEPT ![i] = [state |-> "queued", err |-> "none",
                                          at |-> 0, ttl |-> 0]]
      BY <2>1 DEF Begin
    <3>3. QED
      BY <2>0, <2>9, <3>1, <3>2
  <2>2. ASSUME NEW i \in Ids, Client(i)
        PROVE  Unmoved
    <3>1. CASE Start(i) \/ Fulfill(i)
      BY <2>1, <3>1 DEF Start, Fulfill, Claimable
    <3>2. CASE Cancel(i)
      <4>1. task[i].state \notin Terminal
        BY <3>2 DEF Cancel, Active, Terminal
      <4>2. QED
        BY <2>0, <3>2, <4>1 DEF Cancel, Finish
    <3>3. ASSUME NEW ttl \in EndpointTTLs, Prepare(i, ttl)
          PROVE  Unmoved
      <4>1. task[i].state \notin Terminal
        BY <3>3 DEF Prepare, Terminal
      <4>2. \/ UNCHANGED task
            \/ task' = [task EXCEPT ![i] = [state |-> "prepared", err |-> "none",
                                            at |-> clock, ttl |-> ttl]]
        BY <3>3 DEF Prepare
      <4>3. QED
        BY <2>0, <2>9, <4>1, <4>2
    <3>4. QED
      BY <2>2, <3>1, <3>2, <3>3 DEF Client
  <2>3. ASSUME NEW i \in Ids, Unattended(i)
        PROVE  Unmoved
    <3>1. CASE Run(i)
      <4>1. task[i].state \notin Terminal
        BY <3>1 DEF Run, Terminal
      <4>2. QED
        BY <2>0, <3>1, <4>1 DEF Run
    <3>2. CASE WatchdogFails(i)
      <4>1. \/ UNCHANGED task
            \/ task[i].state \in Active /\ Finish(i, "failed", "timeout")
        BY <3>2 DEF WatchdogFails, ForceFail
      <4>2. task[i].state \in Active => task[i].state \notin Terminal
        BY DEF Active, Terminal
      <4>3. QED
        BY <2>0, <2>9, <4>1, <4>2 DEF Finish
    <3>3. CASE Complete(i)
      <4>1. CASE UNCHANGED task
        BY <2>9, <4>1
      <4>2. CASE ~Aborted(i)
        <5>1. task[i].state = "running"
          <6>1. WorkerMatches(i) /\ worker[i] = "stopped"
            BY <1>1, <3>3 DEF IInv, Complete
          <6>2. QED
            BY <4>2, <6>1 DEF WorkerMatches, Overtaken, Aborted
        <5>2. task[i].state \notin Terminal
          BY <5>1 DEF Terminal
        <5>3. QED
          BY <2>0, <2>9, <3>3, <5>2 DEF Complete, Finish
      <4>3. QED
        BY <3>3, <4>1, <4>2 DEF Complete
    <3>4. CASE \/ Bail(i) \/ StopWatchdog(i) \/ Release(i) \/ WatchdogFires(i)
               \/ WatchdogCancels(i) \/ CancelContext(i) \/ CancelReader(i)
      BY <2>9, <3>4 DEF Bail, StopWatchdog, Release, WatchdogFires,
         WatchdogCancels, CancelContext, CancelReader
    <3>5. QED
      BY <2>3, <3>1, <3>2, <3>3, <3>4 DEF Unattended
  <2>4. CASE \/ Poll \/ Tick \/ UNCHANGED vars
             \/ \E i \in Ids : Deadline(i) \/ ExecReturns(i)
    BY <2>9, <2>4 DEF Poll, Tick, vars, Deadline, ExecReturns
  <2>5. QED
    BY <1>1, <2>2, <2>3, <2>4 DEF Next
<1>2. QED
  BY <1>1, Invariance, PTL DEF Spec, OutcomeIsFinal

-----------------------------------------------------------------------------
(* Retention.                                                              *)

(* A task leaves the registry only as a prepared one whose window has      *)
(* lapsed, or as a finished one past its retention.                        *)
Kept(i) ==
  \/ i \in tasks
  \/ task[i].state \in {"none", "prepared"}
  \/ task[i].state \in Terminal /\ task[i].at < clock - TTL

RetentionInv == \A i \in Ids : Kept(i)

LEMMA RetentionStep == IInv /\ IInv' /\ RetentionInv /\ [Next]_vars => RetentionInv'
<1> SUFFICES ASSUME IInv, IInv', RetentionInv, [Next]_vars
             PROVE  RetentionInv'
  OBVIOUS
<1>1. TypeOK /\ TypeOK'
  BY DEF IInv
<1>2. ASSUME NEW p \in Pruned, NEW i \in Ids, p.tasks \subseteq tasks',
             task'[i] = task[i], clock' = clock
      PROVE  Kept(i)'
  <2>1. p.tasks = tasks \ Evicted
    BY <1>1, PruneFacts
  <2>2. CASE i \in Evicted
    BY <1>1, <1>2, <2>2 DEF Evicted, Lapsed, Evictable, PastCutoff, Kept, TypeOK
  <2>3. CASE i \notin Evicted
    BY <1>1, <1>2, <2>1, <2>3 DEF Kept, RetentionInv, TypeOK
  <2>4. QED
    BY <2>2, <2>3
<1>3. ASSUME NEW p \in Pruned, Settle(p), UNCHANGED <<task, clock>>
      PROVE  RetentionInv'
  BY <1>2, <1>3 DEF Settle, RetentionInv
<1>4. ASSUME NEW i \in Ids, task[i].state \in {"none", "prepared"}, Begin(i)
      PROVE  RetentionInv'
  <2>1. PICK p \in Pruned :
          \/ /\ Settle(Untombstone(Registered(p, i), i))
             /\ task' = [task EXCEPT ![i] = [state |-> "queued", err |-> "none",
                                             at |-> 0, ttl |-> 0]]
             /\ clock' = clock
          \/ Settle(p) /\ UNCHANGED <<task, clock>>
    BY <1>4 DEF Begin
  <2>2. CASE /\ Settle(Untombstone(Registered(p, i), i))
             /\ task' = [task EXCEPT ![i] = [state |-> "queued", err |-> "none",
                                             at |-> 0, ttl |-> 0]]
             /\ clock' = clock
    <3>1. tasks' = p.tasks \cup {i}
      <4>1. RegistryType(p) /\ RegistrySynced(p)
        BY PruneStep
      <4>2. Untombstone(Registered(p, i), i).tasks = p.tasks \cup {i}
        BY <4>1, RegisterFacts
      <4>3. QED
        BY <2>2, <4>2 DEF Settle
    <3>2. ASSUME NEW j \in Ids
          PROVE  Kept(j)'
      <4>1. CASE j = i
        BY <3>1, <4>1 DEF Kept
      <4>2. CASE j # i
        <5>1. task'[j] = task[j]
          BY <1>1, <2>2, <4>2 DEF TypeOK
        <5>2. QED
          BY <1>2, <2>2, <3>1, <5>1
      <4>3. QED
        BY <4>1, <4>2
    <3>3. QED
      BY <3>2 DEF RetentionInv
  <2>3. QED
    BY <1>3, <2>1, <2>2
<1>5. ASSUME NEW i \in Ids, NEW ttl \in EndpointTTLs, Prepare(i, ttl)
      PROVE  RetentionInv'
  <2>1. PICK p \in Pruned :
          \/ /\ Settle(Registered(p, i))
             /\ task' = [task EXCEPT ![i] = [state |-> "prepared",
                                             err |-> "none", at |-> clock,
                                             ttl |-> ttl]]
             /\ clock' = clock
          \/ Settle(p) /\ UNCHANGED <<task, clock>>
    BY <1>5 DEF Prepare
  <2>2. CASE /\ Settle(Registered(p, i))
             /\ task' = [task EXCEPT ![i] = [state |-> "prepared",
                                             err |-> "none", at |-> clock,
                                             ttl |-> ttl]]
             /\ clock' = clock
    <3>1. tasks' = p.tasks \cup {i}
      BY <2>2 DEF Settle, Registered
    <3>2. ASSUME NEW j \in Ids
          PROVE  Kept(j)'
      <4>1. CASE j = i
        BY <3>1, <4>1 DEF Kept
      <4>2. CASE j # i
        <5>1. task'[j] = task[j]
          BY <1>1, <2>2, <4>2 DEF TypeOK
        <5>2. QED
          BY <1>2, <2>2, <3>1, <5>1
      <4>3. QED
        BY <4>1, <4>2
    <3>3. QED
      BY <3>2 DEF RetentionInv
  <2>3. QED
    BY <1>3, <2>1, <2>2
(* Every other step leaves the registry alone and ends, at most, a task    *)
(* that is registered.                                                     *)
<1>6. ASSUME UNCHANGED <<tasks, clock>>, NEW i \in Ids,
             \A j \in Ids : j # i => task'[j] = task[j],
             \/ UNCHANGED task
             \/ i \in tasks
             \/ task[i].state \in Active
      PROVE  RetentionInv'
  <2>1. ASSUME NEW j \in Ids
        PROVE  Kept(j)'
    <3>1. CASE task'[j] = task[j]
      BY <1>6, <3>1 DEF RetentionInv, Kept
    <3>2. CASE j = i /\ (i \in tasks \/ task[i].state \in Active)
      <4>1. i \in tasks
        BY <3>2 DEF RetentionInv, Kept, Active, Terminal
      <4>2. QED
        BY <1>6, <3>2, <4>1 DEF Kept
    <3>3. QED
      BY <1>6, <3>1, <3>2
  <2>2. QED
    BY <2>1 DEF RetentionInv
<1>7. CASE Poll
  BY <1>3, <1>7 DEF Poll
<1>8. ASSUME NEW i \in Ids, Client(i)
      PROVE  RetentionInv'
  <2>1. CASE Start(i) \/ Fulfill(i)
    BY <1>4, <2>1 DEF Start, Fulfill, Claimable
  <2>2. CASE Cancel(i)
    <3>1. /\ UNCHANGED <<tasks, clock>> /\ i \in tasks
          /\ \A j \in Ids : j # i => task'[j] = task[j]
      BY <1>1, <2>2 DEF Cancel, Finish, registry, TypeOK
    <3>2. QED
      BY <1>6, <3>1
  <2>3. QED
    BY <1>5, <1>8, <2>1, <2>2 DEF Client
<1>9. ASSUME NEW i \in Ids, Unattended(i)
      PROVE  RetentionInv'
  <2>1. UNCHANGED <<tasks, clock>>
    BY <1>9 DEF Unattended, Run, Bail, StopWatchdog, Complete, Release,
       WatchdogFires, WatchdogCancels, WatchdogFails, CancelContext,
       CancelReader, registry
  <2>2. /\ \A j \in Ids : j # i => task'[j] = task[j]
        /\ UNCHANGED task \/ task[i].state \in Active
    <3>1. CASE Run(i)
      BY <1>1, <3>1 DEF Run, TypeOK, Active
    <3>2. CASE WatchdogFails(i)
      BY <1>1, <3>2 DEF WatchdogFails, ForceFail, Finish, TypeOK
    <3>3. CASE Complete(i)
      <4>1. CASE UNCHANGED task
        BY <4>1
      <4>2. CASE ~Aborted(i)
        <5>1. WorkerMatches(i) /\ worker[i] = "stopped"
          BY <3>3 DEF IInv, Complete
        <5>2. task[i].state = "running"
          BY <4>2, <5>1 DEF WorkerMatches, Overtaken, Aborted
        <5>3. \A j \in Ids : j # i => task'[j] = task[j]
          BY <1>1, <3>3 DEF Complete, Finish, TypeOK
        <5>4. QED
          BY <5>2, <5>3 DEF Active
      <4>3. QED
        BY <3>3, <4>1, <4>2 DEF Complete
    <3>4. CASE \/ Bail(i) \/ StopWatchdog(i) \/ Release(i) \/ WatchdogFires(i)
               \/ WatchdogCancels(i) \/ CancelContext(i) \/ CancelReader(i)
      BY <3>4 DEF Bail, StopWatchdog, Release, WatchdogFires, WatchdogCancels,
         CancelContext, CancelReader
    <3>5. QED
      BY <1>9, <3>1, <3>2, <3>3, <3>4 DEF Unattended
  <2>3. QED
    BY <1>6, <2>1, <2>2
<1>10. ASSUME NEW i \in Ids, Deadline(i) \/ ExecReturns(i)
       PROVE  RetentionInv'
  BY <1>6, <1>10 DEF Deadline, ExecReturns, registry
<1>11. CASE Tick
  BY <1>1, <1>11, UploadTasksAssumption
  DEF Tick, registry, RetentionInv, Kept, TypeOK, Task
<1>12. CASE UNCHANGED vars
  BY <1>12 DEF vars, registry, RetentionInv, Kept
<1>13. QED
  BY <1>7, <1>8, <1>9, <1>10, <1>11, <1>12 DEF Next

(* A result stays available for at least TTL after its upload ended,       *)
(* however many prunes run in between and whichever client causes them.    *)
THEOREM ResultsAreRetained == Spec => []ResultRetained
<1>1. Init => RetentionInv
  BY DEF Init, RetentionInv, Kept, NoTask
<1>2. IInv /\ RetentionInv => ResultRetained
  <2> SUFFICES ASSUME TypeOK, RetentionInv, NEW i \in Ids,
                      task[i].state \in Terminal, clock - task[i].at <= TTL
               PROVE  Reported(i) = task[i].state
    BY DEF ResultRetained, IInv
  <2>1. task[i].state \notin {"none", "prepared"}
    BY DEF Terminal
  <2>2. ~(task[i].at < clock - TTL)
    BY UploadTasksAssumption DEF TypeOK, Task
  <2>3. i \in tasks
    BY <2>1, <2>2 DEF RetentionInv, Kept
  <2>4. QED
    BY <2>3 DEF Reported
<1>3. QED
  BY <1>1, <1>2, Invariance, RetentionStep, PTL DEF Spec

-----------------------------------------------------------------------------
(* Admission.                                                              *)

InState(states) == {i \in tasks : task[i].state \in states}

(* A cap is kept by a step that brings at most one handle into its states  *)
(* and does so only when fewer than the cap were left after the prune.     *)
LEMMA CapKept ==
  ASSUME TypeOK, TypeOK', NEW states, NEW cap \in Int, Capped(states, cap),
         NEW i, NEW left \in SUBSET tasks,
         \/ InState(states)' \subseteq InState(states)
         \/ /\ InState(states)' \subseteq
                 {j \in left : task[j].state \in states} \cup {i}
            /\ cap > 0 =>
                 Cardinality({j \in left : task[j].state \in states}) < cap
  PROVE  Capped(states, cap)'
<1> DEFINE old == InState(states)
           new == InState(states)'
           rest == {j \in left : task[j].state \in states}
<1>1. /\ IsFiniteSet(old) /\ IsFiniteSet(new) /\ IsFiniteSet(rest)
      /\ Cardinality(old) \in Nat /\ Cardinality(new) \in Nat
      /\ Cardinality(rest) \in Nat
  <2>1. old \subseteq Ids
    BY DEF InState, TypeOK
  <2>2. new \subseteq Ids
    BY DEF InState, TypeOK
  <2>3. rest \subseteq Ids
    BY DEF TypeOK
  <2> HIDE DEF old, new, rest
  <2>4. IsFiniteSet(old) /\ IsFiniteSet(new) /\ IsFiniteSet(rest)
    BY <2>1, <2>2, <2>3, FS_Subset, UploadTasksAssumption
  <2>5. QED
    BY <2>4, FS_CardinalityType
<1>2. cap > 0 => Cardinality(old) <= cap
  BY DEF Capped, InState
<1>3. SUFFICES cap > 0 => Cardinality(new) <= cap
  BY DEF Capped, InState
<1> HIDE DEF old, new, rest
<1>4. CASE new \subseteq old
  <2>1. Cardinality(new) <= Cardinality(old)
    BY <1>1, <1>4, FS_Subset
  <2>2. QED
    BY <1>1, <1>2, <2>1
<1>5. CASE /\ new \subseteq rest \cup {i}
           /\ cap > 0 => Cardinality(rest) < cap
  <2>1. /\ IsFiniteSet(rest \cup {i})
        /\ Cardinality(rest \cup {i}) = IF i \in rest THEN Cardinality(rest)
                                        ELSE Cardinality(rest) + 1
    BY <1>1, FS_AddElement
  <2>2. Cardinality(new) <= Cardinality(rest \cup {i})
    BY <1>5, <2>1, FS_Subset
  <2>3. QED
    BY <1>1, <1>5, <2>1, <2>2
<1>6. QED
  BY <1>4, <1>5 DEF old, new, rest

LEMMA CapsStep == IInv /\ IInv' /\ AdmissionCaps /\ [Next]_vars => AdmissionCaps'
<1> SUFFICES ASSUME IInv, IInv', AdmissionCaps, [Next]_vars
             PROVE  AdmissionCaps'
  OBVIOUS
<1>1. TypeOK /\ TypeOK' /\ MaxActive \in Int /\ MaxPrepared \in Int
  BY UploadTasksAssumption DEF IInv
<1>2. Capped(Active, MaxActive) /\ Capped({"prepared"}, MaxPrepared)
  BY DEF AdmissionCaps
<1>3. ASSUME InState(Active)' \subseteq InState(Active),
             InState({"prepared"})' \subseteq InState({"prepared"})
      PROVE  AdmissionCaps'
  <2>1. Capped(Active, MaxActive)'
    BY <1>1, <1>2, <1>3, CapKept
  <2>2. Capped({"prepared"}, MaxPrepared)'
    BY <1>1, <1>2, <1>3, CapKept
  <2>3. QED
    BY <2>1, <2>2 DEF AdmissionCaps
<1>4. ASSUME NEW p \in Pruned
      PROVE  p.tasks \subseteq tasks
  BY <1>1, PruneFacts
<1>5. ASSUME NEW p \in Pruned, Settle(p), UNCHANGED task
      PROVE  AdmissionCaps'
  BY <1>3, <1>4, <1>5 DEF Settle, InState
<1>6. ASSUME NEW i \in Ids, task[i].state \in {"none", "prepared"}, Begin(i)
      PROVE  AdmissionCaps'
  <2>1. PICK p \in Pruned :
          \/ /\ SlotFree(p.tasks)
             /\ Settle(Untombstone(Registered(p, i), i))
             /\ task' = [task EXCEPT ![i] = [state |-> "queued", err |-> "none",
                                             at |-> 0, ttl |-> 0]]
          \/ Settle(p) /\ UNCHANGED task
    BY <1>6 DEF Begin
  <2>2. CASE /\ SlotFree(p.tasks)
             /\ Settle(Untombstone(Registered(p, i), i))
             /\ task' = [task EXCEPT ![i] = [state |-> "queued", err |-> "none",
                                             at |-> 0, ttl |-> 0]]
    <3>1. tasks' = p.tasks \cup {i}
      <4>1. RegistryType(p) /\ RegistrySynced(p)
        BY PruneStep
      <4>2. Untombstone(Registered(p, i), i).tasks = p.tasks \cup {i}
        BY <4>1, RegisterFacts
      <4>3. QED
        BY <2>2, <4>2 DEF Settle
    <3>2. /\ \A j \in Ids : j # i => task'[j] = task[j]
          /\ task'[i].state = "queued"
      BY <1>1, <2>2 DEF TypeOK
    <3>3. p.tasks \subseteq tasks /\ tasks \subseteq Ids
      BY <1>1, <1>4 DEF TypeOK
    <3>4. Capped(Active, MaxActive)'
      <4>1. InState(Active)' \subseteq
              {j \in p.tasks : task[j].state \in Active} \cup {i}
        BY <3>1, <3>2, <3>3 DEF InState
      <4>2. MaxActive > 0 =>
              Cardinality({j \in p.tasks : task[j].state \in Active}) < MaxActive
        BY <1>1, <2>2 DEF SlotFree
      <4>3. QED
        BY <1>1, <1>2, <3>3, <4>1, <4>2, CapKept
    <3>5. Capped({"prepared"}, MaxPrepared)'
      <4>1. InState({"prepared"})' \subseteq InState({"prepared"})
        BY <3>1, <3>2, <3>3 DEF InState
      <4>2. QED
        BY <1>1, <1>2, <4>1, CapKept
    <3>6. QED
      BY <3>4, <3>5 DEF AdmissionCaps
  <2>3. QED
    BY <1>5, <2>1, <2>2
<1>7. ASSUME NEW i \in Ids, NEW ttl \in EndpointTTLs, Prepare(i, ttl)
      PROVE  AdmissionCaps'
  <2>1. PICK p \in Pruned :
          \/ /\ PreparedSlotFree(p.tasks)
             /\ Settle(Registered(p, i))
             /\ task' = [task EXCEPT ![i] = [state |-> "prepared",
                                             err |-> "none", at |-> clock,
                                             ttl |-> ttl]]
          \/ Settle(p) /\ UNCHANGED task
    BY <1>7 DEF Prepare
  <2>2. CASE /\ PreparedSlotFree(p.tasks)
             /\ Settle(Registered(p, i))
             /\ task' = [task EXCEPT ![i] = [state |-> "prepared",
                                             err |-> "none", at |-> clock,
                                             ttl |-> ttl]]
    <3>1. tasks' = p.tasks \cup {i}
      BY <2>2 DEF Settle, Registered
    <3>2. /\ \A j \in Ids : j # i => task'[j] = task[j]
          /\ task'[i].state = "prepared"
      BY <1>1, <2>2 DEF TypeOK
    <3>3. p.tasks \subseteq tasks /\ tasks \subseteq Ids
      BY <1>1, <1>4 DEF TypeOK
    <3>4. Capped({"prepared"}, MaxPrepared)'
      <4>1. InState({"prepared"})' \subseteq
              {j \in p.tasks : task[j].state \in {"prepared"}} \cup {i}
        BY <3>1, <3>2, <3>3 DEF InState
      <4>2. {j \in p.tasks : task[j].state \in {"prepared"}}
              = {j \in p.tasks : task[j].state = "prepared"}
        OBVIOUS
      <4>3. MaxPrepared > 0 =>
              Cardinality({j \in p.tasks : task[j].state \in {"prepared"}})
                < MaxPrepared
        BY <1>1, <2>2, <4>2 DEF PreparedSlotFree
      <4>4. QED
        BY <1>1, <1>2, <3>3, <4>1, <4>3, CapKept
    <3>5. Capped(Active, MaxActive)'
      <4>1. InState(Active)' \subseteq InState(Active)
        BY <3>1, <3>2, <3>3 DEF InState, Active
      <4>2. QED
        BY <1>1, <1>2, <4>1, CapKept
    <3>6. QED
      BY <3>4, <3>5 DEF AdmissionCaps
  <2>3. QED
    BY <1>5, <2>1, <2>2
(* Every other step of a handle ends it, or leaves it in its states.       *)
<1>8. ASSUME UNCHANGED tasks, NEW i \in Ids,
             \A j \in Ids : j # i => task'[j] = task[j],
             \/ UNCHANGED task
             \/ task'[i].state \in Terminal
             \/ task[i].state \in Active /\ task'[i].state \in Active
      PROVE  AdmissionCaps'
  <2>1. /\ InState(Active)' \subseteq InState(Active)
        /\ InState({"prepared"})' \subseteq InState({"prepared"})
    BY <1>1, <1>8 DEF InState, TypeOK, Active, Terminal
  <2>2. QED
    BY <1>3, <2>1
<1>9. CASE Poll
  BY <1>5, <1>9 DEF Poll
<1>10. ASSUME NEW i \in Ids, Client(i)
       PROVE  AdmissionCaps'
  <2>1. CASE Start(i) \/ Fulfill(i)
    BY <1>6, <2>1 DEF Start, Fulfill, Claimable
  <2>2. CASE Cancel(i)
    <3>1. /\ UNCHANGED tasks
          /\ \A j \in Ids : j # i => task'[j] = task[j]
          /\ task'[i].state = "cancelled"
      BY <1>1, <2>2 DEF Cancel, Finish, registry, TypeOK
    <3>2. QED
      BY <1>8, <3>1 DEF Terminal
  <2>3. QED
    BY <1>7, <1>10, <2>1, <2>2 DEF Client
<1>11. ASSUME NEW i \in Ids, Unattended(i)
       PROVE  AdmissionCaps'
  <2>1. UNCHANGED tasks
    BY <1>11 DEF Unattended, Run, Bail, StopWatchdog, Complete, Release,
       WatchdogFires, WatchdogCancels, WatchdogFails, CancelContext,
       CancelReader, registry
  <2>2. /\ \A j \in Ids : j # i => task'[j] = task[j]
        /\ \/ UNCHANGED task
           \/ task'[i].state \in Terminal
           \/ task[i].state \in Active /\ task'[i].state \in Active
    <3>1. CASE Run(i)
      BY <1>1, <3>1 DEF Run, TypeOK, Active
    <3>2. CASE WatchdogFails(i)
      BY <1>1, <3>2 DEF WatchdogFails, ForceFail, Finish, TypeOK, Terminal
    <3>3. CASE Complete(i)
      <4>1. \/ UNCHANGED task
            \/ \E state \in Terminal : \E err : Finish(i, state, err)
        BY <3>3 DEF Complete, Terminal
      <4>2. QED
        BY <1>1, <4>1 DEF Finish, TypeOK
    <3>4. CASE \/ Bail(i) \/ StopWatchdog(i) \/ Release(i) \/ WatchdogFires(i)
               \/ WatchdogCancels(i) \/ CancelContext(i) \/ CancelReader(i)
      BY <3>4 DEF Bail, StopWatchdog, Release, WatchdogFires, WatchdogCancels,
         CancelContext, CancelReader
    <3>5. QED
      BY <1>11, <3>1, <3>2, <3>3, <3>4 DEF Unattended
  <2>3. QED
    BY <1>8, <2>1, <2>2
<1>12. ASSUME NEW i \in Ids, Deadline(i) \/ ExecReturns(i)
       PROVE  AdmissionCaps'
  BY <1>8, <1>12 DEF Deadline, ExecReturns, registry
<1>13. CASE Tick \/ UNCHANGED vars
  BY <1>13 DEF Tick, vars, registry, AdmissionCaps, Capped
<1>14. QED
  BY <1>9, <1>10, <1>11, <1>12, <1>13 DEF Next

(* The caps hold whatever mixture of calls, prunes and timeouts led here:  *)
(* a slot is counted after the prune, under the same lock that takes it.   *)
THEOREM CapsHold == Spec => []AdmissionCaps
<1>1. Init => AdmissionCaps
  <2> SUFFICES ASSUME Init
               PROVE  AdmissionCaps
    OBVIOUS
  <2>1. InState(Active) = {} /\ InState({"prepared"}) = {}
    BY DEF Init, InState
  <2>2. Cardinality(InState(Active)) = 0 /\ Cardinality(InState({"prepared"})) = 0
    BY <2>1, FS_EmptySet
  <2>3. QED
    BY <2>2, UploadTasksAssumption DEF AdmissionCaps, Capped, InState
<1>2. QED
  BY <1>1, Invariance, CapsStep, PTL DEF Spec


-----------------------------------------------------------------------------
(* The owned reader.                                                       *)

(* Somebody is still going to close i's reader on Cancel's behalf, or it   *)
(* has been closed.                                                        *)
Releasing(i) == canceller[i] \in {"cancelling", "closing"} \/ closes[i] = 1

(* A worker that ends without closing its reader leaves that to the Cancel *)
(* that overtook it; the watchdog cannot have, it is not armed yet.        *)
ReaderOwed(i) ==
  /\ closes[i] <= 1
  /\ worker[i] \in {"idle", "spawned"} => watchdog[i] = "idle" /\ i \notin timedOut
  /\ worker[i] = "spawned" => task[i].state = "queued" \/ Releasing(i)
  /\ worker[i] = "done" => Releasing(i)

ReaderInv == \A i \in Ids : ReaderOwed(i)

(* A step of one handle's goroutines, seen from the other handles. *)
LEMMA ReaderLocalStep ==
  ASSUME TypeOK, ReaderInv, NEW i \in Ids,
         \A j \in Ids : j # i => /\ task'[j] = task[j]
                                 /\ worker'[j] = worker[j]
                                 /\ watchdog'[j] = watchdog[j]
                                 /\ canceller'[j] = canceller[j]
                                 /\ closes'[j] = closes[j]
                                 /\ j \in timedOut' <=> j \in timedOut,
         ReaderOwed(i)'
  PROVE  ReaderInv'
<1>1. ASSUME NEW j \in Ids
      PROVE  ReaderOwed(j)'
  <2>1. CASE j = i
    BY <2>1
  <2>2. CASE j # i
    BY <2>2 DEF ReaderInv, ReaderOwed, Releasing
  <2>3. QED
    BY <2>1, <2>2
<1>2. QED
  BY <1>1 DEF ReaderInv

(* A handle is claimed before its worker exists: a fresh or a prepared     *)
(* handle has none, nor a queued one any but a spawned one.                *)
LEMMA WorkerOfState ==
  ASSUME IInv, NEW i \in Ids
  PROVE  /\ task[i].state \in {"none", "prepared"} => worker[i] = "idle"
         /\ task[i].state = "queued" => worker[i] = "spawned"
         /\ task[i].state = "running" => worker[i] \in {"exec", "returned", "stopped"}
<1>1. /\ worker[i] \in {"idle", "spawned", "exec", "returned", "stopped",
                        "releasing", "done"}
      /\ WorkerMatches(i)
  BY DEF IInv, TypeOK
<1>2. QED
  BY <1>1 DEF WorkerMatches, Overtaken, Terminal

LEMMA ReaderStep == IInv /\ ReaderInv /\ [Next]_vars => ReaderInv'
<1> SUFFICES ASSUME IInv, ReaderInv, [Next]_vars
             PROVE  ReaderInv'
  OBVIOUS
<1> USE DEF registry
<1>1. TypeOK
  BY DEF IInv
<1>2. ASSUME UNCHANGED <<task, worker, watchdog, timedOut, canceller, closes>>
      PROVE  ReaderInv'
  BY <1>2 DEF ReaderInv, ReaderOwed, Releasing
<1>3. ASSUME NEW i \in Ids, task[i].state \in {"none", "prepared"}, Begin(i)
      PROVE  ReaderInv'
  <2>1. CASE UNCHANGED <<task, worker, watchdog, timedOut, canceller, closes>>
    BY <1>2, <2>1
  <2>2. CASE /\ task' = [task EXCEPT ![i] = [state |-> "queued", err |-> "none",
                                             at |-> 0, ttl |-> 0]]
             /\ worker' = [worker EXCEPT ![i] = "spawned"]
             /\ UNCHANGED <<watchdog, timedOut, canceller, closes>>
    <3>1. worker[i] = "idle"
      BY <1>3, WorkerOfState
    <3>2. ReaderOwed(i)'
      BY <1>1, <2>2, <3>1 DEF ReaderInv, ReaderOwed, TypeOK
    <3>3. QED
      BY <1>1, <2>2, <3>2, ReaderLocalStep DEF TypeOK
  <2>3. QED
    BY <1>3, <2>1, <2>2 DEF Begin
<1>4. ASSUME NEW i \in Ids, NEW ttl \in EndpointTTLs, Prepare(i, ttl)
      PROVE  ReaderInv'
  <2>1. /\ task[i].state = "none"
        /\ UNCHANGED <<worker, watchdog, timedOut, canceller, closes>>
        /\ \/ UNCHANGED task
           \/ task' = [task EXCEPT ![i] = [state |-> "prepared", err |-> "none",
                                           at |-> clock, ttl |-> ttl]]
    BY <1>4 DEF Prepare
  <2>2. worker[i] = "idle"
    BY <2>1, WorkerOfState
  <2>3. ReaderOwed(i)'
    BY <1>1, <2>1, <2>2 DEF ReaderInv, ReaderOwed, TypeOK
  <2>4. \A j \in Ids : j # i => task'[j] = task[j]
    BY <1>1, <2>1 DEF TypeOK
  <2>5. QED
    BY <1>1, <2>1, <2>3, <2>4, ReaderLocalStep
<1>5. ASSUME NEW i \in Ids, Cancel(i)
      PROVE  ReaderInv'
  <2>1. /\ canceller' = [canceller EXCEPT
                           ![i] = IF worker[i] = "idle" THEN "done"
                                                        ELSE "cancelling"]
        /\ task[i].state \in Active \cup {"prepared"}
        /\ \A j \in Ids : j # i => task'[j] = task[j]
        /\ UNCHANGED <<worker, watchdog, timedOut, closes>>
    BY <1>1, <1>5 DEF Cancel, Finish, TypeOK
  <2>2. worker[i] # "done"
    BY <2>1 DEF IInv, WorkerMatches, Active, Terminal
  <2>3. ReaderOwed(i)'
    BY <1>1, <2>1, <2>2 DEF ReaderInv, ReaderOwed, Releasing, TypeOK
  <2>4. QED
    BY <1>1, <2>1, <2>3, ReaderLocalStep DEF TypeOK
<1>6. ASSUME NEW i \in Ids, CancelContext(i) \/ CancelReader(i)
      PROVE  ReaderInv'
  <2>1. /\ UNCHANGED <<task, worker, watchdog, timedOut>>
        /\ \A j \in Ids : j # i => closes'[j] = closes[j] /\ canceller'[j] = canceller[j]
        /\ \/ canceller'[i] = "closing" /\ closes'[i] = closes[i]
           \/ closes'[i] = 1
    BY <1>1, <1>6 DEF CancelContext, CancelReader, CloseReader, TypeOK
  <2>2. ReaderOwed(i)'
    BY <1>1, <2>1 DEF ReaderInv, ReaderOwed, Releasing, TypeOK
  <2>3. QED
    BY <1>1, <2>1, <2>2, ReaderLocalStep
<1>7. ASSUME NEW i \in Ids, WatchdogFires(i) \/ WatchdogCancels(i)
      PROVE  ReaderInv'
  <2>1. /\ UNCHANGED <<task, worker, canceller, timedOut>>
        /\ \A j \in Ids : j # i => closes'[j] = closes[j] /\ watchdog'[j] = watchdog[j]
        /\ watchdog[i] # "idle"
        /\ closes'[i] = 1 \/ closes'[i] = closes[i]
    BY <1>1, <1>7 DEF WatchdogFires, WatchdogCancels, CloseReader, TypeOK
  <2>2. ReaderOwed(i)'
    BY <1>1, <2>1 DEF ReaderInv, ReaderOwed, Releasing, TypeOK
  <2>3. QED
    BY <1>1, <2>1, <2>2, ReaderLocalStep
<1>8. ASSUME NEW i \in Ids, WatchdogFails(i)
      PROVE  ReaderInv'
  <2>1. /\ watchdog[i] = "locking"
        /\ UNCHANGED <<worker, canceller, closes>>
        /\ \A j \in Ids : j # i => /\ task'[j] = task[j]
                                   /\ watchdog'[j] = watchdog[j]
                                   /\ j \in timedOut' <=> j \in timedOut
    BY <1>1, <1>8 DEF WatchdogFails, ForceFail, Finish, TypeOK
  <2>2. worker[i] \notin {"idle", "spawned"}
    BY <2>1 DEF ReaderInv, ReaderOwed
  <2>3. ReaderOwed(i)'
    BY <1>1, <2>1, <2>2 DEF ReaderInv, ReaderOwed, Releasing, TypeOK
  <2>4. QED
    BY <1>1, <2>1, <2>3, ReaderLocalStep
<1>9. ASSUME NEW i \in Ids, Run(i)
      PROVE  ReaderInv'
  <2>1. ReaderOwed(i)'
    BY <1>1, <1>9 DEF Run, ReaderInv, ReaderOwed, TypeOK
  <2>2. QED
    BY <1>1, <1>9, <2>1, ReaderLocalStep DEF Run, TypeOK
<1>10. ASSUME NEW i \in Ids, Bail(i)
       PROVE  ReaderInv'
  <2>1. ReaderOwed(i)'
    BY <1>1, <1>10 DEF Bail, ReaderInv, ReaderOwed, Releasing, TypeOK
  <2>2. QED
    BY <1>1, <1>10, <2>1, ReaderLocalStep DEF Bail, TypeOK
<1>11. ASSUME NEW i \in Ids, ExecReturns(i) \/ StopWatchdog(i) \/ Complete(i)
       PROVE  ReaderInv'
  <2>1. /\ worker'[i] \in {"returned", "stopped", "releasing"}
        /\ \A j \in Ids : j # i => /\ task'[j] = task[j]
                                   /\ worker'[j] = worker[j]
                                   /\ watchdog'[j] = watchdog[j]
                                   /\ closes'[j] = closes[j]
        /\ closes'[i] = closes[i] \/ closes'[i] = 1
        /\ UNCHANGED <<canceller, timedOut>>
    <3>1. CASE ExecReturns(i)
      BY <1>1, <3>1 DEF ExecReturns, TypeOK
    <3>2. CASE StopWatchdog(i)
      BY <1>1, <3>2 DEF StopWatchdog, CloseReader, TypeOK
    <3>3. CASE Complete(i)
      BY <1>1, <3>3 DEF Complete, Finish, TypeOK
    <3>4. QED
      BY <1>11, <3>1, <3>2, <3>3
  <2>2. ReaderOwed(i)'
    BY <1>1, <2>1 DEF ReaderInv, ReaderOwed, TypeOK
  <2>3. QED
    BY <1>1, <2>1, <2>2, ReaderLocalStep
<1>12. ASSUME NEW i \in Ids, Release(i)
       PROVE  ReaderInv'
  <2>1. ReaderOwed(i)'
    BY <1>1, <1>12 DEF Release, CloseReader, ReaderInv, ReaderOwed, Releasing, TypeOK
  <2>2. QED
    BY <1>1, <1>12, <2>1, ReaderLocalStep DEF Release, CloseReader, TypeOK
<1>13. CASE \/ Poll \/ Tick \/ UNCHANGED vars \/ \E i \in Ids : Deadline(i)
  BY <1>2, <1>13 DEF Poll, Tick, vars, Deadline
<1>14. ASSUME NEW i \in Ids, Client(i)
       PROVE  ReaderInv'
  <2>1. CASE Start(i) \/ Fulfill(i)
    BY <1>3, <2>1 DEF Start, Fulfill, Claimable
  <2>2. QED
    BY <1>4, <1>5, <1>14, <2>1 DEF Client
<1>15. ASSUME NEW i \in Ids, Unattended(i)
       PROVE  ReaderInv'
  BY <1>6, <1>7, <1>8, <1>9, <1>10, <1>11, <1>12, <1>15 DEF Unattended
<1>16. QED
  BY <1>11, <1>13, <1>14, <1>15 DEF Next

(* The reader of an upload is closed exactly once when everybody is        *)
(* through with it, however the worker, the watchdog and a Cancel raced,   *)
(* and never twice (closeReader, and the bail-out of spawn).               *)
THEOREM ReadersAreReleasedOnce == Spec => []ReaderReleasedOnce
<1>1. Init => ReaderInv
  BY DEF Init, ReaderInv, ReaderOwed
<1>2. IInv /\ ReaderInv => ReaderReleasedOnce
  BY DEF IInv, TypeOK, ReaderInv, ReaderOwed, Releasing, ReaderReleasedOnce, Quiescent
<1>3. QED
  BY <1>1, <1>2, Invariance, ReaderStep, PTL DEF Spec

-----------------------------------------------------------------------------
(* Refinement of HandleLifecycle.                                          *)

(* A tombstone remembers an outcome. *)
TombstonesTell ==
  \A i \in Ids : tombstones[i] # NoTombstone
                   => tombstones[i].state \in Terminal \cup {"expired"}

(* What a step may do to a handle: leave it as it was, ... *)
LeftAlone(i) ==
  /\ task'[i] = task[i]
  /\ i \in tasks' <=> i \in tasks
  /\ tombstones'[i] = tombstones[i]

(* ... take its upload a step on, in the registry, ... *)
Progresses(i) ==
  /\ i \in tasks /\ i \in tasks'
  /\ Lifecycle!Forward(task[i].state, task'[i].state)
  /\ tombstones'[i] = tombstones[i]

(* ... admit a new handle, or a prepared one whose bytes have come, ... *)
Admitted(i) ==
  /\ i \in tasks'
  /\ tombstones'[i] = NoTombstone
  /\ \/ task[i].state = "none" /\ task'[i].state \in {"prepared", "queued"}
     \/ i \in tasks /\ task[i].state = "prepared" /\ task'[i].state = "queued"

(* ... or prune it, if its time has come. *)
PrunedTo(i, p) ==
  /\ task'[i] = task[i]
  /\ i \in tasks' <=> i \in p.tasks
  /\ tombstones'[i] = p.tombstones[i]

(* No step does anything else to any handle. *)
LEMMA HandleStep ==
  ASSUME IInv, ReaderInv, RetentionInv, [Next]_vars, NEW j \in Ids
  PROVE  \/ LeftAlone(j) \/ Progresses(j) \/ Admitted(j)
         \/ \E p \in Pruned : PrunedTo(j, p)
<1> DEFINE Goal == \/ LeftAlone(j) \/ Progresses(j) \/ Admitted(j)
                   \/ \E p \in Pruned : PrunedTo(j, p)
<1>1. TypeOK
  BY DEF IInv
<1>2. ASSUME NEW p \in Pruned, Settle(p), UNCHANGED task
      PROVE  Goal
  BY <1>2 DEF Settle, PrunedTo
<1>3. ASSUME UNCHANGED <<registry, task>>
      PROVE  Goal
  BY <1>3 DEF registry, LeftAlone
<1>4. ASSUME NEW i \in Ids, UNCHANGED registry,
             \A k \in Ids : k # i => task'[k] = task[k],
             \/ UNCHANGED task
             \/ i \in tasks /\ Lifecycle!Forward(task[i].state, task'[i].state)
      PROVE  Goal
  BY <1>4 DEF registry, LeftAlone, Progresses
<1>5. ASSUME NEW i \in Ids, Begin(i),
             \/ task[i].state = "none"
             \/ i \in tasks /\ task[i].state = "prepared"
      PROVE  Goal
  <2>1. PICK p \in Pruned :
          \/ /\ Settle(Untombstone(Registered(p, i), i))
             /\ task' = [task EXCEPT ![i] = [state |-> "queued", err |-> "none",
                                             at |-> 0, ttl |-> 0]]
          \/ Settle(p) /\ UNCHANGED task
    BY <1>5 DEF Begin
  <2>2. CASE /\ Settle(Untombstone(Registered(p, i), i))
             /\ task' = [task EXCEPT ![i] = [state |-> "queued", err |-> "none",
                                             at |-> 0, ttl |-> 0]]
    <3> DEFINE q == Untombstone(Registered(p, i), i)
    <3>1. RegistryType(p) /\ RegistrySynced(p)
      BY PruneStep
    <3>2. /\ q.tasks = p.tasks \cup {i}
          /\ q.tombstones = [p.tombstones EXCEPT ![i] = NoTombstone]
      BY <3>1, RegisterFacts
    <3> HIDE DEF q
    <3>3. tasks' = q.tasks /\ tombstones' = q.tombstones
      BY <2>2 DEF Settle, q
    <3>4. /\ tasks' = p.tasks \cup {i}
          /\ tombstones'[i] = NoTombstone
          /\ \A k \in Ids : k # i => tombstones'[k] = p.tombstones[k]
      <4>1. p.tombstones \in [Ids -> Snapshots]
        BY <3>1 DEF RegistryType
      <4>2. QED
        BY <3>2, <3>3, <4>1
    <3>5. /\ task'[i].state = "queued"
          /\ \A k \in Ids : k # i => task'[k] = task[k]
      BY <1>1, <2>2 DEF TypeOK
    <3>6. CASE j = i
      BY <1>5, <3>4, <3>5, <3>6 DEF Admitted
    <3>7. CASE j # i
      BY <3>4, <3>5, <3>7 DEF PrunedTo
    <3>8. QED
      BY <3>6, <3>7
  <2>3. QED
    BY <1>2, <2>1, <2>2
<1>6. ASSUME NEW i \in Ids, NEW ttl \in EndpointTTLs, Prepare(i, ttl)
      PROVE  Goal
  <2>1. PICK p \in Pruned :
          \/ /\ Settle(Registered(p, i))
             /\ task' = [task EXCEPT ![i] = [state |-> "prepared",
                                             err |-> "none", at |-> clock,
                                             ttl |-> ttl]]
          \/ Settle(p) /\ UNCHANGED task
    BY <1>6 DEF Prepare
  <2>2. CASE /\ Settle(Registered(p, i))
             /\ task' = [task EXCEPT ![i] = [state |-> "prepared",
                                             err |-> "none", at |-> clock,
                                             ttl |-> ttl]]
    <3>1. tasks' = p.tasks \cup {i} /\ tombstones' = p.tombstones
      BY <2>2 DEF Settle, Registered
    <3>2. task[i].state = "none" /\ p.tombstones[i] = NoTombstone
      BY <1>6, PruneStep DEF Prepare, IInv
    <3>3. /\ task'[i].state = "prepared"
          /\ \A k \in Ids : k # i => task'[k] = task[k]
      BY <1>1, <2>2 DEF TypeOK
    <3>4. CASE j = i
      BY <3>1, <3>2, <3>3, <3>4 DEF Admitted
    <3>5. CASE j # i
      BY <3>1, <3>3, <3>5 DEF PrunedTo
    <3>6. QED
      BY <3>4, <3>5
  <2>3. QED
    BY <1>2, <2>1, <2>2
<1> HIDE DEF Goal
<1>7. ASSUME NEW i \in Ids, Client(i)
      PROVE  Goal
  <2>1. CASE Start(i) \/ Fulfill(i)
    BY <1>5, <2>1 DEF Start, Fulfill, Claimable
  <2>2. CASE Cancel(i)
    <3>1. /\ UNCHANGED registry /\ i \in tasks
          /\ task[i].state \in {"prepared", "queued", "running"}
          /\ task'[i].state = "cancelled"
          /\ \A k \in Ids : k # i => task'[k] = task[k]
      BY <1>1, <2>2 DEF Cancel, Finish, registry, TypeOK, Active
    <3>2. Lifecycle!Forward(task[i].state, task'[i].state)
      BY <3>1 DEF Lifecycle!Forward, Lifecycle!Finished
    <3>3. QED
      BY <1>4, <3>1, <3>2
  <2>3. QED
    BY <1>6, <1>7, <2>1, <2>2 DEF Client
<1>8. ASSUME NEW i \in Ids, task[i].state \in Active
      PROVE  i \in tasks
  BY <1>8 DEF RetentionInv, Kept, Active, Terminal
<1>9. ASSUME NEW i \in Ids, Unattended(i)
      PROVE  Goal
  <2>1. UNCHANGED registry
    BY <1>9 DEF Unattended, Run, Bail, StopWatchdog, Complete, Release,
       WatchdogFires, WatchdogCancels, WatchdogFails, CancelContext,
       CancelReader, registry
  <2>2. CASE Run(i)
    <3>1. /\ task[i].state = "queued" /\ task'[i].state = "running"
          /\ \A k \in Ids : k # i => task'[k] = task[k]
      BY <1>1, <2>2 DEF Run, TypeOK
    <3>2. Lifecycle!Forward(task[i].state, task'[i].state) /\ i \in tasks
      BY <1>8, <3>1 DEF Lifecycle!Forward, Active
    <3>3. QED
      BY <1>4, <2>1, <3>1, <3>2
  <2>3. ASSUME NEW state \in {"completed", "failed"}, NEW err,
               task[i].state = "running", Finish(i, state, err)
        PROVE  Goal
    <3>1. /\ task'[i].state = state
          /\ \A k \in Ids : k # i => task'[k] = task[k]
      BY <1>1, <2>3 DEF Finish, TypeOK
    <3>2. Lifecycle!Forward(task[i].state, task'[i].state) /\ i \in tasks
      BY <1>8, <2>3, <3>1 DEF Lifecycle!Forward, Lifecycle!Finished, Active
    <3>3. QED
      BY <1>4, <2>1, <3>1, <3>2
  <2>4. CASE WatchdogFails(i)
    <3>1. CASE UNCHANGED task
      BY <1>3, <2>1, <3>1
    <3>2. CASE task[i].state \in Active /\ Finish(i, "failed", "timeout")
      <4>1. watchdog[i] = "locking" /\ ReaderOwed(i)
        BY <2>4 DEF WatchdogFails, ReaderInv
      <4>2. worker[i] # "spawned"
        BY <4>1 DEF ReaderOwed
      <4>3. task[i].state = "running"
        BY <3>2, <4>2, WorkerOfState DEF Active
      <4>4. QED
        BY <2>3, <3>2, <4>3
    <3>3. QED
      BY <2>4, <3>1, <3>2 DEF WatchdogFails, ForceFail
  <2>5. CASE Complete(i)
    <3>1. CASE UNCHANGED task
      BY <1>3, <2>1, <3>1
    <3>2. CASE ~Aborted(i)
      <4>1. WorkerMatches(i) /\ worker[i] = "stopped"
        BY <2>5 DEF IInv, Complete
      <4>2. task[i].state = "running"
        BY <3>2, <4>1 DEF WorkerMatches, Overtaken, Aborted
      <4>3. PICK state \in {"completed", "failed"}, err \in {task[i].err, "timeout", "own"} :
              Finish(i, state, err)
        BY <2>5, <3>2 DEF Complete
      <4>4. QED
        BY <2>3, <4>2, <4>3
    <3>3. QED
      BY <2>5, <3>1, <3>2 DEF Complete
  <2>6. CASE \/ Bail(i) \/ StopWatchdog(i) \/ Release(i) \/ WatchdogFires(i)
             \/ WatchdogCancels(i) \/ CancelContext(i) \/ CancelReader(i)
    BY <1>3, <2>1, <2>6 DEF Bail, StopWatchdog, Release, WatchdogFires,
       WatchdogCancels, CancelContext, CancelReader
  <2>7. QED
    BY <1>9, <2>2, <2>4, <2>5, <2>6 DEF Unattended
<1>10. ASSUME Poll
       PROVE  Goal
  BY <1>2, <1>10 DEF Poll
<1>11. ASSUME \/ Tick \/ UNCHANGED vars
              \/ \E i \in Ids : Deadline(i) \/ ExecReturns(i)
       PROVE  Goal
  BY <1>3, <1>11 DEF Tick, vars, Deadline, ExecReturns
<1>12. QED
  BY <1>7, <1>9, <1>10, <1>11 DEF Next, Goal

(* The snapshot a prune keeps of a handle it evicts is an outcome.         *)
LEMMA PrunedHandle ==
  ASSUME IInv, NEW p \in Pruned, NEW i \in Ids
  PROVE  /\ i \notin Evicted => /\ i \in p.tasks <=> i \in tasks
                                /\ p.tombstones[i] \in {tombstones[i], NoTombstone}
         /\ i \in Evicted =>
              /\ i \in tasks /\ i \notin p.tasks
              /\ \/ /\ task[i].state = "prepared"
                    /\ p.tombstones[i] # NoTombstone
                    /\ p.tombstones[i].state = "expired"
                 \/ /\ task[i].state \in Terminal
                    /\ \/ p.tombstones[i] = NoTombstone
                       \/ p.tombstones[i].state = task[i].state
<1>1. TypeOK
  BY DEF IInv
<1>2. /\ p.tasks = tasks \ Evicted
      /\ \/ p.tombstones[i] = Snaps[i]
         \/ p.tombstones[i] = NoTombstone /\ PastCutoff(Snaps[i].at)
  BY <1>1, PruneFacts
<1>3. CASE i \notin Evicted
  BY <1>2, <1>3 DEF Snaps
<1>4. CASE i \in Evicted
  <2>1. /\ i \in tasks /\ i \notin p.tasks
        /\ Snaps[i] = Snapshot(i) /\ Snapshot(i) # NoTombstone
    BY <1>1, <1>2, <1>4, SnapshotType DEF Snaps, Evicted
  <2>2. CASE task[i].state = "prepared"
    <3>1. Snapshot(i).state = "expired" /\ Snapshot(i).at = clock
      BY <2>2 DEF Snapshot
    <3>2. ~PastCutoff(clock)
      BY <1>1, UploadTasksAssumption DEF PastCutoff, TypeOK
    <3>3. QED
      BY <1>2, <1>4, <2>1, <2>2, <3>1, <3>2
  <2>3. CASE task[i].state # "prepared"
    <3>1. task[i].state \in Terminal
      BY <1>4, <2>3 DEF Evicted, Lapsed, Evictable
    <3>2. Snapshot(i).state = task[i].state
      BY <2>3 DEF Snapshot
    <3>3. QED
      BY <1>2, <1>4, <2>1, <3>1, <3>2
  <2>4. QED
    BY <2>2, <2>3
<1>5. QED
  BY <1>3, <1>4

LEMMA TombstonesStep ==
  IInv /\ ReaderInv /\ RetentionInv /\ TombstonesTell /\ [Next]_vars => TombstonesTell'
<1> SUFFICES ASSUME IInv, ReaderInv, RetentionInv, TombstonesTell, [Next]_vars,
                    NEW i \in Ids, tombstones'[i] # NoTombstone
             PROVE  tombstones'[i].state \in Terminal \cup {"expired"}
  BY DEF TombstonesTell
<1>1. CASE tombstones'[i] = tombstones[i]
  BY <1>1 DEF TombstonesTell
<1>2. ASSUME NEW p \in Pruned, PrunedTo(i, p)
      PROVE  tombstones'[i].state \in Terminal \cup {"expired"}
  BY <1>1, <1>2, PrunedHandle DEF PrunedTo
<1>3. QED
  BY <1>1, <1>2, HandleStep DEF LeftAlone, Progresses, Admitted

(* The status that a poll reports.                                         *)
reported == [i \in Ids |-> Reported(i)]

LEMMA ReportedFacts ==
  IInv /\ TombstonesTell =>
    \A i \in Ids :
      /\ reported[i] \in Lifecycle!Status
      /\ i \in tasks => reported[i] = task[i].state
      /\ i \notin tasks /\ tombstones[i] # NoTombstone
           => reported[i] = tombstones[i].state
      /\ i \notin tasks /\ tombstones[i] = NoTombstone
           => reported[i] = IF task[i].state = "none" THEN "none" ELSE "unknown"
<1> SUFFICES ASSUME IInv, TombstonesTell, NEW i \in Ids
             PROVE  /\ reported[i] \in Lifecycle!Status
                    /\ i \in tasks => reported[i] = task[i].state
                    /\ i \notin tasks /\ tombstones[i] # NoTombstone
                         => reported[i] = tombstones[i].state
                    /\ i \notin tasks /\ tombstones[i] = NoTombstone
                         => reported[i] = IF task[i].state = "none"
                                            THEN "none" ELSE "unknown"
  OBVIOUS
<1>1. /\ i \in tasks => reported[i] = task[i].state
      /\ i \notin tasks /\ tombstones[i] # NoTombstone
           => reported[i] = tombstones[i].state
      /\ i \notin tasks /\ tombstones[i] = NoTombstone
           => reported[i] = IF task[i].state = "none" THEN "none" ELSE "unknown"
  BY DEF reported, Reported, IsTombstoned
<1>2. task[i].state \in {"none", "prepared"} \cup Active \cup Terminal
  BY DEF IInv, TypeOK, Task
<1>3. tombstones[i] # NoTombstone => tombstones[i].state \in Terminal \cup {"expired"}
  BY DEF TombstonesTell
<1>4. reported[i] \in Lifecycle!Status
  BY <1>1, <1>2, <1>3 DEF Lifecycle!Status, Lifecycle!Finished, Active, Terminal
<1>5. QED
  BY <1>1, <1>4

LifeInv == IInv /\ ReaderInv /\ RetentionInv /\ TombstonesTell

LEMMA LifeInit == Init => LifeInv /\ Lifecycle!Init
<1> SUFFICES ASSUME Init
             PROVE  LifeInv /\ Lifecycle!Init
  OBVIOUS
<1>1. IInv
  BY InitIInv
<1>2. ReaderInv /\ RetentionInv /\ TombstonesTell
  BY DEF Init, ReaderInv, ReaderOwed, RetentionInv, Kept, NoTask, TombstonesTell
<1>3. \A i \in Ids : Reported(i) = "none"
  BY DEF Init, Reported, IsTombstoned, NoTask
<1>4. QED
  BY <1>1, <1>2, <1>3 DEF LifeInv, Lifecycle!Init

LEMMA LifeStep == LifeInv /\ [Next]_vars => LifeInv'
BY NextIInv, ReaderStep, RetentionStep, TombstonesStep DEF LifeInv

LEMMA StatusStep == LifeInv /\ [Next]_vars => Lifecycle!Next
<1> SUFFICES ASSUME LifeInv, [Next]_vars
             PROVE  Lifecycle!Next
  OBVIOUS
<1>1. LifeInv'
  BY LifeStep
<1>2. \A i \in Ids :
        /\ i \in tasks => reported[i] = task[i].state
        /\ i \notin tasks /\ tombstones[i] # NoTombstone
             => reported[i] = tombstones[i].state
        /\ i \notin tasks /\ tombstones[i] = NoTombstone
             => reported[i] = IF task[i].state = "none" THEN "none" ELSE "unknown"
  BY ReportedFacts DEF LifeInv
<1>3. \A i \in Ids :
        /\ reported'[i] \in Lifecycle!Status
        /\ i \in tasks' => reported'[i] = task'[i].state
        /\ i \notin tasks' /\ tombstones'[i] # NoTombstone
             => reported'[i] = tombstones'[i].state
        /\ i \notin tasks' /\ tombstones'[i] = NoTombstone
             => reported'[i] = IF task'[i].state = "none" THEN "none" ELSE "unknown"
  <2>1. (IInv /\ TombstonesTell =>
           \A i \in Ids :
             /\ reported[i] \in Lifecycle!Status
             /\ i \in tasks => reported[i] = task[i].state
             /\ i \notin tasks /\ tombstones[i] # NoTombstone
                  => reported[i] = tombstones[i].state
             /\ i \notin tasks /\ tombstones[i] = NoTombstone
                  => reported[i] = IF task[i].state = "none"
                                     THEN "none" ELSE "unknown")'
    BY ReportedFacts, PTL
  <2>2. QED
    BY <1>1, <2>1 DEF LifeInv
<1>4. ASSUME NEW i \in Ids
      PROVE  reported'[i] = reported[i] \/ Lifecycle!Forward(reported[i], reported'[i])
  <2>1. CASE LeftAlone(i)
    BY <1>2, <1>3, <2>1 DEF LeftAlone
  <2>2. CASE Progresses(i)
    BY <1>2, <1>3, <2>2 DEF Progresses
  <2>3. CASE Admitted(i)
    <3>1. reported'[i] = task'[i].state
      BY <1>3, <2>3 DEF Admitted
    <3>2. CASE task[i].state = "none"
      <4>1. reported[i] = "none"
        BY <1>2, <3>2 DEF LifeInv, IInv, Unused
      <4>2. QED
        BY <2>3, <3>1, <3>2, <4>1 DEF Admitted, Lifecycle!Forward
    <3>3. CASE i \in tasks /\ task[i].state = "prepared"
      BY <1>2, <2>3, <3>1, <3>3 DEF Admitted, Lifecycle!Forward
    <3>4. QED
      BY <2>3, <3>2, <3>3 DEF Admitted
  <2>4. ASSUME NEW p \in Pruned, PrunedTo(i, p)
        PROVE  reported'[i] = reported[i] \/ Lifecycle!Forward(reported[i], reported'[i])
    <3>1. CASE i \in Evicted
      <4>1. /\ i \in tasks /\ i \notin tasks'
            /\ task'[i] = task[i] /\ task[i].state # "none"
            /\ \/ /\ task[i].state = "prepared"
                  /\ tombstones'[i] # NoTombstone
                  /\ tombstones'[i].state = "expired"
               \/ /\ task[i].state \in Terminal
                  /\ \/ tombstones'[i] = NoTombstone
                     \/ tombstones'[i].state = task[i].state
        BY <2>4, <3>1, PrunedHandle DEF PrunedTo, LifeInv, Terminal
      <4>2. QED
        BY <1>2, <1>3, <4>1
        DEF Terminal, Lifecycle!Forward, Lifecycle!Finished
    <3>2. CASE i \notin Evicted
      <4>1. /\ i \in tasks' <=> i \in tasks
            /\ task'[i] = task[i]
            /\ tombstones'[i] \in {tombstones[i], NoTombstone}
        BY <2>4, <3>2, PrunedHandle DEF PrunedTo, LifeInv
      <4>2. tombstones[i] # NoTombstone =>
              /\ task[i].state # "none"
              /\ tombstones[i].state \in Terminal \cup {"expired"}
        BY DEF LifeInv, IInv, Unused, TombstonesTell
      <4>3. QED
        BY <1>2, <1>3, <4>1, <4>2
        DEF Terminal, Lifecycle!Forward, Lifecycle!Finished
    <3>3. QED
      BY <3>1, <3>2
  <2>5. QED
    BY <2>1, <2>2, <2>3, <2>4, HandleStep DEF LifeInv
<1>5. reported' \in [Ids -> Lifecycle!Status]
  BY <1>3 DEF reported
<1>6. QED
  BY <1>4, <1>5 DEF Lifecycle!Next, reported

(* The manager implements HandleLifecycle: whoever polls, whenever, sees a *)
(* handle's status move forward only, through prunes and retired           *)
(* tombstones too.                                                         *)
THEOREM StatusesMoveForward == Spec => StatusMovesForward
<1>1. LifeInv /\ [Next]_vars => [Lifecycle!Next]_reported
  BY StatusStep
<1>2. QED
  BY LifeInit, LifeStep, <1>1, PTL
     DEF Spec, StatusMovesForward, Lifecycle!Spec, reported

-----------------------------------------------------------------------------
(* The endpoints on top of the manager (UploadEndpoint).                   *)

Request == [pc : {"waiting", "claimed", "copying", "copied",
                  "broken", "aborting", "aborted", "answered"},
            token : Tokens \cup {"none"},
            id : Ids \cup {"none"},
            status : {"none", "404", "failed", "202"}]

Endpoint == [expires : Int, used : BOOLEAN, handle : Ids \cup {"none"}]

PipeState == [whole : BOOLEAN, closed : BOOLEAN, eof : BOOLEAN]

EndpointTypeOK ==
  /\ issued \subseteq Tokens
  /\ DOMAIN tokens \subseteq issued
  /\ tokens \in [DOMAIN tokens -> Endpoint]
  /\ DOMAIN byHandle \subseteq Ids
  /\ byHandle \in [DOMAIN byHandle -> Tokens]
  /\ minting \in [Ids -> Int]
  /\ put \in [Puts -> Request]
  /\ pipe \in [Ids -> PipeState]

(* A claimed token is spent for good: it is never drawn again, and no two  *)
(* PUTs hold the same one.                                                 *)
TokensAreSpent ==
  /\ \A r \in Puts :
       put[r].token # "none"
         => /\ put[r].token \in issued
            /\ put[r].token \in DOMAIN tokens => tokens[put[r].token].used
  /\ \A r, q \in Puts :
       put[r].token = put[q].token => r = q \/ put[r].token = "none"

(* A handle gets one endpoint, after it has been prepared.                 *)
EndpointsAreNew ==
  /\ \A i \in Ids : minting[i] > 0 => task[i].state # "none"
  /\ \A t \in DOMAIN tokens :
       tokens[t].handle # "none" => /\ task[tokens[t].handle].state # "none"
                                    /\ ~(minting[tokens[t].handle] > 0)
  /\ \A t, u \in DOMAIN tokens :
       tokens[t].handle = tokens[u].handle => t = u \/ tokens[t].handle = "none"

(* A PUT whose pipe the manager has taken for its upload. *)
Sending == {"copying", "copied", "broken", "aborting", "aborted"}
Taken(r) == put[r].pc \in Sending \cup {"answered"} /\ put[r].id # "none"

(* One PUT writes into an upload's pipe, ... *)
PutsOwnPipes ==
  /\ \A r \in Puts : /\ put[r].pc = "waiting" => put[r].id = "none"
                     /\ put[r].pc \in Sending => put[r].id # "none"
                     /\ Taken(r) => worker[put[r].id] # "idle"
  /\ \A r, q \in Puts : Taken(r) /\ Taken(q) /\ put[r].id = put[q].id => r = q

(* ... leaves it open while it sends, and has ended the upload before it   *)
(* closes one that did not carry the whole body; ...                       *)
PutsAreHonest ==
  \A r \in Puts :
    put[r].pc \in Sending
      => /\ ~pipe[put[r].id].closed
         /\ put[r].pc = "copied" => pipe[put[r].id].whole
         /\ put[r].pc \in {"aborting", "aborted"}
              => task[put[r].id].state \in Terminal

(* ... so a result read from it is that of the whole body.                 *)
PipesAreHonest ==
  \A i \in Ids :
    /\ pipe[i].eof => pipe[i].closed
    /\ pipe[i].closed => worker[i] # "idle"
    /\ pipe[i].closed => pipe[i].whole \/ task[i].state \in Terminal
    /\ result[i] = "ok" => pipe[i].eof
    /\ task[i].state = "completed" => pipe[i].whole

EndpointInv ==
  /\ EndpointTypeOK
  /\ TokensAreSpent
  /\ EndpointsAreNew
  /\ ReferencesInSync
  /\ PutsOwnPipes
  /\ PutsAreHonest
  /\ PipesAreHonest

(* What the steps of the manager never do to a handle.                     *)
LEMMA ManagerFacts ==
  ASSUME LifeInv, [Next]_vars, NEW i \in Ids
  PROVE  /\ task[i].state # "none" => task'[i].state # "none"
         /\ task[i].state \in Terminal => task'[i].state = task[i].state
         /\ worker[i] # "idle" => worker'[i] # "idle"
         /\ task'[i].state = "completed"
              => \/ task[i].state = "completed"
                 \/ task[i].state = "running" /\ result[i] = "ok"
<1>1. TypeOK /\ TypeOK'
  BY LifeStep DEF LifeInv, IInv
<1>2. /\ task[i].state # "none" => task'[i].state # "none"
      /\ task[i].state \in Terminal => task'[i].state = task[i].state
  <2>1. task'[i].state # "unknown"
    BY <1>1 DEF TypeOK, Task, Active, Terminal
  <2>2. LeftAlone(i) \/ Progresses(i) \/ Admitted(i) \/ \E p \in Pruned : PrunedTo(i, p)
    BY HandleStep DEF LifeInv
  <2>3. QED
    BY <2>1, <2>2 DEF LeftAlone, Progresses, Admitted, PrunedTo, Terminal,
       Lifecycle!Forward, Lifecycle!Finished
<1> DEFINE WorkerStays == worker[i] # "idle" => worker'[i] # "idle"
           CompletedAs == task'[i].state = "completed"
                            => \/ task[i].state = "completed"
                               \/ task[i].state = "running" /\ result[i] = "ok"
<1> HIDE DEF CompletedAs
<1>3. ASSUME NEW k \in Ids, NEW v, task' = [task EXCEPT ![k] = v],
              v.state = "completed" => task[k].state = "running" /\ result[k] = "ok"
       PROVE  CompletedAs
  BY <1>1, <1>3 DEF CompletedAs, TypeOK
<1>4. ASSUME UNCHANGED task
       PROVE  CompletedAs
  BY <1>4 DEF CompletedAs
<1>5. ASSUME NEW k \in Ids, Client(k)
      PROVE  WorkerStays /\ CompletedAs
  <2>1. CASE Start(k) \/ Fulfill(k)
    <3>1. Begin(k)
      BY <2>1 DEF Start, Fulfill
    <3>2. WorkerStays
      BY <1>1, <3>1 DEF Begin, TypeOK
    <3>3. CompletedAs
      BY <1>3, <1>4, <3>1 DEF Begin
    <3>4. QED
      BY <3>2, <3>3
  <2>2. CASE Cancel(k)
    BY <1>3, <2>2 DEF Cancel, Finish
  <2>3. CASE \E ttl \in EndpointTTLs : Prepare(k, ttl)
    BY <1>3, <1>4, <2>3 DEF Prepare
  <2>4. QED
    BY <1>5, <2>1, <2>2, <2>3 DEF Client
<1>6. ASSUME NEW k \in Ids, Unattended(k)
      PROVE  WorkerStays /\ CompletedAs
  <2>1. CASE Run(k)
    BY <1>1, <1>3, <2>1 DEF Run, TypeOK
  <2>2. CASE WatchdogFails(k)
    BY <1>3, <1>4, <2>2 DEF WatchdogFails, ForceFail, Finish
  <2>3. CASE Complete(k)
    <3>1. WorkerStays
      BY <1>1, <2>3 DEF Complete, TypeOK
    <3>2. CASE UNCHANGED task
      BY <1>4, <3>1, <3>2
    <3>3. CASE ~Aborted(k)
      <4>1. WorkerMatches(k) /\ worker[k] = "stopped"
        BY <2>3 DEF LifeInv, IInv, Complete
      <4>2. task[k].state = "running"
        BY <3>3, <4>1 DEF WorkerMatches, Overtaken, Aborted
      <4>3. CompletedAs
        BY <1>3, <2>3, <3>3, <4>2 DEF Complete, Finish
      <4>4. QED
        BY <3>1, <4>3
    <3>4. QED
      BY <2>3, <3>2, <3>3 DEF Complete
  <2>4. CASE \/ Bail(k) \/ StopWatchdog(k) \/ Release(k)
    BY <1>1, <1>4, <2>4 DEF Bail, StopWatchdog, Release, TypeOK
  <2>5. CASE \/ WatchdogFires(k) \/ WatchdogCancels(k) \/ CancelContext(k)
             \/ CancelReader(k)
    BY <1>4, <2>5 DEF WatchdogFires, WatchdogCancels, CancelContext, CancelReader
  <2>6. QED
    BY <1>6, <2>1, <2>2, <2>3, <2>4, <2>5 DEF Unattended
<1>7. ASSUME NEW k \in Ids, ExecReturns(k)
      PROVE  WorkerStays /\ CompletedAs
  BY <1>1, <1>4, <1>7 DEF ExecReturns, TypeOK
<1>8. ASSUME Poll \/ Tick \/ UNCHANGED vars \/ \E k \in Ids : Deadline(k)
      PROVE  WorkerStays /\ CompletedAs
  BY <1>4, <1>8 DEF Poll, Tick, vars, Deadline
<1>9. WorkerStays /\ CompletedAs
  BY <1>5, <1>6, <1>7, <1>8 DEF Next
<1>10. QED
  BY <1>2, <1>9 DEF CompletedAs

(* Every step of the endpoints is a step of the manager, or none to it.    *)
LEMMA ManagerMoves ==
  ASSUME EndpointInv, [EndpointNext]_allVars
  PROVE  [Next]_vars
<1>1. ASSUME UNCHANGED manager
      PROVE  [Next]_vars
  BY <1>1 DEF manager
<1>2. ASSUME NEW i \in Ids, Client(i) \/ Unattended(i) \/ Deadline(i) \/ ExecReturns(i)
      PROVE  [Next]_vars
  BY <1>2 DEF Next
<1>3. ASSUME NEW t \in Tokens, NEW ttl \in EndpointTTLs, Mint(t, ttl)
      PROVE  [Next]_vars
  BY <1>1, <1>3 DEF Mint
<1>4. ASSUME NEW i \in Ids, NEW ttl \in EndpointTTLs, PrepareHandle(i, ttl)
      PROVE  [Next]_vars
  BY <1>2, <1>4 DEF PrepareHandle, Client
<1>5. ASSUME NEW i \in Ids, \/ \E t \in Tokens : PrepareEndpoint(i, t)
                            \/ ReadsEnd(i) \/ Returns(i)
      PROVE  [Next]_vars
  BY <1>1, <1>2, <1>5 DEF PrepareEndpoint, ReadsEnd, Returns
<1>6. ASSUME NEW r \in Puts, HandOver(r) \/ Abort(r)
      PROVE  [Next]_vars
  <2>1. put[r].id \in Ids \cup {"none"}
    BY DEF EndpointInv, EndpointTypeOK, Request
  <2>2. CASE HandOver(r)
    BY <1>1, <1>2, <2>1, <2>2 DEF HandOver, Client
  <2>3. CASE Abort(r)
    <3>1. put[r].id \in Ids
      BY <2>1, <2>3 DEF Abort, EndpointInv, PutsOwnPipes, Sending
    <3>2. QED
      BY <1>1, <1>2, <2>3, <3>1 DEF Abort, Client
  <2>4. QED
    BY <1>6, <2>2, <2>3
<1>7. ASSUME NEW r \in Puts, \/ \E t \in Tokens : Claim(r, t)
                             \/ CopyEnds(r) \/ BodyBreaks(r) \/ PipeBreaks(r)
                             \/ CancelReturns(r) \/ CloseWriter(r)
      PROVE  [Next]_vars
  BY <1>1, <1>7 DEF Claim, CopyEnds, BodyBreaks, PipeBreaks, CancelReturns,
     CloseWriter
<1>8. ASSUME ManagerStep
      PROVE  [Next]_vars
  BY <1>2, <1>8 DEF ManagerStep, Client, Next
<1>9. ASSUME UNCHANGED allVars
      PROVE  [Next]_vars
  BY <1>9 DEF allVars
<1>10. QED
  BY <1>3, <1>4, <1>5, <1>6, <1>7, <1>8, <1>9 DEF EndpointNext

(* Steps of the manager and of the PUTs leave the coordinator's maps alone.*)
LEMMA MapsStay ==
  ASSUME LifeInv, EndpointInv, [Next]_vars, UNCHANGED endpoints,
         \A r \in Puts : put'[r].token = put[r].token
  PROVE  TokensAreSpent' /\ EndpointsAreNew' /\ ReferencesInSync'
<1>1. UNCHANGED <<issued, tokens, byHandle, minting>>
  BY DEF endpoints
<1>2. TokensAreSpent'
  BY <1>1 DEF EndpointInv, TokensAreSpent
<1>3. ReferencesInSync'
  BY <1>1 DEF EndpointInv, ReferencesInSync
<1>4. EndpointsAreNew'
  <2>1. \A i \in Ids : task[i].state # "none" => task'[i].state # "none"
    BY ManagerFacts
  <2>2. \A t \in DOMAIN tokens : tokens[t].handle \in Ids \cup {"none"}
    BY DEF EndpointInv, EndpointTypeOK, Endpoint
  <2>3. QED
    BY <1>1, <2>1, <2>2 DEF EndpointInv, EndpointsAreNew
<1>5. QED
  BY <1>2, <1>3, <1>4

(* A step that concerns no PUT and, of the pipes, at most what the manager *)
(* does with their uploads.                                                *)
LEMMA PipesStay ==
  ASSUME LifeInv, EndpointInv, [Next]_vars,
         \A r \in Puts : \/ put'[r] = put[r]
                         \/ put'[r].pc \notin Sending /\ put'[r].id = "none"
                         \/ put'[r].pc = "claimed",
         \A i \in Ids : /\ pipe'[i].whole = pipe[i].whole
                        /\ pipe'[i].closed = pipe[i].closed
                        /\ pipe[i].eof => pipe'[i].eof
                        /\ pipe'[i].eof => pipe[i].closed
                        /\ result'[i] = "ok" => pipe[i].eof
  PROVE  PutsOwnPipes' /\ PutsAreHonest' /\ PipesAreHonest'
<1>1. \A i \in Ids :
        /\ task[i].state \in Terminal => task'[i].state = task[i].state
        /\ worker[i] # "idle" => worker'[i] # "idle"
        /\ task'[i].state = "completed"
             => \/ task[i].state = "completed"
                \/ task[i].state = "running" /\ result[i] = "ok"
  BY ManagerFacts
<1>2. \A r \in Puts : put[r].id \in Ids \cup {"none"}
  BY DEF EndpointInv, EndpointTypeOK, Request
<1>3. PutsOwnPipes'
  <2>1. \A r \in Puts : put'[r] = put[r] \/ ~Taken(r)'
    BY DEF Taken, Sending
  <2>2. \A r \in Puts : /\ put'[r].pc = "waiting" => put'[r].id = "none"
                        /\ put'[r].pc \in Sending => put'[r].id # "none"
    BY DEF EndpointInv, PutsOwnPipes, Sending
  <2>3. ASSUME NEW r \in Puts, Taken(r)'
        PROVE  Taken(r) /\ put'[r] = put[r] /\ worker'[put[r].id] # "idle"
    BY <1>1, <1>2, <2>1, <2>3 DEF EndpointInv, PutsOwnPipes, Taken
  <2>4. QED
    BY <2>2, <2>3 DEF EndpointInv, PutsOwnPipes
<1>4. PutsAreHonest'
  <2>1. SUFFICES ASSUME NEW r \in Puts, put'[r].pc \in Sending
                 PROVE  /\ ~pipe'[put'[r].id].closed
                        /\ put'[r].pc = "copied" => pipe'[put'[r].id].whole
                        /\ put'[r].pc \in {"aborting", "aborted"}
                             => task'[put'[r].id].state \in Terminal
    BY DEF PutsAreHonest
  <2>2. put'[r] = put[r]
    BY <2>1 DEF Sending
  <2>3. put[r].id \in Ids
    BY <1>2, <2>1, <2>2 DEF EndpointInv, PutsOwnPipes
  <2>4. QED
    BY <1>1, <2>1, <2>2, <2>3 DEF EndpointInv, PutsAreHonest
<1>5. PipesAreHonest'
  <2>1. SUFFICES ASSUME NEW i \in Ids
                 PROVE  /\ pipe'[i].eof => pipe'[i].closed
                        /\ pipe'[i].closed => worker'[i] # "idle"
                        /\ pipe'[i].closed
                             => pipe'[i].whole \/ task'[i].state \in Terminal
                        /\ result'[i] = "ok" => pipe'[i].eof
                        /\ task'[i].state = "completed" => pipe'[i].whole
    BY DEF PipesAreHonest
  <2>2. /\ pipe[i].eof => pipe[i].closed
        /\ pipe[i].closed => worker[i] # "idle"
        /\ pipe[i].closed => pipe[i].whole \/ task[i].state \in Terminal
        /\ result[i] = "ok" => pipe[i].eof
        /\ task[i].state = "completed" => pipe[i].whole
    BY DEF EndpointInv, PipesAreHonest
  <2>3. "running" \notin Terminal
    BY DEF Terminal
  <2>4. QED
    BY <1>1, <2>2, <2>3
<1>6. QED
  BY <1>3, <1>4, <1>5

(* Registering an endpoint sweeps the lapsed ones, with their references.  *)
LEMMA RegisterStep ==
  ASSUME LifeInv, EndpointInv, NEW t \in Tokens, NEW ttl \in Int,
         NEW handle \in Ids \cup {"none"}, Register(t, handle, ttl),
         UNCHANGED <<manager, put, pipe>>,
         \/ handle = "none" /\ UNCHANGED minting
         \/ /\ handle # "none" /\ minting[handle] > 0
            /\ minting' = [minting EXCEPT ![handle] = 0]
  PROVE  EndpointInv'
<1> DEFINE gone == {u \in DOMAIN tokens : Over(u)}
           new == [expires |-> clock + ttl, used |-> FALSE, handle |-> handle]
           lost == {tokens[u].handle : u \in gone}
<1>1. /\ EndpointTypeOK /\ TokensAreSpent /\ EndpointsAreNew /\ ReferencesInSync
      /\ PutsOwnPipes /\ PutsAreHonest /\ PipesAreHonest
      /\ clock \in Nat
  BY DEF EndpointInv, LifeInv, IInv, TypeOK
<1>2. /\ t \notin issued /\ issued' = issued \cup {t}
      /\ tokens' = Put(Minus(tokens, gone), t, new)
      /\ byHandle' = Refer(Minus(byHandle, lost), handle, t)
  BY DEF Register, WithoutReferences
<1>3. /\ DOMAIN tokens' = (DOMAIN tokens \ gone) \cup {t}
      /\ tokens'[t] = new
      /\ \A u \in DOMAIN tokens \ gone : u # t /\ tokens'[u] = tokens[u]
      /\ tokens' = [u \in DOMAIN tokens' |-> tokens'[u]]
  BY <1>1, <1>2 DEF Minus, Put, EndpointTypeOK
<1>4. /\ DOMAIN byHandle' = (DOMAIN byHandle \ lost)
                              \cup (IF handle = "none" THEN {} ELSE {handle})
      /\ handle # "none" => byHandle'[handle] = t
      /\ \A h \in DOMAIN byHandle \ lost :
           h # handle => byHandle'[h] = byHandle[h]
      /\ byHandle' = [h \in DOMAIN byHandle' |-> byHandle'[h]]
  BY <1>2 DEF Minus, Put, Refer
<1>5. new.used = FALSE /\ new.handle = handle
      /\ new \in Endpoint
  BY <1>1 DEF Endpoint
<1>6. UNCHANGED <<task, worker, result, put, pipe>>
  BY DEF manager, vars
<1>7. \A u \in gone : u \in DOMAIN tokens
  OBVIOUS
<1>8. \A h : h \in lost <=> \E u \in gone : tokens[u].handle = h
  OBVIOUS
<1>9. \A i \in Ids : /\ minting'[i] > 0 => minting[i] > 0
                     /\ i = handle => ~(minting'[i] > 0)
      /\ minting' \in [Ids -> Int]
  BY <1>1, UploadEndpointAssumption DEF EndpointTypeOK
<1>10. "none" \notin Ids /\ "none" \notin DOMAIN byHandle
  BY <1>1, UploadEndpointAssumption DEF EndpointTypeOK
<1> HIDE DEF gone, lost, new
<1>11. EndpointTypeOK'
  <2>1. tokens' \in [DOMAIN tokens' -> Endpoint]
    BY <1>1, <1>3, <1>5 DEF EndpointTypeOK
  <2>2. DOMAIN byHandle' \subseteq Ids
    BY <1>1, <1>4 DEF EndpointTypeOK
  <2>3. byHandle' \in [DOMAIN byHandle' -> Tokens]
    <3>1. ASSUME NEW h \in DOMAIN byHandle'
          PROVE  byHandle'[h] \in Tokens
      <4>1. CASE h = handle
        BY <1>4, <1>10, <4>1
      <4>2. CASE h # handle
        <5>1. h \in DOMAIN byHandle /\ byHandle'[h] = byHandle[h]
          BY <1>4, <4>2
        <5>2. QED
          BY <1>1, <5>1 DEF EndpointTypeOK
      <4>3. QED
        BY <4>1, <4>2
    <3>2. QED
      BY <1>4, <3>1
  <2>4. issued' \subseteq Tokens /\ DOMAIN tokens' \subseteq issued'
    BY <1>1, <1>2, <1>3 DEF EndpointTypeOK
  <2>5. QED
    BY <1>1, <1>6, <1>9, <2>1, <2>2, <2>3, <2>4 DEF EndpointTypeOK
<1>12. TokensAreSpent'
  BY <1>1, <1>2, <1>3, <1>6 DEF TokensAreSpent
<1>13. EndpointsAreNew'
  <2>1. handle # "none" => task[handle].state # "none" /\ handle \in Ids
    BY <1>1 DEF EndpointsAreNew
  <2>2. \A u \in DOMAIN tokens : tokens[u].handle # "none" => tokens[u].handle # handle
    BY <1>1 DEF EndpointsAreNew
  <2>3. \A u \in DOMAIN tokens : tokens[u].handle \in Ids \cup {"none"}
    BY <1>1 DEF EndpointTypeOK, Endpoint
  <2>4. \A i \in Ids : minting'[i] > 0 => task'[i].state # "none"
    BY <1>1, <1>6, <1>9 DEF EndpointsAreNew
  <2>5. ASSUME NEW u \in DOMAIN tokens', tokens'[u].handle # "none"
        PROVE  /\ task'[tokens'[u].handle].state # "none"
               /\ ~(minting'[tokens'[u].handle] > 0)
    <3>1. CASE u = t
      BY <1>3, <1>5, <1>6, <1>9, <2>1, <2>5, <3>1
    <3>2. CASE u # t
      BY <1>1, <1>3, <1>6, <1>9, <2>3, <2>5, <3>2 DEF EndpointsAreNew
    <3>3. QED
      BY <3>1, <3>2
  <2>6. ASSUME NEW u \in DOMAIN tokens', NEW v \in DOMAIN tokens',
               tokens'[u].handle = tokens'[v].handle, tokens'[u].handle # "none"
        PROVE  u = v
    <3>1. CASE u = t \/ v = t
      BY <1>3, <1>5, <2>2, <2>6, <3>1
    <3>2. CASE u # t /\ v # t
      BY <1>1, <1>3, <2>6, <3>2 DEF EndpointsAreNew
    <3>3. QED
      BY <3>1, <3>2
  <2>7. QED
    BY <2>4, <2>5, <2>6 DEF EndpointsAreNew
<1>14. ReferencesInSync'
  <2>1. ASSUME NEW h \in DOMAIN byHandle'
        PROVE  /\ byHandle'[h] \in DOMAIN tokens'
               /\ tokens'[byHandle'[h]].handle = h
               /\ ~tokens'[byHandle'[h]].used
    <3>1. CASE h = handle
      <4>1. handle # "none"
        BY <1>4, <1>10, <2>1, <3>1
      <4>2. QED
        BY <1>3, <1>4, <1>5, <3>1, <4>1
    <3>2. CASE h # handle
      <4>1. h \in DOMAIN byHandle /\ h \notin lost /\ byHandle'[h] = byHandle[h]
        BY <1>4, <2>1, <3>2
      <4>2. /\ byHandle[h] \in DOMAIN tokens
            /\ tokens[byHandle[h]].handle = h /\ ~tokens[byHandle[h]].used
        BY <1>1, <4>1 DEF ReferencesInSync
      <4>3. byHandle[h] \notin gone
        BY <1>8, <4>1, <4>2
      <4>4. QED
        BY <1>3, <4>1, <4>2, <4>3
    <3>3. QED
      BY <3>1, <3>2
  <2>2. ASSUME NEW u \in DOMAIN tokens',
               tokens'[u].handle # "none", ~tokens'[u].used
        PROVE  tokens'[u].handle \in DOMAIN byHandle'
    <3>1. CASE u = t
      BY <1>3, <1>4, <1>5, <2>2, <3>1
    <3>2. CASE u # t
      <4>1. u \in DOMAIN tokens /\ u \notin gone /\ tokens'[u] = tokens[u]
        BY <1>3, <2>2, <3>2
      <4>2. tokens[u].handle \in DOMAIN byHandle
        BY <1>1, <2>2, <4>1 DEF ReferencesInSync
      <4>3. tokens[u].handle \notin lost
        BY <1>1, <1>7, <1>8, <2>2, <4>1 DEF EndpointsAreNew
      <4>4. QED
        BY <1>4, <4>1, <4>2, <4>3
    <3>3. QED
      BY <3>1, <3>2
  <2>3. QED
    BY <2>1, <2>2 DEF ReferencesInSync
<1>15. PutsOwnPipes' /\ PutsAreHonest' /\ PipesAreHonest'
  BY <1>1, <1>6 DEF PutsOwnPipes, PutsAreHonest, PipesAreHonest, Taken
<1>16. QED
  BY <1>11, <1>12, <1>13, <1>14, <1>15 DEF EndpointInv

(* A claim spends the token, or drops it, and its reference with it.       *)
LEMMA ClaimStep ==
  ASSUME LifeInv, EndpointInv, NEW r \in Puts, NEW t \in Tokens, Claim(r, t)
  PROVE  EndpointInv'
<1> DEFINE lost == {tokens[u].handle : u \in {t} \cap DOMAIN tokens}
<1>1. /\ EndpointTypeOK /\ TokensAreSpent /\ EndpointsAreNew /\ ReferencesInSync
      /\ PutsOwnPipes /\ PutsAreHonest /\ PipesAreHonest
  BY DEF EndpointInv
<1>2. /\ byHandle' = Minus(byHandle, lost)
      /\ UNCHANGED <<task, worker, result, issued, minting, pipe>>
      /\ put[r].pc = "waiting"
  BY DEF Claim, WithoutReferences, manager, vars
<1>3. \/ /\ t \in DOMAIN tokens /\ ~tokens[t].used
         /\ tokens' = [tokens EXCEPT ![t].used = TRUE]
         /\ put' = [put EXCEPT ![r].pc = "claimed", ![r].token = t,
                               ![r].id = tokens[t].handle]
      \/ /\ tokens' = Minus(tokens, {t})
         /\ put' = [put EXCEPT ![r].pc = "answered", ![r].status = "404"]
  BY DEF Claim, Usable, MarkUsed, Answer
<1>4. /\ DOMAIN byHandle' = DOMAIN byHandle \ lost
      /\ \A h \in DOMAIN byHandle' : byHandle'[h] = byHandle[h]
      /\ byHandle' = [h \in DOMAIN byHandle' |-> byHandle'[h]]
  BY <1>2 DEF Minus
<1>5. /\ DOMAIN tokens' \subseteq DOMAIN tokens
      /\ \A u \in DOMAIN tokens : u # t => u \in DOMAIN tokens' /\ tokens'[u] = tokens[u]
      /\ t \in DOMAIN tokens' => /\ tokens'[t].used
                                 /\ tokens'[t].handle = tokens[t].handle
      /\ tokens' \in [DOMAIN tokens' -> Endpoint]
  <2>1. CASE tokens' = Minus(tokens, {t})
    BY <1>1, <2>1 DEF Minus, EndpointTypeOK
  <2>2. CASE t \in DOMAIN tokens /\ tokens' = [tokens EXCEPT ![t].used = TRUE]
    <3>1. \A u \in DOMAIN tokens : tokens[u] \in Endpoint
      BY <1>1 DEF EndpointTypeOK
    <3>2. /\ DOMAIN tokens' = DOMAIN tokens
          /\ \A u \in DOMAIN tokens : u # t => tokens'[u] = tokens[u]
          /\ tokens'[t] = [tokens[t] EXCEPT !.used = TRUE]
          /\ tokens' = [u \in DOMAIN tokens |-> tokens'[u]]
      BY <2>2
    <3>3. /\ tokens'[t] \in Endpoint
          /\ tokens'[t].used /\ tokens'[t].handle = tokens[t].handle
      BY <2>2, <3>1, <3>2 DEF Endpoint
    <3>4. \A u \in DOMAIN tokens : tokens'[u] \in Endpoint
      BY <3>1, <3>2, <3>3
    <3>5. tokens' \in [DOMAIN tokens' -> Endpoint]
      BY <3>2, <3>4
    <3>6. QED
      BY <3>2, <3>3, <3>5
  <2>3. QED
    BY <1>3, <2>1, <2>2
<1>6. /\ \A q \in Puts : q # r => put'[q] = put[q]
      /\ put'[r].pc \in {"claimed", "answered"}
      /\ put'[r].pc = "answered" => put'[r].id = "none" /\ put'[r].token = put[r].token
      /\ put'[r].pc = "claimed" => /\ put'[r].token = t /\ t \in DOMAIN tokens
                                   /\ ~tokens[t].used
      /\ put' \in [Puts -> Request]
  <2>1. put[r].id = "none"
    BY <1>1, <1>2 DEF PutsOwnPipes
  <2>2. t \in DOMAIN tokens => tokens[t].handle \in Ids \cup {"none"}
    BY <1>1 DEF EndpointTypeOK, Endpoint
  <2>3. put \in [Puts -> Request] /\ put[r] \in Request
    BY <1>1 DEF EndpointTypeOK
  <2>4. CASE put' = [put EXCEPT ![r].pc = "answered", ![r].status = "404"]
    <3>1. put' = [put EXCEPT ![r] = [put[r] EXCEPT !.pc = "answered",
                                                   !.status = "404"]]
      BY <2>3, <2>4
    <3>2. [put[r] EXCEPT !.pc = "answered", !.status = "404"] \in Request
      BY <2>3 DEF Request
    <3>3. put'[r] = [put[r] EXCEPT !.pc = "answered", !.status = "404"]
      BY <2>3, <3>1
    <3>4. /\ put'[r].pc = "answered" /\ put'[r].id = "none"
          /\ put'[r].token = put[r].token
      BY <2>1, <2>3, <3>3 DEF Request
    <3>5. put' \in [Puts -> Request] /\ \A q \in Puts : q # r => put'[q] = put[q]
      BY <2>3, <3>1, <3>2
    <3>6. QED
      BY <3>4, <3>5
  <2>5. CASE /\ t \in DOMAIN tokens /\ ~tokens[t].used
             /\ put' = [put EXCEPT ![r].pc = "claimed", ![r].token = t,
                                   ![r].id = tokens[t].handle]
    <3>1. put' = [put EXCEPT ![r] = [put[r] EXCEPT !.pc = "claimed", !.token = t,
                                                   !.id = tokens[t].handle]]
      BY <2>3, <2>5
    <3>2. [put[r] EXCEPT !.pc = "claimed", !.token = t, !.id = tokens[t].handle]
            \in Request
      BY <2>2, <2>3, <2>5 DEF Request
    <3>3. put'[r] = [put[r] EXCEPT !.pc = "claimed", !.token = t,
                                   !.id = tokens[t].handle]
      BY <2>3, <3>1
    <3>4. put'[r].pc = "claimed" /\ put'[r].token = t
      BY <2>3, <3>3 DEF Request
    <3>5. put' \in [Puts -> Request] /\ \A q \in Puts : q # r => put'[q] = put[q]
      BY <2>3, <3>1, <3>2
    <3>6. QED
      BY <2>5, <3>4, <3>5
  <2>6. QED
    BY <1>3, <2>4, <2>5
<1>7. \A h : h \in lost <=> t \in DOMAIN tokens /\ h = tokens[t].handle
  OBVIOUS
<1> HIDE DEF lost
<1>8. EndpointTypeOK'
  <2>1. byHandle' \in [DOMAIN byHandle' -> Tokens] /\ DOMAIN byHandle' \subseteq Ids
    BY <1>1, <1>4 DEF EndpointTypeOK
  <2>2. DOMAIN tokens' \subseteq issued'
    BY <1>1, <1>2, <1>5 DEF EndpointTypeOK
  <2>3. QED
    BY <1>1, <1>2, <1>5, <1>6, <2>1, <2>2 DEF EndpointTypeOK
<1>9. TokensAreSpent'
  <2>1. \A q \in Puts : put[q].token \in Tokens \cup {"none"}
    BY <1>1 DEF EndpointTypeOK, Request
  <2>2. ASSUME NEW q \in Puts, put'[q].token # "none"
        PROVE  /\ put'[q].token \in issued'
               /\ put'[q].token \in DOMAIN tokens' => tokens'[put'[q].token].used
    <3>1. CASE put'[q].token = t
      <4>1. t \in issued
        BY <1>1, <1>6, <2>2, <3>1 DEF TokensAreSpent, EndpointTypeOK
      <4>2. QED
        BY <1>2, <1>5, <3>1, <4>1
    <3>2. CASE put'[q].token # t
      BY <1>1, <1>2, <1>5, <1>6, <2>2, <3>2 DEF TokensAreSpent
    <3>3. QED
      BY <3>1, <3>2
  <2>3. ASSUME NEW q \in Puts, NEW p \in Puts, put'[q].token = put'[p].token
        PROVE  q = p \/ put'[q].token = "none"
    <3>1. put'[r].pc = "claimed" => \A w \in Puts : put[w].token # t \/ t = "none"
      BY <1>1, <1>6 DEF TokensAreSpent
    <3>2. QED
      BY <1>1, <1>6, <2>3, <3>1 DEF TokensAreSpent
  <2>4. QED
    BY <2>2, <2>3 DEF TokensAreSpent
<1>10. EndpointsAreNew'
  <2>1. \A u \in DOMAIN tokens' : tokens'[u].handle = tokens[u].handle
    BY <1>5
  <2>2. QED
    BY <1>1, <1>2, <1>5, <2>1 DEF EndpointsAreNew
<1>11. ReferencesInSync'
  <2>1. ASSUME NEW h \in DOMAIN byHandle'
        PROVE  /\ byHandle'[h] \in DOMAIN tokens'
               /\ tokens'[byHandle'[h]].handle = h
               /\ ~tokens'[byHandle'[h]].used
    <3>1. /\ byHandle'[h] = byHandle[h] /\ h \notin lost
          /\ byHandle[h] \in DOMAIN tokens
          /\ tokens[byHandle[h]].handle = h /\ ~tokens[byHandle[h]].used
      BY <1>1, <1>4 DEF ReferencesInSync
    <3>2. byHandle[h] # t
      BY <1>7, <3>1
    <3>3. QED
      BY <1>5, <3>1, <3>2
  <2>2. ASSUME NEW u \in DOMAIN tokens',
               tokens'[u].handle # "none", ~tokens'[u].used
        PROVE  tokens'[u].handle \in DOMAIN byHandle'
    <3>1. u # t /\ u \in DOMAIN tokens /\ tokens'[u] = tokens[u]
      BY <1>5, <2>2
    <3>2. tokens[u].handle \notin lost
      BY <1>1, <1>7, <2>2, <3>1 DEF EndpointsAreNew
    <3>3. QED
      BY <1>1, <1>4, <2>2, <3>1, <3>2 DEF ReferencesInSync
  <2>3. QED
    BY <2>1, <2>2 DEF ReferencesInSync
<1>12. PutsOwnPipes' /\ PutsAreHonest' /\ PipesAreHonest'
  <2>1. \A q \in Puts : \/ put'[q] = put[q]
                        \/ put'[q].pc \notin Sending /\ put'[q].id = "none"
                        \/ put'[q].pc = "claimed"
    BY <1>6 DEF Sending
  <2>2. [Next]_vars
    BY DEF Claim, manager
  <2>3. \A i \in Ids : /\ pipe'[i].whole = pipe[i].whole
                       /\ pipe'[i].closed = pipe[i].closed
                       /\ pipe[i].eof => pipe'[i].eof
                       /\ pipe'[i].eof => pipe[i].closed
                       /\ result'[i] = "ok" => pipe[i].eof
    BY <1>1, <1>2 DEF PipesAreHonest
  <2>4. QED
    BY <2>1, <2>2, <2>3, PipesStay
<1>13. QED
  BY <1>8, <1>9, <1>10, <1>11, <1>12 DEF EndpointInv

(* A handle that is being prepared has no endpoint yet.                    *)
LEMMA PrepareHandleStep ==
  ASSUME LifeInv, EndpointInv, NEW i \in Ids, NEW ttl \in EndpointTTLs,
         PrepareHandle(i, ttl)
  PROVE  EndpointInv'
<1>1. /\ EndpointTypeOK /\ TokensAreSpent /\ EndpointsAreNew /\ ReferencesInSync
      /\ PutsOwnPipes /\ PutsAreHonest /\ PipesAreHonest
  BY DEF EndpointInv
<1>2. /\ UNCHANGED <<issued, tokens, byHandle, put, pipe, result>>
      /\ task[i].state = "none"
      /\ minting' = [minting EXCEPT
                       ![i] = IF task'[i].state = "prepared" THEN ttl ELSE 0]
  BY DEF PrepareHandle, Prepare
<1>3. [Next]_vars
  BY DEF PrepareHandle, Client, Next
<1>4. /\ minting' \in [Ids -> Int]
      /\ \A j \in Ids : j # i => minting'[j] = minting[j]
      /\ minting'[i] > 0 => task'[i].state # "none"
  BY <1>1, <1>2, UploadTasksAssumption DEF EndpointTypeOK
<1>5. EndpointTypeOK'
  BY <1>1, <1>2, <1>4 DEF EndpointTypeOK
<1>6. TokensAreSpent' /\ ReferencesInSync'
  BY <1>1, <1>2 DEF TokensAreSpent, ReferencesInSync
<1>7. EndpointsAreNew'
  <2>1. \A j \in Ids : task[j].state # "none" => task'[j].state # "none"
    BY <1>3, ManagerFacts
  <2>2. \A t \in DOMAIN tokens : tokens[t].handle \in Ids \cup {"none"}
    BY <1>1 DEF EndpointTypeOK, Endpoint
  <2>3. \A j \in Ids : minting'[j] > 0 => task'[j].state # "none"
    BY <1>1, <1>4, <2>1 DEF EndpointsAreNew
  <2>4. ASSUME NEW t \in DOMAIN tokens, tokens[t].handle # "none"
        PROVE  /\ task'[tokens[t].handle].state # "none"
               /\ ~(minting'[tokens[t].handle] > 0)
    <3>1. tokens[t].handle \in Ids /\ tokens[t].handle # i
      BY <1>1, <1>2, <2>2, <2>4 DEF EndpointsAreNew
    <3>2. QED
      BY <1>1, <1>4, <2>1, <2>4, <3>1 DEF EndpointsAreNew
  <2>5. QED
    BY <1>1, <1>2, <2>3, <2>4 DEF EndpointsAreNew
<1>8. PutsOwnPipes' /\ PutsAreHonest' /\ PipesAreHonest'
  <2>1. \A j \in Ids : /\ pipe'[j].whole = pipe[j].whole
                       /\ pipe'[j].closed = pipe[j].closed
                       /\ pipe[j].eof => pipe'[j].eof
                       /\ pipe'[j].eof => pipe[j].closed
                       /\ result'[j] = "ok" => pipe[j].eof
    BY <1>1, <1>2 DEF PipesAreHonest
  <2>2. \A r \in Puts : put'[r] = put[r]
    BY <1>2
  <2>3. QED
    BY <1>3, <2>1, <2>2, PipesStay
<1>9. QED
  BY <1>5, <1>6, <1>7, <1>8 DEF EndpointInv

(* One PUT takes a step, to a state and an upload of its own. *)
Moved(r, pc, id) ==
  /\ put' \in [Puts -> Request]
  /\ \A q \in Puts : /\ put'[q].token = put[q].token
                     /\ q # r => put'[q] = put[q]
  /\ put'[r].pc = pc
  /\ put'[r].id = id

LEMMA PutMoves ==
  ASSUME EndpointTypeOK, NEW r \in Puts
  PROVE  /\ \A pc \in Sending :
              put' = [put EXCEPT ![r].pc = pc] => Moved(r, pc, put[r].id)
         /\ \A s \in {"202", "failed"} :
              Answer(r, s) => Moved(r, "answered", put[r].id)
         /\ \A i \in Ids : Started(r, i) => Moved(r, "copying", i)
         /\ Refused(r) => Moved(r, "answered", "none")
<1>1. put \in [Puts -> Request] /\ put[r] \in Request
  BY DEF EndpointTypeOK
<1>2. ASSUME NEW v \in Request, v.token = put[r].token, put' = [put EXCEPT ![r] = v]
      PROVE  Moved(r, v.pc, v.id)
  BY <1>1, <1>2 DEF Moved
<1>3. ASSUME NEW pc \in Sending, put' = [put EXCEPT ![r].pc = pc]
      PROVE  Moved(r, pc, put[r].id)
  <2> DEFINE v == [put[r] EXCEPT !.pc = pc]
  <2>1. v \in Request /\ v.token = put[r].token /\ v.pc = pc /\ v.id = put[r].id
    BY <1>1 DEF Request, Sending
  <2>2. put' = [put EXCEPT ![r] = v]
    BY <1>1, <1>3
  <2> HIDE DEF v
  <2>3. Moved(r, v.pc, v.id)
    BY <1>2, <2>1, <2>2
  <2>4. QED
    BY <2>1, <2>3
<1>4. ASSUME NEW s \in {"202", "failed"}, Answer(r, s)
      PROVE  Moved(r, "answered", put[r].id)
  <2> DEFINE v == [put[r] EXCEPT !.pc = "answered", !.status = s]
  <2>1. /\ v \in Request /\ v.token = put[r].token
        /\ v.pc = "answered" /\ v.id = put[r].id
    BY <1>1 DEF Request
  <2>2. put' = [put EXCEPT ![r] = v]
    BY <1>1, <1>4 DEF Answer
  <2> HIDE DEF v
  <2>3. Moved(r, v.pc, v.id)
    BY <1>2, <2>1, <2>2
  <2>4. QED
    BY <2>1, <2>3
<1>5. ASSUME NEW i \in Ids, Started(r, i)
      PROVE  Moved(r, "copying", i)
  <2> DEFINE v == [put[r] EXCEPT !.pc = "copying", !.id = i]
  <2>1. v \in Request /\ v.token = put[r].token /\ v.pc = "copying" /\ v.id = i
    BY <1>1 DEF Request
  <2>2. put' = [put EXCEPT ![r] = v]
    BY <1>1, <1>5 DEF Started
  <2> HIDE DEF v
  <2>3. Moved(r, v.pc, v.id)
    BY <1>2, <2>1, <2>2
  <2>4. QED
    BY <2>1, <2>3
<1>6. ASSUME Refused(r)
      PROVE  Moved(r, "answered", "none")
  <2> DEFINE v == [put[r] EXCEPT !.pc = "answered", !.id = "none",
                                 !.status = "failed"]
  <2>1. /\ v \in Request /\ v.token = put[r].token
        /\ v.pc = "answered" /\ v.id = "none"
    BY <1>1 DEF Request
  <2>2. put' = [put EXCEPT ![r] = v]
    BY <1>1, <1>6 DEF Refused
  <2> HIDE DEF v
  <2>3. Moved(r, v.pc, v.id)
    BY <1>2, <2>1, <2>2
  <2>4. QED
    BY <2>1, <2>3
<1>7. QED
  BY <1>3, <1>4, <1>5, <1>6

(* One pipe changes. *)
Piped(i, whole, closed, eof) ==
  /\ pipe' \in [Ids -> PipeState]
  /\ \A j \in Ids : j # i => pipe'[j] = pipe[j]
  /\ pipe'[i].whole = whole /\ pipe'[i].closed = closed /\ pipe'[i].eof = eof

LEMMA PipeMoves ==
  ASSUME EndpointTypeOK, NEW i \in Ids
  PROVE  /\ pipe' = [pipe EXCEPT ![i].whole = TRUE]
              => Piped(i, TRUE, pipe[i].closed, pipe[i].eof)
         /\ pipe' = [pipe EXCEPT ![i].closed = TRUE]
              => Piped(i, pipe[i].whole, TRUE, pipe[i].eof)
         /\ pipe' = [pipe EXCEPT ![i].eof = TRUE]
              => Piped(i, pipe[i].whole, pipe[i].closed, TRUE)
         /\ pipe' = pipe
              => Piped(i, pipe[i].whole, pipe[i].closed, pipe[i].eof)
<1>1. pipe \in [Ids -> PipeState] /\ pipe[i] \in PipeState
  BY DEF EndpointTypeOK
<1>2. ASSUME NEW v \in PipeState, pipe' = [pipe EXCEPT ![i] = v]
      PROVE  Piped(i, v.whole, v.closed, v.eof)
  BY <1>1, <1>2 DEF Piped
<1>3. ASSUME pipe' = [pipe EXCEPT ![i].whole = TRUE]
      PROVE  Piped(i, TRUE, pipe[i].closed, pipe[i].eof)
  <2> DEFINE v == [pipe[i] EXCEPT !.whole = TRUE]
  <2>1. /\ v \in PipeState /\ v.whole = TRUE
        /\ v.closed = pipe[i].closed /\ v.eof = pipe[i].eof
    BY <1>1 DEF PipeState
  <2>2. pipe' = [pipe EXCEPT ![i] = v]
    BY <1>1, <1>3
  <2> HIDE DEF v
  <2>3. Piped(i, v.whole, v.closed, v.eof)
    BY <1>2, <2>1, <2>2
  <2>4. QED
    BY <2>1, <2>3
<1>4. ASSUME pipe' = [pipe EXCEPT ![i].closed = TRUE]
      PROVE  Piped(i, pipe[i].whole, TRUE, pipe[i].eof)
  <2> DEFINE v == [pipe[i] EXCEPT !.closed = TRUE]
  <2>1. /\ v \in PipeState /\ v.closed = TRUE
        /\ v.whole = pipe[i].whole /\ v.eof = pipe[i].eof
    BY <1>1 DEF PipeState
  <2>2. pipe' = [pipe EXCEPT ![i] = v]
    BY <1>1, <1>4
  <2> HIDE DEF v
  <2>3. Piped(i, v.whole, v.closed, v.eof)
    BY <1>2, <2>1, <2>2
  <2>4. QED
    BY <2>1, <2>3
<1>5. ASSUME pipe' = [pipe EXCEPT ![i].eof = TRUE]
      PROVE  Piped(i, pipe[i].whole, pipe[i].closed, TRUE)
  <2> DEFINE v == [pipe[i] EXCEPT !.eof = TRUE]
  <2>1. /\ v \in PipeState /\ v.eof = TRUE
        /\ v.whole = pipe[i].whole /\ v.closed = pipe[i].closed
    BY <1>1 DEF PipeState
  <2>2. pipe' = [pipe EXCEPT ![i] = v]
    BY <1>1, <1>5
  <2> HIDE DEF v
  <2>3. Piped(i, v.whole, v.closed, v.eof)
    BY <1>2, <2>1, <2>2
  <2>4. QED
    BY <2>1, <2>3
<1>6. pipe' = pipe => Piped(i, pipe[i].whole, pipe[i].closed, pipe[i].eof)
  BY <1>1 DEF Piped
<1>7. QED
  BY <1>3, <1>4, <1>5, <1>6

(* A PUT that sends takes a step of its own, or of its pipe.               *)
LEMMA SenderStep ==
  ASSUME LifeInv, EndpointInv, [Next]_vars, UNCHANGED <<endpoints, result>>,
         NEW r \in Puts, put[r].pc \in Sending,
         put'[r].pc \in Sending \cup {"answered"},
         Moved(r, put'[r].pc, put[r].id),
         Piped(put[r].id, pipe'[put[r].id].whole, pipe'[put[r].id].closed,
               pipe[put[r].id].eof),
         pipe[put[r].id].whole => pipe'[put[r].id].whole,
         put'[r].pc # "answered" => ~pipe'[put[r].id].closed,
         put'[r].pc = "copied" => pipe'[put[r].id].whole,
         put'[r].pc \in {"aborting", "aborted"}
           => task'[put[r].id].state \in Terminal,
         pipe'[put[r].id].closed
           => pipe'[put[r].id].whole \/ task'[put[r].id].state \in Terminal
  PROVE  EndpointInv'
<1> DEFINE i == put[r].id
<1>1. /\ EndpointTypeOK /\ TokensAreSpent /\ EndpointsAreNew /\ ReferencesInSync
      /\ PutsOwnPipes /\ PutsAreHonest /\ PipesAreHonest
  BY DEF EndpointInv
<1>2. \A q \in Puts : put[q].id \in Ids \cup {"none"}
  BY <1>1 DEF EndpointTypeOK, Request
<1>3. /\ i \in Ids /\ i # "none" /\ Taken(r)
  BY <1>1, <1>2 DEF PutsOwnPipes, Taken
<1>4. /\ ~pipe[i].closed /\ ~pipe[i].eof
      /\ worker[i] # "idle"
  BY <1>1, <1>3 DEF PutsAreHonest, PipesAreHonest, PutsOwnPipes
<1>5. \A j \in Ids :
        /\ task[j].state \in Terminal => task'[j].state = task[j].state
        /\ worker[j] # "idle" => worker'[j] # "idle"
        /\ task'[j].state = "completed"
             => \/ task[j].state = "completed"
                \/ task[j].state = "running" /\ result[j] = "ok"
  BY ManagerFacts
<1>6. /\ put' \in [Puts -> Request]
      /\ \A q \in Puts : put'[q].token = put[q].token
      /\ \A q \in Puts : q # r => put'[q] = put[q]
      /\ put'[r].id = i
  BY DEF Moved
<1>7. /\ pipe' \in [Ids -> PipeState]
      /\ \A j \in Ids : j # i => pipe'[j] = pipe[j]
      /\ pipe'[i].eof = pipe[i].eof
  BY DEF Piped
<1>8. \A q \in Puts : Taken(q) /\ q # r => put[q].id # i
  BY <1>1, <1>3 DEF PutsOwnPipes
<1>9. UNCHANGED <<issued, tokens, byHandle, minting, result>>
  BY DEF endpoints
<1> HIDE DEF i
<1>10. EndpointTypeOK'
  BY <1>1, <1>6, <1>7, <1>9 DEF EndpointTypeOK
<1>11. TokensAreSpent' /\ EndpointsAreNew' /\ ReferencesInSync'
  BY <1>6, MapsStay
<1>12. PutsOwnPipes'
  <2>1. ASSUME NEW q \in Puts
        PROVE  /\ put'[q].id = put[q].id
               /\ Taken(q)' <=> Taken(q)
    BY <1>3, <1>6 DEF Taken, Sending, i
  <2>2. \A q \in Puts : Taken(q) => worker'[put[q].id] # "idle"
    BY <1>1, <1>2, <1>5 DEF PutsOwnPipes, Taken
  <2>3. \A q \in Puts : /\ put'[q].pc = "waiting" => put'[q].id = "none"
                        /\ put'[q].pc \in Sending => put'[q].id # "none"
    BY <1>1, <1>3, <1>6 DEF PutsOwnPipes, Sending
  <2>4. QED
    BY <1>1, <2>1, <2>2, <2>3 DEF PutsOwnPipes
<1>13. PutsAreHonest'
  <2>1. SUFFICES ASSUME NEW q \in Puts, put'[q].pc \in Sending
                 PROVE  /\ ~pipe'[put'[q].id].closed
                        /\ put'[q].pc = "copied" => pipe'[put'[q].id].whole
                        /\ put'[q].pc \in {"aborting", "aborted"}
                             => task'[put'[q].id].state \in Terminal
    BY DEF PutsAreHonest
  <2>2. CASE q = r
    <3>1. put'[r].pc # "answered"
      BY <2>1, <2>2 DEF Sending
    <3>2. QED
      BY <1>6, <1>7, <2>2, <3>1 DEF i
  <2>3. CASE q # r
    <3>1. put'[q] = put[q] /\ put[q].pc \in Sending
      BY <1>6, <2>1, <2>3
    <3>2. put[q].id \in Ids /\ put[q].id # i
      BY <1>1, <1>2, <1>8, <2>3, <3>1 DEF PutsOwnPipes, Taken
    <3>3. pipe'[put[q].id] = pipe[put[q].id]
      BY <1>7, <3>2
    <3>4. QED
      BY <1>1, <1>5, <3>1, <3>2, <3>3 DEF PutsAreHonest
  <2>4. QED
    BY <2>2, <2>3
<1>14. PipesAreHonest'
  <2>1. SUFFICES ASSUME NEW j \in Ids
                 PROVE  /\ pipe'[j].eof => pipe'[j].closed
                        /\ pipe'[j].closed => worker'[j] # "idle"
                        /\ pipe'[j].closed
                             => pipe'[j].whole \/ task'[j].state \in Terminal
                        /\ result'[j] = "ok" => pipe'[j].eof
                        /\ task'[j].state = "completed" => pipe'[j].whole
    BY DEF PipesAreHonest
  <2>2. /\ pipe[j].eof => pipe[j].closed
        /\ pipe[j].closed => worker[j] # "idle"
        /\ pipe[j].closed => pipe[j].whole \/ task[j].state \in Terminal
        /\ result[j] = "ok" => pipe[j].eof
        /\ task[j].state = "completed" => pipe[j].whole
    BY <1>1 DEF PipesAreHonest
  <2>3. "running" \notin Terminal
    BY DEF Terminal
  <2>4. CASE j = i
    <3>1. task'[i].state = "completed" => pipe'[i].whole
      BY <1>4, <1>5, <1>3, <2>2, <2>4 DEF i
    <3>2. QED
      BY <1>4, <1>5, <1>7, <1>9, <2>2, <2>4, <3>1 DEF i
  <2>5. CASE j # i
    BY <1>5, <1>7, <1>9, <2>2, <2>3, <2>5
  <2>6. QED
    BY <2>4, <2>5
<1>15. QED
  BY <1>10, <1>11, <1>12, <1>13, <1>14 DEF EndpointInv

(* The manager takes the pipe of a claimed PUT for an upload that had none,*)
(* or refuses it.                                                          *)
LEMMA HandOverStep ==
  ASSUME LifeInv, EndpointInv, NEW r \in Puts, HandOver(r)
  PROVE  EndpointInv'
<1>1. /\ EndpointTypeOK /\ TokensAreSpent /\ EndpointsAreNew /\ ReferencesInSync
      /\ PutsOwnPipes /\ PutsAreHonest /\ PipesAreHonest
      /\ IInv /\ TypeOK
  BY DEF EndpointInv, LifeInv, IInv
<1>2. \A q \in Puts : put[q].id \in Ids \cup {"none"}
  BY <1>1 DEF EndpointTypeOK, Request
<1>3. /\ put[r].pc = "claimed" /\ ~Taken(r)
      /\ UNCHANGED <<endpoints, issued, tokens, byHandle, minting, pipe>>
  BY DEF HandOver, endpoints, Taken, Sending
<1>4. /\ [Next]_vars
      /\ UNCHANGED result
      /\ \/ Refused(r)
         \/ \E i \in Ids : /\ Started(r, i)
                           /\ worker[i] = "idle" /\ worker'[i] = "spawned"
  <2>1. ASSUME NEW i \in Ids, Begin(i), Begun(r, i),
               task[i].state \in {"none", "prepared"}
        PROVE  /\ UNCHANGED result
               /\ \/ Refused(r)
                  \/ Started(r, i) /\ worker[i] = "idle" /\ worker'[i] = "spawned"
    <3>1. worker[i] = "idle"
      BY <1>1, <2>1, WorkerOfState
    <3>2. UNCHANGED result
      BY <2>1 DEF Begin
    <3>3. QED
      BY <2>1, <3>1, <3>2 DEF Begun
  <2>2. CASE put[r].id # "none" /\ Fulfill(put[r].id) /\ Begun(r, put[r].id)
    <3>1. put[r].id \in Ids
      BY <1>2, <2>2
    <3>2. [Next]_vars
      BY <2>2, <3>1 DEF Next, Client
    <3>3. Begin(put[r].id) /\ task[put[r].id].state = "prepared"
      BY <2>2 DEF Fulfill, Claimable
    <3>4. QED
      BY <2>1, <2>2, <3>1, <3>2, <3>3
  <2>3. CASE Refused(r) /\ UNCHANGED manager
    BY <2>3 DEF manager, vars
  <2>4. CASE \E i \in Ids : Start(i) /\ Begun(r, i)
    <3>1. PICK i \in Ids : Start(i) /\ Begun(r, i)
      BY <2>4
    <3>2. [Next]_vars
      BY <3>1 DEF Next, Client
    <3>3. Begin(i) /\ task[i].state = "none"
      BY <3>1 DEF Start
    <3>4. QED
      BY <2>1, <3>1, <3>2, <3>3
  <2>5. QED
    BY <2>2, <2>3, <2>4 DEF HandOver
<1>5. ASSUME NEW pc, NEW id, Moved(r, pc, id)
      PROVE  EndpointTypeOK' /\ TokensAreSpent' /\ EndpointsAreNew' /\ ReferencesInSync'
  <2>1. \A q \in Puts : put'[q].token = put[q].token
    BY <1>5 DEF Moved
  <2>2. TokensAreSpent' /\ EndpointsAreNew' /\ ReferencesInSync'
    BY <1>3, <1>4, <2>1, MapsStay
  <2>3. EndpointTypeOK'
    BY <1>1, <1>3, <1>5 DEF EndpointTypeOK, Moved
  <2>4. QED
    BY <2>2, <2>3
<1>6. \A i \in Ids : /\ pipe'[i].whole = pipe[i].whole
                     /\ pipe'[i].closed = pipe[i].closed
                     /\ pipe[i].eof => pipe'[i].eof
                     /\ pipe'[i].eof => pipe[i].closed
                     /\ result'[i] = "ok" => pipe[i].eof
  BY <1>1, <1>3, <1>4 DEF PipesAreHonest
<1>7. CASE Refused(r)
  <2>1. Moved(r, "answered", "none")
    BY <1>1, <1>7, PutMoves
  <2>2. \A q \in Puts : \/ put'[q] = put[q]
                        \/ put'[q].pc \notin Sending /\ put'[q].id = "none"
                        \/ put'[q].pc = "claimed"
    BY <2>1 DEF Moved, Sending
  <2>3. PutsOwnPipes' /\ PutsAreHonest' /\ PipesAreHonest'
    BY <1>4, <1>6, <2>2, PipesStay
  <2>4. QED
    BY <1>5, <2>1, <2>3 DEF EndpointInv
<1>8. ASSUME NEW i \in Ids, Started(r, i), worker[i] = "idle", worker'[i] = "spawned"
      PROVE  EndpointInv'
  <2>1. Moved(r, "copying", i)
    BY <1>1, <1>8, PutMoves
  <2>2. /\ \A q \in Puts : q # r => put'[q] = put[q]
        /\ put'[r].pc = "copying" /\ put'[r].id = i
    BY <2>1 DEF Moved
  <2>3. /\ i # "none"
        /\ ~pipe[i].closed
    BY <1>1, <1>8, UploadEndpointAssumption DEF PipesAreHonest
  <2>4. \A q \in Puts : Taken(q) => put[q].id # i /\ q # r
    BY <1>1, <1>3, <1>8 DEF PutsOwnPipes
  <2>5. \A j \in Ids :
          /\ task[j].state \in Terminal => task'[j].state = task[j].state
          /\ worker[j] # "idle" => worker'[j] # "idle"
          /\ task'[j].state = "completed"
               => \/ task[j].state = "completed"
                  \/ task[j].state = "running" /\ result[j] = "ok"
    BY <1>4, ManagerFacts
  <2>6. PutsOwnPipes'
    <3>1. Taken(r)'
      BY <2>2, <2>3 DEF Taken, Sending
    <3>2. \A q \in Puts : q # r => (Taken(q)' <=> Taken(q))
      BY <2>2 DEF Taken
    <3>3. \A q \in Puts : Taken(q) => worker'[put[q].id] # "idle"
      BY <1>1, <1>2, <2>5 DEF PutsOwnPipes, Taken
    <3>4. \A q \in Puts : /\ put'[q].pc = "waiting" => put'[q].id = "none"
                          /\ put'[q].pc \in Sending => put'[q].id # "none"
      BY <1>1, <2>2, <2>3 DEF PutsOwnPipes
    <3>5. \A q \in Puts : Taken(q)' => worker'[put'[q].id] # "idle"
      BY <1>8, <2>2, <3>2, <3>3
    <3>6. ASSUME NEW q \in Puts, NEW p \in Puts, Taken(q)', Taken(p)',
                 put'[q].id = put'[p].id
          PROVE  q = p
      BY <1>1, <2>2, <2>4, <3>2, <3>6 DEF PutsOwnPipes
    <3>7. QED
      BY <3>4, <3>5, <3>6 DEF PutsOwnPipes
  <2>7. PutsAreHonest'
    <3>1. SUFFICES ASSUME NEW q \in Puts, put'[q].pc \in Sending
                   PROVE  /\ ~pipe'[put'[q].id].closed
                          /\ put'[q].pc = "copied" => pipe'[put'[q].id].whole
                          /\ put'[q].pc \in {"aborting", "aborted"}
                               => task'[put'[q].id].state \in Terminal
      BY DEF PutsAreHonest
    <3>2. CASE q = r
      BY <1>3, <2>2, <2>3, <3>2
    <3>3. CASE q # r
      <4>1. put'[q] = put[q] /\ put[q].pc \in Sending
        BY <2>2, <3>1, <3>3
      <4>2. put[q].id \in Ids
        BY <1>1, <1>2, <4>1 DEF PutsOwnPipes
      <4>3. QED
        BY <1>1, <1>3, <2>5, <4>1, <4>2 DEF PutsAreHonest
    <3>4. QED
      BY <3>2, <3>3
  <2>8. PipesAreHonest'
    <3>1. "running" \notin Terminal
      BY DEF Terminal
    <3>2. ASSUME NEW j \in Ids
          PROVE  /\ pipe'[j].eof => pipe'[j].closed
                 /\ pipe'[j].closed => worker'[j] # "idle"
                 /\ pipe'[j].closed
                      => pipe'[j].whole \/ task'[j].state \in Terminal
                 /\ result'[j] = "ok" => pipe'[j].eof
                 /\ task'[j].state = "completed" => pipe'[j].whole
      <4>1. /\ pipe[j].eof => pipe[j].closed
            /\ pipe[j].closed => worker[j] # "idle"
            /\ pipe[j].closed => pipe[j].whole \/ task[j].state \in Terminal
            /\ result[j] = "ok" => pipe[j].eof
            /\ task[j].state = "completed" => pipe[j].whole
        BY <1>1 DEF PipesAreHonest
      <4>2. QED
        BY <1>3, <1>4, <2>5, <3>1, <4>1
    <3>3. QED
      BY <3>2 DEF PipesAreHonest
  <2>9. QED
    BY <1>5, <2>1, <2>6, <2>7, <2>8 DEF EndpointInv
<1>9. QED
  BY <1>4, <1>7, <1>8

(* The handler copies the body, or aborts, and closes its write end.       *)
LEMMA HandlerStep ==
  ASSUME LifeInv, EndpointInv, NEW r \in Puts,
         \/ CopyEnds(r) \/ BodyBreaks(r) \/ PipeBreaks(r) \/ Abort(r)
         \/ CancelReturns(r) \/ CloseWriter(r)
  PROVE  EndpointInv'
<1> DEFINE i == put[r].id
<1>1. /\ EndpointTypeOK /\ PutsOwnPipes /\ PutsAreHonest /\ PipesAreHonest
      /\ IInv /\ RetentionInv
  BY DEF EndpointInv, LifeInv
<1>2. ASSUME put[r].pc \in Sending
      PROVE  /\ i \in Ids /\ ~pipe[i].closed /\ worker[i] # "idle"
             /\ put[r].pc = "copied" => pipe[i].whole
             /\ put[r].pc \in {"aborting", "aborted"} => task[i].state \in Terminal
  <2>1. i \in Ids \cup {"none"}
    BY <1>1 DEF EndpointTypeOK, Request
  <2>2. i # "none"
    BY <1>1, <1>2 DEF PutsOwnPipes
  <2>3. Taken(r)
    BY <1>2, <2>2 DEF Taken
  <2>4. QED
    BY <1>1, <1>2, <2>1, <2>2, <2>3 DEF PutsOwnPipes, PutsAreHonest
<1>3. ASSUME NEW pc \in Sending, put' = [put EXCEPT ![r].pc = pc],
             put[r].pc \in Sending, [Next]_vars, UNCHANGED <<endpoints, result, pipe>>,
             pc = "copied" => pipe[i].whole,
             pc \in {"aborting", "aborted"} => task'[i].state \in Terminal
      PROVE  EndpointInv'
  <2>1. Moved(r, pc, i)
    BY <1>1, <1>3, PutMoves
  <2>2. Piped(i, pipe[i].whole, pipe[i].closed, pipe[i].eof)
    BY <1>1, <1>2, <1>3, PipeMoves
  <2>3. put'[r].pc = pc /\ pipe' = pipe
    BY <1>3, <2>1 DEF Moved
  <2>4. QED
    BY <1>2, <1>3, <2>1, <2>2, <2>3, SenderStep
<1>4. CASE CopyEnds(r)
  <2>1. /\ put[r].pc = "copying" /\ "copying" \in Sending /\ "copied" \in Sending
        /\ [Next]_vars /\ UNCHANGED <<endpoints, result>>
    BY <1>4 DEF CopyEnds, Sending, manager, vars
  <2>2. Moved(r, "copied", i)
    BY <1>1, <1>4, <2>1, PutMoves DEF CopyEnds
  <2>3. Piped(i, TRUE, pipe[i].closed, pipe[i].eof)
    BY <1>1, <1>2, <1>4, <2>1, PipeMoves DEF CopyEnds
  <2>4. /\ put'[r].pc = "copied"
        /\ pipe'[i].whole = TRUE /\ pipe'[i].closed = pipe[i].closed
    BY <2>2, <2>3 DEF Moved, Piped
  <2>5. QED
    BY <1>2, <2>1, <2>2, <2>3, <2>4, SenderStep
<1>5. CASE BodyBreaks(r) \/ PipeBreaks(r)
  <2>1. /\ put[r].pc = "copying" /\ "copying" \in Sending /\ "broken" \in Sending
        /\ [Next]_vars /\ UNCHANGED <<endpoints, result, pipe>>
        /\ put' = [put EXCEPT ![r].pc = "broken"]
    BY <1>5 DEF BodyBreaks, PipeBreaks, Sending, manager, vars
  <2>2. QED
    BY <1>3, <2>1
<1>6. CASE Abort(r)
  <2>1. /\ put[r].pc = "broken" /\ "broken" \in Sending
        /\ "aborting" \in Sending /\ "aborted" \in Sending
        /\ UNCHANGED <<endpoints, pipe>>
    BY <1>6 DEF Abort, Sending
  <2>2. CASE Cancel(i) /\ put' = [put EXCEPT ![r].pc = "aborting"]
    <3>1. [Next]_vars /\ UNCHANGED result
      BY <1>2, <2>1, <2>2 DEF Next, Client, Cancel
    <3>2. task'[i].state \in Terminal
      BY <1>1, <1>2, <2>1, <2>2 DEF Cancel, Finish, Terminal, IInv, TypeOK
    <3>3. QED
      BY <1>3, <2>1, <2>2, <3>1, <3>2
  <2>3. CASE /\ ~Cancellable(i) /\ put' = [put EXCEPT ![r].pc = "aborted"]
             /\ UNCHANGED manager
    <3>1. [Next]_vars /\ UNCHANGED <<result, task>>
      BY <2>3 DEF manager, vars
    <3>2. task[i].state \notin {"none", "prepared"}
      BY <1>1, <1>2, <2>1, WorkerOfState
    <3>3. task[i].state \in {"none", "prepared"} \cup Active \cup Terminal
      BY <1>1, <1>2, <2>1 DEF IInv, TypeOK, Task
    <3>4. Kept(i)
      BY <1>1, <1>2, <2>1 DEF RetentionInv
    <3>5. task[i].state \in Terminal
      BY <2>3, <3>2, <3>3, <3>4 DEF Kept, Cancellable
    <3>6. QED
      BY <1>3, <2>1, <2>3, <3>1, <3>5
  <2>4. QED
    BY <1>6, <2>2, <2>3 DEF Abort
<1>7. CASE CancelReturns(r)
  <2>1. /\ put[r].pc = "aborting" /\ "aborting" \in Sending /\ "aborted" \in Sending
        /\ [Next]_vars /\ UNCHANGED <<endpoints, result, task, pipe>>
        /\ put' = [put EXCEPT ![r].pc = "aborted"]
    BY <1>7 DEF CancelReturns, Sending, manager, vars
  <2>2. QED
    BY <1>2, <1>3, <2>1
<1>8. CASE CloseWriter(r)
  <2>1. /\ put[r].pc \in {"copied", "aborted"} /\ put[r].pc \in Sending
        /\ [Next]_vars /\ UNCHANGED <<endpoints, result, task>>
    BY <1>8 DEF CloseWriter, Sending, manager, vars
  <2>2. Moved(r, "answered", i)
    BY <1>1, <1>8, PutMoves DEF CloseWriter
  <2>3. Piped(i, pipe[i].whole, TRUE, pipe[i].eof)
    BY <1>1, <1>2, <1>8, <2>1, PipeMoves DEF CloseWriter
  <2>4. /\ put'[r].pc = "answered"
        /\ pipe'[i].whole = pipe[i].whole /\ pipe'[i].closed = TRUE
    BY <2>2, <2>3 DEF Moved, Piped
  <2>5. QED
    BY <1>2, <2>1, <2>2, <2>3, <2>4, SenderStep
<1>9. QED
  BY <1>4, <1>5, <1>6, <1>7, <1>8

(* The manager and the executors take a step that no PUT notices.          *)
LEMMA QuietStep ==
  ASSUME LifeInv, EndpointInv, [Next]_vars, UNCHANGED <<endpoints, put>>,
         pipe' \in [Ids -> PipeState],
         \A i \in Ids : /\ pipe'[i].whole = pipe[i].whole
                        /\ pipe'[i].closed = pipe[i].closed
                        /\ pipe[i].eof => pipe'[i].eof
                        /\ pipe'[i].eof => pipe[i].closed
                        /\ result'[i] = "ok" => pipe[i].eof
  PROVE  EndpointInv'
<1>1. UNCHANGED <<issued, tokens, byHandle, minting, put>>
  BY DEF endpoints
<1>2. EndpointTypeOK'
  BY <1>1 DEF EndpointInv, EndpointTypeOK
<1>3. TokensAreSpent' /\ EndpointsAreNew' /\ ReferencesInSync'
  BY <1>1, MapsStay
<1>4. PutsOwnPipes' /\ PutsAreHonest' /\ PipesAreHonest'
  BY <1>1, PipesStay
<1>5. QED
  BY <1>2, <1>3, <1>4 DEF EndpointInv

LEMMA ExecutorStep ==
  ASSUME LifeInv, EndpointInv, NEW i \in Ids, ReadsEnd(i) \/ Returns(i)
  PROVE  EndpointInv'
<1>1. /\ EndpointTypeOK /\ PipesAreHonest /\ TypeOK
      /\ pipe \in [Ids -> PipeState]
  BY DEF EndpointInv, EndpointTypeOK, LifeInv, IInv
<1>2. CASE ReadsEnd(i)
  <2>1. /\ [Next]_vars /\ UNCHANGED <<endpoints, put, result>>
        /\ pipe[i].closed /\ pipe' = [pipe EXCEPT ![i].eof = TRUE]
    BY <1>2 DEF ReadsEnd, manager, vars
  <2>2. Piped(i, pipe[i].whole, pipe[i].closed, TRUE)
    BY <1>1, <2>1, PipeMoves
  <2>3. ASSUME NEW j \in Ids
        PROVE  /\ pipe'[j].whole = pipe[j].whole
               /\ pipe'[j].closed = pipe[j].closed
               /\ pipe[j].eof => pipe'[j].eof
               /\ pipe'[j].eof => pipe[j].closed
               /\ result'[j] = "ok" => pipe[j].eof
    BY <1>1, <2>1, <2>2 DEF Piped, PipesAreHonest
  <2>4. pipe' \in [Ids -> PipeState]
    BY <2>2 DEF Piped
  <2>5. QED
    BY <2>1, <2>3, <2>4, QuietStep
<1>3. CASE Returns(i)
  <2>1. /\ ExecReturns(i) /\ UNCHANGED <<endpoints, put, pipe>>
        /\ result'[i] = "ok" => pipe[i].eof
    BY <1>3 DEF Returns
  <2>2. [Next]_vars
    BY <2>1 DEF Next
  <2>3. \A j \in Ids : j # i => result'[j] = result[j]
    BY <1>1, <2>1 DEF ExecReturns, TypeOK
  <2>4. QED
    BY <1>1, <2>1, <2>2, <2>3, QuietStep DEF PipesAreHonest
<1>4. QED
  BY <1>2, <1>3

LEMMA ManagerAloneStep ==
  ASSUME LifeInv, EndpointInv, ManagerStep
  PROVE  EndpointInv'
<1>1. /\ PipesAreHonest /\ TypeOK /\ pipe \in [Ids -> PipeState]
      /\ UNCHANGED <<endpoints, put, pipe>>
  BY DEF EndpointInv, EndpointTypeOK, LifeInv, IInv, ManagerStep, ManagerAlone
<1>2. [Next]_vars
  BY DEF ManagerStep, Client, Next
<1>3. \A j \in Ids : result'[j] \in {result[j], "none"}
  <2>1. ASSUME NEW i \in Ids, Cancel(i) \/ Deadline(i) \/ Poll \/ Tick
        PROVE  UNCHANGED result
    BY <2>1 DEF Cancel, Deadline, Poll, Tick
  <2>2. ASSUME NEW i \in Ids, Complete(i)
        PROVE  \A j \in Ids : result'[j] \in {result[j], "none"}
    BY <1>1, <2>2 DEF Complete, TypeOK
  <2>3. ASSUME NEW i \in Ids, Unattended(i), ~Complete(i)
        PROVE  UNCHANGED result
    BY <2>3 DEF Unattended, Run, Bail, StopWatchdog, Release, WatchdogFires,
       WatchdogCancels, WatchdogFails, CancelContext, CancelReader
  <2>4. ASSUME Poll \/ Tick
        PROVE  UNCHANGED result
    BY <2>4 DEF Poll, Tick
  <2>5. QED
    BY <2>1, <2>2, <2>3, <2>4 DEF ManagerStep
<1>4. QED
  BY <1>1, <1>2, <1>3, QuietStep DEF PipesAreHonest

LEMMA EndpointStep == LifeInv /\ EndpointInv /\ [EndpointNext]_allVars => EndpointInv'
<1> SUFFICES ASSUME LifeInv, EndpointInv, [EndpointNext]_allVars
             PROVE  EndpointInv'
  OBVIOUS
<1>1. ASSUME NEW t \in Tokens, NEW ttl \in EndpointTTLs, Mint(t, ttl)
      PROVE  EndpointInv'
  <2>1. ttl \in Int /\ "none" \in Ids \cup {"none"}
    BY UploadTasksAssumption
  <2>2. /\ Register(t, "none", ttl) /\ UNCHANGED <<manager, put, pipe>>
        /\ UNCHANGED minting
    BY <1>1 DEF Mint
  <2>3. QED
    BY <2>1, <2>2, RegisterStep
<1>2. ASSUME NEW i \in Ids, NEW ttl \in EndpointTTLs, PrepareHandle(i, ttl)
      PROVE  EndpointInv'
  BY <1>2, PrepareHandleStep
<1>3. ASSUME NEW i \in Ids, NEW t \in Tokens, PrepareEndpoint(i, t)
      PROVE  EndpointInv'
  <2>1. minting[i] \in Int /\ i \in Ids \cup {"none"} /\ i # "none"
    BY UploadEndpointAssumption DEF EndpointInv, EndpointTypeOK
  <2>2. /\ Register(t, i, minting[i]) /\ UNCHANGED <<manager, put, pipe>>
        /\ minting[i] > 0 /\ minting' = [minting EXCEPT ![i] = 0]
    BY <1>3 DEF PrepareEndpoint
  <2>3. QED
    BY <2>1, <2>2, RegisterStep
<1>4. ASSUME NEW i \in Ids, ReadsEnd(i) \/ Returns(i)
      PROVE  EndpointInv'
  BY <1>4, ExecutorStep
<1>5. ASSUME NEW r \in Puts, NEW t \in Tokens, Claim(r, t)
      PROVE  EndpointInv'
  BY <1>5, ClaimStep
<1>6. ASSUME NEW r \in Puts, HandOver(r)
      PROVE  EndpointInv'
  BY <1>6, HandOverStep
<1>7. ASSUME NEW r \in Puts,
             \/ CopyEnds(r) \/ BodyBreaks(r) \/ PipeBreaks(r) \/ Abort(r)
             \/ CancelReturns(r) \/ CloseWriter(r)
      PROVE  EndpointInv'
  BY <1>7, HandlerStep
<1>8. ASSUME ManagerStep
      PROVE  EndpointInv'
  BY <1>8, ManagerAloneStep
<1>9. ASSUME UNCHANGED allVars
      PROVE  EndpointInv'
  <2>1. UNCHANGED <<endpoints, put, pipe, result>> /\ [Next]_vars
    BY <1>9 DEF allVars, vars
  <2>2. pipe' \in [Ids -> PipeState]
    BY <2>1 DEF EndpointInv, EndpointTypeOK
  <2>3. QED
    BY <2>1, <2>2, QuietStep DEF EndpointInv, PipesAreHonest
<1>10. QED
  BY <1>1, <1>2, <1>3, <1>4, <1>5, <1>6, <1>7, <1>8, <1>9 DEF EndpointNext

LEMMA EndpointInitInv == EndpointInit => LifeInv /\ EndpointInv
<1> SUFFICES ASSUME EndpointInit
             PROVE  LifeInv /\ EndpointInv
  OBVIOUS
<1>1. /\ Init /\ issued = {} /\ tokens = <<>> /\ byHandle = <<>>
      /\ minting = [i \in Ids |-> 0]
      /\ put = [r \in Puts |-> [pc |-> "waiting", token |-> "none",
                                id |-> "none", status |-> "none"]]
      /\ pipe = [i \in Ids |-> [whole |-> FALSE, closed |-> FALSE, eof |-> FALSE]]
  BY DEF EndpointInit
<1>2. LifeInv
  BY <1>1, LifeInit
<1>3. DOMAIN tokens = {} /\ DOMAIN byHandle = {}
  BY <1>1
<1>4. /\ tokens \in [DOMAIN tokens -> Endpoint]
      /\ byHandle \in [DOMAIN byHandle -> Tokens]
  BY <1>1, <1>3
<1>5. \A r \in Puts : /\ put[r].pc = "waiting" /\ put[r].token = "none"
                      /\ put[r].id = "none"
                      /\ put[r] \in Request
  BY <1>1 DEF Request
<1>6. \A i \in Ids : /\ ~pipe[i].closed /\ ~pipe[i].eof /\ pipe[i] \in PipeState
                     /\ minting[i] = 0
                     /\ task[i].state = "none" /\ result[i] = "none"
  BY <1>1 DEF PipeState, Init, NoTask
<1>7. EndpointTypeOK
  <2>1. put \in [Puts -> Request] /\ pipe \in [Ids -> PipeState]
    BY <1>1, <1>5, <1>6
  <2>2. QED
    BY <1>1, <1>3, <1>4, <2>1 DEF EndpointTypeOK
<1>8. TokensAreSpent /\ EndpointsAreNew /\ ReferencesInSync
  BY <1>3, <1>5, <1>6 DEF TokensAreSpent, EndpointsAreNew, ReferencesInSync
<1>9. PutsOwnPipes /\ PutsAreHonest /\ PipesAreHonest
  BY <1>5, <1>6 DEF PutsOwnPipes, PutsAreHonest, PipesAreHonest, Taken, Sending
<1>10. QED
  BY <1>2, <1>7, <1>8, <1>9 DEF EndpointInv

(* The endpoints are a client of the manager like any other: with their    *)
(* mutex and their handlers around it, it goes through steps of its own    *)
(* specification only, so what holds of those holds beneath the endpoints  *)
(* (upload_http.go calls Prepare, Fulfill, Start and Cancel).              *)
THEOREM EndpointsDriveTheManager == EndpointSpec => Spec
<1>1. EndpointInit => Init
  BY DEF EndpointInit
<1>2. LifeInv /\ EndpointInv /\ [EndpointNext]_allVars => [Next]_vars
  BY ManagerMoves
<1>3. QED
  BY <1>1, <1>2, EndpointInitInv, EndpointStep, LifeStep, PTL DEF EndpointSpec, Spec

(* What holds of the manager and its endpoints after every step.           *)
THEOREM EndpointInvariance == EndpointSpec => [](LifeInv /\ EndpointInv)
<1>1. LifeInv /\ EndpointInv /\ [EndpointNext]_allVars => [Next]_vars
  BY ManagerMoves
<1>2. QED
  BY <1>1, EndpointInitInv, EndpointStep, LifeStep, PTL DEF EndpointSpec

(* The coordinator's two maps agree at all times: byHandle names exactly   *)
(* the live, unused endpoints (Prepare, FindUpload, claim, the sweep).     *)
THEOREM MapsAgree == EndpointSpec => []ReferencesInSync
<1>1. LifeInv /\ EndpointInv => ReferencesInSync
  BY DEF EndpointInv
<1>2. QED
  BY <1>1, EndpointInvariance, PTL

(* Of any number of PUTs to one endpoint at most one has its body taken    *)
(* (claim, Fulfill, Start).                                                *)
THEOREM OneUploadPerEndpoint == EndpointSpec => []NoSiblingUploads
<1>1. ASSUME EndpointInv, NEW t \in Tokens
      PROVE  Cardinality({r \in Puts : put[r].token = t /\ put[r].id # "none"}) <= 1
  <2> DEFINE R == {r \in Puts : put[r].token = t /\ put[r].id # "none"}
  <2>1. t # "none"
    BY UploadEndpointAssumption
  <2>2. \A r, q \in R : r = q
    BY <1>1, <2>1 DEF EndpointInv, TokensAreSpent
  <2>3. CASE R = {}
    BY <2>3, FS_EmptySet
  <2>4. ASSUME NEW r \in R
        PROVE  Cardinality(R) <= 1
    <3>1. R = {r}
      BY <2>2, <2>4
    <3>2. Cardinality({r}) = 1
      BY FS_Singleton
    <3> HIDE DEF R
    <3>3. QED
      BY <3>1, <3>2
  <2>5. QED
    BY <2>3, <2>4
<1>2. EndpointInv => NoSiblingUploads
  BY <1>1 DEF NoSiblingUploads
<1>3. QED
  BY <1>2, EndpointInvariance, PTL

(* An upload is reported completed only if its whole body went through the *)
(* pipe, whoever cancels, times out or breaks off at which moment          *)
(* (putHandler aborts before it closes the write end).                     *)
THEOREM NoTruncatedUploads == EndpointSpec => []NoTruncatedResult
<1>1. LifeInv /\ EndpointInv => NoTruncatedResult
  BY DEF EndpointInv, PipesAreHonest, NoTruncatedResult
<1>2. QED
  BY <1>1, EndpointInvariance, PTL

=============================================================================
