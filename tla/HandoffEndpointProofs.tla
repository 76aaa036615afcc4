------------------------ MODULE HandoffEndpointProofs ------------------------
(***************************************************************************)
(* Theorems about HandoffEndpoint, for any finite set of tokens, any       *)
(* number of requests, any cap and TTL, and however long the clock runs.   *)
(***************************************************************************)
EXTENDS HandoffEndpoint, SequenceLemmas

(* Tombstones and their FIFO, which names each of them once. *)
Tombstones(tombs, S) ==
  /\ tombs.order \in Seq(S)
  /\ tombs.set = {tombs.order[k] : k \in 1..Len(tombs.order)}
  /\ \A j, k \in 1..Len(tombs.order) : tombs.order[j] = tombs.order[k] => j = k

(* What is left of a FIFO is younger than what went. *)
YoungestKept(order, left) ==
  \A j, k \in 1..Len(order) : order[j] \in left /\ order[k] \notin left => k < j

(* The FIFO goes on where it was. *)
Continues(order, from) ==
  /\ Len(from) <= Len(order)
  /\ \A k \in 1..Len(from) : order[k] = from[k]

-----------------------------------------------------------------------------
(* The operators on tombstones.                                            *)

LEMMA MarkNewFacts ==
  ASSUME NEW S, NEW tombs, Tombstones(tombs, S),
         NEW B \in SUBSET S, IsFiniteSet(B), B \cap tombs.set = {},
         NEW batch \in SetToSeqs(B)
  PROVE  LET new == MarkEach(tombs, batch)
         IN  /\ Tombstones(new, S)
             /\ new.set = tombs.set \cup B
             /\ Continues(new.order, tombs.order)
<1> DEFINE s == tombs.order
           q == s \o batch
           new == MarkEach(tombs, batch)
<1>1. /\ batch \in Seq(B) /\ Len(batch) \in Nat
      /\ \A x \in B : \E k \in 1..Len(batch) : batch[k] = x
      /\ \A j, k \in 1..Len(batch) : batch[j] = batch[k] => j = k
  BY EnumerationFacts
<1>2. \A k \in 1..Len(batch) : batch[k] \in B
  BY <1>1, ElementOfSeq
<1>3. B = Range(batch) /\ batch \in Seq(S)
  <2>1. DOMAIN batch = 1..Len(batch)
    BY <1>1, LenProperties
  <2>2. B = Range(batch)
    BY <1>1, <1>2, <2>1 DEF Range
  <2>3. batch \in Seq(S)
    BY <1>1
  <2>4. QED
    BY <2>2, <2>3
<1>4. /\ s \in Seq(S) /\ Len(s) \in Nat
      /\ tombs.set = {s[k] : k \in 1..Len(s)}
      /\ \A j, k \in 1..Len(s) : s[j] = s[k] => j = k
  BY LenProperties DEF Tombstones
<1>5. \A j \in 1..Len(s), k \in 1..Len(batch) : s[j] # batch[k]
  BY <1>2, <1>4
<1>6. new.set = tombs.set \cup B /\ new.order = q
  BY <1>3 DEF MarkEach
<1> HIDE DEF s
<1>7. /\ \A x : (\E k \in 1..Len(s \o batch) : (s \o batch)[k] = x)
                  <=> \/ \E k \in 1..Len(s) : s[k] = x
                      \/ \E k \in 1..Len(batch) : batch[k] = x
      /\ \A j, k \in 1..Len(s \o batch) :
           (s \o batch)[j] = (s \o batch)[k] => j = k
  <2>1. batch \in Seq(S) /\ \A j, k \in 1..Len(batch) : batch[j] = batch[k] => j = k
    BY <1>1, <1>3
  <2>2. QED
    BY <1>4, <1>5, <2>1, AppendFacts
<1>8. /\ q \in Seq(S) /\ Len(q) = Len(s) + Len(batch)
      /\ \A k \in 1..Len(s) : q[k] = s[k]
  BY <1>1, <1>3, <1>4, ConcatProperties
<1>9. /\ \A x : (\E k \in 1..Len(q) : q[k] = x)
                   <=> \/ \E k \in 1..Len(s) : s[k] = x
                       \/ \E k \in 1..Len(batch) : batch[k] = x
       /\ \A j, k \in 1..Len(q) : q[j] = q[k] => j = k
  BY <1>7
<1> HIDE DEF q, new
<1>10. new.set = {q[k] : k \in 1..Len(q)}
  <2>1. ASSUME NEW x
        PROVE  x \in new.set <=> \E k \in 1..Len(q) : q[k] = x
    <3>1. x \in tombs.set <=> \E k \in 1..Len(s) : s[k] = x
      BY <1>4
    <3>2. x \in B <=> \E k \in 1..Len(batch) : batch[k] = x
      BY <1>1, <1>2
    <3>3. QED
      BY <1>6, <1>9, <3>1, <3>2
  <2>2. QED
    BY <2>1
<1>11. Tombstones(new, S)
  <2>1. new.order = q
    BY <1>6
  <2>2. new.set = {new.order[k] : k \in 1..Len(new.order)}
    BY <1>10, <2>1
  <2>3. new.order \in Seq(S)
    BY <1>8, <2>1
  <2>4. \A j, k \in 1..Len(new.order) : new.order[j] = new.order[k] => j = k
    BY <1>9, <2>1
  <2>5. QED
    BY <2>2, <2>3, <2>4 DEF Tombstones
<1>12. Continues(q, s)
  BY <1>1, <1>4, <1>8 DEF Continues
<1>13. QED
  BY <1>6, <1>11, <1>12 DEF new, s

LEMMA MarkFacts ==
  ASSUME NEW S, NEW tombs, Tombstones(tombs, S), NEW t \in S
  PROVE  LET new == Mark(tombs, t)
         IN  /\ Tombstones(new, S)
             /\ new.set = tombs.set \cup {t}
             /\ Continues(new.order, tombs.order)
<1>1. CASE t \in tombs.set
  <2>1. Mark(tombs, t) = tombs /\ Len(tombs.order) \in Nat
    BY <1>1, LenProperties DEF Mark, Tombstones
  <2>2. QED
    BY <1>1, <2>1 DEF Continues
<1>2. CASE t \notin tombs.set
  <2>1. <<t>> \in SetToSeqs({t}) /\ IsFiniteSet({t})
    <3>1. Cardinality({t}) = 1 /\ IsFiniteSet({t})
      BY FS_Singleton
    <3>2. <<t>> \in [1..1 -> {t}] /\ \A i, j \in 1..1 : i = j
      OBVIOUS
    <3>3. QED
      BY <3>1, <3>2 DEF SetToSeqs
  <2>2. Mark(tombs, t) = MarkEach(tombs, <<t>>)
    <3>1. Append(tombs.order, t) = tombs.order \o <<t>>
      BY AppendIsConcat DEF Tombstones
    <3>2. Range(<<t>>) = {t}
      BY DEF Range
    <3>3. QED
      BY <1>2, <3>1, <3>2 DEF Mark, MarkEach
  <2>3. QED
    BY <1>2, <2>1, <2>2, MarkNewFacts
<1>3. QED
  BY <1>1, <1>2

LEMMA DropIsSuffix ==
  ASSUME NEW S, NEW tombs, Tombstones(tombs, S), NEW k \in 0..Len(tombs.order)
  PROVE  LET left == Drop(tombs, k)
         IN  /\ Tombstones(left, S)
             /\ left.set = {tombs.order[i] : i \in k + 1..Len(tombs.order)}
<1> DEFINE s == tombs.order
           r == SubSeq(s, k + 1, Len(s))
           left == Drop(tombs, k)
<1>1. /\ s \in Seq(S) /\ Len(s) \in Nat /\ k \in 0..Len(s)
      /\ tombs.set = {s[i] : i \in 1..Len(s)}
      /\ \A i, j \in 1..Len(s) : s[i] = s[j] => i = j
  BY LenProperties DEF Tombstones
<1>2. left.order = r /\ left.set = tombs.set \ {s[j] : j \in 1..k}
  BY DEF Drop
<1> HIDE DEF s, left
<1>3. /\ r \in Seq(S)
      /\ \A x : (\E i \in 1..Len(r) : r[i] = x)
                  <=> /\ \E i \in 1..Len(s) : s[i] = x
                      /\ ~\E i \in 1..k : s[i] = x
      /\ \A i, j \in 1..Len(r) : r[i] = r[j] => i = j
  BY <1>1, DropFacts
<1> HIDE DEF r
<1>4. left.set = {r[i] : i \in 1..Len(r)}
  <2>1. ASSUME NEW x
        PROVE  x \in left.set <=> \E i \in 1..Len(r) : r[i] = x
    <3>1. x \in tombs.set <=> \E i \in 1..Len(s) : s[i] = x
      BY <1>1
    <3>2. x \in left.set <=> x \in tombs.set /\ ~\E j \in 1..k : s[j] = x
      BY <1>2
    <3>3. QED
      BY <1>3, <3>1, <3>2
  <2>2. QED
    BY <2>1
<1>5. left.set = {s[i] : i \in k + 1..Len(s)}
  <2>1. \A i \in 1..Len(s) : i \in 1..k \/ i \in k + 1..Len(s)
    BY <1>1
  <2>2. \A i \in k + 1..Len(s) : i \in 1..Len(s) /\ \A j \in 1..k : i # j
    BY <1>1
  <2>3. \A j \in 1..k : j \in 1..Len(s)
    BY <1>1
  <2>4. \A i \in k + 1..Len(s), j \in 1..k : s[i] # s[j]
    BY <1>1, <2>2, <2>3
  <2>5. ASSUME NEW x
        PROVE  x \in left.set <=> \E i \in k + 1..Len(s) : s[i] = x
    BY <1>1, <1>2, <2>1, <2>2, <2>3, <2>4
  <2>6. QED
    BY <2>5
<1>6. Tombstones(left, S)
  <2>1. left.order = r
    BY <1>2
  <2>2. left.set = {left.order[i] : i \in 1..Len(left.order)}
    BY <1>4, <2>1
  <2>3. \A i, j \in 1..Len(left.order) : left.order[i] = left.order[j] => i = j
    BY <1>3, <2>1
  <2>4. QED
    BY <1>3, <2>1, <2>2, <2>3 DEF Tombstones
<1>7. QED
  BY <1>5, <1>6 DEF s, left

(* Pruning gives up as few of the oldest as bring the rest to the cap.     *)
LEMMA PruneFacts ==
  ASSUME NEW S, IsFiniteSet(S), NEW tombs, Tombstones(tombs, S)
  PROVE  LET left == Prune(tombs)
         IN  /\ Tombstones(left, S)
             /\ left.set \subseteq tombs.set
             /\ Cardinality(left.set) <= MaxSpentTombstones
             /\ Cardinality(left.set) < MaxSpentTombstones
                  => left.set = tombs.set
             /\ YoungestKept(tombs.order, left.set)
<1> DEFINE s == tombs.order
           n == Len(s)
           fits(k) == \/ k = n
                      \/ Cardinality(Drop(tombs, k).set) <= MaxSpentTombstones
           least(k) == fits(k) /\ \A j \in 0..k - 1 : ~fits(j)
           T == {k \in 0..n : fits(k)}
<1>1. /\ n \in Nat /\ MaxSpentTombstones \in Nat
      /\ tombs.set = {s[i] : i \in 1..n}
      /\ \A i \in 1..n : s[i] \in S
      /\ \A i, j \in 1..n : s[i] = s[j] => i = j
  BY LenProperties, ElementOfSeq, HandoffEndpointAssumption DEF Tombstones
<1>2. Prune(tombs) = Drop(tombs, CHOOSE k \in 0..n : least(k))
  BY DEF Prune
<1>3. n \in T /\ T \in SUBSET Nat
  BY <1>1
<1> HIDE DEF fits
<1>4. \E k \in 0..n : least(k)
  <2>1. PICK k \in T : \A j \in T : k <= j
    BY <1>3, LeastNumber
  <2>2. k \in 0..n /\ fits(k)
    OBVIOUS
  <2>3. ASSUME NEW j \in 0..k - 1
        PROVE  ~fits(j)
    <3>1. j \in 0..n /\ ~(k <= j)
      BY <1>1, <2>2
    <3>2. QED
      BY <2>1, <3>1
  <2>4. QED
    BY <2>2, <2>3
<1>5. PICK k \in 0..n : least(k) /\ Prune(tombs) = Drop(tombs, k)
  BY <1>2, <1>4
<1> DEFINE left == Prune(tombs)
<1>6. Tombstones(left, S) /\ left.set = {s[i] : i \in k + 1..n}
  BY <1>5, DropIsSuffix
<1> HIDE DEF left
<1>7. left.set \subseteq tombs.set /\ tombs.set \subseteq S /\ IsFiniteSet(left.set)
  <2>1. \A i \in k + 1..n : i \in 1..n
    BY <1>1, <1>5
  <2>2. left.set \subseteq tombs.set /\ tombs.set \subseteq S
    BY <1>1, <1>6, <2>1
  <2>3. QED
    BY <2>2, FS_Subset
<1>8. Cardinality(left.set) <= MaxSpentTombstones
  <2>1. CASE k = n
    <3>1. left.set = {}
      BY <1>1, <1>6, <2>1
    <3>2. QED
      BY <1>1, <3>1, FS_EmptySet
  <2>2. CASE k # n
    BY <1>5, <2>2 DEF fits, left
  <2>3. QED
    BY <2>1, <2>2
<1>9. ASSUME Cardinality(left.set) < MaxSpentTombstones
      PROVE  left.set = tombs.set
  <2>1. CASE k = 0
    BY <1>1, <1>6, <2>1
  <2>2. CASE k # 0
    <3> DEFINE more == Drop(tombs, k - 1).set
    <3>1. k - 1 \in 0..n /\ k - 1 \in 0..k - 1 /\ k - 1 # n
      BY <1>1, <2>2
    <3>2. ~(Cardinality(more) <= MaxSpentTombstones)
      BY <1>5, <3>1 DEF fits
    <3>3. more = {s[i] : i \in (k - 1) + 1..n}
      BY <3>1, DropIsSuffix
    <3> HIDE DEF more
    <3>4. more = left.set \cup {s[k]}
      <4>1. \A i \in (k - 1) + 1..n : i = k \/ i \in k + 1..n
        BY <1>1
      <4>2. k \in (k - 1) + 1..n /\ \A i \in k + 1..n : i \in (k - 1) + 1..n
        BY <1>1, <2>2
      <4>3. QED
        BY <1>6, <3>3, <4>1, <4>2
    <3>5. /\ IsFiniteSet(more) /\ Cardinality(left.set) \in Nat
          /\ Cardinality(more) \in Nat
          /\ Cardinality(more) <= Cardinality(left.set) + 1
      <4>1. Cardinality(left.set) \in Nat
        BY <1>7, FS_CardinalityType
      <4>2. /\ IsFiniteSet(left.set \cup {s[k]})
            /\ Cardinality(left.set \cup {s[k]})
                 = IF s[k] \in left.set THEN Cardinality(left.set)
                                        ELSE Cardinality(left.set) + 1
        BY <1>7, FS_AddElement
      <4>3. QED
        BY <3>4, <4>1, <4>2
    <3>6. QED
      BY <1>1, <1>9, <3>2, <3>5
  <2>3. QED
    BY <2>1, <2>2
<1>10. YoungestKept(s, left.set)
  <2>1. SUFFICES ASSUME NEW i \in 1..n, NEW j \in 1..n,
                        s[i] \in left.set, s[j] \notin left.set
                 PROVE  j < i
    BY DEF YoungestKept
  <2>2. PICK m \in k + 1..n : s[m] = s[i]
    BY <1>6, <2>1
  <2>3. m = i
    BY <1>1, <2>2
  <2>4. j \notin k + 1..n
    BY <1>6, <2>1
  <2>5. QED
    BY <1>1, <2>2, <2>3, <2>4
<1>11. QED
  BY <1>6, <1>7, <1>8, <1>9, <1>10 DEF left

-----------------------------------------------------------------------------
(* The links: pending items, tombstones and what a step does to them.      *)

LinksInv ==
  /\ minted \subseteq Tokens
  /\ DOMAIN items \subseteq minted
  /\ items \in [DOMAIN items -> Nat]
  /\ Tombstones(Tombs, minted)
  /\ DOMAIN items \cap spent = {}
  /\ Cardinality(spent) <= MaxSpentTombstones + 1

(* No link comes back, the oldest tombstones go first, and only as long as *)
(* the cap is used up.                                                     *)
LinksGoOn ==
  /\ LinksInv'
  /\ minted \subseteq minted'
  /\ \A t \in minted' \ minted : t \in DOMAIN items'
  /\ \A t \in minted : t \in DOMAIN items' => t \in DOMAIN items
  /\ YoungestKept(spentOrder, spent')
  /\ Cardinality(spent') < MaxSpentTombstones
       => \A t \in spent \cup DOMAIN items : t \in spent' \cup DOMAIN items'

LEMMA LinksMove ==
  ASSUME LinksInv, UNCHANGED minted,
         NEW gone, DOMAIN items' = DOMAIN items \ gone,
         items' \in [DOMAIN items' -> Nat],
         NEW tombs, Remember(tombs), Tombstones(tombs, minted),
         tombs.set \cap (DOMAIN items \ gone) = {},
         Cardinality(tombs.set) <= MaxSpentTombstones + 1,
         Cardinality(tombs.set) < MaxSpentTombstones
           => \A t \in spent \cup DOMAIN items : t \in gone \cup spent => t \in tombs.set,
         YoungestKept(spentOrder, tombs.set)
  PROVE  LinksGoOn
<1>1. spent' = tombs.set /\ spentOrder' = tombs.order /\ minted' = minted
  BY DEF Remember
<1>2. Tombstones(Tombs, minted)'
  <2>1. Tombs'.set = tombs.set /\ Tombs'.order = tombs.order
    BY <1>1 DEF Tombs
  <2>2. Tombstones(Tombs', minted)
    BY <2>1 DEF Tombstones
  <2>3. QED
    BY <1>1, <2>2
<1>3. LinksInv'
  BY <1>1, <1>2 DEF LinksInv
<1>4. QED
  BY <1>1, <1>3 DEF LinksGoOn

(* Where the facts about the operators apply. *)
LEMMA LinksFinite ==
  ASSUME LinksInv
  PROVE  /\ IsFiniteSet(minted) /\ IsFiniteSet(spent)
         /\ Tombs.set = spent /\ Tombs.order = spentOrder
         /\ spent \subseteq minted
         /\ spentOrder \in Seq(minted) /\ DOMAIN spentOrder = 1..Len(spentOrder)
         /\ spent = {spentOrder[k] : k \in 1..Len(spentOrder)}
         /\ \A j, k \in 1..Len(spentOrder) : spentOrder[j] = spentOrder[k] => j = k
<1>1. Tombs.set = spent /\ Tombs.order = spentOrder
  BY DEF Tombs
<1>2. /\ spentOrder \in Seq(minted)
      /\ spent = {spentOrder[k] : k \in 1..Len(spentOrder)}
      /\ \A j, k \in 1..Len(spentOrder) : spentOrder[j] = spentOrder[k] => j = k
      /\ DOMAIN spentOrder = 1..Len(spentOrder)
  BY <1>1, LenProperties DEF LinksInv, Tombstones
<1>3. spent \subseteq minted
  BY <1>2, ElementOfSeq
<1>4. IsFiniteSet(minted)
  BY HandoffEndpointAssumption, FS_Subset DEF LinksInv
<1>5. IsFiniteSet(spent)
  BY <1>3, <1>4, FS_Subset
<1>6. QED
  BY <1>1, <1>2, <1>3, <1>4, <1>5

LEMMA ResolveLinks ==
  ASSUME LinksInv, NEW t, Resolve(t)
  PROVE  LinksGoOn
<1> DEFINE P == Prune(Tombs)
           lapsed == Expired(t) /\ t \notin P.set
<1>1. /\ UNCHANGED minted
      /\ items' = IF lapsed THEN Without({t}) ELSE items
      /\ Remember(IF lapsed THEN Mark(P, t) ELSE P)
  BY DEF Resolve
<1>2. /\ Tombstones(P, minted)
      /\ P.set \subseteq spent
      /\ Cardinality(P.set) <= MaxSpentTombstones
      /\ Cardinality(P.set) < MaxSpentTombstones => P.set = spent
      /\ YoungestKept(spentOrder, P.set)
  BY LinksFinite, PruneFacts DEF LinksInv
<1> HIDE DEF P
<1>3. Cardinality(P.set) \in Nat /\ MaxSpentTombstones \in Nat /\ IsFiniteSet(P.set)
  BY <1>2, LinksFinite, FS_Subset, FS_CardinalityType, HandoffEndpointAssumption
<1>4. CASE lapsed
  <2> DEFINE M == Mark(P, t)
  <2>1. t \in DOMAIN items /\ t \in minted /\ t \notin spent
    BY <1>4 DEF Expired, Pending, LinksInv
  <2>2. Tombstones(M, minted) /\ M.set = P.set \cup {t}
    BY <1>2, <2>1, MarkFacts
  <2>3. Remember(M)
    BY <1>1, <1>4
  <2> HIDE DEF M
  <2>4. Cardinality(M.set) = Cardinality(P.set) + 1
    <3>1. t \notin P.set
      BY <1>4
    <3>2. QED
      BY <1>3, <2>2, <3>1, FS_AddElement
  <2>5. items' = Without({t}) /\ DOMAIN items' = DOMAIN items \ {t}
    BY <1>1, <1>4 DEF Without
  <2>6. items' \in [DOMAIN items' -> Nat]
    BY <2>5 DEF Without, LinksInv
  <2>7. M.set \cap (DOMAIN items \ {t}) = {}
    BY <1>2, <2>2 DEF LinksInv
  <2>8. YoungestKept(spentOrder, M.set)
    <3>1. \A k \in 1..Len(spentOrder) : spentOrder[k] # t
      BY <2>1, LinksFinite
    <3>2. QED
      BY <1>2, <2>2, <3>1 DEF YoungestKept
  <2>9. Cardinality(M.set) <= MaxSpentTombstones + 1
    BY <1>2, <1>3, <2>4
  <2>10. ASSUME Cardinality(M.set) < MaxSpentTombstones,
                NEW u \in spent \cup DOMAIN items, u \in {t} \cup spent
         PROVE  u \in M.set
    <3>1. P.set = spent
      BY <1>2, <1>3, <2>4, <2>10
    <3>2. QED
      BY <2>2, <2>10, <3>1
  <2>11. QED
    BY <1>1, <2>2, <2>3, <2>5, <2>6, <2>7, <2>8, <2>9, <2>10, LinksMove
<1>5. CASE ~lapsed
  <2>1. items' = items /\ Remember(P)
    BY <1>1, <1>5
  <2>2. DOMAIN items' = DOMAIN items \ {} /\ items' \in [DOMAIN items' -> Nat]
    BY <2>1 DEF LinksInv
  <2>3. P.set \cap (DOMAIN items \ {}) = {}
    BY <1>2 DEF LinksInv
  <2>4. Cardinality(P.set) <= MaxSpentTombstones + 1
    BY <1>2, <1>3
  <2>5. Cardinality(P.set) < MaxSpentTombstones
          => \A u \in spent \cup DOMAIN items : u \in {} \cup spent => u \in P.set
    BY <1>2
  <2>6. QED
    BY <1>1, <1>2, <2>1, <2>2, <2>3, <2>4, <2>5, LinksMove
<1>6. QED
  BY <1>4, <1>5

(* Tombstones are added and the oldest pruned. *)
LEMMA SpendLinks ==
  ASSUME LinksInv, UNCHANGED minted, NEW gone \in SUBSET minted,
         items' = Without(gone),
         NEW more, Tombstones(more, minted), more.set = spent \cup gone,
         Continues(more.order, spentOrder), Remember(Prune(more))
  PROVE  LinksGoOn
<1> DEFINE P == Prune(more)
<1>1. /\ Tombstones(P, minted)
      /\ P.set \subseteq more.set
      /\ Cardinality(P.set) <= MaxSpentTombstones
      /\ Cardinality(P.set) < MaxSpentTombstones => P.set = more.set
      /\ YoungestKept(more.order, P.set)
  BY LinksFinite, PruneFacts
<1>2. Remember(P)
  OBVIOUS
<1> HIDE DEF P
<1>3. Cardinality(P.set) <= MaxSpentTombstones + 1
  <2>1. IsFiniteSet(P.set)
    BY <1>1, LinksFinite, FS_Subset
  <2>2. QED
    BY <1>1, <2>1, FS_CardinalityType, HandoffEndpointAssumption
<1>4. DOMAIN items' = DOMAIN items \ gone /\ items' \in [DOMAIN items' -> Nat]
  BY DEF Without, LinksInv
<1>5. P.set \cap (DOMAIN items \ gone) = {}
  BY <1>1 DEF LinksInv
<1>6. YoungestKept(spentOrder, P.set)
  <2>1. /\ Len(spentOrder) \in Nat /\ Len(more.order) \in Nat
        /\ Len(spentOrder) <= Len(more.order)
    BY LinksFinite, LenProperties DEF Tombstones, LinksInv, Continues
  <2>2. \A k \in 1..Len(spentOrder) :
          k \in 1..Len(more.order) /\ more.order[k] = spentOrder[k]
    BY <2>1 DEF Continues
  <2>3. QED
    BY <1>1, <2>2 DEF YoungestKept
<1>7. QED
  BY <1>1, <1>2, <1>3, <1>4, <1>5, <1>6, LinksMove

LEMMA RemoveLinks ==
  ASSUME LinksInv, NEW t \in minted, RemoveToken(t)
  PROVE  LinksGoOn /\ DOMAIN items' = DOMAIN items \ {t}
<1>1. /\ items' = Without({t}) /\ UNCHANGED minted
      /\ Remember(Prune(Mark(Tombs, t)))
  BY DEF RemoveToken
<1>2. /\ Tombstones(Mark(Tombs, t), minted)
      /\ Mark(Tombs, t).set = spent \cup {t}
      /\ Continues(Mark(Tombs, t).order, spentOrder)
  BY LinksFinite, MarkFacts DEF LinksInv
<1>3. LinksGoOn
  BY <1>1, <1>2, SpendLinks
<1>4. QED
  BY <1>1, <1>3 DEF Without

LEMMA PruneExpiredLinks ==
  ASSUME LinksInv, PruneExpired
  PROVE  LinksGoOn
<1> DEFINE B == {t \in DOMAIN items : Expired(t)}
<1>1. /\ items' = Without(B) /\ UNCHANGED minted
      /\ \E batch \in SetToSeqs(B \ spent) :
           Remember(Prune(MarkEach(Tombs, batch)))
  BY DEF PruneExpired
<1>2. B \in SUBSET minted /\ B \ spent = B /\ IsFiniteSet(B)
  <2>1. B \in SUBSET minted /\ B \ spent = B
    BY DEF LinksInv
  <2>2. QED
    BY <2>1, LinksFinite, FS_Subset
<1> HIDE DEF B
<1>3. PICK batch \in SetToSeqs(B) : Remember(Prune(MarkEach(Tombs, batch)))
  BY <1>1, <1>2
<1>4. B \cap Tombs.set = {}
  BY <1>2, LinksFinite
<1>5. /\ Tombstones(MarkEach(Tombs, batch), minted)
      /\ MarkEach(Tombs, batch).set = spent \cup B
      /\ Continues(MarkEach(Tombs, batch).order, spentOrder)
  <2>1. Tombstones(Tombs, minted) /\ Tombs.set = spent /\ Tombs.order = spentOrder
    BY LinksFinite DEF LinksInv
  <2>2. QED
    BY <1>2, <1>3, <1>4, <2>1, MarkNewFacts
<1>6. QED
  BY <1>1, <1>2, <1>3, <1>5, SpendLinks

LEMMA MintLinks ==
  ASSUME LinksInv, clock \in Nat, NEW t \in Tokens, Mint(t)
  PROVE  LinksGoOn
<1>1. /\ t \notin minted /\ minted' = minted \cup {t}
      /\ items' = [u \in DOMAIN items \cup {t} |->
                     IF u = t THEN clock + TTL ELSE items[u]]
      /\ spent' = spent /\ spentOrder' = spentOrder
  BY DEF Mint
<1>2. Tombs' = Tombs
  BY <1>1 DEF Tombs
<1>3. Tombstones(Tombs, minted)'
  <2>1. Tombs.order \in Seq(minted')
    BY <1>1 DEF LinksInv, Tombstones
  <2>2. Tombstones(Tombs, minted')
    BY <2>1 DEF LinksInv, Tombstones
  <2>3. QED
    BY <1>2, <2>2
<1>4. DOMAIN items' = DOMAIN items \cup {t} /\ items' \in [DOMAIN items' -> Nat]
  BY <1>1, HandoffEndpointAssumption DEF LinksInv
<1>5. LinksInv'
  BY <1>1, <1>3, <1>4, LinksFinite DEF LinksInv
<1>6. YoungestKept(spentOrder, spent')
  BY <1>1, LinksFinite DEF YoungestKept
<1>7. QED
  BY <1>1, <1>4, <1>5, <1>6 DEF LinksGoOn

LEMMA LinksStutter ==
  ASSUME LinksInv, UNCHANGED links
  PROVE  LinksGoOn
<1>1. /\ minted' = minted /\ items' = items
      /\ spent' = spent /\ spentOrder' = spentOrder
  BY DEF links
<1>2. LinksInv'
  <2>1. Tombs' = Tombs
    BY <1>1 DEF Tombs
  <2>2. QED
    BY <1>1, <2>1 DEF LinksInv
<1>3. YoungestKept(spentOrder, spent')
  BY <1>1, LinksFinite DEF YoungestKept
<1>4. QED
  BY <1>1, <1>2, <1>3 DEF LinksGoOn

-----------------------------------------------------------------------------
(* The requests and their work.                                            *)

RequestRecords == [pc : {"waiting", "working", "consuming", "done"} \cup Methods,
                   token : Tokens \cup {"none"}]

(* A request under way has resolved a token that was minted. *)
RequestInv ==
  /\ request \in [Requests -> RequestRecords]
  /\ \A r \in Requests :
       request[r].pc \in {"working", "consuming"} \cup Methods
         => request[r].token \in minted

(* A handler that claims has not begun its work for a token that is still  *)
(* pending, and has begun it once at most.                                 *)
WorkInv ==
  handler.claims =>
    \A t \in Tokens : /\ worked[t] <= 1
                      /\ t \notin minted \/ Pending(t) => worked[t] = 0

HandoffInv ==
  /\ clock \in Nat
  /\ LinksInv
  /\ reaper \in BOOLEAN
  /\ handler \in [consumeOnGET : BOOLEAN, claims : BOOLEAN]
  /\ RequestInv
  /\ shown \in [Tokens -> Nat]
  /\ worked \in [Tokens -> Nat]
  /\ WorkInv

LEMMA HandoffInit == Init => HandoffInv
<1> SUFFICES ASSUME Init
             PROVE  HandoffInv
  OBVIOUS
<1>1. /\ clock = 0 /\ minted = {} /\ items = <<>> /\ spent = {}
      /\ spentOrder = <<>> /\ reaper = FALSE
      /\ handler \in [consumeOnGET : BOOLEAN, claims : BOOLEAN]
      /\ request = [r \in Requests |-> [pc |-> "waiting", token |-> "none"]]
      /\ shown = [t \in Tokens |-> 0] /\ worked = [t \in Tokens |-> 0]
  BY DEF Init
<1>2. DOMAIN items = {} /\ items = [t \in {} |-> 0]
  BY <1>1
<1>3. Tombstones(Tombs, minted)
  <2>1. Tombs.set = {} /\ Tombs.order = <<>>
    BY <1>1 DEF Tombs
  <2>2. <<>> \in Seq(minted) /\ Len(<<>>) = 0
    BY EmptySeq
  <2>3. \A k \in 1..Len(Tombs.order) : FALSE
    BY <2>1, <2>2
  <2>4. QED
    BY <2>1, <2>2, <2>3 DEF Tombstones
<1>4. Cardinality(spent) <= MaxSpentTombstones + 1
  BY <1>1, FS_EmptySet, HandoffEndpointAssumption
<1>5. LinksInv
  BY <1>1, <1>2, <1>3, <1>4 DEF LinksInv
<1>6. RequestInv
  BY <1>1 DEF RequestInv, RequestRecords, Methods
<1>7. WorkInv
  BY <1>1 DEF WorkInv
<1>8. QED
  BY <1>1, <1>5, <1>6, <1>7 DEF HandoffInv

(* Requests stay well formed as long as tokens are only added.             *)
LEMMA RequestGoes ==
  ASSUME RequestInv, minted \subseteq minted', minted' \subseteq Tokens,
         NEW r \in Requests,
         NEW pc \in {"working", "consuming", "done"},
         request[r].pc \in {"working", "consuming"} \cup Methods, Goes(r, pc)
  PROVE  RequestInv'
<1>1. /\ request' = [request EXCEPT
                       ![r] = [pc |-> pc, token |-> IF pc = "done"
                                            THEN "none" ELSE request[r].token]]
      /\ request \in [Requests -> RequestRecords]
      /\ request[r].token \in minted
  BY DEF Goes, RequestInv
<1>2. /\ request'[r].pc = pc
      /\ request'[r].token = IF pc = "done" THEN "none" ELSE request[r].token
      /\ \A q \in Requests \ {r} : request'[q] = request[q]
  BY <1>1
<1>3. request' \in [Requests -> RequestRecords]
  BY <1>1 DEF RequestRecords
<1>4. ASSUME NEW q \in Requests,
             request'[q].pc \in {"working", "consuming"} \cup Methods
      PROVE  request'[q].token \in minted'
  BY <1>1, <1>2, <1>4 DEF RequestInv, Methods
<1>5. QED
  BY <1>3, <1>4 DEF RequestInv

LEMMA RequestStays ==
  ASSUME RequestInv, minted \subseteq minted', UNCHANGED request
  PROVE  RequestInv'
BY DEF RequestInv

(* Work that has not begun stays so while no link comes back. *)
LEMMA WorkStays ==
  ASSUME WorkInv, LinksGoOn, UNCHANGED <<handler, worked>>
  PROVE  WorkInv'
BY DEF WorkInv, LinksGoOn, Pending

LEMMA OpenStep ==
  ASSUME HandoffInv, NEW r \in Requests, NEW t \in Tokens,
         NEW method \in Methods, Open(r, t, method)
  PROVE  HandoffInv' /\ LinksGoOn
<1>1. /\ Resolve(t) /\ UNCHANGED <<clock, reaper, handler, shown, worked>>
      /\ request' = [request EXCEPT
                       ![r] = IF Usable(t) THEN [pc |-> method, token |-> t]
                                ELSE [pc |-> "done", token |-> "none"]]
  BY DEF Open
<1>2. LinksGoOn
  BY <1>1, ResolveLinks DEF HandoffInv
<1>3. Usable(t) => t \in minted
  BY DEF Usable, Pending, HandoffInv, LinksInv
<1> DEFINE new == IF Usable(t) THEN [pc |-> method, token |-> t]
                  ELSE [pc |-> "done", token |-> "none"]
<1>4. /\ new \in RequestRecords
      /\ new.pc \in {"working", "consuming"} \cup Methods => new.token \in minted
  <2>1. CASE Usable(t)
    BY <1>3, <2>1 DEF RequestRecords
  <2>2. CASE ~Usable(t)
    BY <2>2 DEF RequestRecords, Methods
  <2>3. QED
    BY <2>1, <2>2
<1>5. request' = [request EXCEPT ![r] = new]
  BY <1>1
<1> HIDE DEF new
<1>6. RequestInv'
  BY <1>2, <1>4, <1>5 DEF HandoffInv, RequestInv, LinksGoOn
<1>7. WorkInv'
  BY <1>1, <1>2, WorkStays DEF HandoffInv
<1>8. QED
  BY <1>1, <1>2, <1>6, <1>7 DEF HandoffInv, LinksGoOn

LEMMA SubmitStep ==
  ASSUME HandoffInv, NEW r \in Requests, Submit(r)
  PROVE  HandoffInv' /\ LinksGoOn
<1> DEFINE t == request[r].token
<1>1. /\ request[r].pc = "POST" /\ UNCHANGED <<clock, reaper, handler, shown>>
      /\ t \in minted /\ t \in Tokens
  BY DEF Submit, HandoffInv, RequestInv, LinksInv, Methods
<1>2. ASSUME handler.claims => Take(t),
             ~handler.claims => UNCHANGED links,
             worked' = [worked EXCEPT ![t] = @ + 1], Goes(r, "working")
      PROVE  HandoffInv' /\ LinksGoOn
  <2>1. LinksGoOn
    BY <1>1, <1>2, RemoveLinks, LinksStutter DEF HandoffInv, Take
  <2>2. RequestInv'
    BY <1>1, <1>2, <2>1, RequestGoes DEF HandoffInv, LinksGoOn, LinksInv, Methods
  <2>3. /\ worked' \in [Tokens -> Nat] /\ worked'[t] = worked[t] + 1
        /\ \A u \in Tokens \ {t} : worked'[u] = worked[u]
    BY <1>1, <1>2 DEF HandoffInv
  <2>4. ASSUME handler.claims, NEW u \in Tokens
        PROVE  /\ worked'[u] <= 1
               /\ u \notin minted' \/ u \in DOMAIN items' => worked'[u] = 0
    <3>1. CASE u = t
      <4>1. t \in DOMAIN items /\ t \notin DOMAIN items'
        BY <1>1, <1>2, <2>4, RemoveLinks DEF HandoffInv, Take, Pending
      <4>2. worked[t] = 0
        BY <1>1, <2>4, <4>1 DEF HandoffInv, WorkInv, Pending
      <4>3. QED
        BY <1>1, <2>1, <2>3, <3>1, <4>1, <4>2 DEF LinksGoOn
    <3>2. CASE u # t
      BY <2>1, <2>3, <2>4, <3>2 DEF HandoffInv, WorkInv, LinksGoOn, Pending
    <3>3. QED
      BY <3>1, <3>2
  <2>5. WorkInv'
    BY <1>1, <2>4 DEF WorkInv, Pending
  <2>6. QED
    BY <1>1, <2>1, <2>2, <2>3, <2>5 DEF HandoffInv, LinksGoOn
<1>3. ASSUME Goes(r, "done"), UNCHANGED <<links, worked>>
      PROVE  HandoffInv' /\ LinksGoOn
  <2>1. LinksGoOn
    BY <1>3, LinksStutter DEF HandoffInv
  <2>2. RequestInv'
    BY <1>1, <1>3, <2>1, RequestGoes DEF HandoffInv, LinksGoOn, LinksInv, Methods
  <2>3. WorkInv'
    BY <1>1, <1>3, <2>1, WorkStays DEF HandoffInv
  <2>4. QED
    BY <1>1, <1>3, <2>1, <2>2, <2>3 DEF HandoffInv, LinksGoOn
<1>4. QED
  BY <1>2, <1>3 DEF Submit

(* Rendering, refusing and returning leave the links alone. *)
LEMMA HandlerStep ==
  ASSUME HandoffInv, NEW r \in Requests,
         Render(r) \/ Forbid(r) \/ Worked(r)
  PROVE  HandoffInv' /\ LinksGoOn
<1>1. /\ UNCHANGED <<clock, links, reaper, handler, worked>>
      /\ request[r].pc \in {"working", "consuming"} \cup Methods
      /\ \E pc \in {"consuming", "done"} : Goes(r, pc)
  BY DEF Render, Forbid, Worked, Methods
<1>2. LinksGoOn
  BY <1>1, LinksStutter DEF HandoffInv
<1>3. RequestInv'
  BY <1>1, <1>2, RequestGoes DEF HandoffInv, LinksGoOn, LinksInv
<1>4. WorkInv'
  BY <1>1, <1>2, WorkStays DEF HandoffInv
<1>5. shown' \in [Tokens -> Nat]
  BY DEF Render, Forbid, Worked, HandoffInv
<1>6. QED
  BY <1>1, <1>2, <1>3, <1>4, <1>5 DEF HandoffInv, LinksGoOn

LEMMA ConsumeStep ==
  ASSUME HandoffInv, NEW r \in Requests, Consume(r)
  PROVE  HandoffInv' /\ LinksGoOn
<1>1. /\ request[r].pc = "consuming" /\ request[r].token \in minted
      /\ RemoveToken(request[r].token) /\ Goes(r, "done")
      /\ UNCHANGED <<clock, reaper, handler, shown, worked>>
  BY DEF Consume, HandoffInv, RequestInv
<1>2. LinksGoOn
  BY <1>1, RemoveLinks DEF HandoffInv
<1>3. RequestInv'
  BY <1>1, <1>2, RequestGoes DEF HandoffInv, LinksGoOn, LinksInv
<1>4. WorkInv'
  BY <1>1, <1>2, WorkStays DEF HandoffInv
<1>5. QED
  BY <1>1, <1>2, <1>3, <1>4 DEF HandoffInv, LinksGoOn

(* Nothing but the links and the clock: no request is involved. *)
LEMMA EndpointStep ==
  ASSUME HandoffInv, LinksGoOn, clock' \in Nat, reaper' \in BOOLEAN,
         UNCHANGED <<handler, request, shown, worked>>
  PROVE  HandoffInv'
<1>1. RequestInv'
  BY RequestStays DEF HandoffInv, LinksGoOn
<1>2. WorkInv'
  BY WorkStays DEF HandoffInv
<1>3. QED
  BY <1>1, <1>2 DEF HandoffInv, LinksGoOn

LEMMA HandoffStep == HandoffInv /\ [Next]_vars => HandoffInv' /\ LinksGoOn
<1> SUFFICES ASSUME HandoffInv, [Next]_vars
             PROVE  HandoffInv' /\ LinksGoOn
  OBVIOUS
<1>0. clock \in Nat /\ reaper \in BOOLEAN /\ LinksInv
  BY DEF HandoffInv
<1>1. ASSUME NEW t \in Tokens, Mint(t)
      PROVE  HandoffInv' /\ LinksGoOn
  BY <1>0, <1>1, MintLinks, EndpointStep DEF Mint
<1>2. ASSUME NEW t \in Tokens, Lookup(t)
      PROVE  HandoffInv' /\ LinksGoOn
  BY <1>0, <1>2, ResolveLinks, EndpointStep DEF Lookup
<1>3. ASSUME NEW t \in Tokens, Withdraw(t)
      PROVE  HandoffInv' /\ LinksGoOn
  BY <1>0, <1>3, RemoveLinks, EndpointStep DEF Withdraw
<1>4. CASE Count \/ Reap
  BY <1>0, <1>4, PruneExpiredLinks, EndpointStep DEF Count, Reap
<1>5. CASE StartReaper \/ Stop \/ Tick
  <2>1. /\ UNCHANGED links /\ clock' \in Nat /\ reaper' \in BOOLEAN
        /\ UNCHANGED <<handler, request, shown, worked>>
    <3>1. CASE StartReaper
      BY <1>0, <3>1 DEF StartReaper
    <3>2. CASE Stop
      BY <1>0, <3>2 DEF Stop
    <3>3. CASE Tick
      BY <1>0, <3>3 DEF Tick
    <3>4. QED
      BY <1>5, <3>1, <3>2, <3>3
  <2>2. LinksGoOn
    BY <1>0, <2>1, LinksStutter
  <2>3. QED
    BY <2>1, <2>2, EndpointStep
<1>6. CASE UNCHANGED vars
  BY <1>0, <1>6, LinksStutter, EndpointStep DEF vars
<1>7. QED
  BY <1>1, <1>2, <1>3, <1>4, <1>5, <1>6, OpenStep, HandlerStep, SubmitStep,
     ConsumeStep DEF Next

LEMMA HandoffInvariant == Spec => []HandoffInv
BY HandoffInit, HandoffStep, PTL DEF Spec

-----------------------------------------------------------------------------
(* What a team needs to know of it.                                        *)

(* The endpoint's state keeps its type: whatever a request under way is    *)
(* about was minted, and only minted tokens are pending or remembered.     *)
THEOREM TypeCorrect == Spec => []TypeOK
<1>1. HandoffInv => TypeOK
  <2>1. LinksInv => spent \subseteq minted /\ spentOrder \in Seq(minted)
    BY LinksFinite
  <2>2. QED
    BY <2>1 DEF HandoffInv, LinksInv, RequestInv, RequestRecords, TypeOK
<1>2. QED
  BY HandoffInvariant, <1>1, PTL

(* No token is pending and spent at once, and the FIFO names each          *)
(* tombstone exactly once, however many times a token is spent.            *)
THEOREM SpentStaysInSync == Spec => []SpentInSync
<1>1. HandoffInv => SpentInSync
  <2>1. SUFFICES ASSUME HandoffInv
                 PROVE  SpentInSync
    OBVIOUS
  <2>2. /\ spentOrder \in Seq(minted) /\ DOMAIN spentOrder = 1..Len(spentOrder)
        /\ spent = {spentOrder[k] : k \in 1..Len(spentOrder)}
        /\ \A j, k \in 1..Len(spentOrder) : spentOrder[j] = spentOrder[k] => j = k
    BY <2>1, LinksFinite DEF HandoffInv
  <2>3. spent = Range(spentOrder) /\ IsInjective(spentOrder)
    BY <2>2 DEF Range, IsInjective
  <2>4. QED
    BY <2>1, <2>3 DEF SpentInSync, HandoffInv, LinksInv
<1>2. QED
  BY HandoffInvariant, <1>1, PTL

(* The work behind a link is begun at most once per token if the handler   *)
(* claims first, for any number of POSTs that resolved it at the same time *)
(* and however long its tombstone has been forgotten.                      *)
THEOREM WorkIsEnteredOnce == Spec => []WorkEnteredOnce
<1>1. HandoffInv => WorkEnteredOnce
  BY DEF HandoffInv, WorkInv, WorkEnteredOnce
<1>2. QED
  BY HandoffInvariant, <1>1, PTL

(* Only the oldest tombstones are given up. *)
THEOREM OldestIsForgottenFirst == Spec => OldestForgottenFirst
<1>1. HandoffInv /\ [Next]_vars
        => [\A j, k \in DOMAIN spentOrder :
              spentOrder[j] \in spent' /\ spentOrder[k] \notin spent' => k < j]_vars
  <2>1. SUFFICES ASSUME HandoffInv, [Next]_vars
                 PROVE  \A j, k \in DOMAIN spentOrder :
                          spentOrder[j] \in spent' /\ spentOrder[k] \notin spent'
                            => k < j
    OBVIOUS
  <2>2. DOMAIN spentOrder = 1..Len(spentOrder)
    BY <2>1, LinksFinite DEF HandoffInv
  <2>3. YoungestKept(spentOrder, spent')
    BY <2>1, HandoffStep DEF LinksGoOn
  <2>4. QED
    BY <2>2, <2>3 DEF YoungestKept
<1>2. QED
  BY HandoffInvariant, <1>1, PTL DEF Spec, OldestForgottenFirst

-----------------------------------------------------------------------------
(* The refinement of OneTimeLinks.                                         *)

linkStatus == [t \in Tokens |-> LinkStatus(t)]

LEMMA ExplainedIsSpent ==
  ASSUME LinksInv
  PROVE  /\ linkStatus \in [Tokens -> Links!Status]
         /\ {t \in Tokens : linkStatus[t] = "explained"} = spent
<1>1. spent \subseteq minted /\ minted \subseteq Tokens
      /\ DOMAIN items \cap spent = {}
  BY LinksFinite DEF LinksInv
<1>2. \A t \in Tokens : linkStatus[t] = LinkStatus(t)
  BY DEF linkStatus
<1>3. \A t \in Tokens : LinkStatus(t) = "explained" <=> t \in spent
  BY <1>1 DEF LinkStatus, Pending
<1>4. linkStatus \in [Tokens -> Links!Status]
  BY DEF linkStatus, LinkStatus, Links!Status
<1>5. QED
  BY <1>1, <1>2, <1>3, <1>4

LEMMA LinksDisjoint ==
  LinksInv => /\ spent \subseteq minted /\ DOMAIN items \subseteq minted
              /\ DOMAIN items \cap spent = {}
BY LinksFinite DEF LinksInv

LEMMA LinksInit == Init => Links!Init
<1> SUFFICES ASSUME Init
             PROVE  Links!Init
  OBVIOUS
<1>1. minted = {} /\ spent = {} /\ DOMAIN items = {}
  BY DEF Init
<1>2. \A t \in Tokens : LinkStatus(t) = "unissued"
  BY <1>1 DEF LinkStatus, Pending
<1>3. QED
  BY <1>2 DEF Links!Init

LEMMA LinksStep == HandoffInv /\ [Next]_vars => Links!Next
<1> SUFFICES ASSUME HandoffInv, [Next]_vars
             PROVE  Links!Next
  OBVIOUS
<1>1. LinksInv /\ LinksInv' /\ LinksGoOn
  BY HandoffStep DEF HandoffInv, LinksGoOn
<1>2. /\ linkStatus' \in [Tokens -> Links!Status]
      /\ {t \in Tokens : linkStatus'[t] = "explained"} = spent'
  <2>1. (LinksInv => /\ linkStatus \in [Tokens -> Links!Status]
                     /\ {t \in Tokens : linkStatus[t] = "explained"} = spent)'
    BY ExplainedIsSpent, PTL
  <2>2. QED
    BY <1>1, <2>1
<1>3. ASSUME NEW t \in Tokens
      PROVE  /\ linkStatus[t] = LinkStatus(t)
             /\ linkStatus'[t] = LinkStatus(t)'
  BY DEF linkStatus
<1>4. /\ spent \subseteq minted /\ DOMAIN items \subseteq minted
      /\ DOMAIN items \cap spent = {}
      /\ spent' \subseteq minted' /\ DOMAIN items' \subseteq minted'
      /\ DOMAIN items' \cap spent' = {}
  <2>1. (LinksInv => /\ spent \subseteq minted /\ DOMAIN items \subseteq minted
                     /\ DOMAIN items \cap spent = {})'
    BY LinksDisjoint, PTL
  <2>2. QED
    BY <1>1, <2>1, LinksDisjoint
<1>5. ASSUME NEW t \in Tokens
      PROVE  Links!Step(linkStatus[t], linkStatus'[t])
  <2>1. CASE t \notin minted
    <3>1. t \notin minted' \/ t \in DOMAIN items'
      BY <1>1, <2>1 DEF LinksGoOn
    <3>2. LinkStatus(t) = "unissued"
      BY <1>4, <2>1 DEF LinkStatus, Pending
    <3>3. LinkStatus(t)' \in {"unissued", "pending"}
      BY <1>4, <3>1 DEF LinkStatus, Pending
    <3>4. QED
      BY <1>3, <3>2, <3>3 DEF Links!Step
  <2>2. CASE t \in minted
    <3>1. t \in minted' /\ (t \in DOMAIN items' => t \in DOMAIN items)
      BY <1>1, <2>2 DEF LinksGoOn
    <3>2. LinkStatus(t)' \in {"pending", "explained", "forgotten"}
      BY <1>4, <3>1 DEF LinkStatus, Pending
    <3>3. CASE t \in DOMAIN items
      <4>1. LinkStatus(t) = "pending"
        BY <1>4, <2>2, <3>3 DEF LinkStatus, Pending
      <4>2. QED
        BY <1>3, <3>2, <4>1 DEF Links!Step
    <3>4. CASE t \notin DOMAIN items
      <4>1. LinkStatus(t) \in {"explained", "forgotten"}
        BY <1>4, <2>2, <3>4 DEF LinkStatus, Pending
      <4>2. LinkStatus(t)' \in {"explained", "forgotten"}
        BY <1>4, <3>1, <3>4 DEF LinkStatus, Pending
      <4>3. QED
        BY <1>3, <4>1, <4>2 DEF Links!Step
    <3>5. QED
      BY <3>3, <3>4
  <2>3. QED
    BY <2>1, <2>2
<1>6. ASSUME Cardinality(spent') < MaxSpentTombstones,
             NEW t \in Tokens, linkStatus'[t] = "forgotten"
      PROVE  linkStatus[t] = "forgotten"
  <2>1. t \in minted' /\ t \notin DOMAIN items' /\ t \notin spent'
    BY <1>3, <1>6 DEF LinkStatus, Pending
  <2>2. t \in minted /\ t \notin spent \cup DOMAIN items
    BY <1>1, <1>6, <2>1 DEF LinksGoOn
  <2>3. QED
    BY <1>3, <2>2 DEF LinkStatus, Pending
<1>7. Cardinality(spent') <= MaxSpentTombstones + 1
  BY <1>1 DEF LinksInv
<1>8. Links!Moves(linkStatus, linkStatus')
  <2>1. \A S : Links!Cardinality(S) = Cardinality(S)
    BY DEF Links!Cardinality, Cardinality
  <2>2. QED
    BY <2>1, <1>2, <1>5, <1>6, <1>7 DEF Links!Moves
<1>9. QED
  BY <1>8 DEF Links!Next, linkStatus

(* Whatever the interleaving, the endpoint keeps the promise OneTimeLinks  *)
(* states: links never come back, and a spent one is explained unless the  *)
(* cap is used up by others.                                               *)
THEOREM LinksPromiseIsKept == Spec => LinksKeepTheirPromise
<1>1. HandoffInv /\ [Next]_vars => [Links!Next]_linkStatus
  BY LinksStep
<1>2. QED
  BY HandoffInvariant, LinksInit, <1>1, PTL
     DEF Spec, LinksKeepTheirPromise, Links!Spec, linkStatus

=============================================================================
