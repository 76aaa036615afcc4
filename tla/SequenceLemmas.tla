---------------------------- MODULE SequenceLemmas ----------------------------
(***************************************************************************)
(* Lemmas about FIFOs, which list each element once: what an enumeration   *)
(* of a finite set, appending one, and dropping a prefix do to them.       *)
(***************************************************************************)
EXTENDS Integers, SequencesExt, FiniteSetTheorems, FunctionTheorems,
        SequenceTheorems, TLAPS

(* An enumeration of a finite set is a sequence that meets each of its     *)
(* elements at exactly one position.                                       *)
LEMMA EnumerationFacts ==
  ASSUME NEW S, IsFiniteSet(S), NEW s \in SetToSeqs(S)
  PROVE  /\ s \in Seq(S)
         /\ Len(s) \in Nat
         /\ \A x \in S : \E k \in 1..Len(s) : s[k] = x
         /\ \A j, k \in 1..Len(s) : s[j] = s[k] => j = k
<1> DEFINE n == Cardinality(S)
<1>1. n \in Nat
  BY FS_CardinalityType
<1>2. s \in [1..n -> S] /\ \A i, j \in 1..n : i # j => s[i] # s[j]
  BY DEF SetToSeqs
<1>3. s \in Seq(S) /\ Len(s) = n
  BY <1>1, <1>2
<1>4. s \in Injection(1..n, S)
  BY <1>2 DEF Injection, IsInjective
<1>5. Cardinality(1..n) = n
  BY <1>1, FS_Interval
<1>6. s \in Surjection(1..n, S)
  BY <1>4, <1>5, FS_Injection
<1>7. QED
  BY <1>1, <1>2, <1>3, <1>6 DEF Surjection

(* Appending one sequence without repetitions to another that shares no    *)
(* element with it gives a sequence of the elements of both, again without *)
(* repetitions.                                                            *)
LEMMA AppendFacts ==
  ASSUME NEW S, NEW s \in Seq(S), NEW b \in Seq(S),
         \A j, k \in 1..Len(s) : s[j] = s[k] => j = k,
         \A j, k \in 1..Len(b) : b[j] = b[k] => j = k,
         \A j \in 1..Len(s), k \in 1..Len(b) : s[j] # b[k]
  PROVE  /\ \A x : (\E k \in 1..Len(s \o b) : (s \o b)[k] = x)
                  <=> \/ \E k \in 1..Len(s) : s[k] = x
                      \/ \E k \in 1..Len(b) : b[k] = x
         /\ \A j, k \in 1..Len(s \o b) : (s \o b)[j] = (s \o b)[k] => j = k
<1> DEFINE q == s \o b
           n == Len(s)
<1>1. n \in Nat /\ Len(b) \in Nat
  BY LenProperties
<1>2. Len(q) = n + Len(b)
  BY ConcatProperties
<1>3. \A k \in 1..n : k \in 1..Len(q) /\ q[k] = s[k]
  BY <1>1, ConcatProperties
<1>4. \A k \in 1..Len(b) : n + k \in 1..Len(q) /\ q[n + k] = b[k]
  <2>1. SUFFICES ASSUME NEW k \in 1..Len(b)
                 PROVE  n + k \in 1..Len(q) /\ q[n + k] = b[k]
    OBVIOUS
  <2>2. n + k \in 1..n + Len(b) /\ ~(n + k <= n) /\ (n + k) - n = k
    BY <1>1
  <2>3. QED
    BY <1>2, <2>2, ConcatProperties
<1> HIDE DEF q, n
<1>5. \A k \in 1..Len(q) : \/ k \in 1..n
                           \/ \E m \in 1..Len(b) : k = n + m
  <2>1. SUFFICES ASSUME NEW k \in 1..Len(q), k \notin 1..n
                 PROVE  \E m \in 1..Len(b) : k = n + m
    OBVIOUS
  <2>2. k - n \in 1..Len(b) /\ k = n + (k - n)
    BY <1>1, <1>2, <2>1
  <2>3. QED
    BY <2>2
<1>6. \A j, k \in 1..Len(q) : q[j] = q[k] => j = k
  <2>1. SUFFICES ASSUME NEW j \in 1..Len(q), NEW k \in 1..Len(q), q[j] = q[k]
                 PROVE  j = k
    OBVIOUS
  <2>2. CASE j \in 1..n /\ k \in 1..n
    BY <1>3, <2>1, <2>2 DEF n
  <2>3. ASSUME NEW i \in 1..n, NEW m \in 1..Len(b), q[i] = q[n + m]
        PROVE  FALSE
    BY <1>3, <1>4, <2>3 DEF n
  <2>4. ASSUME NEW l \in 1..Len(b), NEW m \in 1..Len(b), j = n + l, k = n + m
        PROVE  j = k
    <3>1. b[l] = b[m]
      BY <1>4, <2>1, <2>4
    <3>2. QED
      BY <2>4, <3>1
  <2>5. QED
    BY <1>5, <2>1, <2>2, <2>3, <2>4
<1>7. \A x : (\E k \in 1..Len(q) : q[k] = x)
              <=> (\E k \in 1..n : s[k] = x) \/ (\E k \in 1..Len(b) : b[k] = x)
  <2>1. ASSUME NEW x, NEW k \in 1..Len(q), q[k] = x
        PROVE  (\E j \in 1..n : s[j] = x) \/ (\E j \in 1..Len(b) : b[j] = x)
    <3>1. CASE k \in 1..n
      BY <1>3, <2>1, <3>1
    <3>2. ASSUME NEW m \in 1..Len(b), k = n + m
          PROVE  b[m] = x
      BY <1>4, <2>1, <3>2
    <3>3. QED
      BY <1>5, <3>1, <3>2
  <2>2. ASSUME NEW k \in 1..n
        PROVE  \E j \in 1..Len(q) : q[j] = s[k]
    BY <1>3
  <2>3. ASSUME NEW k \in 1..Len(b)
        PROVE  \E j \in 1..Len(q) : q[j] = b[k]
    BY <1>4
  <2>4. ASSUME NEW x
        PROVE  (\E k \in 1..Len(q) : q[k] = x)
                 <=> (\E k \in 1..n : s[k] = x)
                       \/ (\E k \in 1..Len(b) : b[k] = x)
    <3>1. ASSUME NEW k \in 1..n, s[k] = x
          PROVE  \E j \in 1..Len(q) : q[j] = x
      BY <2>2, <3>1
    <3>2. ASSUME NEW k \in 1..Len(b), b[k] = x
          PROVE  \E j \in 1..Len(q) : q[j] = x
      BY <2>3, <3>2
    <3>3. QED
      BY <2>1, <3>1, <3>2
  <2>5. QED
    BY <2>4
<1>8. QED
  BY <1>6, <1>7 DEF q, n

(* A non-empty set of numbers has a least element: otherwise its lower      *)
(* bounds, which are finitely many, would be mapped one to one onto        *)
(* themselves by adding one, and nothing is mapped to zero.                *)
LEMMA LeastNumber ==
  ASSUME NEW T \in SUBSET Nat, T # {}
  PROVE  \E m \in T : \A n \in T : m <= n
<1>1. SUFFICES ASSUME \A m \in T : \E n \in T : n < m
               PROVE  FALSE
  OBVIOUS
<1> DEFINE L == {k \in Nat : \A n \in T : k <= n}
           up == [k \in L |-> k + 1]
<1>2. 0 \in L
  OBVIOUS
<1>3. ASSUME NEW k \in L
      PROVE  k + 1 \in L
  <2>1. \A n \in T : k < n
    <3>1. SUFFICES ASSUME NEW n \in T, ~(k < n)
                   PROVE  FALSE
      OBVIOUS
    <3>2. PICK i \in T : i < n
      BY <1>1
    <3>3. k <= i /\ k \in Nat /\ i \in Nat /\ n \in Nat
      OBVIOUS
    <3>4. QED
      BY <3>1, <3>2, <3>3
  <2>2. QED
    BY <2>1
<1>4. IsFiniteSet(L)
  <2>1. PICK n \in T : TRUE
    OBVIOUS
  <2>2. n \in Nat /\ \A k \in L : k <= n
    OBVIOUS
  <2>3. QED
    BY <2>2, FS_BoundedSetOfNaturals
<1>5. up \in [L -> L] /\ \A k \in L : up[k] = k + 1 /\ k \in Nat
  BY <1>3
<1> HIDE DEF L, up
<1>6. up \in Injection(L, L)
  BY <1>5 DEF Injection, IsInjective
<1>7. up \in Surjection(L, L)
  BY <1>4, <1>6, FS_Injection
<1>8. PICK k \in L : up[k] = 0
  BY <1>2, <1>7 DEF Surjection
<1>9. QED
  BY <1>5, <1>8

(* A sequence without repetitions loses its k first elements, no others.   *)
LEMMA DropFacts ==
  ASSUME NEW S, NEW s \in Seq(S), NEW k \in 0..Len(s),
         \A i, j \in 1..Len(s) : s[i] = s[j] => i = j
  PROVE  LET r == SubSeq(s, k + 1, Len(s))
         IN  /\ r \in Seq(S)
             /\ \A x : (\E i \in 1..Len(r) : r[i] = x)
                         <=> /\ \E i \in 1..Len(s) : s[i] = x
                             /\ ~\E i \in 1..k : s[i] = x
             /\ \A i, j \in 1..Len(r) : r[i] = r[j] => i = j
<1> DEFINE r == SubSeq(s, k + 1, Len(s))
           n == Len(s) - k
<1>1. Len(s) \in Nat /\ k \in Nat /\ n \in Nat /\ \A i \in 1..Len(s) : s[i] \in S
  BY LenProperties, ElementOfSeq
<1>2. /\ r \in Seq(S) /\ Len(r) = n
      /\ \A i \in 1..n : r[i] = s[k + i] /\ k + i \in 1..Len(s)
  <2>1. \A i \in k + 1..Len(s) : s[i] \in S
    BY <1>1
  <2>2. /\ r \in Seq(S)
        /\ Len(r) = IF k + 1 <= Len(s) THEN Len(s) - (k + 1) + 1 ELSE 0
        /\ \A i \in 1..(Len(s) - (k + 1) + 1) : r[i] = s[(k + 1) + i - 1]
    BY <1>1, <2>1, SubSeqProperties
  <2> HIDE DEF r
  <2>3. \A i \in 1..n : r[i] = s[k + i] /\ k + i \in 1..Len(s)
    BY <1>1, <2>2
  <2>4. QED
    BY <1>1, <2>2, <2>3
<1> HIDE DEF r
<1>3. ASSUME NEW x
      PROVE  (\E i \in 1..Len(r) : r[i] = x)
               <=> /\ \E i \in 1..Len(s) : s[i] = x
                   /\ ~\E i \in 1..k : s[i] = x
  <2>1. ASSUME NEW i \in 1..Len(r), r[i] = x
        PROVE  /\ \E j \in 1..Len(s) : s[j] = x
               /\ ~\E j \in 1..k : s[j] = x
    <3>1. s[k + i] = x /\ k + i \in 1..Len(s) /\ \A j \in 1..k : j # k + i
      BY <1>1, <1>2, <2>1
    <3>2. QED
      BY <1>1, <3>1
  <2>2. ASSUME NEW i \in 1..Len(s), s[i] = x, ~\E j \in 1..k : s[j] = x
        PROVE  \E j \in 1..Len(r) : r[j] = x
    <3>1. i - k \in 1..n /\ k + (i - k) = i
      BY <1>1, <2>2
    <3>2. r[i - k] = x
      BY <1>2, <2>2, <3>1
    <3>3. QED
      BY <1>2, <3>1, <3>2
  <2>3. QED
    BY <2>1, <2>2
<1>4. ASSUME NEW i \in 1..Len(r), NEW j \in 1..Len(r), r[i] = r[j]
      PROVE  i = j
  <2>1. k + i = k + j
    BY <1>2, <1>4
  <2>2. QED
    BY <1>1, <1>2, <2>1
<1>5. QED
  BY <1>2, <1>3, <1>4 DEF r

=============================================================================
