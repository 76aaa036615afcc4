-------------------------- MODULE FileIntakeProofs --------------------------
(***************************************************************************)
(* Theorems about FileIntake, for payloads, caps, buffers and trees of any *)
(* size.                                                                   *)
(***************************************************************************)
EXTENDS FileIntake, FiniteSetTheorems, TLAPS

Handed == {"open", "stopped", "ended", "broken", "closed"}

(* Bytes are neither lost nor made up on their way to the consumer.  At    *)
(* the cap the probe may take one that is not delivered; it ends in an     *)
(* error.                                                                  *)
Accounts ==
  /\ pc \in Handed =>
       /\ got \in Nat /\ left \in Nat /\ room \in Nat /\ size \in Int
       /\ got + room = Cap
       /\ source.mode = "url" => size = source.declared
       /\ source.mode = "data" => Parses /\ size = DataSize
  /\ pc \in {"open", "stopped", "ended"} => got + left = source.len
  /\ pc = "ended" => left = 0 /\ ~Malformed
  /\ pc = "stopped" => got = size

(* Who holds the response. *)
Held ==
  /\ pc = "start" => body = "none" /\ ctx = "none"
  /\ pc = "fetched" => body = "open" /\ ctx \in {"live", "expired"}
  /\ pc \in Handed \ {"closed"} =>
       IF source.mode = "url" THEN body = "open" /\ ctx \in {"live", "expired"}
                              ELSE body = "none" /\ ctx = "none"
  /\ pc \in {"refused", "closed"} => body # "open" /\ ctx \in {"none", "cancelled"}
  /\ pc = "accepted" => ctx = "none"

(* Why it was refused, or broke off. *)
Judged ==
  /\ pc = "refused" /\ source.mode = "data" => ~Parses
  /\ pc = "broken" /\ source.mode = "data" => Malformed \/ source.len > Cap
  /\ pc = "refused" /\ source.mode = "url" =>
       \/ ~Available \/ ~source.wellFormed \/ Cap < 0
       \/ FetchFailed \/ ~Acceptable

Stages ==
  /\ source \in Urls \cup DataURIs \cup Trees
  /\ pc \in Handed \cup {"start", "fetched", "refused", "accepted"}
  /\ pc \in Handed => source.mode \in {"url", "data"}
  /\ pc = "fetched" =>
       source.mode = "url" /\ Available /\ source.wellFormed /\ Cap >= 0

IntakeInv == Stages /\ Accounts /\ Held /\ Judged

-----------------------------------------------------------------------------
(* What the sources are made of.                                           *)

LEMMA SourceFields ==
  ASSUME source \in Urls \cup DataURIs \cup Trees
  PROVE  /\ source.cap \in Int /\ Cap \in Int
         /\ source.mode = "url" => source \in Urls
         /\ source.mode = "data" => source \in DataURIs
         /\ source.mode \in {"url", "data"} =>
              /\ source.len \in Nat /\ source.declared \in Int
              /\ source.wellFormed \in BOOLEAN
         /\ source.mode = "data" =>
              /\ source.flaw \in {"none", "stray", "pads", "inner"}
              /\ source.breaks \in 0 .. 1
              /\ source.flaw = "inner" => source.len >= 2
<1>1. Caps \subseteq Int /\ DefaultCap \in Int /\ Lengths \subseteq Nat
      /\ -1 .. MaxLen \subseteq Int
  BY FileIntakeAssumption DEF Lengths
<1> HIDE DEF Lengths
<1>2. source.cap \in Caps
  BY DEF Urls, DataURIs, Trees
<1>3. ASSUME source.mode = "url"
      PROVE  source \in Urls
  BY <1>3 DEF DataURIs, Trees
<1>4. ASSUME source.mode = "data"
      PROVE  source \in DataURIs
  BY <1>4 DEF Urls, Trees
<1>5. ASSUME source \in Urls \/ source \in DataURIs
      PROVE  /\ source.len \in Lengths /\ source.declared \in -1 .. MaxLen
             /\ source.wellFormed \in BOOLEAN
  BY <1>5 DEF Urls, DataURIs
<1>6. ASSUME source \in DataURIs
      PROVE  /\ source.flaw \in {"none", "stray", "pads", "inner"}
             /\ source.breaks \in 0 .. 1
             /\ source.flaw = "inner" => source.len >= 2
  BY <1>6 DEF DataURIs
<1>7. Cap \in Int
  BY <1>1, <1>2 DEF Cap
<1>8. QED
  BY <1>1, <1>2, <1>3, <1>4, <1>5, <1>6, <1>7

(* Padding in the midst of the payload counts as bytes that never come.    *)
LEMMA InnerPadding ==
  ASSUME source \in DataURIs, source.flaw = "inner"
  PROVE  DecodedLen = source.len + 2
<1>1. source.len \in Nat /\ source.len >= 2
  BY FileIntakeAssumption DEF DataURIs, Lengths
<1> DEFINE q == Quads(source.len - 1)
<1>2. q \in Nat
  BY <1>1 DEF Quads
<1>3. Chars = 4 + 4 * q
  BY DEF Chars
<1>4. TrailingPadding = 3 * q - (source.len - 1)
  BY DEF TrailingPadding, Padding
<1>5. (4 + 4 * q) \div 4 = 1 + q
  <2> HIDE DEF q
  <2>1. QED
    BY <1>2
<1>6. DecodedLen = 3 * (1 + q) - (3 * q - (source.len - 1))
  BY <1>3, <1>4, <1>5 DEF DecodedLen
<1> HIDE DEF q
<1>7. QED
  BY <1>1, <1>2, <1>6

(* The encoding without anything stray: whole quads, the last one padded.  *)
LEMMA WholeQuads ==
  ASSUME source \in DataURIs, source.flaw = "none"
  PROVE  /\ Quads(source.len) \in Nat
         /\ 3 * Quads(source.len) <= source.len + 2
         /\ Chars = 4 * Quads(source.len)
         /\ DecodedLen = source.len
<1>1. source.len \in Nat
  BY FileIntakeAssumption DEF DataURIs, Lengths
<1> DEFINE q == Quads(source.len)
<1>2. q \in Nat /\ 3 * q <= source.len + 2
  BY <1>1 DEF Quads
<1>3. Chars = 4 * q
  BY <1>2 DEF Chars
<1>4. TrailingPadding = 3 * q - source.len
  BY DEF TrailingPadding, Padding
<1>5. (4 * q) \div 4 = q
  <2> HIDE DEF q
  <2>1. QED
    BY <1>2
<1>6. DecodedLen = 3 * q - (3 * q - source.len)
  BY <1>3, <1>4, <1>5 DEF DecodedLen
<1>7. QED
  BY <1>1, <1>2, <1>3, <1>6

LEMMA CharsNat ==
  ASSUME source \in DataURIs
  PROVE  Chars \in Nat
<1>1. /\ source.len \in Nat /\ source.flaw \in {"none", "stray", "pads", "inner"}
      /\ source.flaw = "inner" => source.len >= 2
  BY FileIntakeAssumption DEF DataURIs, Lengths
<1>2. /\ Quads(source.len) \in Nat
      /\ source.flaw = "inner" => Quads(source.len - 1) \in Nat
  BY <1>1 DEF Quads
<1>3. QED
  BY <1>1, <1>2 DEF Chars

(* The filter on the encoded length lets every file pass that fits.        *)
LEMMA FittingParses ==
  ASSUME source \in DataURIs, DataFits
  PROVE  Parses
<1>1. source.mode = "data" /\ source.flaw \in {"none", "stray", "pads", "inner"}
  BY DEF DataURIs
<1>2. source.flaw = "none"
  BY <1>1 DEF DataFits, Malformed
<1>3. /\ source.len \in Nat /\ Cap \in Int /\ source.breaks \in {0, 1}
  BY SourceFields, <1>1
<1> DEFINE q == Quads(source.len)
<1>4. /\ q \in Nat /\ 3 * q <= source.len + 2
      /\ Chars = 4 * q /\ DecodedLen = source.len
  BY <1>2, WholeQuads
<1>5. source.len <= Cap /\ 8 + 3 * source.breaks <= 2 * Cap
  BY DEF DataFits, FileFits
<1>6. Chars + source.breaks <= Cap * 2
  <2> HIDE DEF q
  <2>1. QED
    BY <1>3, <1>4, <1>5
<1>7. DataSize = DecodedLen
  BY <1>4 DEF DataSize, DataFits
<1>8. QED
  BY <1>4, <1>5, <1>6, <1>7 DEF Parses, DataFits, FileFits

-----------------------------------------------------------------------------
(* The invariant.                                                          *)

LEMMA IntakeInit == Init => IntakeInv
BY DEF Init, IntakeInv, Stages, Accounts, Held, Judged, Handed, Urls, DataURIs,
   Trees

(* What the consumer is told of, and may read, once a reader is handed out. *)
LEMMA OpenedReader ==
  ASSUME IntakeInv, UNCHANGED source,
         \/ pc = "fetched" /\ Acceptable /\ Opened(source.len, source.declared)
         \/ source.mode = "data" /\ Parses /\ Opened(source.len, DataSize)
  PROVE  Accounts'
<1>1. /\ source \in Urls \cup DataURIs \cup Trees
      /\ pc = "fetched" => source.mode = "url" /\ Cap >= 0
  BY DEF IntakeInv, Stages
<1>2. source.mode \in {"url", "data"} /\ source.len \in Nat /\ Cap \in Int
      /\ source.declared \in Int
  BY <1>1, SourceFields
<1>3. CASE pc = "fetched" /\ Acceptable /\ Opened(source.len, source.declared)
  <2>1. source.mode = "url" /\ Cap \in Nat /\ Cap' = Cap
    BY <1>1, <1>2, <1>3 DEF Cap
  <2>2. QED
    BY <1>2, <1>3, <2>1 DEF Opened, Accounts, Handed
<1>4. CASE source.mode = "data" /\ Parses /\ Opened(source.len, DataSize)
  <2>1. Chars \in Nat /\ source.breaks \in Nat
    BY <1>1, <1>4, SourceFields, CharsNat
  <2>2. Cap \in Nat /\ Cap' = Cap
    BY <1>2, <1>4, <2>1 DEF Parses, Cap
  <2>3. (Parses' <=> Parses) /\ DataSize' = DataSize
    BY DEF Parses, DataSize, DecodedLen, TrailingPadding, Chars, Available,
       Cap, Quads, Padding
  <2>4. DataSize \in Int
    BY <1>1, <1>4, SourceFields, CharsNat DEF DataSize, DecodedLen,
       TrailingPadding, Padding, Quads
  <2>5. QED
    BY <1>2, <1>4, <2>2, <2>3, <2>4 DEF Opened, Accounts, Handed
<1>5. QED
  BY <1>3, <1>4

(* A read passes bytes on, and says truly whether they were the last.      *)
LEMMA ReadStep ==
  ASSUME IntakeInv, NEW k \in Buffers, Read(k)
  PROVE  /\ Accounts'
         /\ pc' = "broken" /\ source.mode = "data" => Malformed
<1> DEFINE b == IF k < room THEN k ELSE room
           most == IF b < left THEN b ELSE left
           ending == IF Rejected THEN "broken" ELSE "ended"
<1>1. /\ source \in Urls \cup DataURIs \cup Trees
      /\ pc = "open" /\ room > 0 /\ UNCHANGED source
      /\ got \in Nat /\ left \in Nat /\ room \in Nat /\ size \in Int
      /\ got + room = Cap /\ got + left = source.len
      /\ source.mode = "url" => size = source.declared
      /\ source.mode = "data" => Parses /\ size = DataSize
      /\ source.mode \in {"url", "data"}
  BY DEF IntakeInv, Stages, Accounts, Handed, Read
<1>2. PICK a \in Answers(b) : Yield(a.n, a.n, Checked(a.err, got + a.n))
  BY DEF Read
<1>3. k \in Nat \ {0} /\ b \in Nat /\ b <= room /\ most \in 0 .. left /\ most <= b
  BY <1>1, FileIntakeAssumption
<1> HIDE DEF b
<1>4. /\ a.n \in 0 .. most
      /\ \/ a.err = "open"
         \/ a.err = ending /\ a.n = left
         \/ a.err = "broken" /\ MayBreak
  <2> HIDE DEF most, ending
  <2>1. Answers(b) = [n : 1 .. most, err : {"open"}]
                       \cup [n : {left} \cap {most}, err : {ending}]
                       \cup (IF MayBreak THEN [n : 0 .. most, err : {"broken"}]
                                         ELSE {})
    BY DEF Answers, most, ending
  <2>2. CASE a \in [n : 1 .. most, err : {"open"}]
    BY <1>3, <2>2
  <2>3. CASE a \in [n : {left} \cap {most}, err : {ending}]
    BY <1>1, <1>3, <2>3
  <2>4. CASE MayBreak /\ a \in [n : 0 .. most, err : {"broken"}]
    BY <1>3, <2>4
  <2>5. QED
    BY <1>2, <2>1, <2>2, <2>3, <2>4
<1> HIDE DEF most
<1>5. /\ got' = got + a.n /\ left' = left - a.n /\ room' = room - a.n
      /\ pc' = Checked(a.err, got + a.n) /\ size' = size
  BY <1>2 DEF Yield
<1>6. /\ got' \in Nat /\ left' \in Nat /\ room' \in Nat
      /\ got' + room' = Cap /\ got' + left' = source.len
  <2>1. Cap \in Int /\ source.len \in Nat
    BY <1>1, SourceFields
  <2>2. QED
    BY <1>1, <1>3, <1>4, <1>5, <2>1
<1>7. /\ pc' \in {"open", "ended", "broken"}
      /\ pc' = "ended" => left' = 0 /\ ~Malformed
  <2>1. pc' \in {"open", "ended", "broken"}
    BY <1>4, <1>5 DEF Checked
  <2>2. ASSUME pc' = "ended"
        PROVE  a.n = left /\ ~Rejected /\ left' = 0
    BY <1>1, <1>4, <1>5, <2>2 DEF Checked
(* The decoder may let inner padding pass, the check of the size does not. *)
  <2>3. ASSUME pc' = "ended", Malformed
        PROVE  FALSE
    <3>1. source \in DataURIs /\ source.flaw = "inner" /\ source.mode = "data"
      BY <1>1, <2>2, <2>3, SourceFields DEF Malformed, Rejected
    <3>2. size = source.len + 2 /\ source.len \in Nat
      BY <1>1, <3>1, InnerPadding, SourceFields DEF Parses
    <3>3. got + a.n = source.len
      BY <1>1, <2>2, <2>3
    <3>4. QED
      BY <1>5, <2>3, <3>1, <3>2, <3>3 DEF Checked
  <2>4. QED
    BY <2>1, <2>2, <2>3
<1>8. /\ Cap' = Cap /\ (Parses' <=> Parses) /\ DataSize' = DataSize
      /\ (Malformed' <=> Malformed) /\ source' = source
  BY <1>1 DEF Parses, DataSize, DecodedLen, TrailingPadding, Chars, Available,
     Cap, Quads, Padding, Malformed
<1>9. Accounts'
  BY <1>1, <1>5, <1>6, <1>7, <1>8 DEF Accounts, Handed
(* A data: URI that is well-formed ends where it was declared to end.      *)
<1>10. ASSUME pc' = "broken", source.mode = "data", ~Malformed
       PROVE  FALSE
  <2>1. a.err = "ended" /\ got + a.n # size
    BY <1>4, <1>5, <1>10 DEF Checked, Rejected, MayBreak, Malformed
  <2>2. a.n = left
    BY <1>4, <2>1
  <2>3. source \in DataURIs /\ source.flaw = "none"
    BY <1>1, <1>10, SourceFields DEF Malformed
  <2>4. size = source.len
    BY <1>1, <1>10, <2>3, WholeQuads DEF Parses
  <2>5. QED
    BY <1>1, <2>1, <2>2, <2>4
<1>11. QED
  BY <1>9, <1>10

(* The probe decides between a whole file and an overflow.                 *)
LEMMA ProbeStep ==
  ASSUME IntakeInv, Probe
  PROVE  /\ Accounts'
         /\ pc' = "broken" /\ source.mode = "data"
              => Malformed \/ source.len > Cap
<1> DEFINE most == IF 1 < left THEN 1 ELSE left
           ending == IF Rejected THEN "broken" ELSE "ended"
<1>1. /\ source \in Urls \cup DataURIs \cup Trees
      /\ pc = "open" /\ room = 0 /\ UNCHANGED source
      /\ got \in Nat /\ left \in Nat /\ size \in Int
      /\ got + room = Cap /\ got + left = source.len
      /\ source.mode = "url" => size = source.declared
      /\ source.mode = "data" => Parses /\ size = DataSize
      /\ source.mode \in {"url", "data"}
  BY DEF IntakeInv, Stages, Accounts, Handed, Probe
<1>2. PICK a \in Answers(1) :
        Yield(0, a.n, IF a.n > 0 THEN "broken" ELSE Checked(a.err, got))
  BY DEF Probe
<1>3. most \in 0 .. left
  BY <1>1
<1>4. /\ a.n \in 0 .. most
      /\ \/ a.n > 0
         \/ a.err = ending /\ a.n = left
         \/ a.err = "broken" /\ MayBreak
  <2> HIDE DEF most, ending
  <2>1. Answers(1) = [n : 1 .. most, err : {"open"}]
                       \cup [n : {left} \cap {most}, err : {ending}]
                       \cup (IF MayBreak THEN [n : 0 .. most, err : {"broken"}]
                                         ELSE {})
    BY DEF Answers, most, ending
  <2>2. CASE a \in [n : 1 .. most, err : {"open"}]
    BY <1>3, <2>2
  <2>3. CASE a \in [n : {left} \cap {most}, err : {ending}]
    BY <1>1, <1>3, <2>3
  <2>4. CASE MayBreak /\ a \in [n : 0 .. most, err : {"broken"}]
    BY <1>3, <2>4
  <2>5. QED
    BY <1>2, <2>1, <2>2, <2>3, <2>4
<1> HIDE DEF most
<1>5. /\ got' = got + 0 /\ left' = left - a.n /\ room' = room - 0
      /\ pc' = IF a.n > 0 THEN "broken" ELSE Checked(a.err, got)
      /\ size' = size
  BY <1>2 DEF Yield
<1>6. /\ left' \in Nat /\ got' = got /\ room' = room /\ room \in Nat
      /\ a.n = 0 => left' = left
  BY <1>1, <1>3, <1>4, <1>5
<1>7. /\ pc' \in {"ended", "broken"}
      /\ pc' = "ended" => a.n = 0 /\ left = 0 /\ ~Malformed
  <2>1. pc' \in {"ended", "broken"}
    BY <1>1, <1>3, <1>4, <1>5 DEF Checked
  <2>2. ASSUME pc' = "ended"
        PROVE  a.n = 0 /\ left = 0 /\ ~Rejected
    BY <1>1, <1>3, <1>4, <1>5, <2>2 DEF Checked
  <2>3. ASSUME pc' = "ended", Malformed
        PROVE  FALSE
    <3>1. source \in DataURIs /\ source.flaw = "inner" /\ source.mode = "data"
      BY <1>1, <2>2, <2>3, SourceFields DEF Malformed, Rejected
    <3>2. size = source.len + 2 /\ source.len \in Nat
      BY <1>1, <3>1, InnerPadding, SourceFields DEF Parses
    <3>3. got = source.len
      BY <1>1, <2>2, <2>3
    <3>4. QED
      BY <1>5, <2>2, <2>3, <3>1, <3>2, <3>3 DEF Checked
  <2>4. QED
    BY <2>1, <2>2, <2>3
<1>8. /\ Cap' = Cap /\ (Parses' <=> Parses) /\ DataSize' = DataSize
      /\ (Malformed' <=> Malformed) /\ source' = source
  BY <1>1 DEF Parses, DataSize, DecodedLen, TrailingPadding, Chars, Available,
     Cap, Quads, Padding, Malformed
<1>9. Accounts'
  BY <1>1, <1>5, <1>6, <1>7, <1>8 DEF Accounts, Handed
<1>10. ASSUME pc' = "broken", source.mode = "data", ~Malformed
       PROVE  source.len > Cap
  <2>1. CASE a.n > 0
    <3>1. left > 0
      BY <1>1, <1>3, <1>4, <2>1
    <3>2. QED
      BY <1>1, <3>1
  <2>2. CASE ~(a.n > 0)
    <3>1. a.err = "ended" /\ got # size /\ a.n = left
      BY <1>4, <1>5, <1>10, <2>2 DEF Checked, Rejected, MayBreak, Malformed
    <3>2. left = 0
      BY <1>3, <1>4, <2>2, <3>1
    <3>3. source \in DataURIs /\ source.flaw = "none"
      BY <1>1, <1>10, SourceFields DEF Malformed
    <3>4. size = source.len
      BY <1>1, <1>10, <3>3, WholeQuads DEF Parses
    <3>5. QED
      BY <1>1, <3>1, <3>2, <3>4
  <2>3. QED
    BY <2>1, <2>2
<1>11. QED
  BY <1>9, <1>10

(* Nothing changes the request, nor what follows from it alone.            *)
LEMMA RequestKept ==
  ASSUME [Next]_vars
  PROVE  /\ source' = source /\ Cap' = Cap /\ DataSize' = DataSize
         /\ (Parses' <=> Parses) /\ (Malformed' <=> Malformed)
         /\ (Available' <=> Available) /\ (Acceptable' <=> Acceptable)
<1>1. source' = source
  BY DEF Next, RefuseUrl, Fetch, RefuseResponse, HandOff, Deadline, Parse, Probe,
     Cut, StopAtSize, Close, Read, Walk, Accept, vars
<1>2. QED
  BY <1>1 DEF Parses, DataSize, DecodedLen, TrailingPadding, Chars, Available,
     Cap, Quads, Padding, Malformed, Acceptable

LEMMA IntakeStep == IntakeInv /\ [Next]_vars => IntakeInv'
<1> SUFFICES ASSUME IntakeInv, [Next]_vars
             PROVE  IntakeInv'
  OBVIOUS
<1>0. /\ Stages /\ Accounts /\ Held /\ Judged
      /\ source' = source /\ Cap' = Cap /\ DataSize' = DataSize
      /\ (Parses' <=> Parses) /\ (Malformed' <=> Malformed)
      /\ (Available' <=> Available) /\ (Acceptable' <=> Acceptable)
  BY RequestKept DEF IntakeInv
<1>1. CASE RefuseUrl
  <2>1. pc = "start" /\ pc' = "refused" /\ source.mode = "url" /\ UNCHANGED http
        /\ (~Available \/ ~source.wellFormed \/ Cap < 0)
    BY <1>1 DEF RefuseUrl, Refuse
  <2>2. Held'
    BY <1>0, <2>1 DEF Held, Handed, http
  <2>3. QED
    BY <1>0, <2>1, <2>2 DEF IntakeInv, Stages, Accounts, Judged, Handed
<1>2. CASE Fetch
  <2>1. /\ pc = "start" /\ source.mode = "url"
        /\ Available /\ source.wellFormed /\ Cap >= 0
        /\ \/ pc' = "fetched" /\ body' = "open" /\ ctx' = "live"
           \/ pc' = "refused" /\ body' = "none" /\ ctx' = "cancelled"
    BY <1>2 DEF Fetch, Refuse
  <2>2. Held'
    BY <1>0, <2>1 DEF Held, Handed
  <2>3. QED
    BY <1>0, <2>1, <2>2 DEF IntakeInv, Stages, Accounts, Judged, Handed,
       FetchFailed
<1>3. CASE RefuseResponse
  <2>1. /\ pc = "fetched" /\ ~Acceptable /\ pc' = "refused"
        /\ body' = "closed" /\ ctx' = "cancelled"
    BY <1>3 DEF RefuseResponse, Refuse
  <2>2. Held'
    BY <2>1 DEF Held, Handed
  <2>3. QED
    BY <1>0, <2>1, <2>2 DEF IntakeInv, Stages, Accounts, Judged, Handed
<1>4. CASE HandOff
  <2>1. /\ pc = "fetched" /\ Acceptable /\ pc' = "open" /\ UNCHANGED http
        /\ Opened(source.len, source.declared)
    BY <1>4 DEF HandOff, Opened
  <2>2. Accounts'
    BY <1>0, <2>1, OpenedReader
  <2>3. Held'
    BY <1>0, <2>1 DEF Held, Handed, Stages, http
  <2>4. QED
    BY <1>0, <2>1, <2>2, <2>3 DEF IntakeInv, Stages, Judged, Handed
<1>5. CASE Parse
  <2>1. pc = "start" /\ source.mode = "data" /\ UNCHANGED http
        /\ \/ Parses /\ Opened(source.len, DataSize) /\ pc' = "open"
           \/ ~Parses /\ pc' = "refused"
    BY <1>5 DEF Parse, Opened, Refuse
  <2>2. Accounts'
    <3>1. CASE Parses /\ Opened(source.len, DataSize)
      BY <1>0, <2>1, <3>1, OpenedReader
    <3>2. CASE pc' = "refused"
      BY <3>2 DEF Accounts, Handed
    <3>3. QED
      BY <2>1, <3>1, <3>2
  <2>3. Held'
    BY <1>0, <2>1 DEF Held, Handed, http
  <2>4. QED
    BY <1>0, <2>1, <2>2, <2>3 DEF IntakeInv, Stages, Judged, Handed
<1>6. CASE Probe \/ \E k \in Buffers : Read(k)
  <2>1. /\ pc = "open" /\ pc' \in {"open", "ended", "broken"}
        /\ UNCHANGED http /\ source.mode \in {"url", "data"}
    <3>1. CASE Probe
      BY <1>0, <3>1 DEF Probe, Yield, Checked, Answers, Stages, Handed
    <3>2. ASSUME NEW k \in Buffers, Read(k)
          PROVE  /\ pc = "open" /\ pc' \in {"open", "ended", "broken"}
                 /\ UNCHANGED http
      BY <1>0, <3>2 DEF Read, Yield, Checked, Answers
    <3>3. QED
      BY <1>0, <1>6, <3>1, <3>2 DEF Probe, Read, Stages, Handed
  <2>2. /\ Accounts'
        /\ pc' = "broken" /\ source.mode = "data"
             => Malformed \/ source.len > Cap
    BY <1>6, ProbeStep, ReadStep
  <2>3. Held'
    BY <1>0, <2>1 DEF Held, Handed, http
  <2>4. QED
    BY <1>0, <2>1, <2>2, <2>3 DEF IntakeInv, Stages, Judged, Handed
<1>7. CASE StopAtSize
  <2>1. pc = "open" /\ got = size /\ pc' = "stopped" /\ UNCHANGED <<reader, http>>
    BY <1>7 DEF StopAtSize
  <2>2. Accounts'
    BY <1>0, <2>1 DEF Accounts, Handed, reader
  <2>3. Held'
    BY <1>0, <2>1 DEF Held, Handed, http
  <2>4. QED
    BY <1>0, <2>1, <2>2, <2>3 DEF IntakeInv, Stages, Judged, Handed
<1>8. CASE Close
  <2>1. /\ pc \in Handed /\ pc # "closed" /\ pc' = "closed" /\ UNCHANGED reader
        /\ IF source.mode = "url" THEN body' = "closed" /\ ctx' = "cancelled"
                                  ELSE UNCHANGED http
    BY <1>8 DEF Close, Handed
  <2>2. Accounts'
    BY <1>0, <2>1 DEF Accounts, Handed, reader
  <2>3. Held'
    BY <1>0, <2>1 DEF Held, Handed, http
  <2>4. QED
    BY <1>0, <2>1, <2>2, <2>3 DEF IntakeInv, Stages, Judged, Handed
<1>9. CASE Walk \/ Accept
  <2>1. /\ pc = "start" /\ source.mode \notin {"url", "data"}
        /\ pc' \in {"start", "refused", "accepted"} /\ UNCHANGED http
    BY <1>9 DEF Walk, Accept, IsTree
  <2>2. Held'
    BY <1>0, <2>1 DEF Held, Handed, http
  <2>3. QED
    BY <1>0, <2>1, <2>2 DEF IntakeInv, Stages, Accounts, Judged, Handed
<1>10. CASE Deadline
  <2>1. /\ ctx = "live" /\ ctx' = "expired" /\ UNCHANGED <<pc, reader, body>>
    BY <1>10 DEF Deadline
  <2>2. Accounts'
    BY <1>0, <2>1 DEF Accounts, Handed, reader
  <2>3. Held'
    BY <1>0, <2>1 DEF Held, Handed, Stages
  <2>4. Judged'
    BY <1>0, <2>1 DEF Held, Judged, FetchFailed
  <2>5. QED
    BY <1>0, <2>1, <2>2, <2>3, <2>4 DEF IntakeInv, Stages, Handed
<1>11. CASE Cut
  <2>1. /\ pc = "open" /\ pc' = "broken" /\ source.mode = "url" /\ UNCHANGED http
        /\ got' = got + 0 /\ left' = left - 0 /\ room' = room - 0 /\ size' = size
    BY <1>11 DEF Cut, Yield
  <2>2. Accounts'
    BY <1>0, <2>1 DEF Accounts, Handed
  <2>3. Held'
    BY <1>0, <2>1 DEF Held, Handed, http
  <2>4. QED
    BY <1>0, <2>1, <2>2, <2>3 DEF IntakeInv, Stages, Judged, Handed
<1>12. CASE UNCHANGED vars
  BY <1>0, <1>12 DEF IntakeInv, Stages, Accounts, Held, Judged, FetchFailed,
     vars, reader, http
<1>13. QED
  BY <1>1, <1>2, <1>3, <1>4, <1>5, <1>6, <1>7, <1>8, <1>9, <1>10, <1>11, <1>12
     DEF Next

(* What every intake keeps to, from the request to the last byte.           *)
LEMMA IntakeInvariant == Spec => []IntakeInv
BY IntakeInit, IntakeStep, PTL DEF Spec

-----------------------------------------------------------------------------
(* A truncated file never looks complete, whatever the cap, the length of  *)
(* the payload and the consumer's buffers (boundedDataReader,              *)
(* limitedReadCloser).                                                     *)
THEOREM ReadFilesAreWhole == Spec => []CompleteIsWhole
<1>1. IntakeInv => CompleteIsWhole
  <2> SUFFICES ASSUME IntakeInv
               PROVE  CompleteIsWhole
    OBVIOUS
  <2>1. Stages /\ Accounts /\ Cap \in Int
    BY SourceFields DEF IntakeInv, Stages
  <2>2. pc = "ended" => got = source.len /\ ~Malformed
    BY <2>1 DEF Accounts, Handed
  <2>3. ASSUME pc = "stopped", Honest
        PROVE  got = source.len
    <3>1. CASE source.mode = "url"
      BY <2>1, <2>3, <3>1 DEF Accounts, Handed, Honest
    <3>2. CASE source.mode = "data"
      <4>1. source \in DataURIs /\ source.flaw = "none"
        BY <2>1, <2>3, <3>2, SourceFields DEF Stages, Honest, Malformed
      <4>2. size = DecodedLen /\ got = size
        BY <2>1, <2>3, <3>2 DEF Accounts, Handed, Parses
      <4>3. QED
        BY <4>1, <4>2, WholeQuads
    <3>3. QED
      BY <2>1, <2>3, <3>1, <3>2 DEF Stages, Handed
  <2>4. pc \in Handed => got <= Cap
    BY <2>1 DEF Accounts
  <2>5. QED
    BY <2>2, <2>3, <2>4 DEF CompleteIsWhole, Handed
<1>2. QED
  BY <1>1, IntakeInvariant, PTL

(* No response is leaked, and the code closes or cancels none under its    *)
(* consumer, wherever the timeout of the request comes in between          *)
(* (OpenFileURL, cancelOnClose).                                           *)
THEOREM ResponsesAreReleased == Spec => []NothingLeaks
<1>1. IntakeInv => NothingLeaks
  BY DEF IntakeInv, Held, NothingLeaks, Handed
<1>2. QED
  BY <1>1, IntakeInvariant, PTL

(* A data: URI or URL whose file fits is not refused: the filter on the    *)
(* encoded length, the padding arithmetic and the checks of the response   *)
(* let it through for every cap (base64DecodedLen, ParseFileDataURI,       *)
(* OpenFileURL).                                                           *)
LEMMA FittingFilesAreTaken == Spec => [](DataVerdict /\ UrlVerdict)
<1>1. IntakeInv => DataVerdict
  <2> SUFFICES ASSUME IntakeInv, pc \in {"refused", "broken"},
                      source.mode = "data", DataFits
               PROVE  FALSE
    BY DEF DataVerdict
  <2>1. source \in DataURIs /\ source.len \in Nat /\ Cap \in Int
    BY SourceFields DEF IntakeInv, Stages
  <2>2. Parses /\ ~Malformed /\ source.len <= Cap
    BY <2>1, FittingParses DEF DataFits, FileFits
  <2>3. QED
    BY <2>1, <2>2 DEF IntakeInv, Judged
<1>2. IntakeInv => UrlVerdict
  <2> SUFFICES ASSUME IntakeInv, pc = "refused", source.mode = "url",
                      FileFits, ~FetchFailed, source.status = "2xx",
                      source.declared = source.len
               PROVE  FALSE
    BY DEF UrlVerdict
  <2>1. source.len \in Nat /\ Cap \in Int
    BY SourceFields DEF IntakeInv, Stages
  <2>2. QED
    BY <2>1 DEF IntakeInv, Judged, FileFits, Acceptable
<1>3. QED
  BY <1>1, <1>2, IntakeInvariant, PTL

-----------------------------------------------------------------------------
(* Trees.                                                                  *)

(* The walk has counted the bytes of the entries it has passed, none of    *)
(* which was over the cap or could not be read.                            *)
WalkInv ==
  /\ source \in Urls \cup DataURIs \cup Trees
  /\ pc = "accepted"
       => IsTree /\ TreeFits /\ (source.cap > 0 => NoneUnreadable)
  /\ IsTree =>
       /\ walked \in 0 .. Len(source.entries)
       /\ total \in Nat
       /\ total = Cardinality(BytesBefore(walked))
       /\ source.cap > 0 =>
            /\ source.policy = "aggregate" => total <= source.cap
            /\ \A i \in 1 .. walked : /\ Sizes[i] <= source.cap
                                       /\ ~Unreadable(source.entries[i])
       /\ pc = "refused" => ~TreeFits \/ ~NoneUnreadable

LEMMA TreeFields ==
  ASSUME source \in Urls \cup DataURIs \cup Trees, IsTree
  PROVE  /\ source.cap \in Int
         /\ source.policy \in {"perEntry", "aggregate"}
         /\ Len(source.entries) \in Nat /\ Len(Sizes) = Len(source.entries)
         /\ DOMAIN source.entries = 1 .. Len(source.entries)
         /\ DOMAIN Sizes = 1 .. Len(source.entries)
         /\ \A i \in 1 .. Len(source.entries) :
              /\ Sizes[i] = IF Counts(source.entries[i])
                              THEN source.entries[i].size ELSE 0
              /\ source.entries[i].size \in Nat
              /\ Sizes[i] \in Nat
<1>1. source \in Trees
  BY DEF IsTree, Urls, DataURIs
<1>2. /\ source.cap \in Int
      /\ source.policy \in {"perEntry", "aggregate"}
      /\ source.entries \in UNION {[1 .. n -> Entries] : n \in 0 .. MaxEntries}
  BY <1>1, FileIntakeAssumption DEF Trees
<1>3. PICK n \in 0 .. MaxEntries : source.entries \in [1 .. n -> Entries]
  BY <1>2
<1>4. n \in Nat /\ DOMAIN source.entries = 1 .. n /\ Len(source.entries) = n
  BY <1>3, FileIntakeAssumption
<1>5. /\ DOMAIN Sizes = 1 .. n
      /\ \A i \in 1 .. n : Sizes[i] = IF Counts(source.entries[i])
                                       THEN source.entries[i].size ELSE 0
  BY <1>4 DEF Sizes
<1>6. Len(Sizes) = n
  <2>1. Sizes = [i \in 1 .. n |-> Sizes[i]]
    BY <1>4 DEF Sizes
  <2>2. Sizes \in Seq({Sizes[i] : i \in 1 .. n})
    BY <1>4, <2>1
  <2>3. QED
    BY <1>4, <1>5, <2>2
<1>7. \A e \in Entries : e.size \in Nat
  <2>1. ASSUME NEW e \in Entries
        PROVE  e.size \in FileSizes \cup {0}
    BY DEF Entries
  <2>2. FileSizes \cup {0} \subseteq Nat
    BY FileIntakeAssumption
  <2>3. QED
    BY <2>1, <2>2
<1>8. \A i \in 1 .. n : source.entries[i].size \in Nat
  BY <1>3, <1>7
<1>9. QED
  BY <1>2, <1>4, <1>5, <1>6, <1>8

(* The bytes of an entry, and those of the entries before it.              *)
LEMMA BytesFacts ==
  ASSUME source \in Urls \cup DataURIs \cup Trees, IsTree,
         NEW i \in 1 .. Len(source.entries)
  PROVE  /\ IsFiniteSet(BytesOf(i)) /\ Cardinality(BytesOf(i)) = Sizes[i]
<1>1. Sizes[i] \in Nat
  BY TreeFields
<1>2. /\ IsFiniteSet(1 .. Sizes[i]) /\ Cardinality(1 .. Sizes[i]) = Sizes[i]
  <2>1. /\ IsFiniteSet(1 .. Sizes[i])
        /\ Cardinality(1 .. Sizes[i])
             = IF 1 > Sizes[i] THEN 0 ELSE Sizes[i] - 1 + 1
    BY <1>1, 1 \in Int, Sizes[i] \in Int, FS_Interval
  <2>2. QED
    BY <1>1, <2>1
<1> DEFINE f == [k \in 1 .. Sizes[i] |-> <<i, k>>]
<1>3. f \in Bijection(1 .. Sizes[i], BytesOf(i))
  BY DEF BytesOf, Bijection, Injection, Surjection, IsInjective
<1>4. ExistsBijection(1 .. Sizes[i], BytesOf(i))
  BY <1>3 DEF ExistsBijection
<1>5. QED
  BY <1>2, <1>4, FS_Bijection

LEMMA BytesAreFinite ==
  ASSUME source \in Urls \cup DataURIs \cup Trees, IsTree,
         NEW k \in 0 .. Len(source.entries)
  PROVE  IsFiniteSet(BytesBefore(k)) /\ Cardinality(BytesBefore(k)) \in Nat
<1>1. Len(source.entries) \in Nat
  BY TreeFields
<1> DEFINE f == [i \in 1 .. k |-> BytesOf(i)]
           T == {BytesOf(i) : i \in 1 .. k}
<1>2. f \in Surjection(1 .. k, T)
  BY DEF Surjection
<1>3. IsFiniteSet(1 .. k)
  BY <1>1, FS_Interval
<1>4. \A B \in T : IsFiniteSet(B)
  BY <1>1, BytesFacts
<1> HIDE DEF f, T
<1>5. IsFiniteSet(T)
  BY <1>2, <1>3, FS_Surjection
<1>6. IsFiniteSet(UNION T)
  BY <1>4, <1>5, FS_UNION
<1>7. BytesBefore(k) = UNION T
  BY DEF BytesBefore, T
<1>8. QED
  BY <1>6, <1>7, FS_CardinalityType

LEMMA BytesAddUp ==
  ASSUME source \in Urls \cup DataURIs \cup Trees, IsTree,
         NEW k \in 0 .. Len(source.entries), k < Len(source.entries)
  PROVE  Cardinality(BytesBefore(k + 1)) = Cardinality(BytesBefore(k)) + Sizes[k + 1]
<1>1. Len(source.entries) \in Nat /\ k + 1 \in 1 .. Len(source.entries)
  BY TreeFields
<1>2. 1 .. k + 1 = (1 .. k) \cup {k + 1}
  BY <1>1
<1>3. BytesBefore(k + 1) = BytesBefore(k) \cup BytesOf(k + 1)
  BY <1>2 DEF BytesBefore
<1>4. BytesBefore(k) \cap BytesOf(k + 1) = {}
  BY <1>1 DEF BytesBefore, BytesOf
<1>5. /\ IsFiniteSet(BytesBefore(k)) /\ Cardinality(BytesBefore(k)) \in Nat
      /\ IsFiniteSet(BytesOf(k + 1))
      /\ Cardinality(BytesOf(k + 1)) = Sizes[k + 1] /\ Sizes[k + 1] \in Nat
  BY <1>1, BytesFacts, BytesAreFinite, TreeFields
<1>6. Cardinality(BytesBefore(k + 1))
        = Cardinality(BytesBefore(k)) + Cardinality(BytesOf(k + 1))
            - Cardinality(BytesBefore(k) \cap BytesOf(k + 1))
  BY <1>3, <1>5, FS_Union
<1>7. Cardinality(BytesBefore(k) \cap BytesOf(k + 1)) = 0
  BY <1>4, FS_EmptySet
<1>8. QED
  BY <1>5, <1>6, <1>7

(* Whatever is read first, the whole has no fewer bytes.                   *)
LEMMA SumBounds ==
  ASSUME source \in Urls \cup DataURIs \cup Trees, IsTree
  PROVE  /\ \A k \in 0 .. Len(source.entries) : Cardinality(BytesBefore(k)) <= Sum
         /\ \A i \in 1 .. Len(source.entries) : Sizes[i] <= Sum
         /\ Sum \in Nat
<1> DEFINE n == Len(source.entries)
<1>1. n \in Nat /\ Sum = Cardinality(BytesBefore(n))
  BY TreeFields DEF Sum
<1>2. IsFiniteSet(BytesBefore(n)) /\ Sum \in Nat
  BY <1>1, BytesAreFinite
<1>3. ASSUME NEW k \in 0 .. n
      PROVE  Cardinality(BytesBefore(k)) <= Sum
  <2>1. BytesBefore(k) \in SUBSET BytesBefore(n)
    BY <1>1 DEF BytesBefore
  <2>2. QED
    BY <1>1, <1>2, <2>1, FS_Subset
<1>4. ASSUME NEW i \in 1 .. n
      PROVE  Sizes[i] <= Sum
  <2>1. BytesOf(i) \in SUBSET BytesBefore(n)
    BY DEF BytesBefore
  <2>2. Cardinality(BytesOf(i)) <= Sum
    BY <1>1, <1>2, <2>1, FS_Subset
  <2>3. QED
    BY <2>2, BytesFacts
<1>5. QED
  BY <1>2, <1>3, <1>4

LEMMA WalkInit == Init => WalkInv
<1> SUFFICES ASSUME Init
             PROVE  WalkInv
  OBVIOUS
<1>1. /\ source \in Urls \cup DataURIs \cup Trees
      /\ pc = "start" /\ walked = 0 /\ total = 0
  BY DEF Init
<1>2. BytesBefore(0) = {}
  BY DEF BytesBefore
<1>3. Cardinality(BytesBefore(0)) = 0
  BY <1>2, FS_EmptySet
<1>4. IsTree => Len(source.entries) \in Nat /\ source.cap \in Int
  BY <1>1, TreeFields
<1>5. QED
  BY <1>1, <1>3, <1>4 DEF WalkInv

LEMMA WalkStep ==
  ASSUME WalkInv, Walk
  PROVE  WalkInv'
<1> DEFINE n == Len(source.entries)
           j == walked + 1
           e == source.entries[j]
<1>1. /\ source \in Urls \cup DataURIs \cup Trees /\ source' = source
      /\ pc = "start" /\ IsTree /\ source.cap > 0 /\ walked < n
      /\ walked \in 0 .. n /\ total \in Nat
      /\ total = Cardinality(BytesBefore(walked))
      /\ source.policy = "aggregate" => total <= source.cap
      /\ \A i \in 1 .. walked : /\ Sizes[i] <= source.cap
                                 /\ ~Unreadable(source.entries[i])
  BY DEF WalkInv, Walk
<1>2. /\ source.cap \in Int /\ source.policy \in {"perEntry", "aggregate"}
      /\ n \in Nat /\ DOMAIN source.entries = 1 .. n /\ DOMAIN Sizes = 1 .. n
      /\ j \in 1 .. n
      /\ Sizes[j] = IF Counts(e) THEN e.size ELSE 0
      /\ e.size \in Nat /\ Sizes[j] \in Nat
  BY <1>1, TreeFields
<1>3. /\ Sizes' = Sizes /\ (TreeFits' <=> TreeFits) /\ (IsTree' <=> IsTree)
      /\ (NoneUnreadable' <=> NoneUnreadable)
      /\ \A k \in 0 .. n : BytesBefore(k)' = BytesBefore(k)
      /\ \A k \in 1 .. walked :
           Unreadable(source.entries[k])' <=> Unreadable(source.entries[k])
  BY <1>1 DEF Sizes, TreeFits, Sum, BytesBefore, BytesOf, Counts, IsTree,
     NoneUnreadable, Unreadable
<1>4. Cardinality(BytesBefore(j)) = total + Sizes[j]
  BY <1>1, BytesAddUp
<1> HIDE DEF e
<1>5. CASE /\ \/ Counts(e) /\ ~Over(total + e.size, e) /\ total' = total + e.size
              \/ ~Counts(e) /\ ~Unreadable(e) /\ UNCHANGED total
           /\ walked' = j /\ UNCHANGED pc
  <2>1. total' = total + Sizes[j] /\ total' \in Nat
    BY <1>1, <1>2, <1>5
  <2>2. Sizes[j] <= source.cap
    BY <1>1, <1>2, <1>5 DEF Over
  <2>3. source.policy = "aggregate" => total' <= source.cap
    BY <1>1, <1>2, <1>5, <2>1 DEF Over
  <2>4. \A i \in 1 .. j : Sizes[i] <= source.cap /\ ~Unreadable(source.entries[i])
    <3>1. ~Unreadable(source.entries[j])
      BY <1>5 DEF e, Counts, Unreadable
    <3>2. QED
      BY <1>1, <1>2, <2>2, <3>1
  <2>5. total' = Cardinality(BytesBefore(walked)')
    BY <1>2, <1>3, <1>4, <1>5, <2>1
  <2>6. QED
    <3>1. \A i \in 1 .. walked' : ~Unreadable(source.entries[i])'
      BY <1>1, <1>5, <2>4 DEF Unreadable
    <3>2. QED
      BY <1>1, <1>2, <1>3, <1>5, <2>1, <2>3, <2>4, <2>5, <3>1 DEF WalkInv
<1>6. CASE /\ (Counts(e) /\ Over(total + e.size, e)) \/ Unreadable(e)
           /\ pc' = "refused" /\ UNCHANGED walk
  <2>1. CASE Unreadable(e)
    <3>1. ~NoneUnreadable
      BY <1>2, <2>1 DEF Unreadable, NoneUnreadable, e
    <3>2. QED
      BY <1>1, <1>3, <1>6, <3>1 DEF WalkInv, walk
  <2>2. CASE Counts(e) /\ Over(total + e.size, e)
    <3>1. /\ Sizes[j] = e.size /\ Sizes[j] <= Sum /\ total + Sizes[j] <= Sum
          /\ Sum \in Nat
      <4>1. j \in 0 .. n
        BY <1>2
      <4>2. QED
        BY <1>1, <1>2, <1>4, <2>2, <4>1, SumBounds
    <3>2. \/ Sizes[j] > source.cap
          \/ source.policy = "aggregate" /\ total + Sizes[j] > source.cap
      BY <2>2, <3>1 DEF Over
    <3>3. ~TreeFits
      <4>1. CASE source.policy = "aggregate"
        BY <1>1, <1>2, <3>1, <3>2, <4>1 DEF TreeFits
      <4>2. CASE source.policy # "aggregate"
        BY <1>1, <1>2, <3>2, <4>2 DEF TreeFits
      <4>3. QED
        BY <4>1, <4>2
    <3>4. QED
      BY <1>1, <1>3, <1>6, <3>3 DEF WalkInv, walk
  <2>3. QED
    BY <1>6, <2>1, <2>2
<1>7. QED
  BY <1>5, <1>6 DEF Walk, e

LEMMA AcceptStep ==
  ASSUME WalkInv, Accept
  PROVE  WalkInv'
<1> DEFINE n == Len(source.entries)
<1>1. /\ source \in Urls \cup DataURIs \cup Trees
      /\ IsTree
      /\ source.cap <= 0 \/ walked = n
      /\ UNCHANGED <<source, walked, total>> /\ pc' = "accepted"
      /\ total = Cardinality(BytesBefore(walked))
      /\ walked \in 0 .. n /\ total \in Nat
      /\ source.cap > 0 =>
           /\ source.policy = "aggregate" => total <= source.cap
           /\ \A i \in 1 .. walked : /\ Sizes[i] <= source.cap
                                      /\ ~Unreadable(source.entries[i])
  BY DEF WalkInv, Accept, walk
<1>2. /\ source.cap \in Int /\ n \in Nat /\ DOMAIN Sizes = 1 .. n
      /\ DOMAIN source.entries = 1 .. n
      /\ Sum = Cardinality(BytesBefore(n))
  <2>1. /\ source.cap \in Int /\ n \in Nat /\ DOMAIN Sizes = 1 .. n
        /\ DOMAIN source.entries = 1 .. n /\ Len(Sizes) = n
    BY <1>1, TreeFields
  <2>2. QED
    BY <2>1 DEF Sum
<1>3. TreeFits
  <2>1. CASE source.cap <= 0
    BY <2>1 DEF TreeFits
  <2>2. CASE walked = n /\ source.cap > 0
    BY <1>1, <1>2, <2>2 DEF TreeFits
  <2>3. QED
    BY <1>1, <1>2, <2>1, <2>2
<1>4. /\ Sizes' = Sizes /\ (TreeFits' <=> TreeFits) /\ (IsTree' <=> IsTree)
      /\ (NoneUnreadable' <=> NoneUnreadable)
      /\ BytesBefore(walked)' = BytesBefore(walked)
      /\ \A i \in 1 .. walked :
           Unreadable(source.entries[i])' <=> Unreadable(source.entries[i])
  BY <1>1 DEF Sizes, TreeFits, Sum, BytesBefore, BytesOf, Counts, IsTree,
     NoneUnreadable, Unreadable
<1>5. source.cap > 0 => NoneUnreadable
  BY <1>1, <1>2 DEF NoneUnreadable
<1>6. QED
  <2>1. total' = Cardinality(BytesBefore(walked)')
    BY <1>1, <1>4
  <2>2. QED
    BY <1>1, <1>3, <1>4, <1>5, <2>1 DEF WalkInv

LEMMA WalkStays ==
  ASSUME WalkInv, UNCHANGED <<source, walk>>,
         \/ pc' = pc
         \/ ~IsTree /\ pc' # "accepted"
  PROVE  WalkInv'
<1>1. UNCHANGED <<source, walked, total>>
  BY DEF walk
<1>2. /\ Sizes' = Sizes /\ (TreeFits' <=> TreeFits) /\ (IsTree' <=> IsTree)
      /\ (NoneUnreadable' <=> NoneUnreadable)
      /\ BytesBefore(walked)' = BytesBefore(walked)
      /\ \A i \in 1 .. walked :
           Unreadable(source.entries[i])' <=> Unreadable(source.entries[i])
  BY <1>1 DEF Sizes, TreeFits, Sum, BytesBefore, BytesOf, Counts, IsTree,
     NoneUnreadable, Unreadable
<1>3. QED
  BY <1>1, <1>2 DEF WalkInv

LEMMA WalkNext == IntakeInv /\ WalkInv /\ [Next]_vars => WalkInv'
<1> SUFFICES ASSUME IntakeInv, WalkInv, [Next]_vars
             PROVE  WalkInv'
  OBVIOUS
<1>1. pc \in Handed \cup {"fetched"} => ~IsTree
  BY DEF IntakeInv, Stages, IsTree
<1>2. CASE \/ RefuseUrl \/ Fetch \/ RefuseResponse \/ HandOff \/ Parse
           \/ Probe \/ Cut \/ StopAtSize \/ Close \/ \E k \in Buffers : Read(k)
  <2>1. UNCHANGED <<source, walk>>
    BY <1>2 DEF RefuseUrl, Fetch, RefuseResponse, HandOff, Parse, Probe,
       Cut, StopAtSize, Close, Read
  <2>2. ~IsTree
    BY <1>1, <1>2 DEF RefuseUrl, Fetch, RefuseResponse, HandOff, Parse, Probe,
       Cut, StopAtSize, Close, Read, IsTree, Handed
  <2>3. pc' # "accepted"
    <3>1. ASSUME NEW k, NEW a \in Answers(k)
          PROVE  a.err # "accepted"
      BY DEF Answers
    <3>2. CASE Probe
      BY <3>1, <3>2 DEF Probe, Yield, Checked
    <3>3. CASE \E k \in Buffers : Read(k)
      BY <3>1, <3>3 DEF Read, Yield, Checked
    <3>4. QED
      BY <1>2, <3>2, <3>3 DEF RefuseUrl, Fetch, RefuseResponse, HandOff, Parse,
         Cut, Yield, StopAtSize, Close, Refuse, Opened
  <2>4. QED
    BY <2>1, <2>2, <2>3, WalkStays
<1>3. CASE Walk
  BY <1>3, WalkStep
<1>4. CASE Accept
  BY <1>4, AcceptStep
<1>5. CASE Deadline \/ UNCHANGED vars
  <2>1. UNCHANGED <<source, walk>> /\ pc' = pc
    BY <1>5 DEF Deadline, vars
  <2>2. QED
    BY <2>1, WalkStays
<1>6. QED
  BY <1>2, <1>3, <1>4, <1>5 DEF Next

(* The verdict is right, either way: a tree is accepted if and only if all *)
(* that counts of it can be read and fits the cap, whatever the order of   *)
(* its entries and however early the walk stops, and a file that fits is   *)
(* taken (CheckTreeSize, CheckDirectorySize, ParseFileDataURI,             *)
(* OpenFileURL).                                                           *)
THEOREM VerdictsAreRight == Spec => []VerdictIsRight
<1>1. IntakeInv /\ WalkInv => TreeVerdict
  BY DEF WalkInv, TreeVerdict
<1>2. Spec => [](IntakeInv /\ WalkInv)
  BY WalkInit, WalkNext, IntakeInit, IntakeStep, PTL DEF Spec
<1>3. TreeVerdict /\ DataVerdict /\ UrlVerdict => VerdictIsRight
  BY DEF VerdictIsRight
<1>4. QED
  BY <1>1, <1>2, <1>3, FittingFilesAreTaken, PTL

=============================================================================
