----------------------------- MODULE FileIntake -----------------------------
(***************************************************************************)
(* How a server takes in the bytes of a file: fetched from a URL           *)
(* (ieo/file_relay.go), decoded from a data: URI (ieo/file_data_uri.go),   *)
(* both opened by SourceResolver (transfer/upload_source.go), or read from *)
(* a tree whose size is checked first (ieo/tree_size.go).                  *)
(*                                                                         *)
(* One request and everything that can be wrong with it is chosen          *)
(* initially.  A reader is then read with buffers of any size and closed;  *)
(* a consumer may stop as soon as it has the size it was told.             *)
(*                                                                         *)
(* External: HTTP client, base64 decoder and file system.  A response body *)
(* or decoder yields at least a byte per read until its bytes are used up, *)
(* ends with them or after them, and fails if they are malformed, unless   *)
(* the decoder lets padding in their midst pass; a body may fail at any    *)
(* read, and must once the request's timeout is over.  A body may be       *)
(* longer or shorter than its Content-Length, as it may with a client      *)
(* injected by the embedding code.  The checks of a URL's form, host,      *)
(* addresses and redirects are one fact, wellFormed, or part of the fetch  *)
(* that fails.  Names and types are left out, and so are caps near 2^63,   *)
(* where maxBytes*2 or a total overflows.                                  *)
(***************************************************************************)
EXTENDS Integers, Sequences, FiniteSets

CONSTANTS
  MaxLen,      \* bound: the longest payload in bytes
  Caps,        \* configured caps
  DefaultCap,  \* defaultRelayMaxBytes
  Buffers,     \* lengths of the consumer's buffers
  FileSizes,   \* sizes of the files in a tree
  MaxEntries   \* bound: the entries of a tree

ASSUME FileIntakeAssumption ==
  /\ MaxLen \in Nat /\ MaxEntries \in Nat
  /\ Caps \subseteq Int
  /\ DefaultCap \in Nat \ {0}
  /\ Buffers \subseteq Nat \ {0}
  /\ FileSizes \subseteq Nat

VARIABLES
  source,  \* the request: what is to be taken in, and under which cap
  pc,      \* how far it has got
  size,    \* the size the consumer was told
  left,    \* bytes the body or decoder has not yielded yet
  room,    \* remaining: what the capped reader still lets through
  got,     \* bytes delivered to the consumer
  body,    \* the HTTP response body
  ctx,     \* the context with the request's timeout: live until that is
           \* over, or cancelled
  walked,  \* entries of the tree that were checked
  total    \* and the sum of their sizes

reader == <<size, left, room, got>>
http == <<body, ctx>>
walk == <<walked, total>>
vars == <<source, pc, reader, http, walk>>

Lengths == 0 .. MaxLen

(* declared: the Content-Length, negative when there is none. *)
Urls == [mode : {"url"}, cap : Caps, transport : {"openai", "http"},
         len : Lengths, declared : -1 .. MaxLen, wellFormed : BOOLEAN,
         status : {"2xx", "other"}]

(* declared: the size parameter, 0 when there is none.  flaw: a stray      *)
(* character or a quad of padding after the encoded bytes, or a first byte *)
(* with a padded quad of its own in front of the others.                   *)
DataURIs ==
  {d \in [mode : {"data"}, cap : Caps, transport : {"openai", "http"},
          len : Lengths, declared : -1 .. MaxLen, wellFormed : BOOLEAN,
          flaw : {"none", "stray", "pads", "inner"}, breaks : 0 .. 1] :
     d.flaw = "inner" => d.len >= 2}

(* A link leads to a regular file, a failing entry cannot be read or       *)
(* listed; of any other entry nothing counts.                              *)
Entries == [kind : {"file", "link"}, size : FileSizes]
             \cup [kind : {"other", "dangling", "failing"}, size : {0}]

Trees == [mode : {"fs", "directory"}, cap : Caps,
          policy : {"perEntry", "aggregate"},
          entries : UNION {[1 .. n -> Entries] : n \in 0 .. MaxEntries}]

Init ==
  /\ source \in Urls \cup DataURIs \cup Trees
  /\ pc = "start"
  /\ size = 0 /\ left = 0 /\ room = 0 /\ got = 0
  /\ body = "none" /\ ctx = "none"
  /\ walked = 0 /\ total = 0

-----------------------------------------------------------------------------
(* OpenBytes: the effective cap, and the transport that has these modes. *)
Cap == IF source.cap = 0 THEN DefaultCap ELSE source.cap

Available == source.transport = "openai"

Refuse == pc' = "refused" /\ UNCHANGED reader

(* A reader over n bytes whose consumer is told the size s. *)
Opened(n, s) ==
  /\ pc' = "open"
  /\ left' = n
  /\ size' = s
  /\ room' = Cap
  /\ got' = 0

-----------------------------------------------------------------------------
(* OpenFileURL. *)
RefuseUrl ==
  /\ pc = "start" /\ source.mode = "url"
  /\ ~Available \/ ~source.wellFormed \/ Cap < 0
  /\ Refuse
  /\ UNCHANGED <<source, http, walk>>

Fetch ==
  /\ pc = "start" /\ source.mode = "url"
  /\ Available /\ source.wellFormed /\ Cap >= 0
  /\ \/ /\ pc' = "fetched" /\ UNCHANGED reader
        /\ body' = "open" /\ ctx' = "live"
     \/ /\ Refuse
        /\ body' = "none" /\ ctx' = "cancelled"
  /\ UNCHANGED <<source, walk>>

Acceptable ==
  source.status = "2xx" /\ source.declared >= 0 /\ source.declared <= Cap

RefuseKeepingBody ==
  /\ pc = "fetched" /\ ~Acceptable
  /\ Refuse
  /\ ctx' = "cancelled"
  /\ UNCHANGED <<source, body, walk>>

RefuseResponse ==
  /\ pc = "fetched" /\ ~Acceptable
  /\ Refuse
  /\ body' = "closed" /\ ctx' = "cancelled"
  /\ UNCHANGED <<source, walk>>

(* From here on the code cancels the context only when the body is closed; *)
(* its timeout goes on.                                                    *)
HandOff ==
  /\ pc = "fetched" /\ Acceptable
  /\ Opened(source.len, source.declared)
  /\ UNCHANGED <<source, http, walk>>

DeadlineOfFetch ==
  /\ ctx = "live" /\ pc = "fetched"
  /\ ctx' = "expired"
  /\ UNCHANGED <<source, pc, reader, body, walk>>

(* The timeout is over, or the parent context, whoever has the body. *)
Deadline ==
  /\ ctx = "live"
  /\ ctx' = "expired"
  /\ UNCHANGED <<source, pc, reader, body, walk>>

-----------------------------------------------------------------------------
(* ParseFileDataURI. *)
Quads(n) == (n + 2) \div 3

Padding(n) == 3 * Quads(n) - n

(* Characters of the payload but for line breaks. *)
Chars ==
  CASE source.flaw = "none" -> 4 * Quads(source.len)
    [] source.flaw = "stray" -> 4 * Quads(source.len) + 1
    [] source.flaw = "pads" -> 4 * Quads(source.len) + 4
    [] source.flaw = "inner" -> 4 + 4 * Quads(source.len - 1)

(* base64DecodedLen: whole quads, less the padding at the very end. *)
TrailingPadding ==
  CASE source.flaw = "none" -> Padding(source.len)
    [] source.flaw = "stray" -> 0
    [] source.flaw = "pads" -> Padding(source.len) + 4
    [] source.flaw = "inner" -> Padding(source.len - 1)

WithPadding == 3 * (Chars \div 4)

DecodedLen == 3 * (Chars \div 4) - TrailingPadding

DataSize == IF source.declared = 0 THEN DecodedLen ELSE source.declared

Parses ==
  /\ Available /\ source.wellFormed
  /\ Chars + source.breaks <= Cap * 2
  /\ DataSize = DecodedLen
  /\ DataSize <= Cap

Parse ==
  /\ pc = "start" /\ source.mode = "data"
  /\ \/ Parses /\ Opened(source.len, DataSize)
     \/ ~Parses /\ Refuse
  /\ UNCHANGED <<source, http, walk>>

-----------------------------------------------------------------------------
(* The readers.  What the body or decoder answers to a buffer of k bytes.  *)
(* The decoder takes padding for the end of each chunk it reads, and finds *)
(* that more follows only within a chunk.                                  *)
Rejected == source.mode = "data" /\ source.flaw \in {"stray", "pads"}

MayBreak == \/ source.mode = "url"
            \/ source.mode = "data" /\ source.flaw = "inner"

Answers(k) ==
  LET most == IF k < left THEN k ELSE left
      end == IF Rejected THEN "broken" ELSE "ended"
  IN  [n : 1 .. most, err : {"open"}]
        \cup [n : {left} \cap {most}, err : {end}]
        \cup (IF MayBreak THEN [n : 0 .. most, err : {"broken"}] ELSE {})

(* The consumer gets n bytes, and an error or the end of the file. *)
Yield(n, taken, err) ==
  /\ got' = got + n
  /\ left' = left - taken
  /\ room' = room - n
  /\ pc' = err
  /\ UNCHANGED size

(* A data: URI that ends elsewhere than declared is an error. *)
Checked(err, read) ==
  IF err = "ended" /\ source.mode = "data" /\ size > 0 /\ read # size
    THEN "broken" ELSE err

EndAtCap ==
  /\ pc = "open" /\ room = 0
  /\ Yield(0, 0, "ended")
  /\ UNCHANGED <<source, http, walk>>

(* At the cap one byte more decides between a whole file and an overflow.  *)
Probe ==
  /\ pc = "open" /\ room = 0
  /\ \E a \in Answers(1) :
       Yield(0, a.n, IF a.n > 0 THEN "broken" ELSE Checked(a.err, got))
  /\ UNCHANGED <<source, http, walk>>

Read(k) ==
  /\ pc = "open" /\ room > 0
  /\ \E a \in Answers(IF k < room THEN k ELSE room) :
       Yield(a.n, a.n, Checked(a.err, got + a.n))
  /\ UNCHANGED <<source, http, walk>>

(* Once the timeout is over, a read does not hang any longer. *)
Cut ==
  /\ pc = "open" /\ source.mode = "url" /\ ctx = "expired"
  /\ Yield(0, 0, "broken")
  /\ UNCHANGED <<source, http, walk>>

(* The consumer: it has as many bytes as it was told, or closes. *)
StopAtSize ==
  /\ pc = "open" /\ got = size
  /\ pc' = "stopped"
  /\ UNCHANGED <<source, reader, http, walk>>

Close ==
  /\ pc \in {"open", "stopped", "ended", "broken"}
  /\ pc' = "closed"
  /\ IF source.mode = "url" THEN body' = "closed" /\ ctx' = "cancelled"
                            ELSE UNCHANGED http
  /\ UNCHANGED <<source, reader, walk>>

-----------------------------------------------------------------------------
(* CheckTreeSize and CheckDirectorySize, which follows links.              *)
Counts(e) == \/ e.kind = "file"
             \/ e.kind = "link" /\ source.mode = "directory"

Unreadable(e) == \/ e.kind = "failing"
                 \/ e.kind = "dangling" /\ source.mode = "directory"

Over(sum, e) == \/ e.size > source.cap
                \/ source.policy = "aggregate" /\ sum > source.cap

IsTree == source.mode \in {"fs", "directory"}

Walk ==
  /\ pc = "start" /\ IsTree /\ source.cap > 0
  /\ walked < Len(source.entries)
  /\ LET e == source.entries[walked + 1]
         sum == total + e.size
     IN  \/ /\ Counts(e) /\ ~Over(sum, e)
            /\ total' = sum /\ walked' = walked + 1
            /\ UNCHANGED pc
         \/ /\ ~Counts(e) /\ ~Unreadable(e)
            /\ walked' = walked + 1
            /\ UNCHANGED <<pc, total>>
         \/ /\ (Counts(e) /\ Over(sum, e)) \/ Unreadable(e)
            /\ pc' = "refused"
            /\ UNCHANGED walk
  /\ UNCHANGED <<source, reader, http>>

Accept ==
  /\ pc = "start" /\ IsTree
  /\ source.cap <= 0 \/ walked = Len(source.entries)
  /\ pc' = "accepted"
  /\ UNCHANGED <<source, reader, http, walk>>

Next ==
  \/ RefuseUrl \/ Fetch \/ RefuseResponse \/ HandOff \/ Deadline
  \/ Parse
  \/ Probe \/ Cut \/ StopAtSize \/ Close
  \/ \E k \in Buffers : Read(k)
  \/ Walk \/ Accept

Spec == Init /\ [][Next]_vars

(* A timer fires, and a read of an ended context returns.  Nothing else is *)
(* fair: the other end may never send another byte, and the consumer who   *)
(* is blocked in a read does not close.                                    *)
FairSpec == Spec /\ WF_vars(Deadline) /\ WF_vars(Cut)

-----------------------------------------------------------------------------
(* Properties.                                                             *)

(* A truncated file never looks complete.  Whoever reads to the end, with  *)
(* whatever buffers, has all of the payload, and it was well-formed; and   *)
(* so has whoever stops at the size it was told, if the payload is well-   *)
(* formed and as long as it says; no more than the cap is ever delivered   *)
(* (boundedDataReader, limitedReadCloser: the probe at the cap).           *)
Malformed == source.mode = "data" /\ source.flaw # "none"

Honest == ~Malformed /\ (source.mode = "url" => source.declared = source.len)

CompleteIsWhole ==
  /\ pc = "ended" => got = source.len /\ ~Malformed
  /\ pc = "stopped" /\ Honest => got = source.len
  /\ pc \in {"open", "stopped", "ended", "broken", "closed"} => got <= Cap

(* The verdict is right, either way.  Under a cap, a tree is accepted if   *)
(* and only if what the upload will read of it, links followed or not, can *)
(* be read and fits: the walk with its early exits agrees with the sum of  *)
(* all sizes.  A file that fits is not refused, nor the last byte of a     *)
(* data: URI of exactly the cap, however its base64 is padded or wrapped   *)
(* (CheckTreeSize, CheckDirectorySize, base64DecodedLen,                   *)
(* ParseFileDataURI).  The cap must leave room for the encoding: the       *)
(* filter lets twice the cap through, and for a cap of a few bytes that is *)
(* less than a file that fits may need.                                    *)
Sizes == [i \in DOMAIN source.entries |->
            IF Counts(source.entries[i]) THEN source.entries[i].size ELSE 0]

BytesOf(i) == {i} \X (1 .. Sizes[i])

(* What the first k entries add up to is the number of their bytes. *)
BytesBefore(k) == UNION {BytesOf(i) : i \in 1 .. k}

Sum == Cardinality(BytesBefore(Len(Sizes)))

TreeFits ==
  \/ source.cap <= 0
  \/ IF source.policy = "aggregate"
       THEN Sum <= source.cap
       ELSE \A i \in DOMAIN Sizes : Sizes[i] <= source.cap

NoneUnreadable ==
  \A i \in DOMAIN source.entries : ~Unreadable(source.entries[i])

FileFits == Available /\ source.wellFormed /\ source.len <= Cap

DataFits == /\ FileFits /\ ~Malformed
            /\ source.declared \in {0, source.len}
            /\ 8 + 3 * source.breaks <= 2 * Cap

TreeVerdict ==
  /\ pc = "accepted" => TreeFits /\ (source.cap > 0 => NoneUnreadable)
  /\ pc = "refused" /\ IsTree => ~TreeFits \/ ~NoneUnreadable

DataVerdict ==
  pc \in {"refused", "broken"} /\ source.mode = "data" => ~DataFits

FetchFailed == body = "none" /\ ctx = "cancelled"

UrlVerdict ==
  pc = "refused" /\ source.mode = "url" =>
    \/ ~FileFits \/ FetchFailed
    \/ source.status # "2xx" \/ source.declared # source.len

VerdictIsRight == TreeVerdict /\ DataVerdict /\ UrlVerdict

(* No response is leaked, and the code closes none under its consumer:     *)
(* what is refused or closed has its body closed and its context           *)
(* cancelled, and of a body handed over neither is, though its timeout may *)
(* be over, until the consumer closes it (OpenFileURL, cancelOnClose).     *)
NothingLeaks ==
  /\ pc \in {"refused", "closed"}
       => body # "open" /\ ctx \in {"none", "cancelled"}
  /\ pc \in {"open", "stopped", "ended", "broken"} /\ source.mode = "url"
       => body = "open" /\ ctx \in {"live", "expired"}

(* A read does not hang forever: the timeout of the request outlives the   *)
(* function that set it, and still ends the reads of a body whose other    *)
(* end has fallen silent (OpenFileURL, cancelOnClose).                     *)
HungReadsEnd == (pc = "open" /\ source.mode = "url") ~> pc # "open"

=============================================================================
