------------------------------- MODULE Reassembly -------------------------------
(***************************************************************************)
(* internal/reassembly: the per-flow TCP reassembly buffer.  The state is  *)
(* the Buffer struct; the only operation that changes it is Push, which    *)
(* ends with compact.  Payload bytes are members of a small set Byte; a    *)
(* fragment of the same stream range may carry other bytes than an earlier *)
(* one did.                                                                *)
(***************************************************************************)
EXTENDS WindowOps, Sequences, FiniteSets

CONSTANTS MaxBytes, BaseSeq, Byte, MaxFragment

ASSUME BufferAssumption ==
  /\ MaxBytes \in 0 .. SeqSpace - 1
  /\ BaseSeq \in 0 .. SeqSpace - 1
  /\ MaxFragment \in 1 .. SeqSpace - 1
  /\ Byte \subseteq Nat \ {0}         \* 0 is what make() fills a slice with

VARIABLES buffer,   \* the Buffer: contig, contigLen, totalBytes, segments, flags
          pushErr   \* what the last Push returned ("none" before the first)

bufVars == <<buffer, pushErr>>

New == [contig |-> <<>>, contigLen |-> 0, totalBytes |-> 0, segments |-> <<>>,
        hadOutOfOrder |-> FALSE, hadOverlap |-> FALSE]

\* segment.end
SegEnd(s) == s.offset + Len(s.data)

\* The length of all segments of a list, summed over the list.
LenSum(segs) == Cardinality(UNION {{j} \X DOMAIN segs[j].data : j \in DOMAIN segs})

\* The offsets of a list of segments, and the byte it stores at one of them.
Covered(segs) == UNION {segs[j].offset .. SegEnd(segs[j]) - 1 : j \in DOMAIN segs}
SegByte(segs, o) ==
  LET j == CHOOSE j \in DOMAIN segs : o \in segs[j].offset .. SegEnd(segs[j]) - 1
  IN segs[j].data[o - segs[j].offset + 1]

\* Where the prefix ends when the first n segments have been appended to it.
PrefixEnd(buf, n) == IF n = 0 THEN buf.contigLen ELSE SegEnd(buf.segments[n])

\* How many leading segments begin where the prefix then ends.
Chained(buf) ==
  LET segs == buf.segments
  IN CHOOSE n \in 0 .. Len(segs) :
       /\ \A j \in 1 .. n : segs[j].offset = PrefixEnd(buf, j - 1)
       /\ n = Len(segs) \/ segs[n + 1].offset # PrefixEnd(buf, n)

\* The prefix with its first n segments appended.
Extended(buf, n) ==
  [buf EXCEPT !.contig = @ \o [k \in 1 .. PrefixEnd(buf, n) - buf.contigLen |->
                                 SegByte(buf.segments, buf.contigLen + k - 1)],
              !.contigLen = PrefixEnd(buf, n)]

\* A mutation: the prefix grows but the segments stay in the list.
compact_keepsSegment(buf) == Extended(buf, Chained(buf))

\* The loop of compact.
compact(buf) ==
  LET n == Chained(buf)
  IN [Extended(buf, n) EXCEPT !.segments = SubSeq(@, n + 1, Len(@))]

\* sort.Search: how many segments begin left of offset.
Before(segs, offset) == Cardinality({j \in DOMAIN segs : segs[j].offset < offset})

\* A mutation: a segment that ends exactly at offset is not merged.
keptLeft_strict(segs, offset) ==
  LET i == Before(segs, offset)
  IN IF i > 0 /\ SegEnd(segs[i]) > offset THEN i - 1 ELSE i

\* Number of segments that end left of offset and do not touch it (left).
keptLeft(segs, offset) ==
  LET i == Before(segs, offset)
  IN IF i > 0 /\ SegEnd(segs[i]) >= offset THEN i - 1 ELSE i

\* The end of the merged range when the segments from i + 1 to r are absorbed.
MergedEnd(segs, i, r, end) ==
  LET ends == {end} \cup {SegEnd(segs[j]) : j \in i + 1 .. r}
  IN CHOOSE e \in ends : \A d \in ends : d <= e

\* The loop that absorbs segments after the first i: the first one that it leaves
\* begins beyond the end of the merged range.
absorbRight(segs, i, end) ==
  CHOOSE r \in i .. Len(segs) :
    /\ \A j \in i + 1 .. r : segs[j].offset <= MergedEnd(segs, i, j - 1, end)
    /\ r = Len(segs) \/ segs[r + 1].offset > MergedEnd(segs, i, r, end)

\* The merged bytes of newStart .. newEnd-1: the old segments are copied
\* first, the new fragment over them.
mergeBytes(old, offset, payload, newStart, newEnd) ==
  [k \in 1 .. newEnd - newStart |->
     LET o == newStart + k - 1
     IN IF o \in offset .. offset + Len(payload) - 1 THEN payload[o - offset + 1]
        ELSE IF o \in Covered(old) THEN SegByte(old, o)
        ELSE 0]

\* Insert a fragment that does not simply extend the prefix.
insert(buf, offset, payload) ==
  LET segs   == buf.segments
      i      == Before(segs, offset)
      left   == keptLeft(segs, offset)
      start  == IF left < i /\ segs[i].offset < offset THEN segs[i].offset ELSE offset
      end0   == IF left < i THEN Later(offset + Len(payload), SegEnd(segs[i]))
                            ELSE offset + Len(payload)
      right  == absorbRight(segs, i, end0)
      old    == SubSeq(segs, left + 1, right)
      merged == mergeBytes(old, offset, payload, start, MergedEnd(segs, i, right, end0))
      total  == buf.totalBytes - LenSum(old) + Len(merged)
      marked == [buf EXCEPT !.hadOverlap = @ \/ right > left]
  IN IF total > MaxBytes
       THEN [buf |-> marked, err |-> "full"]
       ELSE [buf |-> compact([marked EXCEPT
                       !.segments = SubSeq(segs, 1, left)
                                      \o <<[offset |-> start, data |-> merged]>>
                                      \o SubSeq(segs, right + 1, Len(segs)),
                       !.totalBytes = total]),
             err |-> "stored"]

\* A mutation: the overflow test is missing.
noOverflow(offset, len) == FALSE

\* offset + len does not fit into uint32.
overflows(offset, len) == (offset + len) % SeqSpace < offset

\* A fragment beyond the end of the prefix is noted.
markOrder(buf, offset) == [buf EXCEPT !.hadOutOfOrder = @ \/ offset # buf.contigLen]

\* Buffer.Push of a non-empty payload.  (An empty one returns nil at once.)
\* "dup" and "stored" both stand for the nil error.
Push(buf, seq, payload0) ==
  LET offset0 == (seq - BaseSeq) % SeqSpace
      end     == (offset0 + Len(payload0)) % SeqSpace
      trims   == offset0 < buf.contigLen
      offset  == IF trims THEN buf.contigLen ELSE offset0
      payload == IF trims
                   THEN SubSeq(payload0, buf.contigLen - offset0 + 1, Len(payload0))
                   ELSE payload0
      buf1    == [buf EXCEPT !.hadOverlap = @ \/ trims]
      buf2    == markOrder(buf1, offset)
  IN IF MaxBytes = 0 THEN [buf |-> buf, err |-> "full"]
     ELSE IF offset0 >= MaxBytes THEN [buf |-> buf, err |-> "window"]
     ELSE IF overflows(offset0, Len(payload0)) THEN [buf |-> buf, err |-> "full"]
     ELSE IF end <= buf.contigLen THEN [buf |-> buf, err |-> "dup"]
     ELSE IF end > MaxBytes THEN [buf |-> buf1, err |-> "full"]
     ELSE IF offset = buf.contigLen /\ buf.segments = <<>>
       THEN IF buf.totalBytes + Len(payload) > MaxBytes
              THEN [buf |-> buf2, err |-> "full"]
              ELSE [buf |-> [buf2 EXCEPT !.contig = @ \o payload,
                                       !.contigLen = @ + Len(payload),
                                       !.totalBytes = @ + Len(payload)],
                    err |-> "stored"]
     ELSE insert(buf2, offset, payload)

BufInit == buffer = New /\ pushErr = "none"

PushFragment(seq, payload) ==
  LET r == Push(buffer, seq, payload) IN buffer' = r.buf /\ pushErr' = r.err

BufNext ==
  \E seq \in 0 .. SeqSpace - 1, len \in 1 .. MaxFragment :
    \E payload \in [1 .. len -> Byte] : PushFragment(seq, payload)

BufSpec == BufInit /\ [][BufNext]_bufVars

-----------------------------------------------------------------------------
\* The offsets and bytes a buffer stores, in the prefix and in the segments.
Stored(buf) == (0 .. buf.contigLen - 1) \cup Covered(buf.segments)
ByteAt(buf, o) ==
  IF o < buf.contigLen THEN buf.contig[o + 1] ELSE SegByte(buf.segments, o)

Window == INSTANCE StreamWindow WITH
            bytes <- [o \in Stored(buffer) |-> ByteAt(buffer, o)],
            outOfOrder <- buffer.hadOutOfOrder,
            overlap <- buffer.hadOverlap,
            answer <- pushErr

\* The segment list is what sort.Search and the merge loops of Push assume:
\* sorted, pairwise separated by at least one missing byte, non-empty, and
\* strictly beyond the contiguous prefix.
SegmentsSeparated ==
  LET segs == buffer.segments
  IN /\ \A j \in DOMAIN segs : segs[j].offset > buffer.contigLen /\ segs[j].data # <<>>
     /\ \A j, k \in DOMAIN segs : j < k => SegEnd(segs[j]) < segs[k].offset

\* The byte count that the worker's budget is computed from: totalBytes counts
\* every stored byte once, and contigLen is the length of contig.
BytesAccounted ==
  /\ buffer.contigLen = Len(buffer.contig)
  /\ buffer.totalBytes = Cardinality(Stored(buffer))
  /\ buffer.totalBytes = buffer.contigLen + LenSum(buffer.segments)

\* docs/DESIGN_LINUX.md:75: "Overlap/duplicate segments: de-duplicate and keep
\* earliest bytes."  No Push replaces a byte that is stored.
EarliestBytesKept ==
  [][\A o \in Stored(buffer) \cap Stored(buffer') : ByteAt(buffer', o) = ByteAt(buffer, o)]_bufVars

\* The buffer with its segment list implements the plain window of bytes,
\* including which fragments are refused and when the two flags go up.
ImplementsWindow == Window!WinSpec
=============================================================================
