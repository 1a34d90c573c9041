------------------------------- MODULE WindowOps -------------------------------
(***************************************************************************)
(* The reassembly buffer as the worker sees it: the set S of stream        *)
(* offsets it stores, below its limit max, and how Push answers a fragment *)
(* of len > 0 bytes at offset off.                                         *)
(***************************************************************************)
EXTENDS Integers

CONSTANT SeqSpace      \* sequence numbers are 0 .. SeqSpace-1 (2^32 in the code)

ASSUME SeqSpaceAssumption == SeqSpace \in Nat \ {0}

\* Length of the contiguous prefix of a set of offsets below max.
PrefixLen(S, max) ==
  CHOOSE n \in 0 .. max : n \notin S /\ \A k \in 0 .. n - 1 : k \in S

Later(a, b) == IF a > b THEN a ELSE b

\* How Push answers a fragment of len > 0 bytes at offset off, when the
\* offsets in S are stored and max is the buffer's limit.
PushResult(S, max, off, len) ==
  IF max = 0 THEN "full"
  ELSE IF off >= max THEN "window"
  ELSE IF (off + len) % SeqSpace < off THEN "full"
  ELSE IF off + len <= PrefixLen(S, max) THEN "dup"
  ELSE IF off + len > max THEN "full"
  ELSE "stored"

\* The offsets stored after the fragment has been answered.
PushOffsets(S, max, off, len) ==
  IF PushResult(S, max, off, len) = "stored"
    THEN S \cup (off .. off + len - 1)
    ELSE S

\* Does the fragment raise hadOverlap?  It does when it begins inside the
\* prefix and reaches beyond it, and when it meets or touches stored bytes
\* beyond the prefix.
PushOverlaps(S, max, off, len) ==
  LET c == PrefixLen(S, max)
      start == Later(off, c)
  IN \/ /\ max # 0 /\ off < c
        /\ (off + len) % SeqSpace >= off
        /\ off + len > c
     \/ /\ PushResult(S, max, off, len) = "stored"
        /\ \E o \in S : o >= c /\ o >= start - 1 /\ o <= off + len

\* Does the fragment raise hadOutOfOrder?
PushOutOfOrder(S, max, off, len) ==
  /\ PushResult(S, max, off, len) = "stored"
  /\ off > PrefixLen(S, max)
=============================================================================
