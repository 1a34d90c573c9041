------------------------------- MODULE SegmentOps -------------------------------
(***************************************************************************)
(* internal/engine/worker.go: how injectWindow cuts a byte range into      *)
(* segments.  clampSegmentPayload bounds a segment's payload, splitFirst   *)
(* cuts the window and chunkPayload the remainder.  A segment is a record  *)
(* [from, len]: a slice of the range, never a copy, so its bytes are the   *)
(* range's own.                                                            *)
(***************************************************************************)
EXTENDS Integers, Sequences

Smaller(a, b) == IF a < b THEN a ELSE b

\* clampSegmentPayload, with ipMax for maxIPv4TotalLen.
clampSegmentPayload(payloadLen, headerLen, capPayload, ipMax) ==
  IF payloadLen < 1 \/ headerLen < 1 \/ headerLen > ipMax THEN 0
  ELSE LET fits == Smaller(payloadLen, ipMax - headerLen)
       IN IF capPayload > 0 THEN Smaller(fits, capPayload) ELSE fits

\* firstLen after the two corrections at the top of splitFirst.
clampFirst(firstLen, maxPayload) == Smaller(IF firstLen < 1 THEN 1 ELSE firstLen, maxPayload)

\* The segments of len bytes that begin at from, each maxPayload long but the last.
Chunks(from, len, maxPayload) ==
  LET count == (len + maxPayload - 1) \div maxPayload
  IN [i \in 1 .. count |->
        [from |-> from + (i - 1) * maxPayload,
         len  |-> Smaller(maxPayload, len - (i - 1) * maxPayload)]]

ChunkPayload(from, len, maxPayload) ==
  IF maxPayload < 1 \/ len = 0 THEN <<>> ELSE Chunks(from, len, maxPayload)

SplitFirst(len, firstLen, maxPayload) ==
  IF \/ maxPayload < 1 \/ len = 0
     \/ clampFirst(firstLen, maxPayload) >= len
    THEN <<>>
    ELSE LET f == clampFirst(firstLen, maxPayload)
         IN <<[from |-> 0, len |-> f]>> \o Chunks(f, len - f, maxPayload)
=============================================================================
