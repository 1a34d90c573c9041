------------------------------- MODULE SplitPlan -------------------------------
(***************************************************************************)
(* The loops of splitFirst and chunkPayload (internal/engine/worker.go),   *)
(* one action per iteration.  SegmentOps.tla has their results in closed   *)
(* form; the runs compare the two, the proofs bound what the loops return. *)
(***************************************************************************)
EXTENDS SegmentOps

CONSTANT MaxSize      \* bound on the lengths of the model

ASSUME SizeAssumption == MaxSize \in Nat

-----------------------------------------------------------------------------
VARIABLES kind,        \* which of the two functions runs
          total,       \* len(payload)
          firstLen, maxPayload,
          offset, segments,
          loopPc           \* "entry", "loop", "done"

splitVars == <<kind, total, firstLen, maxPayload, offset, segments, loopPc>>

SplitInit ==
  /\ kind \in {"splitFirst", "chunkPayload"}
  /\ total \in 0 .. MaxSize
  /\ firstLen \in -1 .. MaxSize
  /\ maxPayload \in 0 .. MaxSize
  /\ offset = 0
  /\ segments = <<>>
  /\ loopPc = "entry"

\* A mutation: maxPayload = 0 is not refused.
ReturnsNil_zeroPayload ==
  \/ total = 0
  \/ kind = "splitFirst" /\ clampFirst(firstLen, maxPayload) >= total

\* The early returns: there is nothing to cut, or no way to cut it.
ReturnsNil ==
  \/ maxPayload < 1
  \/ total = 0
  \/ kind = "splitFirst" /\ clampFirst(firstLen, maxPayload) >= total

\* A mutation: a first segment as long as the payload is accepted.
Enter_wholeFirst ==
  /\ loopPc = "entry"
  /\ IF maxPayload < 1 \/ total = 0
       THEN loopPc' = "done" /\ UNCHANGED <<offset, segments>>
       ELSE /\ loopPc' = "loop"
            /\ offset' = IF kind = "splitFirst" THEN clampFirst(firstLen, maxPayload) ELSE 0
            /\ segments' = IF kind = "splitFirst"
                             THEN <<[from |-> 0, len |-> offset']>> ELSE <<>>
  /\ UNCHANGED <<kind, total, firstLen, maxPayload>>

\* The code before the loop.
Enter ==
  /\ loopPc = "entry"
  /\ IF ReturnsNil
       THEN loopPc' = "done" /\ UNCHANGED <<offset, segments>>
       ELSE /\ loopPc' = "loop"
            /\ offset' = IF kind = "splitFirst" THEN clampFirst(firstLen, maxPayload) ELSE 0
            /\ segments' = IF kind = "splitFirst"
                             THEN <<[from |-> 0, len |-> offset']>> ELSE <<>>
  /\ UNCHANGED <<kind, total, firstLen, maxPayload>>

\* A mutation: the last chunk is not shortened to what remains.
Cut_fullChunk ==
  /\ loopPc = "loop" /\ offset < total
  /\ segments' = Append(segments, [from |-> offset, len |-> maxPayload])
  /\ offset' = offset + maxPayload
  /\ UNCHANGED <<kind, total, firstLen, maxPayload, loopPc>>

\* A mutation: the second chunk begins after the first maxPayload bytes even
\* when the first segment was shorter.
Cut_skipsAhead ==
  /\ loopPc = "loop" /\ offset < total
  /\ LET chunk == Smaller(maxPayload, total - offset)
     IN /\ segments' = Append(segments, [from |-> Len(segments) * maxPayload, len |-> chunk])
        /\ offset' = offset + chunk
  /\ UNCHANGED <<kind, total, firstLen, maxPayload, loopPc>>

\* One iteration of the loop.
Cut ==
  /\ loopPc = "loop" /\ offset < total
  /\ LET chunk == Smaller(maxPayload, total - offset)
     IN /\ segments' = Append(segments, [from |-> offset, len |-> chunk])
        /\ offset' = offset + chunk
  /\ UNCHANGED <<kind, total, firstLen, maxPayload, loopPc>>

\* The loop has reached the end of the payload.
Return ==
  /\ loopPc = "loop" /\ offset >= total
  /\ loopPc' = "done"
  /\ UNCHANGED <<kind, total, firstLen, maxPayload, offset, segments>>

SplitNext == Enter \/ Cut \/ Return

SplitSpec == SplitInit /\ [][SplitNext]_splitVars
-----------------------------------------------------------------------------
SplitTypeOK ==
  /\ kind \in {"splitFirst", "chunkPayload"}
  /\ total \in Nat /\ firstLen \in Int /\ maxPayload \in Nat
  /\ offset \in Nat
  /\ segments \in Seq([from : Nat, len : Nat])
  /\ loopPc \in {"entry", "loop", "done"}

\* Where segment i of s must begin: where its predecessor ends.
StartOf(s, i) == IF i = 1 THEN 0 ELSE s[i - 1].from + s[i - 1].len

\* Between two iterations, and at the end, the segments cover 0 .. offset-1
\* without gap, overlap or reordering.
SegmentsTile ==
  /\ \A i \in 1 .. Len(segments) : segments[i].from = StartOf(segments, i)
  /\ offset = StartOf(segments, Len(segments) + 1)

\* No segment that sendSegments builds is empty or larger than the clamp allows.
SegmentsFit ==
  \A i \in 1 .. Len(segments) : segments[i].len \in 1 .. maxPayload

\* splitFirst either gives up or returns the whole window in two segments or
\* more: the test len(splitSegs) < 2 in injectWindow fails open exactly in the
\* cases in which splitFirst returned nil.  chunkPayload returns the whole range.
CutsWholePayload ==
  loopPc = "done" =>
    \/ segments = <<>> /\ (total = 0 \/ maxPayload = 0 \/ kind = "splitFirst")
    \/ offset = total /\ Len(segments) >= IF kind = "splitFirst" THEN 2 ELSE 1

\* The loops compute the closed forms that the worker's model uses.
MatchesClosedForm ==
  loopPc = "done" =>
    segments = IF kind = "splitFirst" THEN SplitFirst(total, firstLen, maxPayload)
                                      ELSE ChunkPayload(0, total, maxPayload)
=============================================================================
