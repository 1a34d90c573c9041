------------------------------ MODULE WorkerProofs ------------------------------
(***************************************************************************)
(* Proofs about worker.go.  SplitPlan.tla, for every payload length, first *)
(* length and payload limit: the loops of splitFirst and chunkPayload cut  *)
(* the range into non-empty segments that cover it exactly once and in     *)
(* order, and these are the segments of the closed forms of SegmentOps.    *)
(* Worker.tla, for any set of flow keys, any configurations and any        *)
(* packets: the budgets are exact, the limits are kept, every handled      *)
(* packet has exactly one place, and packets leave in order.               *)
(* Then the bytes: every byte handled is sent or held, but for those       *)
(* beyond a gap, and a split window is sent once, in order and whole.      *)
(***************************************************************************)
EXTENDS Worker, SplitPlan, FiniteSetTheorems, SequenceTheorems, WellFoundedInduction, TLAPS

-----------------------------------------------------------------------------
\* splitFirst and chunkPayload: the loops of SplitPlan.tla.

\* What holds at each point of the loop, beyond the three invariants proved:
\* nothing is cut before the loop, the loop never runs past the end, and it is
\* entered only with something left to cut.
LoopInv ==
  /\ loopPc = "entry" => segments = <<>> /\ offset = 0
  /\ loopPc = "loop" =>
       /\ maxPayload >= 1 /\ total >= 1 /\ offset <= total
       /\ kind = "splitFirst" => Len(segments) >= 1
       /\ Len(segments) <= 1 => (kind = "splitFirst" => offset < total)
       /\ Len(segments) = 0 => offset = 0
  /\ CutsWholePayload

SplitInv == SplitTypeOK /\ SegmentsTile /\ SegmentsFit /\ LoopInv

\* The range a clamped first length lies in.
LEMMA ClampFirstRange ==
  ASSUME NEW f \in Int, NEW m \in Nat, m >= 1
  PROVE  clampFirst(f, m) \in 1 .. m
BY DEF clampFirst, Smaller

\* What appending one segment does to a sequence of segments.
LEMMA AppendSegment ==
  ASSUME NEW s \in Seq([from : Nat, len : Nat]), NEW x \in [from : Nat, len : Nat]
  PROVE  /\ Append(s, x) \in Seq([from : Nat, len : Nat])
         /\ Len(Append(s, x)) = Len(s) + 1
         /\ \A i \in 1 .. Len(s) : Append(s, x)[i] = s[i]
         /\ Append(s, x)[Len(s) + 1] = x
OBVIOUS

\* The loops start in the inductive invariant.
LEMMA SplitInitInv == SplitInit => SplitInv
BY SizeAssumption DEF SplitInit, SplitInv, SplitTypeOK, SegmentsTile, SegmentsFit, LoopInv,
   CutsWholePayload, StartOf

\* Entering, cutting and returning preserve the inductive invariant.
LEMMA SplitStepInv == SplitInv /\ [SplitNext]_splitVars => SplitInv'
<1> SUFFICES ASSUME SplitInv, [SplitNext]_splitVars PROVE SplitInv'
  OBVIOUS
<1> USE DEF SplitInv
<1>1. CASE Enter
  <2>1. CASE ReturnsNil
    <3>1. /\ loopPc' = "done" /\ segments = <<>>
          /\ UNCHANGED <<kind, total, firstLen, maxPayload, offset, segments>>
      BY <1>1, <2>1 DEF Enter, LoopInv
    <3>2. total = 0 \/ maxPayload = 0 \/ kind = "splitFirst"
      BY <2>1 DEF ReturnsNil, SplitTypeOK
    <3>3. SplitTypeOK' /\ SegmentsTile' /\ SegmentsFit'
      BY <3>1 DEF SplitTypeOK, SegmentsTile, SegmentsFit, StartOf
    <3>4. LoopInv'
      BY <3>1, <3>2 DEF LoopInv, CutsWholePayload
    <3> QED BY <3>3, <3>4
  <2>2. CASE ~ReturnsNil /\ kind = "chunkPayload"
    BY <1>1, <2>2 DEF Enter, ReturnsNil, SplitTypeOK, SegmentsTile, SegmentsFit, LoopInv,
       CutsWholePayload, StartOf
  <2>3. CASE ~ReturnsNil /\ kind = "splitFirst"
    <3> DEFINE f == clampFirst(firstLen, maxPayload)
    <3>1. f \in 1 .. maxPayload /\ f < total /\ total \in Nat /\ maxPayload \in Nat
      BY <2>3, ClampFirstRange DEF ReturnsNil, SplitTypeOK
    <3>2. /\ loopPc' = "loop" /\ offset' = f
          /\ segments' = <<[from |-> 0, len |-> f]>>
          /\ UNCHANGED <<kind, total, firstLen, maxPayload>>
      BY <1>1, <2>3 DEF Enter
    <3> HIDE DEF f
    <3>3. /\ Len(segments') = 1
          /\ segments'[1] = [from |-> 0, len |-> f]
          /\ segments' \in Seq([from : Nat, len : Nat])
      BY <3>1, <3>2
    <3>4. SplitTypeOK'
      BY <3>1, <3>2, <3>3 DEF SplitTypeOK
    <3>5. SegmentsTile' /\ SegmentsFit'
      BY <3>1, <3>2, <3>3 DEF SegmentsTile, SegmentsFit, StartOf
    <3>6. LoopInv'
      BY <3>1, <3>2, <3>3 DEF LoopInv, CutsWholePayload
    <3> QED BY <3>4, <3>5, <3>6
  <2> QED BY <2>1, <2>2, <2>3 DEF SplitTypeOK
<1>2. CASE Cut
  <2> DEFINE chunk == Smaller(maxPayload, total - offset)
             x == [from |-> offset, len |-> chunk]
  <2>1. /\ loopPc = "loop" /\ offset < total /\ maxPayload >= 1
        /\ total \in Nat /\ offset \in Nat /\ maxPayload \in Nat
        /\ chunk \in 1 .. maxPayload /\ offset + chunk <= total
    BY <1>2 DEF Cut, SplitTypeOK, LoopInv, Smaller
  <2>2. /\ segments' = Append(segments, x) /\ offset' = offset + chunk
        /\ UNCHANGED <<kind, total, firstLen, maxPayload, loopPc>>
    BY <1>2 DEF Cut
  <2> HIDE DEF chunk
  <2>3. /\ segments \in Seq([from : Nat, len : Nat])
        /\ x \in [from : Nat, len : Nat]
    BY <2>1 DEF SplitTypeOK
  <2>4. /\ segments' \in Seq([from : Nat, len : Nat])
        /\ Len(segments') = Len(segments) + 1
        /\ Len(segments) \in Nat
        /\ \A i \in 1 .. Len(segments) : segments'[i] = segments[i]
        /\ segments'[Len(segments) + 1] = x
    BY <2>2, <2>3, AppendSegment
  <2>5. SplitTypeOK'
    BY <2>1, <2>2, <2>4 DEF SplitTypeOK
  <2>6. SegmentsFit'
    BY <2>1, <2>2, <2>4 DEF SegmentsFit
  <2>7. SegmentsTile'
    <3>1. \A i \in 1 .. Len(segments) : segments'[i].from = StartOf(segments', i)
      <4> SUFFICES ASSUME NEW i \in 1 .. Len(segments)
                   PROVE  segments'[i].from = StartOf(segments', i)
        OBVIOUS
      <4>1. segments'[i] = segments[i] /\ segments[i].from = StartOf(segments, i)
        BY <2>4 DEF SegmentsTile
      <4>2. CASE i = 1
        BY <4>1, <4>2 DEF StartOf
      <4>3. CASE i # 1
        <5>1. i - 1 \in 1 .. Len(segments)
          BY <4>3, <2>4
        <5>2. segments'[i - 1] = segments[i - 1]
          BY <5>1, <2>4
        <5> QED BY <4>1, <4>3, <5>2 DEF StartOf
      <4> QED BY <4>2, <4>3
    <3>2. segments'[Len(segments) + 1].from = StartOf(segments', Len(segments) + 1)
      BY <2>4 DEF SegmentsTile, StartOf
    <3>3. offset' = StartOf(segments', Len(segments') + 1)
      BY <2>1, <2>2, <2>4 DEF StartOf
    <3> QED BY <2>4, <3>1, <3>2, <3>3 DEF SegmentsTile
  <2>8. LoopInv'
    BY <2>1, <2>2, <2>4 DEF LoopInv, CutsWholePayload, SegmentsTile, StartOf
  <2> QED BY <2>5, <2>6, <2>7, <2>8
<1>3. CASE Return
  BY <1>3 DEF Return, SplitTypeOK, SegmentsTile, SegmentsFit, LoopInv, CutsWholePayload,
              StartOf
<1>4. CASE UNCHANGED splitVars
  BY <1>4 DEF splitVars, SplitTypeOK, SegmentsTile, SegmentsFit, LoopInv, CutsWholePayload,
              StartOf
<1> QED BY <1>1, <1>2, <1>3, <1>4 DEF SplitNext

\* splitFirst and chunkPayload never lose, repeat or reorder a byte, however
\* long the payload is.
THEOREM SplitTiles == SplitSpec => []SegmentsTile
<1>1. SplitInv => SegmentsTile BY DEF SplitInv
<1> QED BY <1>1, SplitInitInv, SplitStepInv, PTL DEF SplitSpec

\* Every segment they return is non-empty and within the clamped payload limit.
THEOREM SplitFits == SplitSpec => []SegmentsFit
<1>1. SplitInv => SegmentsFit BY DEF SplitInv
<1> QED BY <1>1, SplitInitInv, SplitStepInv, PTL DEF SplitSpec

\* They return the whole range, in two segments or more when splitFirst does
\* not give up: the len(splitSegs) < 2 test of injectWindow misses no case.
THEOREM SplitCutsWhole == SplitSpec => []CutsWholePayload
<1>1. SplitInv => CutsWholePayload BY DEF SplitInv, LoopInv
<1> QED BY <1>1, SplitInitInv, SplitStepInv, PTL DEF SplitSpec

-----------------------------------------------------------------------------
\* The closed forms.  Division is by a variable, so that the few facts needed about
\* it are lemmas of their own.

\* Between two multiples of m there is room for m.
LEMMA Multiples ==
  ASSUME NEW a \in Int, NEW b \in Int, NEW m \in Nat, m >= 1, a < b
  PROVE  a * m + m <= b * m
<1> DEFINE d == b - a - 1
<1>1. d \in Nat /\ b = (a + 1) + d
  OBVIOUS
<1> HIDE DEF d
<1>2. d * m \in Nat /\ ((a + 1) + d) * m = a * m + m + d * m
  BY <1>1
<1> QED BY <1>1, <1>2

\* The quotient is the only number that fits.
LEMMA QuotientIs ==
  ASSUME NEW n \in Int, NEW m \in Nat, m >= 1, NEW k \in Int,
         k * m <= n, n < k * m + m
  PROVE  n \div m = k
<1> DEFINE q == n \div m
<1>1. q \in Int /\ q * m <= n /\ n < q * m + m
  OBVIOUS
<1> HIDE DEF q
<1>2. q * m \in Int /\ k * m \in Int
  BY <1>1
<1>3. ~(q < k) /\ ~(k < q)
  BY <1>1, <1>2, Multiples
<1>4. q = k
  BY <1>1, <1>3
<1> QED BY <1>4 DEF q

\* Of splitFirst's segments the first is not one of Chunks.
Lead  == IF kind = "splitFirst" THEN 1 ELSE 0
First == IF kind = "splitFirst" THEN clampFirst(firstLen, maxPayload) ELSE 0

\* The start of chunk i after the first segment, and the chunk.
ChunkAt(i) == (i - 1) * maxPayload
Chunk(i) == [from |-> First + ChunkAt(i),
             len  |-> Smaller(maxPayload, total - First - ChunkAt(i))]

\* In the loop, the chunks that have been cut are the first ones of the closed form,
\* the last of them began before the end of the payload, and the next one begins at
\* the offset.
FormInv ==
  loopPc = "loop" =>
    /\ ~ReturnsNil
    /\ Len(segments) >= Lead
    /\ Lead = 1 => segments[1] = [from |-> 0, len |-> First]
    /\ \A i \in 1 .. Len(segments) - Lead : segments[Lead + i] = Chunk(i)
    /\ offset = Smaller(First + ChunkAt(Len(segments) - Lead + 1), total)
    /\ Len(segments) > Lead => First + ChunkAt(Len(segments) - Lead) < total

FInv == FormInv /\ MatchesClosedForm

\* The types of what the closed forms are built from.
LEMMA FormTypes ==
  ASSUME SplitTypeOK
  PROVE  /\ kind \in {"splitFirst", "chunkPayload"} /\ Lead \in Nat /\ Lead \in {0, 1}
         /\ total \in Nat /\ maxPayload \in Nat /\ offset \in Nat
         /\ segments \in Seq([from : Nat, len : Nat]) /\ Len(segments) \in Nat
         /\ \A i \in Int : ChunkAt(i) \in Int
         /\ ~ReturnsNil => maxPayload >= 1 /\ First \in Nat /\ First < total
<1>1. maxPayload \in Nat /\ firstLen \in Int /\ total \in Nat
  BY DEF SplitTypeOK
<1>2. \A i \in Int : ChunkAt(i) \in Int
  BY <1>1 DEF ChunkAt
<1>3. ASSUME ~ReturnsNil PROVE maxPayload >= 1 /\ First \in Nat /\ First < total
  <2>1. maxPayload >= 1 /\ 0 < total
    BY <1>1, <1>3 DEF ReturnsNil
  <2>2. CASE kind = "splitFirst"
    <3> DEFINE f == clampFirst(firstLen, maxPayload)
    <3>1. f \in 1 .. maxPayload /\ ~(f >= total) /\ First = f
      BY <1>1, <1>3, <2>1, <2>2, ClampFirstRange DEF First, ReturnsNil
    <3> HIDE DEF f
    <3> QED BY <1>1, <2>1, <3>1
  <2>3. CASE kind # "splitFirst"
    BY <1>1, <2>1, <2>3 DEF First
  <2> QED BY <2>2, <2>3
<1> QED BY <1>1, <1>2, <1>3 DEF SplitTypeOK, Lead

\* Entering the loop: no chunk has been cut.
LEMMA EnterForm == SplitTypeOK /\ LoopInv /\ Enter => FInv'
<1> SUFFICES ASSUME SplitTypeOK, LoopInv, Enter PROVE FInv'
  OBVIOUS
<1>0. /\ segments = <<>> /\ offset = 0
      /\ UNCHANGED <<kind, total, firstLen, maxPayload>>
  BY DEF Enter, LoopInv
<1>1. CASE ReturnsNil
  <2>1. loopPc' = "done" /\ segments' = <<>>
    BY <1>0, <1>1 DEF Enter
  <2>2. MatchesClosedForm'
    BY <1>0, <1>1, <2>1
       DEF MatchesClosedForm, ReturnsNil, SplitFirst, ChunkPayload, SplitTypeOK
  <2> QED BY <2>1, <2>2 DEF FInv, FormInv
<1>2. CASE ~ReturnsNil
  <2>1. /\ loopPc' = "loop" /\ offset' = First
        /\ segments' = IF kind = "splitFirst" THEN <<[from |-> 0, len |-> First]>> ELSE <<>>
    BY <1>2 DEF Enter, First
  <2>2. Lead' = Lead /\ First' = First /\ (ReturnsNil' <=> ReturnsNil)
    BY <1>0 DEF Lead, First, ReturnsNil
  <2>3. First \in Nat /\ First < total /\ total \in Nat /\ maxPayload \in Nat
    BY <1>2, FormTypes
  <2>4. /\ Len(segments') = Lead
        /\ Lead = 1 => segments'[1] = [from |-> 0, len |-> First]
    BY <2>1, <2>3 DEF Lead
  <2>5. ChunkAt(1)' = 0
    BY <1>0, <2>3 DEF ChunkAt
  <2>6. FormInv'
    <3>1. Len(segments') - Lead' + 1 = 1 /\ Len(segments') - Lead' = 0
      BY <2>2, <2>4 DEF Lead
    <3>2. offset' = Smaller(First' + ChunkAt(Len(segments) - Lead + 1)', total')
      BY <1>0, <2>1, <2>2, <2>3, <3>1 DEF Smaller, ChunkAt
    <3> QED BY <1>2, <2>1, <2>2, <2>4, <3>1, <3>2 DEF FormInv, Lead
  <2>7. MatchesClosedForm'
    BY <2>1 DEF MatchesClosedForm
  <2> QED BY <2>6, <2>7 DEF FInv
<1> QED BY <1>1, <1>2

\* One iteration cuts the next chunk of the closed form.
LEMMA CutForm == SplitTypeOK /\ FInv /\ Cut => FInv'
<1> SUFFICES ASSUME SplitTypeOK, FInv, Cut PROVE FInv'
  OBVIOUS
<1> DEFINE k == Len(segments) - Lead
           x == [from |-> offset, len |-> Smaller(maxPayload, total - offset)]
<1>1. /\ loopPc = "loop" /\ offset < total /\ loopPc' = "loop"
      /\ segments' = Append(segments, x)
      /\ offset' = offset + Smaller(maxPayload, total - offset)
      /\ UNCHANGED <<kind, total, firstLen, maxPayload>>
  BY DEF Cut
<1>2. /\ Lead' = Lead /\ First' = First /\ (ReturnsNil' <=> ReturnsNil)
      /\ \A i \in Int : ChunkAt(i)' = ChunkAt(i) /\ Chunk(i)' = Chunk(i)
  BY <1>1 DEF Lead, First, ReturnsNil, ChunkAt, Chunk
<1>3. /\ ~ReturnsNil /\ Len(segments) >= Lead
      /\ Lead = 1 => segments[1] = [from |-> 0, len |-> First]
      /\ \A i \in 1 .. k : segments[Lead + i] = Chunk(i)
      /\ offset = Smaller(First + ChunkAt(k + 1), total)
  BY <1>1 DEF FInv, FormInv
<1>4. /\ maxPayload \in Nat /\ maxPayload >= 1 /\ total \in Nat /\ First \in Nat
      /\ Lead \in {0, 1} /\ Len(segments) \in Nat /\ k \in Nat
      /\ ChunkAt(k + 1) \in Int /\ ChunkAt(k + 2) = ChunkAt(k + 1) + maxPayload
  <2>1. Lead \in {0, 1} /\ Len(segments) \in Nat /\ k \in Nat
    <3>1. Lead \in Nat /\ Lead \in {0, 1} /\ Len(segments) \in Nat
      BY FormTypes
    <3> QED BY <1>3, <3>1
  <2>2. maxPayload \in Nat /\ maxPayload >= 1 /\ total \in Nat /\ First \in Nat
    BY <1>3, FormTypes
  <2>3. k + 2 - 1 = (k + 1 - 1) + 1
    BY <2>1
  <2>4. ASSUME NEW j \in Nat PROVE (j + 1) * maxPayload = j * maxPayload + maxPayload
    BY <2>2, <2>4
  <2> HIDE DEF k
  <2> QED BY <2>1, <2>2, <2>3, <2>4, FormTypes DEF ChunkAt
<1>5. /\ Len(segments') = Len(segments) + 1
      /\ \A i \in 1 .. Len(segments) : segments'[i] = segments[i]
      /\ segments'[Len(segments) + 1] = x
  <2>1. x \in [from : Nat, len : Nat]
    <3>1. offset \in Nat
      BY FormTypes
    <3>2. Smaller(maxPayload, total - offset) \in Nat
      BY <1>1, <1>4, <3>1 DEF Smaller
    <3> QED BY <3>1, <3>2
  <2> HIDE DEF x
  <2> QED BY <1>1, <2>1, AppendSegment, FormTypes
<1>6. offset = First + ChunkAt(k + 1) /\ x = Chunk(k + 1)
  <2>1. offset = First + ChunkAt(k + 1)
    BY <1>1, <1>3, <1>4 DEF Smaller
  <2>2. total - offset = total - First - ChunkAt(k + 1)
    BY <1>4, <2>1
  <2> QED BY <2>1, <2>2 DEF Chunk
<1>7. FormInv'
  <2>1. Len(segments') - Lead' = k + 1 /\ Len(segments) = Lead + k
    BY <1>2, <1>4, <1>5
  <2>2. Lead = 1 => segments'[1] = [from |-> 0, len |-> First]
    <3>1. ASSUME Lead = 1 PROVE 1 \in 1 .. Len(segments)
      BY <1>3, <1>4, <3>1
    <3> HIDE DEF x, k
    <3> QED BY <1>3, <1>5, <3>1
  <2>3. \A i \in 1 .. k + 1 : segments'[Lead + i] = Chunk(i)
    <3> SUFFICES ASSUME NEW i \in 1 .. k + 1 PROVE segments'[Lead + i] = Chunk(i)
      OBVIOUS
    <3> HIDE DEF x, k
    <3>1. CASE i = k + 1
      <4>1. Lead + i = Len(segments) + 1
        BY <1>4, <2>1, <3>1
      <4> QED BY <1>5, <1>6, <3>1, <4>1
    <3>2. CASE i # k + 1
      <4>1. i \in 1 .. k /\ Lead + i \in 1 .. Len(segments)
        BY <1>4, <2>1, <3>2
      <4> QED BY <1>3, <1>5, <4>1
    <3> QED BY <3>1, <3>2
  <2>4. offset' = Smaller(First + ChunkAt(k + 2), total)
    BY SMTT(20), <1>1, <1>4, <1>6 DEF Smaller
  <2>5. First + ChunkAt(k + 1) < total
    BY <1>1, <1>6
  <2> HIDE DEF k, x
  <2>6. k + 1 \in Int /\ k + 2 \in Int /\ k + 1 + 1 = k + 2
    BY <1>4
  <2>7. \A i \in 1 .. Len(segments') - Lead' : segments'[Lead' + i] = Chunk(i)'
    BY <1>2, <1>4, <2>1, <2>3
  <2>8. /\ offset' = Smaller(First' + ChunkAt(Len(segments) - Lead + 1)', total')
        /\ First' + ChunkAt(Len(segments) - Lead)' < total'
    BY <1>1, <1>2, <2>1, <2>4, <2>5, <2>6 DEF ChunkAt
  <2>9. Len(segments') >= Lead'
    BY <1>2, <1>3, <1>4, <1>5
  <2> QED BY <1>2, <1>3, <2>2, <2>7, <2>8, <2>9 DEF FormInv
<1>8. MatchesClosedForm'
  BY <1>1 DEF MatchesClosedForm
<1> QED BY <1>7, <1>8 DEF FInv

\* The loop ends when all chunks of the closed form have been cut.
LEMMA ReturnForm == SplitTypeOK /\ FInv /\ Return => FInv'
<1> SUFFICES ASSUME SplitTypeOK, FInv, Return PROVE FInv'
  OBVIOUS
<1> DEFINE k == Len(segments) - Lead
           rest == total - First
<1>1. /\ loopPc = "loop" /\ offset >= total /\ loopPc' = "done"
      /\ UNCHANGED <<kind, total, firstLen, maxPayload, offset, segments>>
  BY DEF Return
<1>2. /\ ~ReturnsNil /\ Len(segments) >= Lead
      /\ Lead = 1 => segments[1] = [from |-> 0, len |-> First]
      /\ \A i \in 1 .. k : segments[Lead + i] = Chunk(i)
      /\ offset = Smaller(First + ChunkAt(k + 1), total)
      /\ Len(segments) > Lead => First + ChunkAt(k) < total
  BY <1>1 DEF FInv, FormInv
<1>3. /\ maxPayload \in Nat /\ maxPayload >= 1 /\ total \in Nat /\ First \in Nat
      /\ First < total /\ Lead \in {0, 1} /\ Len(segments) \in Nat /\ k \in Nat
      /\ segments \in Seq([from : Nat, len : Nat])
  <2>1. Lead \in Nat /\ Lead \in {0, 1} /\ Len(segments) \in Nat
    BY FormTypes
  <2>2. k \in Nat
    BY <1>2, <2>1
  <2> QED BY <1>2, <2>1, <2>2, FormTypes
<1>4. (rest + maxPayload - 1) \div maxPayload = k
  <2>1. k * maxPayload \in Int /\ (k - 1) * maxPayload = k * maxPayload - maxPayload
    <3> HIDE DEF k
    <3> QED BY <1>3
  <2>2. ChunkAt(k + 1) = k * maxPayload /\ ChunkAt(k) = k * maxPayload - maxPayload
    <3>1. k + 1 - 1 = k
      <4> HIDE DEF k
      <4> QED BY <1>3
    <3>2. ASSUME NEW j \in Int PROVE ChunkAt(j) = (j - 1) * maxPayload
      BY DEF ChunkAt
    <3>3. ChunkAt(k) = k * maxPayload - maxPayload
      BY <2>1 DEF ChunkAt
    <3> HIDE DEF k
    <3> QED BY <1>3, <3>1, <3>2, <3>3
  <2>3. First + k * maxPayload >= total
    BY <1>1, <1>2, <1>3, <2>1, <2>2 DEF Smaller
  <2>4. k # 0
    <3>1. 0 * maxPayload = 0
      BY <1>3
    <3> QED BY <1>3, <2>3, <3>1
  <2>5. First + k * maxPayload - maxPayload < total
    BY <1>2, <1>3, <2>1, <2>2, <2>4
  <2> HIDE DEF k
  <2>6. /\ rest + maxPayload - 1 \in Int
        /\ k * maxPayload <= rest + maxPayload - 1
        /\ rest + maxPayload - 1 < k * maxPayload + maxPayload
    BY <1>3, <2>1, <2>3, <2>5
  <2> HIDE DEF rest
  <2> QED BY <1>3, <2>6, QuotientIs
<1>5. Chunks(First, rest, maxPayload) = [i \in 1 .. k |-> Chunk(i)]
  BY <1>4 DEF Chunks, Chunk, ChunkAt
<1>6. MatchesClosedForm'
  <2> DEFINE c == [i \in 1 .. k |-> Chunk(i)]
  <2>1. CASE kind = "chunkPayload"
    <3>1. Lead = 0 /\ First = 0 /\ rest = total /\ k = Len(segments)
      BY <1>3, <2>1 DEF Lead, First
    <3>2. ChunkPayload(0, total, maxPayload) = c
      <4>1. ~(maxPayload < 1) /\ total # 0
        BY <1>3
      <4>2. Chunks(0, total, maxPayload) = c
        BY <1>5, <3>1
      <4> HIDE DEF c
      <4> QED BY <4>1, <4>2 DEF ChunkPayload
    <3>3. \A i \in 1 .. Len(segments) : segments[i] = Chunk(i)
      BY <1>2, <3>1
    <3>4. segments = [i \in 1 .. Len(segments) |-> segments[i]]
      BY <1>3
    <3>5. segments = c
      BY <3>1, <3>3, <3>4
    <3> QED BY <1>1, <2>1, <3>2, <3>5 DEF MatchesClosedForm
  <2>2. CASE kind = "splitFirst"
    <3>1. Lead = 1 /\ First = clampFirst(firstLen, maxPayload) /\ Len(segments) = k + 1
      BY <1>3, <2>2 DEF Lead, First
    <3>2. SplitFirst(total, firstLen, maxPayload) = <<[from |-> 0, len |-> First]>> \o c
      <4>1. ~(maxPayload < 1) /\ total # 0 /\ ~(First >= total)
        BY <1>3
      <4>2. Chunks(First, total - First, maxPayload) = c
        BY <1>5
      <4> HIDE DEF c
      <4> QED BY <3>1, <4>1, <4>2 DEF SplitFirst
    <3>3. c \in Seq([from : Nat, len : Nat]) /\ Len(c) = k
      <4>1. \A i \in 1 .. k : Chunk(i) \in [from : Nat, len : Nat]
        <5> SUFFICES ASSUME NEW i \in 1 .. k PROVE Chunk(i) \in [from : Nat, len : Nat]
          OBVIOUS
        <5>1. Lead + i \in 1 .. Len(segments) /\ segments[Lead + i] = Chunk(i)
          BY <1>2, <1>3, <3>1
        <5>2. ASSUME NEW R, NEW s \in Seq(R), NEW j \in 1 .. Len(s) PROVE s[j] \in R
          OBVIOUS
        <5>3. segments[Lead + i] \in [from : Nat, len : Nat]
          BY <1>3, <5>1, <5>2
        <5> QED BY <5>1, <5>3
      <4> HIDE DEF k
      <4> QED BY <1>3, <4>1
    <3>4. segments = <<[from |-> 0, len |-> First]>> \o c
      <4> DEFINE r == <<[from |-> 0, len |-> First]>> \o c
      <4>1. /\ r \in Seq([from : Nat, len : Nat]) /\ Len(r) = k + 1
            /\ r[1] = [from |-> 0, len |-> First]
            /\ \A i \in 1 .. k : r[i + 1] = c[i]
        <5> HIDE DEF c, k
        <5> QED BY <1>3, <3>3
      <4>2. \A i \in 1 .. k : c[i] = Chunk(i) /\ segments[1 + i] = Chunk(i)
        BY <1>2, <3>1
      <4> HIDE DEF r, c, k
      <4>3. \A j \in 1 .. k + 1 : segments[j] = r[j]
        <5> SUFFICES ASSUME NEW j \in 1 .. k + 1, j # 1 PROVE segments[j] = r[j]
          BY <1>2, <3>1, <4>1
        <5>1. j - 1 \in 1 .. k /\ 1 + (j - 1) = j /\ (j - 1) + 1 = j
          BY <1>3
        <5> QED BY <4>1, <4>2, <5>1
      <4>4. segments \in Seq([from : Nat, len : Nat]) /\ Len(segments) = k + 1
        BY <1>3, <3>1
      <4>5. segments = r
        BY <4>1, <4>3, <4>4, SeqEqual
      <4> QED BY <4>5 DEF r
    <3> QED BY <1>1, <2>2, <3>2, <3>4 DEF MatchesClosedForm
  <2> QED BY <2>1, <2>2, FormTypes
<1> QED BY <1>1, <1>6 DEF FInv, FormInv

\* The loops compute the closed forms that the worker's model uses, for every
\* payload length, first length and payload limit.
THEOREM SplitIsClosedForm == SplitSpec => []MatchesClosedForm
<1>1. SplitInit => FInv
  BY DEF SplitInit, FInv, FormInv, MatchesClosedForm
<1>2. SplitInv /\ FInv /\ [SplitNext]_splitVars => FInv'
  <2>1. SplitInv /\ FInv /\ SplitNext => FInv'
    BY EnterForm, CutForm, ReturnForm DEF SplitNext, SplitInv
  <2>2. FInv /\ UNCHANGED splitVars => FInv'
    BY DEF splitVars, FInv, FormInv, MatchesClosedForm, ReturnsNil, Lead, First, Chunk,
           ChunkAt
  <2> QED BY <2>1, <2>2
<1>3. FInv => MatchesClosedForm
  BY DEF FInv
<1> QED BY <1>1, <1>2, <1>3, SplitInitInv, SplitStepInv, PTL DEF SplitSpec

-----------------------------------------------------------------------------
\* The worker: what its variables range over.

Flow ==
  [state : {"collecting", "pass", "injected"}, base : 0 .. SeqSpace - 1, max : Nat,
   first : Nat, tpl : Packet, held : Seq(Packet), buf : SUBSET Nat, ooo : BOOLEAN,
   ovl : BOOLEAN, expired : BOOLEAN, idle : BOOLEAN]

Tables == UNION {[D -> Flow] : D \in SUBSET Keys}

Item == [from : Int, len : Int, id : Nat]

Machines ==
  [flows : Tables, heldBytes : Nat, reassemblyBytes : Nat, wire : [Keys -> Seq(Item)],
   dropped : [Keys -> SUBSET Nat], n : Int, bad : SUBSET Int,
   next : {"idle", "split", "inject", "failed"}, win : Int]

\* A flow that does not collect holds nothing, and its buffer is bounded.
FlowOK(st) ==
  /\ st.state # "collecting" => st.held = <<>>
  /\ st.held = <<>> => st.buf = {}
  /\ \A o \in st.buf : o < st.max
  /\ IsFiniteSet(HeldData(st))

AllHeld(tab) == Tagged([k \in DOMAIN tab |-> HeldData(tab[k])])
AllStored(tab) == Tagged([k \in DOMAIN tab |-> tab[k].buf])

\* The table is finite, and so is what it holds.
TableOK(tab) ==
  /\ tab \in Tables
  /\ IsFiniteSet(DOMAIN tab)
  /\ \A k \in DOMAIN tab : FlowOK(tab[k])
  /\ IsFiniteSet(AllHeld(tab)) /\ IsFiniteSet(AllStored(tab))

\* The counters are what the table holds.
Sound(m) ==
  /\ m \in Machines
  /\ TableOK(m.flows)
  /\ m.heldBytes = Cardinality(AllHeld(m.flows))
  /\ m.reassemblyBytes = Cardinality(AllStored(m.flows))

\* The packets of a flow, of which p have come: those sent (w), dropped (d) and held
\* (h) are all of them, each in one of these places; the held ones are the latest,
\* and those sent and those held are in order.
Placed(w, h, d, p) ==
  /\ \A i, j \in DOMAIN w : i < j /\ w[i].id # 0 /\ w[j].id # 0 => w[i].id < w[j].id
  /\ \A i, j \in DOMAIN h : i < j => h[i].id < h[j].id
  /\ \A i \in DOMAIN w, j \in DOMAIN h : w[i].id < h[j].id
  /\ \A i \in DOMAIN w : w[i].id <= p /\ w[i].id \notin d
  /\ \A j \in DOMAIN h : h[j].id \in 1 .. p /\ h[j].id \notin d
  /\ d \subseteq 1 .. p
  /\ \A n \in 1 .. p : \/ n \in d
                       \/ \E i \in DOMAIN w : w[i].id = n
                       \/ \E j \in DOMAIN h : h[j].id = n

Held(m, k) == IF k \in DOMAIN m.flows THEN m.flows[k].held ELSE <<>>

\* The limits of a configuration.
Within(m, c) ==
  /\ ~Exceeds(Cardinality(DOMAIN m.flows), c.maxFlows)
  /\ ~Exceeds(m.heldBytes, c.maxHeldBytes)
  /\ ~Exceeds(m.reassemblyBytes, c.maxReassembly)
  /\ \A k \in DOMAIN m.flows : Len(Held(m, k)) < c.maxHeldPackets

ControlInv ==
  /\ scenario \in Scenarios /\ cfg \in Configs
  /\ pos \in [Keys -> Nat] /\ \A k \in Keys : pos[k] <= Len(script[k])
  /\ pc \in {"idle", "split", "inject", "gc", "gcErr", "failed"}
  /\ pc \in {"split", "inject"} => cur \in DOMAIN flows
  /\ sweep \subseteq DOMAIN flows
  /\ pc \notin {"gc", "gcErr"} => sweep = {}
  /\ windowLen \in Int /\ reloads \in Nat

TableInv == Sound(Machine({}))

PlaceInv == Intact => \A k \in Keys : Placed(wire[k], HeldPackets(k), dropped[k], pos[k])

LimitInv == reloads = 0 /\ Intact => Within(Machine({}), cfg)

IInv == ControlInv /\ TableInv /\ PlaceInv /\ LimitInv

-----------------------------------------------------------------------------
\* A disjoint union without one of its sets.
LEMMA TaggedDrop ==
  ASSUME NEW f, NEW g, NEW k,
         IsFiniteSet(Tagged(f)), k \in DOMAIN f => IsFiniteSet(f[k]),
         DOMAIN g = DOMAIN f \ {k}, \A x \in DOMAIN g : g[x] = f[x]
  PROVE  /\ IsFiniteSet(Tagged(g))
         /\ Cardinality(Tagged(g)) =
              Cardinality(Tagged(f)) - (IF k \in DOMAIN f THEN Cardinality(f[k]) ELSE 0)
<1>0. Cardinality(Tagged(f)) \in Nat
  BY FS_CardinalityType
<1>1. CASE k \in DOMAIN f
  <2> DEFINE slice == {k} \X f[k]
  <2>1. slice \subseteq Tagged(f)
    BY <1>1 DEF Tagged
  <2>2. Tagged(g) = Tagged(f) \ slice
    <3>1. ASSUME NEW p \in Tagged(g) PROVE p \in Tagged(f) \ slice
      <4>1. PICK x \in DOMAIN g : p \in {x} \X g[x]
        BY <3>1 DEF Tagged
      <4>2. p \in {x} \X f[x] /\ x # k /\ x \in DOMAIN f
        BY <4>1
      <4>3. p[1] = x
        BY <4>1
      <4> QED BY <4>2, <4>3 DEF Tagged
    <3>2. ASSUME NEW p \in Tagged(f), p \notin slice PROVE p \in Tagged(g)
      <4>1. PICK x \in DOMAIN f : p \in {x} \X f[x]
        BY <3>2 DEF Tagged
      <4>2. x \in DOMAIN g /\ p \in {x} \X g[x]
        BY <4>1, <3>2
      <4> QED BY <4>2 DEF Tagged
    <3> QED BY <3>1, <3>2
  <2>3. Cardinality(slice) = Cardinality(f[k])
    <3>1. IsFiniteSet({k}) /\ Cardinality({k}) = 1
      BY FS_Singleton
    <3>2. Cardinality(slice) = 1 * Cardinality(f[k])
      BY <3>1, <1>1, FS_Product
    <3>3. Cardinality(f[k]) \in Nat
      BY <1>1, FS_CardinalityType
    <3> QED BY <3>2, <3>3
  <2>4. Tagged(f) \cap slice = slice
    BY <2>1
  <2>5. /\ IsFiniteSet(Tagged(f) \ slice)
        /\ Cardinality(Tagged(f) \ slice)
             = Cardinality(Tagged(f)) - Cardinality(Tagged(f) \cap slice)
    BY FS_Difference
  <2> QED BY <1>1, <2>2, <2>3, <2>4, <2>5
<1>2. CASE k \notin DOMAIN f
  <2>1. Tagged(g) = Tagged(f)
    <3>1. DOMAIN g = DOMAIN f
      BY <1>2
    <3> QED BY <3>1 DEF Tagged
  <2> QED BY <1>0, <1>2, <2>1
<1> QED BY <1>1, <1>2

\* A disjoint union with one of its sets replaced or added.
LEMMA TaggedPut ==
  ASSUME NEW f, NEW g, NEW k,
         IsFiniteSet(Tagged(f)), k \in DOMAIN f => IsFiniteSet(f[k]),
         IsFiniteSet(g[k]),
         DOMAIN g = DOMAIN f \cup {k}, \A x \in DOMAIN g \ {k} : g[x] = f[x]
  PROVE  /\ IsFiniteSet(Tagged(g))
         /\ Cardinality(Tagged(g)) =
              Cardinality(Tagged(f)) - (IF k \in DOMAIN f THEN Cardinality(f[k]) ELSE 0)
                + Cardinality(g[k])
<1> DEFINE r == [x \in DOMAIN f \ {k} |-> f[x]]
           slice == {k} \X g[k]
<1>1. /\ IsFiniteSet(Tagged(r))
      /\ Cardinality(Tagged(r)) =
           Cardinality(Tagged(f)) - (IF k \in DOMAIN f THEN Cardinality(f[k]) ELSE 0)
  BY TaggedDrop
<1>2. IsFiniteSet(slice) /\ Cardinality(slice) = Cardinality(g[k])
  <2>1. IsFiniteSet({k}) /\ Cardinality({k}) = 1
    BY FS_Singleton
  <2>2. IsFiniteSet(slice) /\ Cardinality(slice) = 1 * Cardinality(g[k])
    BY <2>1, FS_Product
  <2>3. Cardinality(g[k]) \in Nat
    BY FS_CardinalityType
  <2> QED BY <2>2, <2>3
<1>3. Tagged(g) = Tagged(r) \cup slice
  <2>1. ASSUME NEW p \in Tagged(g) PROVE p \in Tagged(r) \cup slice
    <3>1. PICK x \in DOMAIN g : p \in {x} \X g[x]
      BY <2>1 DEF Tagged
    <3>2. CASE x = k
      BY <3>1, <3>2
    <3>3. CASE x # k
      <4>1. x \in DOMAIN r /\ r[x] = g[x]
        BY <3>1, <3>3
      <4>2. p \in {x} \X r[x]
        BY <3>1, <4>1
      <4>3. p \in Tagged(r)
        BY <4>1, <4>2 DEF Tagged
      <4> QED BY <4>3
    <3> QED BY <3>2, <3>3
  <2>2. ASSUME NEW p \in Tagged(r) PROVE p \in Tagged(g)
    <3>1. PICK x \in DOMAIN r : p \in {x} \X r[x]
      BY <2>2 DEF Tagged
    <3>2. x \in DOMAIN g /\ r[x] = g[x]
      BY <3>1
    <3>3. p \in {x} \X g[x]
      BY <3>1, <3>2
    <3> QED BY <3>2, <3>3 DEF Tagged
  <2>3. slice \subseteq Tagged(g)
    BY DEF Tagged
  <2> QED BY <2>1, <2>2, <2>3
<1>4. Tagged(r) \cap slice = {}
  <2> SUFFICES ASSUME NEW p \in Tagged(r), p \in slice PROVE FALSE
    OBVIOUS
  <2>1. PICK x \in DOMAIN r : p \in {x} \X r[x]
    BY DEF Tagged
  <2>2. p[1] = x /\ p[1] = k
    BY <2>1
  <2> QED BY <2>1, <2>2
<1>5. /\ IsFiniteSet(Tagged(r) \cup slice)
      /\ Cardinality(Tagged(r) \cup slice)
           = Cardinality(Tagged(r)) + Cardinality(slice) - Cardinality(Tagged(r) \cap slice)
  BY <1>1, <1>2, FS_Union
<1>6. Cardinality({}) = 0
  BY FS_EmptySet
<1>7. Cardinality(Tagged(r)) \in Nat /\ Cardinality(slice) \in Nat
  BY <1>1, <1>2, FS_CardinalityType
<1> HIDE DEF r, slice
<1>8. Cardinality(Tagged(g)) = Cardinality(Tagged(r)) + Cardinality(slice)
  <2>1. Cardinality(Tagged(g)) = Cardinality(Tagged(r) \cup slice)
    BY <1>3
  <2>2. Cardinality(Tagged(r) \cap slice) = 0
    BY <1>4, <1>6
  <2> QED BY <2>1, <2>2, <1>5, <1>7
<1> QED BY <1>1, <1>2, <1>3, <1>5, <1>8

-----------------------------------------------------------------------------
\* The tables, without the union.
LEMMA TableType ==
  ASSUME NEW tab
  PROVE  tab \in Tables <=> DOMAIN tab \subseteq Keys /\ tab \in [DOMAIN tab -> Flow]
<1>1. ASSUME tab \in Tables
      PROVE  DOMAIN tab \subseteq Keys /\ tab \in [DOMAIN tab -> Flow]
  <2>1. PICK D \in SUBSET Keys : tab \in [D -> Flow]
    BY <1>1 DEF Tables
  <2>2. DOMAIN tab = D
    BY <2>1
  <2> QED BY <2>1, <2>2
<1>2. ASSUME DOMAIN tab \subseteq Keys, tab \in [DOMAIN tab -> Flow]
      PROVE  tab \in Tables
  BY <1>2 DEF Tables
<1> QED BY <1>1, <1>2

\* The buffer of a flow is finite.
LEMMA BufFinite ==
  ASSUME NEW st \in Flow, FlowOK(st)
  PROVE  IsFiniteSet(st.buf) /\ Cardinality(st.buf) \in Nat
<1>1. st.buf \in SUBSET Nat /\ st.max \in Nat
  BY DEF Flow
<1>2. \A o \in st.buf : o <= st.max
  BY <1>1 DEF FlowOK
<1>3. IsFiniteSet(st.buf)
  BY <1>1, <1>2, FS_BoundedSetOfNaturals
<1> QED BY <1>3, FS_CardinalityType

\* What a flow holds, and a flow that is not in the table holds nothing.
HeldAt(tab, k) == IF k \in DOMAIN tab THEN HeldSize(tab[k]) ELSE 0
StoredAt(tab, k) == IF k \in DOMAIN tab THEN Cardinality(tab[k].buf) ELSE 0

\* A flow of the table is replaced, or one is added.
LEMMA PutFlow ==
  ASSUME NEW tab, TableOK(tab), NEW k \in Keys, NEW st \in Flow, FlowOK(st),
         NEW new, new \in [DOMAIN tab \cup {k} -> Flow],
         new[k] = st, \A j \in DOMAIN tab \ {k} : new[j] = tab[j]
  PROVE  /\ TableOK(new)
         /\ Cardinality(AllHeld(new)) =
               Cardinality(AllHeld(tab)) - HeldAt(tab, k) + HeldSize(st)
         /\ Cardinality(AllStored(new))
              = Cardinality(AllStored(tab)) - StoredAt(tab, k) + Cardinality(st.buf)
<1>1. DOMAIN new = DOMAIN tab \cup {k} /\ DOMAIN tab \subseteq Keys
      /\ tab \in [DOMAIN tab -> Flow]
  BY TableType DEF TableOK
<1>2. new \in Tables
  BY <1>1, TableType
<1>3. IsFiniteSet(DOMAIN new)
  BY <1>1, FS_AddElement DEF TableOK
<1>4. \A j \in DOMAIN new : FlowOK(new[j])
  BY <1>1 DEF TableOK
<1>5. /\ IsFiniteSet(AllHeld(new))
      /\ Cardinality(AllHeld(new)) = Cardinality(AllHeld(tab)) - HeldAt(tab, k) + HeldSize(st)
  <2> DEFINE f == [j \in DOMAIN tab |-> HeldData(tab[j])]
             g == [j \in DOMAIN new |-> HeldData(new[j])]
  <2>1. IsFiniteSet(Tagged(f))
    BY DEF TableOK, AllHeld
  <2>2. k \in DOMAIN f => IsFiniteSet(f[k])
    BY DEF TableOK, FlowOK
  <2>3. g[k] = HeldData(st) /\ IsFiniteSet(g[k])
    BY <1>1 DEF FlowOK
  <2>4. DOMAIN g = DOMAIN f \cup {k}
    BY <1>1
  <2>5. \A j \in DOMAIN g \ {k} : g[j] = f[j]
    BY <1>1
  <2>6. k \in DOMAIN f => f[k] = HeldData(tab[k])
    OBVIOUS
  <2>7. DOMAIN f = DOMAIN tab /\ AllHeld(tab) = Tagged(f) /\ AllHeld(new) = Tagged(g)
    BY DEF AllHeld
  <2> HIDE DEF f, g
  <2>8. /\ IsFiniteSet(Tagged(g))
        /\ Cardinality(Tagged(g)) =
              Cardinality(Tagged(f)) - (IF k \in DOMAIN f THEN Cardinality(f[k]) ELSE 0)
                + Cardinality(g[k])
    BY <2>1, <2>2, <2>3, <2>4, <2>5, TaggedPut
  <2> QED BY <2>3, <2>6, <2>7, <2>8 DEF HeldAt, HeldSize
<1>6. /\ IsFiniteSet(AllStored(new))
      /\ Cardinality(AllStored(new))
           = Cardinality(AllStored(tab)) - StoredAt(tab, k) + Cardinality(st.buf)
  <2> DEFINE f == [j \in DOMAIN tab |-> tab[j].buf]
             g == [j \in DOMAIN new |-> new[j].buf]
  <2>1. IsFiniteSet(Tagged(f))
    BY DEF TableOK, AllStored
  <2>2. k \in DOMAIN f => IsFiniteSet(f[k])
    BY <1>1, BufFinite DEF TableOK
  <2>3. g[k] = st.buf /\ IsFiniteSet(g[k])
    BY <1>1, BufFinite
  <2>4. DOMAIN g = DOMAIN f \cup {k}
    BY <1>1
  <2>5. \A j \in DOMAIN g \ {k} : g[j] = f[j]
    BY <1>1
  <2>6. k \in DOMAIN f => f[k] = tab[k].buf
    OBVIOUS
  <2>7. DOMAIN f = DOMAIN tab /\ AllStored(tab) = Tagged(f) /\ AllStored(new) = Tagged(g)
    BY DEF AllStored
  <2> HIDE DEF f, g
  <2>8. /\ IsFiniteSet(Tagged(g))
        /\ Cardinality(Tagged(g)) =
              Cardinality(Tagged(f)) - (IF k \in DOMAIN f THEN Cardinality(f[k]) ELSE 0)
                + Cardinality(g[k])
    BY <2>1, <2>2, <2>3, <2>4, <2>5, TaggedPut
  <2> QED BY <2>3, <2>6, <2>7, <2>8 DEF StoredAt
<1> QED BY <1>2, <1>3, <1>4, <1>5, <1>6 DEF TableOK

\* A flow is deleted from the table.
LEMMA DeleteFlow ==
  ASSUME NEW tab, TableOK(tab), NEW k,
         NEW new, new = [j \in DOMAIN tab \ {k} |-> tab[j]]
  PROVE  /\ TableOK(new)
         /\ Cardinality(AllHeld(new)) = Cardinality(AllHeld(tab)) - HeldAt(tab, k)
         /\ Cardinality(AllStored(new)) = Cardinality(AllStored(tab)) - StoredAt(tab, k)
<1>1. DOMAIN new = DOMAIN tab \ {k} /\ DOMAIN tab \subseteq Keys
      /\ tab \in [DOMAIN tab -> Flow]
  BY TableType DEF TableOK
<1>2. new \in Tables
  BY <1>1, TableType
<1>3. IsFiniteSet(DOMAIN new)
  BY <1>1, FS_RemoveElement DEF TableOK
<1>4. \A j \in DOMAIN new : FlowOK(new[j])
  BY <1>1 DEF TableOK
<1>5. /\ IsFiniteSet(AllHeld(new))
      /\ Cardinality(AllHeld(new)) = Cardinality(AllHeld(tab)) - HeldAt(tab, k)
  <2> DEFINE f == [j \in DOMAIN tab |-> HeldData(tab[j])]
             g == [j \in DOMAIN new |-> HeldData(new[j])]
  <2>1. IsFiniteSet(Tagged(f)) /\ (k \in DOMAIN f => IsFiniteSet(f[k]))
    BY DEF TableOK, AllHeld, FlowOK
  <2>2. DOMAIN g = DOMAIN f \ {k} /\ \A j \in DOMAIN g : g[j] = f[j]
    BY <1>1
  <2>3. k \in DOMAIN f => f[k] = HeldData(tab[k])
    OBVIOUS
  <2>4. DOMAIN f = DOMAIN tab /\ AllHeld(tab) = Tagged(f) /\ AllHeld(new) = Tagged(g)
    BY DEF AllHeld
  <2> HIDE DEF f, g
  <2>5. /\ IsFiniteSet(Tagged(g))
        /\ Cardinality(Tagged(g)) =
              Cardinality(Tagged(f)) - (IF k \in DOMAIN f THEN Cardinality(f[k]) ELSE 0)
    BY <2>1, <2>2, TaggedDrop
  <2> QED BY <2>3, <2>4, <2>5 DEF HeldAt, HeldSize
<1>6. /\ IsFiniteSet(AllStored(new))
      /\ Cardinality(AllStored(new)) = Cardinality(AllStored(tab)) - StoredAt(tab, k)
  <2> DEFINE f == [j \in DOMAIN tab |-> tab[j].buf]
             g == [j \in DOMAIN new |-> new[j].buf]
  <2>1. IsFiniteSet(Tagged(f)) /\ (k \in DOMAIN f => IsFiniteSet(f[k]))
    BY <1>1, BufFinite DEF TableOK, AllStored
  <2>2. DOMAIN g = DOMAIN f \ {k} /\ \A j \in DOMAIN g : g[j] = f[j]
    BY <1>1
  <2>3. k \in DOMAIN f => f[k] = tab[k].buf
    OBVIOUS
  <2>4. DOMAIN f = DOMAIN tab /\ AllStored(tab) = Tagged(f) /\ AllStored(new) = Tagged(g)
    BY DEF AllStored
  <2> HIDE DEF f, g
  <2>5. /\ IsFiniteSet(Tagged(g))
        /\ Cardinality(Tagged(g)) =
              Cardinality(Tagged(f)) - (IF k \in DOMAIN f THEN Cardinality(f[k]) ELSE 0)
    BY <2>1, <2>2, TaggedDrop
  <2> QED BY <2>3, <2>4, <2>5 DEF StoredAt
<1> QED BY <1>2, <1>3, <1>4, <1>5, <1>6 DEF TableOK

-----------------------------------------------------------------------------
\* A flow that holds nothing any more.
Cleared(st, s) ==
  [st EXCEPT !.state = s, !.held = <<>>, !.tpl = NoPacket, !.buf = {}]

\* What a flow's packets weigh depends on nothing else.
LEMMA SameHeld ==
  ASSUME NEW st, NEW st2, st2.held = st.held
  PROVE  HeldData(st2) = HeldData(st) /\ HeldSize(st2) = HeldSize(st)
BY DEF HeldData, HeldSize

\* NoPacket is a packet.
LEMMA NoPacketType == NoPacket \in Packet
BY SeqSpaceAssumption DEF NoPacket, Packet

\* clearCollectingState leaves a sound flow without data.
LEMMA ClearedFlow ==
  ASSUME NEW st \in Flow, NEW s \in {"pass", "injected"}
  PROVE  /\ Cleared(st, s) \in Flow /\ FlowOK(Cleared(st, s))
         /\ HeldSize(Cleared(st, s)) = 0 /\ Cardinality(Cleared(st, s).buf) = 0
<1> DEFINE x == Cleared(st, s)
<1>1. x \in Flow
  <2>1. <<>> \in Seq(Packet)
    BY EmptySeq
  <2> QED BY <2>1, NoPacketType DEF Cleared, Flow
<1>2. x.held = <<>> /\ x.buf = {} /\ x.state = s
  BY DEF Cleared, Flow
<1>3. HeldData(x) = {}
  BY <1>2 DEF HeldData, Tagged
<1>4. IsFiniteSet({}) /\ Cardinality({}) = 0
  BY FS_EmptySet
<1> HIDE DEF x
<1> QED BY <1>1, <1>2, <1>3, <1>4 DEF FlowOK, HeldSize, x

\* A packet is held.
LEMMA HoldPacket ==
  ASSUME NEW st \in Flow, FlowOK(st), st.state = "collecting", NEW pkt \in Packet,
         NEW x, x = [st EXCEPT !.held = Append(@, pkt)]
  PROVE  /\ x \in Flow /\ FlowOK(x)
         /\ HeldSize(x) = HeldSize(st) + DataLen(pkt)
<1>1. st.held \in Seq(Packet) /\ x.held = Append(st.held, pkt)
  BY DEF Flow
<1>2. /\ x \in Flow /\ x.state = "collecting" /\ x.buf = st.buf /\ x.max = st.max
  <2> DEFINE h == Append(st.held, pkt)
  <2>1. h \in Seq(Packet)
    BY <1>1
  <2>2. x = [st EXCEPT !.held = h]
    OBVIOUS
  <2> HIDE DEF h
  <2> QED BY <2>1, <2>2 DEF Flow
<1> DEFINE n == Len(st.held) + 1
           f == [i \in DOMAIN st.held |-> 1 .. DataLen(st.held[i])]
           g == [i \in DOMAIN x.held |-> 1 .. DataLen(x.held[i])]
<1>3. DataLen(pkt) \in Nat
  BY WorkerAssumption DEF DataLen, Packet
<1>4. /\ Len(st.held) \in Nat /\ DOMAIN st.held = 1 .. Len(st.held)
      /\ DOMAIN x.held = 1 .. n /\ x.held[n] = pkt
      /\ \A i \in 1 .. Len(st.held) : x.held[i] = st.held[i]
  BY <1>1
<1>13. x.held # <<>>
  <2>1. Len(x.held) = Len(st.held) + 1 /\ Len(st.held) \in Nat
    BY <1>1
  <2>2. Len(<<>>) = 0
    BY EmptySeq
  <2> QED BY <2>1, <2>2
<1>5. DOMAIN g = DOMAIN f \cup {n} /\ n \notin DOMAIN f
  BY <1>4
<1>6. g[n] = 1 .. DataLen(pkt)
  BY <1>4
<1>7. \A i \in DOMAIN g \ {n} : g[i] = f[i]
  BY <1>4
<1>8. IsFiniteSet(g[n]) /\ Cardinality(g[n]) = DataLen(pkt)
  <2>1. /\ IsFiniteSet(1 .. DataLen(pkt))
        /\ Cardinality(1 .. DataLen(pkt)) =
              IF 1 > DataLen(pkt) THEN 0 ELSE DataLen(pkt) - 1 + 1
    BY <1>3, FS_Interval
  <2> QED BY <2>1, <1>3, <1>6
<1>9. HeldData(st) = Tagged(f) /\ HeldData(x) = Tagged(g)
  BY DEF HeldData
<1>10. IsFiniteSet(Tagged(f)) /\ Cardinality(Tagged(f)) \in Nat
  BY <1>9, FS_CardinalityType DEF FlowOK
<1> HIDE DEF f, g, n
<1>11. /\ IsFiniteSet(Tagged(g))
       /\ Cardinality(Tagged(g)) =
              Cardinality(Tagged(f)) - (IF n \in DOMAIN f THEN Cardinality(f[n]) ELSE 0)
                + Cardinality(g[n])
  BY <1>5, <1>7, <1>8, <1>10, TaggedPut
<1>12. HeldSize(x) = HeldSize(st) + DataLen(pkt)
  BY <1>5, <1>8, <1>9, <1>10, <1>11 DEF HeldSize
<1> QED BY <1>2, <1>9, <1>11, <1>12, <1>13 DEF FlowOK

-----------------------------------------------------------------------------
\* The number of successful calls is at most the number of calls.
LEMMA SuccessesType ==
  ASSUME NEW m, NEW count \in Nat
  PROVE  Successes(m, count) \in 0 .. count
<1> DEFINE S == {i \in 1 .. count : \A j \in 1 .. i : m.n + j - 1 \notin m.bad}
<1>1. IsFiniteSet(1 .. count) /\ Cardinality(1 .. count) = count
  <2>1. /\ IsFiniteSet(1 .. count)
        /\ Cardinality(1 .. count) = IF 1 > count THEN 0 ELSE count - 1 + 1
    BY FS_Interval
  <2> QED BY <2>1
<1>2. S \in SUBSET (1 .. count)
  OBVIOUS
<1>3. IsFiniteSet(S) /\ Cardinality(S) <= count
  BY <1>1, <1>2, FS_Subset
<1>4. Cardinality(S) \in Nat
  BY <1>3, FS_CardinalityType
<1> QED BY <1>3, <1>4 DEF Successes

\* Calls of the adapter change no data of the worker.
LEMMA CallsFields ==
  ASSUME NEW m \in Machines, NEW count \in Nat, NEW x, x = Calls(m, count)
  PROVE  /\ x \in Machines
         /\ x.flows = m.flows /\ x.heldBytes = m.heldBytes
         /\ x.reassemblyBytes = m.reassemblyBytes
         /\ x.wire = m.wire /\ x.dropped = m.dropped /\ x.win = m.win
         /\ x.next = IF Successes(m, count) = count THEN m.next ELSE "failed"
<1>1. Successes(m, count) \in Int
  BY SuccessesType
<1>2. CASE Successes(m, count) = count
  <2> DEFINE c == m.n + count
  <2>1. x = [m EXCEPT !.n = c]
    BY <1>2 DEF Calls
  <2>2. c \in Int
    BY DEF Machines
  <2> HIDE DEF c
  <2> QED BY <1>2, <2>1, <2>2 DEF Machines
<1>3. CASE Successes(m, count) # count
  <2> DEFINE c == m.n + Successes(m, count) + 1
  <2>1. x = [m EXCEPT !.n = c, !.next = "failed"]
    BY <1>3 DEF Calls
  <2>2. c \in Int
    BY <1>1 DEF Machines
  <2> HIDE DEF c
  <2>3. x \in Machines
    BY <2>1, <2>2 DEF Machines
  <2> QED BY <1>3, <2>1, <2>3 DEF Machines
<1> QED BY <1>2, <1>3

\* x is m after adapter calls for flow k that sent some of the items, and all of
\* them if there was no error.
Sent(m, x, k, items) ==
  /\ x.flows = m.flows /\ x.heldBytes = m.heldBytes
  /\ x.reassemblyBytes = m.reassemblyBytes
  /\ x.dropped = m.dropped /\ x.win = m.win
  /\ x.next \in {m.next, "failed"}
  /\ \A j \in Keys \ {k} : x.wire[j] = m.wire[j]
  /\ \E n \in 0 .. Len(items) : x.wire[k] = m.wire[k] \o SubSeq(items, 1, n)
  /\ x.next # "failed" => x.wire[k] = m.wire[k] \o items

\* What a series of sends changes.
LEMMA SendAllFields ==
  ASSUME NEW m \in Machines, NEW k \in Keys, NEW items \in Seq(Item), m.next # "failed",
         NEW x, x = SendAll(m, k, items)
  PROVE  x \in Machines /\ Sent(m, x, k, items)
<1> DEFINE s == Successes(m, Len(items))
           y == Calls(m, Len(items))
           sent == m.wire[k] \o SubSeq(items, 1, s)
<1>1. Len(items) \in Nat /\ s \in 0 .. Len(items)
  BY SuccessesType
<1>2. /\ y \in Machines
      /\ y.flows = m.flows /\ y.heldBytes = m.heldBytes
      /\ y.reassemblyBytes = m.reassemblyBytes
      /\ y.wire = m.wire /\ y.dropped = m.dropped /\ y.win = m.win
      /\ y.next = IF s = Len(items) THEN m.next ELSE "failed"
  BY <1>1, CallsFields
<1>3. m.wire \in [Keys -> Seq(Item)]
  BY DEF Machines
<1>4. sent \in Seq(Item)
  BY <1>1, <1>3
<1>5. x = [y EXCEPT !.wire[k] = sent]
  BY <1>2 DEF SendAll
<1> HIDE DEF s, y, sent
<1>6. /\ x \in Machines
      /\ x.flows = y.flows /\ x.heldBytes = y.heldBytes
      /\ x.reassemblyBytes = y.reassemblyBytes
      /\ x.dropped = y.dropped /\ x.win = y.win /\ x.next = y.next
      /\ x.wire = [y.wire EXCEPT ![k] = sent]
  <2> DEFINE w == [y.wire EXCEPT ![k] = sent]
  <2>1. w \in [Keys -> Seq(Item)]
    BY <1>2, <1>3, <1>4
  <2>2. x = [y EXCEPT !.wire = w]
    BY <1>5
  <2> HIDE DEF w
  <2>3. x.wire = w
    BY <1>2, <2>2 DEF Machines
  <2> QED BY <1>2, <2>1, <2>2, <2>3 DEF Machines, w
<1>7. x.wire[k] = sent /\ \A j \in Keys \ {k} : x.wire[j] = m.wire[j]
  BY <1>2, <1>3, <1>6
<1>8. s = Len(items) => sent = m.wire[k] \o items
  BY SubSeqFull DEF sent
<1>9. \E n \in 0 .. Len(items) : x.wire[k] = m.wire[k] \o SubSeq(items, 1, n)
  BY <1>1, <1>7 DEF sent
<1> QED BY <1>2, <1>6, <1>7, <1>8, <1>9 DEF Sent

-----------------------------------------------------------------------------
\* The type of a sound machine's table.
LEMMA SoundTable ==
  ASSUME NEW m, Sound(m)
  PROVE  /\ m \in Machines /\ TableOK(m.flows)
         /\ DOMAIN m.flows \subseteq Keys /\ m.flows \in [DOMAIN m.flows -> Flow]
         /\ m.wire \in [Keys -> Seq(Item)] /\ m.dropped \in [Keys -> SUBSET Nat]
         /\ m.heldBytes \in Nat /\ m.reassemblyBytes \in Nat /\ m.win \in Int
         /\ m.next \in {"idle", "split", "inject", "failed"}
<1>1. m \in Machines /\ TableOK(m.flows)
  BY DEF Sound
<1>2. DOMAIN m.flows \subseteq Keys /\ m.flows \in [DOMAIN m.flows -> Flow]
  BY <1>1, TableType DEF TableOK
<1> QED BY <1>1, <1>2 DEF Machines

\* x is m after flow k has given back what it holds and taken the state s: the
\* counters went down by just that much.
Gave(m, x, k, s) ==
  /\ x.flows = [m.flows EXCEPT ![k] = Cleared(m.flows[k], s)]
  /\ x.heldBytes = m.heldBytes - HeldSize(m.flows[k])
  /\ x.reassemblyBytes = m.reassemblyBytes - Cardinality(m.flows[k].buf)
  /\ x.wire = m.wire /\ x.dropped = m.dropped /\ x.next = m.next /\ x.win = m.win

\* clearCollectingState, after the state was set.
LEMMA ClearSound ==
  ASSUME NEW m, Sound(m), NEW k \in DOMAIN m.flows, NEW s \in {"pass", "injected"},
         NEW x, x = clearCollectingState([m EXCEPT !.flows[k].state = s], k)
  PROVE  Sound(x) /\ Gave(m, x, k, s)
<1> DEFINE st == m.flows[k]
           st1 == [st EXCEPT !.state = s]
           tab1 == [m.flows EXCEPT ![k] = st1]
           y == [m EXCEPT !.flows[k].state = s]
           tab == [m.flows EXCEPT ![k] = Cleared(st, s)]
           hb == NonNegative(m.heldBytes - HeldSize(st))
           rb == NonNegative(m.reassemblyBytes - Cardinality(st.buf))
<1>0. /\ m \in Machines /\ DOMAIN m.flows \subseteq Keys /\ k \in Keys
      /\ m.flows \in [DOMAIN m.flows -> Flow]
  BY SoundTable
<1>1. st \in Flow
  BY <1>0
<1>2. st1.held = st.held /\ st1.buf = st.buf
  BY <1>1 DEF Flow
<1>3. HeldSize(st1) = HeldSize(st)
  BY <1>2, SameHeld
<1>4. y = [m EXCEPT !.flows = tab1] /\ tab1[k] = st1
  BY <1>0
<1>5. y.flows = tab1 /\ y.heldBytes = m.heldBytes /\ y.reassemblyBytes = m.reassemblyBytes
  BY <1>0, <1>4 DEF Machines
<1>6. x = [y EXCEPT !.heldBytes = hb, !.reassemblyBytes = rb,
                    !.flows[k].held = <<>>, !.flows[k].tpl = NoPacket, !.flows[k].buf = {}]
  BY <1>2, <1>3, <1>4, <1>5 DEF clearCollectingState
<1> DEFINE tab2 == [tab1 EXCEPT ![k].held = <<>>, ![k].tpl = NoPacket, ![k].buf = {}]
<1>7. tab2 = tab
  <2>1. [tab1 EXCEPT ![k].held = <<>>] = [m.flows EXCEPT ![k] = [st1 EXCEPT !.held = <<>>]]
    BY <1>0, <1>4
  <2>2. [tab1 EXCEPT ![k].held = <<>>, ![k].tpl = NoPacket]
          = [m.flows EXCEPT ![k] = [st1 EXCEPT !.held = <<>>, !.tpl = NoPacket]]
    BY <1>0, <2>1
  <2>3. tab2 = [m.flows EXCEPT ![k] =
                  [st1 EXCEPT !.held = <<>>, !.tpl = NoPacket, !.buf = {}]]
    BY <1>0, <2>2
  <2>4. Cleared(st, s) = [st1 EXCEPT !.held = <<>>, !.tpl = NoPacket, !.buf = {}]
    BY DEF Cleared
  <2> QED BY <2>3, <2>4
<1>8. x = [m EXCEPT !.heldBytes = hb, !.reassemblyBytes = rb, !.flows = tab]
  <2>1. x = [[[y EXCEPT !.heldBytes = hb] EXCEPT !.reassemblyBytes = rb]
               EXCEPT !.flows = tab2]
    BY ZenonT(40), <1>0, <1>4, <1>5, <1>6 DEF Machines
  <2> QED BY <1>0, <1>4, <1>7, <2>1 DEF Machines
<1>9. Cleared(st, s) \in Flow /\ FlowOK(Cleared(st, s)) /\ HeldSize(Cleared(st, s)) = 0
      /\ Cardinality(Cleared(st, s).buf) = 0
  BY <1>1, ClearedFlow
<1>10. /\ tab \in [DOMAIN m.flows \cup {k} -> Flow] /\ tab[k] = Cleared(st, s)
       /\ \A j \in DOMAIN m.flows \ {k} : tab[j] = m.flows[j]
  BY <1>0, <1>9
<1>11. /\ HeldAt(m.flows, k) = HeldSize(st)
       /\ StoredAt(m.flows, k) = Cardinality(st.buf)
  BY DEF HeldAt, StoredAt
<1>12. HeldSize(st) \in Nat /\ Cardinality(st.buf) \in Nat
  BY <1>1, BufFinite, FS_CardinalityType DEF Sound, TableOK, FlowOK, HeldSize
<1> HIDE DEF tab, hb, rb, st, tab2, y, st1, tab1
<1>13. /\ TableOK(tab)
       /\ Cardinality(AllHeld(tab)) = m.heldBytes - HeldSize(st)
       /\ Cardinality(AllStored(tab)) = m.reassemblyBytes - Cardinality(st.buf)
  <2>1. TableOK(m.flows) /\ m.heldBytes = Cardinality(AllHeld(m.flows))
        /\ m.reassemblyBytes = Cardinality(AllStored(m.flows))
    BY DEF Sound
  <2>2. m.heldBytes \in Nat /\ m.reassemblyBytes \in Nat
    BY <1>0 DEF Machines
  <2>3. /\ TableOK(tab)
        /\ Cardinality(AllHeld(tab))
             = Cardinality(AllHeld(m.flows)) - HeldAt(m.flows, k) + HeldSize(Cleared(st, s))
        /\ Cardinality(AllStored(tab))
             = Cardinality(AllStored(m.flows)) - StoredAt(m.flows, k)
                 + Cardinality(Cleared(st, s).buf)
    BY <1>0, <1>9, <1>10, <2>1, PutFlow
  <2> QED BY <1>9, <1>11, <1>12, <2>1, <2>2, <2>3
<1>14. Cardinality(AllHeld(tab)) \in Nat /\ Cardinality(AllStored(tab)) \in Nat
  BY <1>13, FS_CardinalityType DEF TableOK
<1>15. hb = m.heldBytes - HeldSize(st) /\ rb = m.reassemblyBytes - Cardinality(st.buf)
       /\ hb \in Nat /\ rb \in Nat
  BY <1>13, <1>14 DEF hb, rb, NonNegative
<1>16. tab \in Tables
  BY <1>13 DEF TableOK
<1>17. /\ x \in Machines /\ x.flows = tab /\ x.heldBytes = hb /\ x.reassemblyBytes = rb
       /\ x.wire = m.wire /\ x.dropped = m.dropped /\ x.next = m.next /\ x.win = m.win
  BY <1>0, <1>8, <1>15, <1>16 DEF Machines
<1>18. Sound(x)
  BY <1>13, <1>15, <1>17 DEF Sound
<1> QED BY <1>15, <1>17, <1>18 DEF Gave, tab, st
\* What x does to m concerns flow k only.
Elsewhere(m, x, k) ==
  \A j \in Keys \ {k} :
    x.wire[j] = m.wire[j] /\ x.dropped[j] = m.dropped[j] /\ Held(x, j) = Held(m, j)

\* The held packets as they are sent: the same number, with the same ids.
LEMMA HeldOutType ==
  ASSUME NEW st \in Flow
  PROVE  /\ HeldOut(st) \in Seq(Item)
         /\ DOMAIN HeldOut(st) = DOMAIN st.held
         /\ \A i \in DOMAIN st.held : HeldOut(st)[i].id = st.held[i].id
<1>1. st.held \in Seq(Packet)
  BY DEF Flow
<1>2. ASSUME NEW i \in DOMAIN st.held
      PROVE  Wire(st.held[i]) \in Item /\ Wire(st.held[i]).id = st.held[i].id
  <2>1. st.held[i] \in Packet
    BY <1>1
  <2> QED BY <2>1, SeqSpaceAssumption DEF Wire, Item, Packet
<1>3. HeldOut(st) \in [1 .. Len(st.held) -> Item] /\ Len(st.held) \in Nat
  BY <1>1, <1>2 DEF HeldOut
<1>4. HeldOut(st) \in Seq(Item)
  BY <1>3
<1> QED BY <1>2, <1>4 DEF HeldOut

\* Sends leave a machine sound.
LEMMA SendSound ==
  ASSUME NEW m, Sound(m), NEW k \in Keys, NEW items \in Seq(Item), m.next # "failed",
         NEW x, x = SendAll(m, k, items)
  PROVE  Sound(x) /\ Elsewhere(m, x, k) /\ Sent(m, x, k, items)
<1>1. m \in Machines
  BY DEF Sound
<1>2. x \in Machines /\ Sent(m, x, k, items)
  BY <1>1, SendAllFields
<1>3. Sound(x)
  BY <1>2 DEF Sound, Sent
<1>4. Elsewhere(m, x, k)
  BY <1>2 DEF Elsewhere, Held, Sent
<1> QED BY <1>2, <1>3, <1>4

\* x is m after failOpen of flow k: without an error it holds nothing any more.
Opened(m, x, k) ==
  /\ DOMAIN x.flows = DOMAIN m.flows
  /\ x.dropped = m.dropped /\ x.win = m.win
  /\ x.next \in {m.next, "failed"}
  /\ x.next # "failed" =>
       /\ Held(x, k) = <<>>
       /\ x.wire[k] = m.wire[k] \o HeldOut(m.flows[k])
       /\ x.heldBytes = m.heldBytes - HeldSize(m.flows[k])
       /\ x.reassemblyBytes = m.reassemblyBytes - Cardinality(m.flows[k].buf)

\* failOpen gives back all that the flow holds, or ends with an error.
LEMMA FailOpenSound ==
  ASSUME NEW m, Sound(m), NEW k \in DOMAIN m.flows, m.next # "failed",
         NEW x, x = failOpen(m, k)
  PROVE  Sound(x) /\ Elsewhere(m, x, k) /\ Opened(m, x, k)
<1> DEFINE st == m.flows[k]
           y == SendAll(m, k, HeldOut(st))
<1>0. k \in Keys /\ st \in Flow /\ m.flows \in [DOMAIN m.flows -> Flow]
  BY SoundTable
<1>1. HeldOut(st) \in Seq(Item)
  BY <1>0, HeldOutType
<1>2. Sound(y) /\ Elsewhere(m, y, k) /\ Sent(m, y, k, HeldOut(st))
  BY <1>0, <1>1, SendSound
<1>3. CASE y.next = "failed"
  <2>1. x = y
    BY <1>3 DEF failOpen
  <2> QED BY <1>2, <1>3, <2>1 DEF Sent, Opened
<1>4. CASE y.next # "failed"
  <2>1. x = clearCollectingState([y EXCEPT !.flows[k].state = "pass"], k)
    BY <1>4 DEF failOpen
  <2> HIDE DEF y
  <2>2. k \in DOMAIN y.flows
    BY <1>2 DEF Sent
  <2>3. Sound(x) /\ Gave(y, x, k, "pass")
    BY <1>2, <2>1, <2>2, ClearSound
  <2>4. Cleared(st, "pass").held = <<>>
    BY <1>0 DEF Cleared, Flow
  <2>5. DOMAIN x.flows = DOMAIN m.flows /\ Held(x, k) = <<>>
    BY <1>0, <1>2, <2>3, <2>4 DEF Held, Gave, Sent
  <2>6. Elsewhere(m, x, k)
    <3> SUFFICES ASSUME NEW j \in Keys \ {k}
                 PROVE  /\ x.wire[j] = m.wire[j] /\ x.dropped[j] = m.dropped[j]
                        /\ Held(x, j) = Held(m, j)
      BY DEF Elsewhere
    <3>1. x.wire[j] = m.wire[j] /\ x.dropped[j] = m.dropped[j]
      BY <1>2, <2>3 DEF Elsewhere, Gave
    <3>2. Held(x, j) = Held(m, j)
      BY <1>0, <1>2, <2>3 DEF Held, Gave, Sent
    <3> QED BY <3>1, <3>2
  <2> QED BY <1>2, <1>4, <2>3, <2>5, <2>6 DEF Opened, Gave, Sent
<1> QED BY <1>3, <1>4

\* x is m after flow k, which held nothing, was deleted.
Deleted(m, x, k) ==
  /\ DOMAIN x.flows = DOMAIN m.flows \ {k}
  /\ Held(x, k) = <<>>
  /\ x.wire = m.wire /\ x.dropped = m.dropped /\ x.next = m.next /\ x.win = m.win
  /\ x.heldBytes = m.heldBytes /\ x.reassemblyBytes = m.reassemblyBytes

\* Table.Delete of a flow that holds nothing.
LEMMA DeleteSound ==
  ASSUME NEW m, Sound(m), NEW k \in DOMAIN m.flows, m.next # "failed",
         Held(m, k) = <<>>, NEW x, x = Delete(m, k)
  PROVE  Sound(x) /\ Elsewhere(m, x, k) /\ Deleted(m, x, k)
<1> DEFINE st == m.flows[k]
           tab == [j \in DOMAIN m.flows \ {k} |-> m.flows[j]]
<1>1. /\ m \in Machines /\ TableOK(m.flows) /\ st \in Flow /\ FlowOK(st)
      /\ m.heldBytes \in Nat /\ m.reassemblyBytes \in Nat
  BY SoundTable DEF TableOK
<1>2. st.held = <<>> /\ st.buf = {}
  BY <1>1 DEF Held, FlowOK
<1>3. HeldData(st) = {}
  BY <1>2 DEF HeldData, Tagged
<1>4. HeldAt(m.flows, k) = 0 /\ StoredAt(m.flows, k) = 0
  BY <1>2, <1>3, FS_EmptySet DEF HeldAt, StoredAt, HeldSize
<1>5. x = [m EXCEPT !.flows = tab]
  BY DEF Delete
<1>6. DOMAIN tab = DOMAIN m.flows \ {k} /\ \A j \in DOMAIN tab : tab[j] = m.flows[j]
  OBVIOUS
<1>7. /\ TableOK(tab)
      /\ Cardinality(AllHeld(tab)) = Cardinality(AllHeld(m.flows)) - HeldAt(m.flows, k)
      /\ Cardinality(AllStored(tab)) = Cardinality(AllStored(m.flows)) - StoredAt(m.flows, k)
  BY <1>1, DeleteFlow
<1> HIDE DEF tab
<1>8. tab \in Tables
  BY <1>7 DEF TableOK
<1>9. /\ x \in Machines /\ x.flows = tab /\ x.heldBytes = m.heldBytes
      /\ x.reassemblyBytes = m.reassemblyBytes
      /\ x.wire = m.wire /\ x.dropped = m.dropped /\ x.next = m.next /\ x.win = m.win
  BY <1>1, <1>5, <1>8 DEF Machines
<1>10. Sound(x)
  BY <1>1, <1>4, <1>7, <1>9 DEF Sound
<1>11. Elsewhere(m, x, k)
  BY <1>6, <1>9 DEF Elsewhere, Held
<1>12. Deleted(m, x, k)
  BY <1>6, <1>9 DEF Deleted, Held
<1> QED BY <1>10, <1>11, <1>12

-----------------------------------------------------------------------------
\* x is m with the flow st at k, and the counters that go with it.
Updated(m, x, k, st) ==
  /\ DOMAIN x.flows = DOMAIN m.flows \cup {k} /\ x.flows[k] = st
  /\ \A j \in DOMAIN m.flows \ {k} : x.flows[j] = m.flows[j]
  /\ x.heldBytes = m.heldBytes - HeldAt(m.flows, k) + HeldSize(st)
  /\ x.reassemblyBytes = m.reassemblyBytes - StoredAt(m.flows, k) + Cardinality(st.buf)
  /\ x.wire = m.wire /\ x.dropped = m.dropped /\ x.next = m.next /\ x.win = m.win

Update(m, tab, hb, rb) ==
  [m EXCEPT !.flows = tab, !.heldBytes = hb, !.reassemblyBytes = rb]

\* tab is the table with st at k, and hb and rb count what it holds.
Replaces(m, k, st, tab, hb, rb) ==
  /\ tab \in [DOMAIN m.flows \cup {k} -> Flow]
  /\ tab[k] = st /\ \A j \in DOMAIN m.flows \ {k} : tab[j] = m.flows[j]
  /\ hb = m.heldBytes - HeldAt(m.flows, k) + HeldSize(st)
  /\ rb = m.reassemblyBytes - StoredAt(m.flows, k) + Cardinality(st.buf)

\* A flow is replaced or added, and the counters follow.
LEMMA UpdateSound ==
  ASSUME NEW m, Sound(m), NEW k \in Keys, NEW st \in Flow, FlowOK(st),
         NEW tab, NEW hb, NEW rb, Replaces(m, k, st, tab, hb, rb),
         NEW x, x = Update(m, tab, NonNegative(hb), NonNegative(rb))
  PROVE  Sound(x) /\ Elsewhere(m, x, k) /\ Updated(m, x, k, st)
<1> USE DEF Replaces
<1>1. /\ m \in Machines /\ TableOK(m.flows)
      /\ m.heldBytes = Cardinality(AllHeld(m.flows))
      /\ m.reassemblyBytes = Cardinality(AllStored(m.flows))
  BY DEF Sound
<1>2. /\ TableOK(tab)
      /\ Cardinality(AllHeld(tab))
           = Cardinality(AllHeld(m.flows)) - HeldAt(m.flows, k) + HeldSize(st)
      /\ Cardinality(AllStored(tab))
           = Cardinality(AllStored(m.flows)) - StoredAt(m.flows, k) + Cardinality(st.buf)
  BY <1>1, PutFlow
<1>3. hb = Cardinality(AllHeld(tab)) /\ rb = Cardinality(AllStored(tab))
  BY <1>1, <1>2
<1>4. hb \in Nat /\ rb \in Nat
  BY <1>2, <1>3, FS_CardinalityType DEF TableOK
<1>5. x = [m EXCEPT !.flows = tab, !.heldBytes = hb, !.reassemblyBytes = rb]
  <2>1. NonNegative(hb) = hb /\ NonNegative(rb) = rb
    BY <1>4 DEF NonNegative
  <2> QED BY <2>1 DEF Update
<1>6. tab \in Tables
  BY <1>2 DEF TableOK
<1>7. /\ x \in Machines /\ x.flows = tab /\ x.heldBytes = hb /\ x.reassemblyBytes = rb
      /\ x.wire = m.wire /\ x.dropped = m.dropped /\ x.next = m.next /\ x.win = m.win
  BY <1>1, <1>4, <1>5, <1>6 DEF Machines
<1>8. Sound(x)
  BY <1>2, <1>3, <1>7 DEF Sound
<1>9. DOMAIN tab = DOMAIN m.flows \cup {k}
  OBVIOUS
<1>10. Elsewhere(m, x, k)
  BY <1>7, <1>9 DEF Elsewhere, Held
<1>11. Updated(m, x, k, st)
  BY <1>7, <1>9 DEF Updated
<1> QED BY <1>8, <1>10, <1>11

\* Weights are natural numbers.
LEMMA SizeType ==
  ASSUME NEW st \in Flow, FlowOK(st)
  PROVE  HeldSize(st) \in Nat /\ Cardinality(st.buf) \in Nat
BY BufFinite, FS_CardinalityType DEF FlowOK, HeldSize

\* The flow of a sound machine.
LEMMA SoundFlow ==
  ASSUME NEW m, Sound(m), NEW k \in DOMAIN m.flows
  PROVE  /\ k \in Keys /\ m.flows[k] \in Flow /\ FlowOK(m.flows[k])
         /\ HeldAt(m.flows, k) = HeldSize(m.flows[k]) /\ HeldSize(m.flows[k]) \in Nat
         /\ StoredAt(m.flows, k) = Cardinality(m.flows[k].buf)
         /\ Cardinality(m.flows[k].buf) \in Nat
<1>1. k \in Keys /\ m.flows[k] \in Flow /\ FlowOK(m.flows[k])
  BY SoundTable DEF TableOK
<1> QED BY <1>1, SizeType DEF HeldAt, StoredAt

\* A replacement that weighs the same leaves the counters alone.
LEMMA TouchSound ==
  ASSUME NEW m, Sound(m), NEW k \in DOMAIN m.flows, NEW st \in Flow, FlowOK(st),
         HeldSize(st) = HeldSize(m.flows[k]), st.buf = m.flows[k].buf,
         NEW x, x = [m EXCEPT !.flows[k] = st]
  PROVE  Sound(x) /\ Elsewhere(m, x, k) /\ Updated(m, x, k, st)
<1> DEFINE tab == [m.flows EXCEPT ![k] = st]
           hb == m.heldBytes - HeldAt(m.flows, k) + HeldSize(st)
           rb == m.reassemblyBytes - StoredAt(m.flows, k) + Cardinality(st.buf)
<1>1. /\ m \in Machines /\ m.flows \in [DOMAIN m.flows -> Flow]
      /\ m.heldBytes \in Nat /\ m.reassemblyBytes \in Nat
  BY SoundTable
<1>2. /\ k \in Keys /\ HeldAt(m.flows, k) = HeldSize(st) /\ HeldSize(st) \in Nat
      /\ StoredAt(m.flows, k) = Cardinality(st.buf) /\ Cardinality(st.buf) \in Nat
  BY SoundFlow
<1>3. hb = m.heldBytes /\ rb = m.reassemblyBytes
  BY <1>1, <1>2
<1>4. NonNegative(hb) = m.heldBytes /\ NonNegative(rb) = m.reassemblyBytes
  BY <1>1, <1>3 DEF NonNegative
<1>5. /\ tab \in [DOMAIN m.flows \cup {k} -> Flow] /\ tab[k] = st
      /\ \A j \in DOMAIN m.flows \ {k} : tab[j] = m.flows[j]
  BY <1>1
<1>6. x = [m EXCEPT !.flows = tab]
  OBVIOUS
<1> DEFINE hn == NonNegative(hb)
           rn == NonNegative(rb)
<1>7. hn = m.heldBytes /\ rn = m.reassemblyBytes
  BY <1>4
<1> HIDE DEF tab, hn, rn
<1>8. x = [m EXCEPT !.flows = tab, !.heldBytes = hn, !.reassemblyBytes = rn]
  BY <1>1, <1>6, <1>7 DEF Machines
<1>9. x = Update(m, tab, NonNegative(hb), NonNegative(rb))
  BY <1>8 DEF hn, rn, Update
<1>10. Replaces(m, k, st, tab, hb, rb)
  BY <1>5 DEF Replaces
<1> HIDE DEF hb, rb
<1> QED BY <1>2, <1>9, <1>10, UpdateSound

\* A packet is held: the state of handlePacket after the append.
LEMMA HoldSound ==
  ASSUME NEW m, Sound(m), NEW k \in DOMAIN m.flows, m.flows[k].state = "collecting",
         NEW pkt \in Packet,
         NEW x, x = [m EXCEPT !.flows[k].held = Append(@, pkt),
                             !.heldBytes = @ + DataLen(pkt)]
  PROVE  /\ Sound(x) /\ Elsewhere(m, x, k)
         /\ Updated(m, x, k, [m.flows[k] EXCEPT !.held = Append(@, pkt)])
         /\ x.heldBytes = m.heldBytes + DataLen(pkt)
         /\ x.reassemblyBytes = m.reassemblyBytes
<1> DEFINE st0 == m.flows[k]
           st == [st0 EXCEPT !.held = Append(@, pkt)]
           tab == [m.flows EXCEPT ![k] = st]
           hb == m.heldBytes - HeldAt(m.flows, k) + HeldSize(st)
           rb == m.reassemblyBytes - StoredAt(m.flows, k) + Cardinality(st.buf)
<1>1. /\ m \in Machines /\ m.flows \in [DOMAIN m.flows -> Flow]
      /\ m.heldBytes \in Nat /\ m.reassemblyBytes \in Nat
  BY SoundTable
<1>2. /\ k \in Keys /\ st0 \in Flow /\ FlowOK(st0)
      /\ HeldAt(m.flows, k) = HeldSize(st0) /\ HeldSize(st0) \in Nat
      /\ StoredAt(m.flows, k) = Cardinality(st0.buf) /\ Cardinality(st0.buf) \in Nat
  BY SoundFlow
<1>3. st \in Flow /\ FlowOK(st) /\ HeldSize(st) = HeldSize(st0) + DataLen(pkt)
  BY <1>2, HoldPacket
<1>4. st.buf = st0.buf
  BY <1>2 DEF Flow
<1>5. DataLen(pkt) \in Nat
  BY WorkerAssumption DEF DataLen, Packet
<1>6. hb = m.heldBytes + DataLen(pkt) /\ rb = m.reassemblyBytes
  BY <1>1, <1>2, <1>3, <1>4, <1>5
<1>7. /\ tab \in [DOMAIN m.flows \cup {k} -> Flow] /\ tab[k] = st
      /\ \A j \in DOMAIN m.flows \ {k} : tab[j] = m.flows[j]
  BY <1>1, <1>3
<1> DEFINE hn == NonNegative(hb)
           rn == NonNegative(rb)
<1>8. hn = m.heldBytes + DataLen(pkt) /\ rn = m.reassemblyBytes
  BY <1>1, <1>5, <1>6 DEF NonNegative
<1>9. x = [[m EXCEPT !.flows = tab] EXCEPT !.heldBytes = m.heldBytes + DataLen(pkt)]
  BY <1>1 DEF Machines
<1> HIDE DEF tab, hn, rn, st
<1>10. x = [m EXCEPT !.flows = tab, !.heldBytes = hn, !.reassemblyBytes = rn]
  BY <1>1, <1>8, <1>9 DEF Machines
<1>11. Sound(x) /\ Elsewhere(m, x, k) /\ Updated(m, x, k, st)
  <2>1. x = Update(m, tab, NonNegative(hb), NonNegative(rb))
    BY <1>10 DEF hn, rn, Update
  <2>2. Replaces(m, k, st, tab, hb, rb)
    BY <1>7 DEF Replaces
  <2>3. k \in Keys /\ st \in Flow /\ FlowOK(st)
    BY <1>2, <1>3
  <2> HIDE DEF hb, rb
  <2> QED BY <2>1, <2>2, <2>3, UpdateSound
<1>12. x.heldBytes = hb /\ x.reassemblyBytes = rb
  BY <1>11 DEF Updated
<1> QED BY <1>6, <1>11, <1>12 DEF st
\* Push leaves a sound flow that holds the same packets.
LEMMA PushFlow ==
  ASSUME NEW st \in Flow, FlowOK(st), st.held # <<>>, NEW pkt \in Packet,
         NEW x, x = push(st, pkt)
  PROVE  /\ x \in Flow /\ FlowOK(x)
         /\ x.held = st.held /\ x.state = st.state
<1> DEFINE off == Offset(st, pkt)
           buf == PushOffsets(st.buf, st.max, off, pkt.len)
           ooo == st.ooo \/ PushOutOfOrder(st.buf, st.max, off, pkt.len)
           ovl == st.ovl \/ PushOverlaps(st.buf, st.max, off, pkt.len)
<1>1. /\ st.buf \in SUBSET Nat /\ st.max \in Nat /\ st.base \in Int
      /\ pkt.len \in Nat /\ pkt.seq \in Int
  BY SeqSpaceAssumption DEF Flow, Packet
<1>2. off \in Nat
  BY <1>1, SeqSpaceAssumption DEF Offset
<1>3. buf \in SUBSET Nat /\ \A o \in buf : o < st.max
  <2>1. CASE PushResult(st.buf, st.max, off, pkt.len) = "stored"
    <3>1. off + pkt.len <= st.max
      BY <1>1, <1>2, <2>1 DEF PushResult
    <3>2. buf = st.buf \cup (off .. off + pkt.len - 1)
      BY <2>1 DEF PushOffsets
    <3> HIDE DEF off, buf
    <3> QED BY <1>1, <1>2, <3>1, <3>2 DEF FlowOK
  <2>2. CASE PushResult(st.buf, st.max, off, pkt.len) # "stored"
    <3>1. buf = st.buf
      BY <2>2 DEF PushOffsets
    <3> QED BY <1>1, <3>1 DEF FlowOK
  <2> QED BY <2>1, <2>2
<1>4. ooo \in BOOLEAN /\ ovl \in BOOLEAN
  OBVIOUS
<1>5. x = [st EXCEPT !.buf = buf, !.ooo = ooo, !.ovl = ovl]
  BY DEF push
<1> HIDE DEF off, buf, ooo, ovl
<1>6. x \in Flow
  BY <1>3, <1>4, <1>5 DEF Flow
<1>7. x.held = st.held /\ x.state = st.state /\ x.max = st.max /\ x.buf = buf
  BY <1>5 DEF Flow
<1>8. HeldData(x) = HeldData(st)
  BY <1>7, SameHeld
<1> QED BY <1>3, <1>6, <1>7, <1>8 DEF FlowOK

\* The worker after a packet was pushed into the buffer of flow k, which is st now.
Pushed(m, k, st) ==
  [m EXCEPT !.flows[k] = st,
            !.reassemblyBytes =
               NonNegative(@ + Cardinality(st.buf) - Cardinality(m.flows[k].buf))]

\* The state of handlePacket after Push.
LEMMA PushSound ==
  ASSUME NEW m, Sound(m), NEW k \in DOMAIN m.flows, m.flows[k].held # <<>>,
         NEW pkt \in Packet, NEW st, st = push(m.flows[k], pkt),
         NEW x, x = Pushed(m, k, st)
  PROVE  /\ Sound(x) /\ Elsewhere(m, x, k) /\ Updated(m, x, k, st)
         /\ st \in Flow /\ FlowOK(st) /\ st.held = m.flows[k].held
         /\ x.heldBytes = m.heldBytes
<1> DEFINE st0 == m.flows[k]
           tab == [m.flows EXCEPT ![k] = st]
           hb == m.heldBytes - HeldAt(m.flows, k) + HeldSize(st)
           rb == m.reassemblyBytes - StoredAt(m.flows, k) + Cardinality(st.buf)
           hn == NonNegative(hb)
           rn == NonNegative(rb)
<1>1. /\ m \in Machines /\ m.flows \in [DOMAIN m.flows -> Flow]
      /\ m.heldBytes \in Nat /\ m.reassemblyBytes \in Nat
  BY SoundTable
<1>2. /\ k \in Keys /\ st0 \in Flow /\ FlowOK(st0)
      /\ HeldAt(m.flows, k) = HeldSize(st0) /\ HeldSize(st0) \in Nat
      /\ StoredAt(m.flows, k) = Cardinality(st0.buf) /\ Cardinality(st0.buf) \in Nat
  BY SoundFlow
<1>3. st \in Flow /\ FlowOK(st) /\ st.held = st0.held
  BY <1>2, PushFlow
<1>4. HeldSize(st) = HeldSize(st0)
  BY <1>3, SameHeld
<1>5. Cardinality(st.buf) \in Nat
  BY <1>3, SizeType
<1>6. hb = m.heldBytes /\ hn = m.heldBytes
  BY <1>1, <1>2, <1>4 DEF NonNegative
<1>7. rb = m.reassemblyBytes + Cardinality(st.buf) - Cardinality(st0.buf)
  BY <1>1, <1>2, <1>5
<1>8. /\ tab \in [DOMAIN m.flows \cup {k} -> Flow] /\ tab[k] = st
      /\ \A j \in DOMAIN m.flows \ {k} : tab[j] = m.flows[j]
  BY <1>1, <1>3
<1>9. x = [[m EXCEPT !.flows = tab] EXCEPT !.reassemblyBytes = rn]
  BY <1>1, <1>7 DEF Machines, Pushed
<1> HIDE DEF tab, hn, rn
<1>10. x = [m EXCEPT !.flows = tab, !.heldBytes = hn, !.reassemblyBytes = rn]
  BY <1>1, <1>6, <1>9 DEF Machines
<1>11. Sound(x) /\ Elsewhere(m, x, k) /\ Updated(m, x, k, st)
  <2>1. x = Update(m, tab, NonNegative(hb), NonNegative(rb))
    BY <1>10 DEF hn, rn, Update
  <2>2. Replaces(m, k, st, tab, hb, rb)
    BY <1>8 DEF Replaces
  <2>3. k \in Keys /\ st \in Flow /\ FlowOK(st)
    BY <1>2, <1>3
  <2> HIDE DEF hb, rb
  <2> QED BY <2>1, <2>2, <2>3, UpdateSound
<1>12. x.heldBytes = m.heldBytes
  BY <1>6, <1>11 DEF Updated
<1> QED BY <1>3, <1>11, <1>12

-----------------------------------------------------------------------------
\* An empty sequence has no indices.
LEMMA NoIndices == DOMAIN <<>> = {}
OBVIOUS

\* All held packets are sent: they follow what was sent before.
LEMMA PlacedOpen ==
  ASSUME NEW w \in Seq(Item), NEW h, NEW d, NEW p \in Nat, Placed(w, h, d, p),
         NEW x \in Seq(Item), DOMAIN x = DOMAIN h, \A i \in DOMAIN h : x[i].id = h[i].id
  PROVE  Placed(w \o x, <<>>, d, p)
<1> DEFINE y == w \o x
           n == Len(w)
<1>1. /\ n \in Nat /\ DOMAIN w = 1 .. n /\ Len(x) \in Nat /\ DOMAIN x = 1 .. Len(x)
      /\ DOMAIN y = 1 .. n + Len(x)
      /\ \A i \in 1 .. n : y[i] = w[i]
      /\ \A i \in DOMAIN x : y[n + i] = x[i]
      /\ \A i \in 1 .. n : w[i].id \in Nat
      /\ \A i \in DOMAIN x : x[i].id \in Nat
  <2>1. /\ \A i \in 1 .. n : w[i] \in Item
        /\ \A i \in DOMAIN x : x[i] \in Item
    OBVIOUS
  <2>2. \A e \in Item : e.id \in Nat
    BY DEF Item
  <2> QED BY <2>1, <2>2
<1>2. \A i \in DOMAIN y : i \in DOMAIN w \/ (i - n \in DOMAIN x /\ i = n + (i - n))
  BY <1>1
<1> HIDE DEF y, n
<1>3. ASSUME NEW i \in DOMAIN y
      PROVE  \/ i \in DOMAIN w /\ y[i] = w[i] /\ i <= n
             \/ i - n \in DOMAIN h /\ y[i].id = h[i - n].id /\ i > n
  <2>1. CASE i \in DOMAIN w
    BY <1>1, <2>1
  <2>2. CASE i - n \in DOMAIN x /\ i = n + (i - n)
    <3>1. y[i] = x[i - n]
      BY <1>1, <2>2
    <3>2. i - n \in 1 .. Len(x)
      BY <1>1, <2>2
    <3>3. i > n
      BY <1>1, <3>2
    <3> QED BY <2>2, <3>1, <3>3
  <2> QED BY <1>2, <2>1, <2>2
<1>4. \A i, j \in DOMAIN y : i < j /\ y[i].id # 0 /\ y[j].id # 0 => y[i].id < y[j].id
  <2> SUFFICES ASSUME NEW i \in DOMAIN y, NEW j \in DOMAIN y, i < j, y[i].id # 0, y[j].id # 0
               PROVE  y[i].id < y[j].id
    OBVIOUS
  <2>0. i \in Int /\ j \in Int
    BY <1>1
  <2>1. CASE j \in DOMAIN w /\ y[j] = w[j] /\ j <= n
    BY <1>1, <1>3, <2>0, <2>1 DEF Placed
  <2>2. CASE j - n \in DOMAIN h /\ y[j].id = h[j - n].id /\ j > n
    <3>1. CASE i \in DOMAIN w /\ y[i] = w[i] /\ i <= n
      BY <2>2, <3>1 DEF Placed
    <3>2. CASE i - n \in DOMAIN h /\ y[i].id = h[i - n].id /\ i > n
      <4>1. i - n < j - n
        BY <1>1, <2>0
      <4> QED BY <2>2, <3>2, <4>1 DEF Placed
    <3> QED BY <1>3, <3>1, <3>2
  <2> QED BY <1>3, <2>1, <2>2
<1>5. \A i \in DOMAIN y : y[i].id <= p /\ y[i].id \notin d
  <2> SUFFICES ASSUME NEW i \in DOMAIN y PROVE y[i].id <= p /\ y[i].id \notin d
    OBVIOUS
  <2>1. CASE i \in DOMAIN w /\ y[i] = w[i]
    BY <2>1 DEF Placed
  <2>2. CASE i - n \in DOMAIN h /\ y[i].id = h[i - n].id
    <3>1. h[i - n].id \in 1 .. p /\ h[i - n].id \notin d
      BY <2>2 DEF Placed
    <3> QED BY <2>2, <3>1
  <2> QED BY <1>3, <2>1, <2>2
<1>6. \A e \in 1 .. p : e \in d \/ \E i \in DOMAIN y : y[i].id = e
  <2> SUFFICES ASSUME NEW e \in 1 .. p, e \notin d PROVE \E i \in DOMAIN y : y[i].id = e
    OBVIOUS
  <2>1. CASE \E i \in DOMAIN w : w[i].id = e
    <3>1. PICK i \in DOMAIN w : w[i].id = e
      BY <2>1
    <3>2. i \in DOMAIN y /\ y[i].id = e
      BY <1>1, <3>1
    <3> QED BY <3>2
  <2>2. CASE \E j \in DOMAIN h : h[j].id = e
    <3>1. PICK j \in DOMAIN h : h[j].id = e
      BY <2>2
    <3>2. n + j \in DOMAIN y /\ y[n + j] = x[j]
      BY <1>1, <3>1
    <3> QED BY <3>1, <3>2
  <2> QED BY <2>1, <2>2 DEF Placed
<1>7. d \subseteq 1 .. p
  BY DEF Placed
<1> QED BY <1>4, <1>5, <1>6, <1>7, NoIndices DEF Placed, y
\* The next packet is held.
LEMMA PlacedHold ==
  ASSUME NEW w, NEW h \in Seq(Packet), NEW d, NEW p \in Nat, Placed(w, h, d, p),
         \A i \in DOMAIN w : w[i].id \in Nat,
         NEW pkt \in Packet, pkt.id = p + 1
  PROVE  Placed(w, Append(h, pkt), d, p + 1)
<1> DEFINE g == Append(h, pkt)
           n == Len(h)
<1>1. /\ n \in Nat /\ DOMAIN h = 1 .. n /\ DOMAIN g = 1 .. n + 1
      /\ \A i \in 1 .. n : g[i] = h[i]
      /\ g[n + 1] = pkt
  OBVIOUS
<1> HIDE DEF g, n
<1>2. \A j \in DOMAIN g : \/ j \in DOMAIN h /\ g[j] = h[j]
                          \/ j = n + 1 /\ g[j].id = p + 1
  <2> SUFFICES ASSUME NEW j \in DOMAIN g, j \notin DOMAIN h
               PROVE  j = n + 1 /\ g[j].id = p + 1
    BY <1>1
  <2>1. j = n + 1
    BY <1>1
  <2> QED BY <1>1, <2>1
<1>3. \A i \in DOMAIN w : w[i].id < p + 1
  BY DEF Placed
<1>4. \A j \in DOMAIN h : h[j].id \in 1 .. p
  BY DEF Placed
<1>5. \A i, j \in DOMAIN g : i < j => g[i].id < g[j].id
  <2> SUFFICES ASSUME NEW i \in DOMAIN g, NEW j \in DOMAIN g, i < j
               PROVE  g[i].id < g[j].id
    OBVIOUS
  <2>1. i \in DOMAIN h /\ g[i] = h[i]
    BY <1>1
  <2>2. CASE j \in DOMAIN h /\ g[j] = h[j]
    BY <2>1, <2>2 DEF Placed
  <2>3. CASE g[j].id = p + 1
    BY <1>4, <2>1, <2>3
  <2> QED BY <1>2, <2>2, <2>3
<1>6. \A i \in DOMAIN w, j \in DOMAIN g : w[i].id < g[j].id
  BY <1>2, <1>3 DEF Placed
<1>7. \A j \in DOMAIN g : g[j].id \in 1 .. p + 1 /\ g[j].id \notin d
  <2> SUFFICES ASSUME NEW j \in DOMAIN g PROVE g[j].id \in 1 .. p + 1 /\ g[j].id \notin d
    OBVIOUS
  <2>1. CASE j \in DOMAIN h /\ g[j] = h[j]
    BY <2>1 DEF Placed
  <2>2. CASE g[j].id = p + 1
    BY <2>2 DEF Placed
  <2> QED BY <1>2, <2>1, <2>2
<1>8. \A e \in 1 .. p + 1 : \/ e \in d
                            \/ \E i \in DOMAIN w : w[i].id = e
                            \/ \E j \in DOMAIN g : g[j].id = e
  <2> SUFFICES ASSUME NEW e \in 1 .. p + 1, e \notin d, ~ \E i \in DOMAIN w : w[i].id = e
               PROVE  \E j \in DOMAIN g : g[j].id = e
    OBVIOUS
  <2>1. CASE e = p + 1
    BY <1>1, <2>1
  <2>2. CASE e # p + 1
    <3>1. e \in 1 .. p
      BY <2>2
    <3>2. PICK j \in DOMAIN h : h[j].id = e
      BY <3>1 DEF Placed
    <3>3. j \in DOMAIN g /\ g[j] = h[j]
      BY <1>1, <3>2
    <3> QED BY <3>2, <3>3
  <2> QED BY <2>1, <2>2
<1>9. \A i \in DOMAIN w : w[i].id <= p + 1 /\ w[i].id \notin d
  BY DEF Placed
<1>10. d \subseteq 1 .. p + 1
  BY DEF Placed
<1>11. \A i, j \in DOMAIN w : i < j /\ w[i].id # 0 /\ w[j].id # 0 => w[i].id < w[j].id
  BY DEF Placed
<1> QED BY <1>5, <1>6, <1>7, <1>8, <1>9, <1>10, <1>11 DEF Placed, g

\* The ids of what was sent are numbers.
LEMMA WireIds ==
  ASSUME NEW w \in Seq(Item)
  PROVE  \A i \in DOMAIN w : w[i].id \in Nat
<1>1. \A i \in DOMAIN w : w[i] \in Item
  OBVIOUS
<1> QED BY <1>1 DEF Item

\* The next packet is sent at once, when no other is held.
LEMMA PlacedPass ==
  ASSUME NEW w \in Seq(Item), NEW d, NEW p \in Nat, Placed(w, <<>>, d, p),
         NEW pkt \in Packet, pkt.id = p + 1
  PROVE  Placed(w \o <<Wire(pkt)>>, <<>>, d, p + 1)
<1> DEFINE h == Append(<<>>, pkt)
           x == <<Wire(pkt)>>
<1>1. <<>> \in Seq(Packet)
  BY EmptySeq
<1>2. Placed(w, h, d, p + 1)
  BY <1>1, WireIds, PlacedHold
<1>3. Wire(pkt) \in Item /\ Wire(pkt).id = pkt.id
  BY SeqSpaceAssumption DEF Wire, Item, Packet
<1>4. DOMAIN h = {1} /\ h[1] = pkt
  OBVIOUS
<1>5. x \in Seq(Item) /\ DOMAIN x = {1} /\ x[1] = Wire(pkt)
  BY <1>3
<1>6. DOMAIN x = DOMAIN h /\ \A i \in DOMAIN h : x[i].id = h[i].id
  BY <1>3, <1>4, <1>5
<1> HIDE DEF h, x
<1>7. Placed(w \o x, <<>>, d, p + 1)
  BY <1>2, <1>5, <1>6, PlacedOpen
<1> QED BY <1>7 DEF x

\* Injected segments disturb no order.
LEMMA PlacedInject ==
  ASSUME NEW w \in Seq(Item), NEW h, NEW d, NEW p \in Nat, Placed(w, h, d, p),
         NEW x \in Seq(Item), \A i \in DOMAIN x : x[i].id = 0
  PROVE  Placed(w \o x, h, d, p)
<1> DEFINE y == w \o x
           n == Len(w)
<1>1. /\ n \in Nat /\ DOMAIN w = 1 .. n /\ DOMAIN y = 1 .. n + Len(x)
      /\ \A i \in 1 .. n : y[i] = w[i]
      /\ Len(x) \in Nat /\ DOMAIN x = 1 .. Len(x)
      /\ \A i \in DOMAIN x : y[n + i] = x[i]
  OBVIOUS
<1> HIDE DEF y, n
<1>2. \A i \in DOMAIN y : (i \in DOMAIN w /\ y[i] = w[i]) \/ y[i].id = 0
  <2> SUFFICES ASSUME NEW i \in DOMAIN y, i \notin DOMAIN w PROVE y[i].id = 0
    BY <1>1
  <2>1. i - n \in DOMAIN x /\ i = n + (i - n)
    BY <1>1
  <2> QED BY <1>1, <2>1
<1>3. 0 \notin d
  BY DEF Placed
<1>4. \A j \in DOMAIN h : 0 < h[j].id
  BY DEF Placed
<1>5. \A i, j \in DOMAIN y : i < j /\ y[i].id # 0 /\ y[j].id # 0 => y[i].id < y[j].id
  BY <1>2 DEF Placed
<1>6. \A i \in DOMAIN y, j \in DOMAIN h : y[i].id < h[j].id
  BY <1>2, <1>4 DEF Placed
<1>7. \A i \in DOMAIN y : y[i].id <= p /\ y[i].id \notin d
  BY <1>2, <1>3 DEF Placed
<1>8. \A e \in 1 .. p : \/ e \in d
                        \/ \E i \in DOMAIN y : y[i].id = e
                        \/ \E j \in DOMAIN h : h[j].id = e
  <2> SUFFICES ASSUME NEW e \in 1 .. p, e \notin d, ~ \E j \in DOMAIN h : h[j].id = e
               PROVE  \E i \in DOMAIN y : y[i].id = e
    OBVIOUS
  <2>1. PICK i \in DOMAIN w : w[i].id = e
    BY DEF Placed
  <2>2. i \in DOMAIN y /\ y[i] = w[i]
    BY <1>1, <2>1
  <2> QED BY <2>1, <2>2
<1>9. /\ \A i, j \in DOMAIN h : i < j => h[i].id < h[j].id
      /\ \A j \in DOMAIN h : h[j].id \in 1 .. p /\ h[j].id \notin d
      /\ d \subseteq 1 .. p
  BY DEF Placed
<1> QED BY <1>5, <1>6, <1>7, <1>8, <1>9 DEF Placed, y

\* All held packets are dropped.
LEMMA PlacedDrop ==
  ASSUME NEW w, NEW h, NEW d, NEW p \in Nat, Placed(w, h, d, p),
         \A i \in DOMAIN w : w[i].id \in Nat,
         NEW new, new = d \cup {h[i].id : i \in DOMAIN h}
  PROVE  Placed(w, <<>>, new, p)
<1>1. \A i \in DOMAIN w : w[i].id <= p /\ w[i].id \notin new
  <2> SUFFICES ASSUME NEW i \in DOMAIN w PROVE w[i].id <= p /\ w[i].id \notin new
    OBVIOUS
  <2>1. w[i].id <= p /\ w[i].id \notin d
    BY DEF Placed
  <2>2. ASSUME NEW j \in DOMAIN h PROVE w[i].id # h[j].id
    <3>1. w[i].id < h[j].id /\ w[i].id \in Nat /\ h[j].id \in 1 .. p
      BY DEF Placed
    <3> QED BY <3>1
  <2> QED BY <2>1, <2>2
<1>2. new \subseteq 1 .. p
  BY DEF Placed
<1>3. \A e \in 1 .. p : e \in new \/ \E i \in DOMAIN w : w[i].id = e
  <2> SUFFICES ASSUME NEW e \in 1 .. p PROVE e \in new \/ \E i \in DOMAIN w : w[i].id = e
    OBVIOUS
  <2>1. e \in d \/ (\E i \in DOMAIN w : w[i].id = e) \/ \E j \in DOMAIN h : h[j].id = e
    BY DEF Placed
  <2> QED BY <2>1
<1>4. \A i, j \in DOMAIN w : i < j /\ w[i].id # 0 /\ w[j].id # 0 => w[i].id < w[j].id
  BY DEF Placed
<1> QED BY <1>1, <1>2, <1>3, <1>4, NoIndices DEF Placed

-----------------------------------------------------------------------------
\* Without flow k the worker is within its limits.
WithinBut(m, c, k) ==
  /\ ~Exceeds(Cardinality(DOMAIN m.flows), c.maxFlows)
  /\ ~Exceeds(m.heldBytes - HeldAt(m.flows, k), c.maxHeldBytes)
  /\ ~Exceeds(m.reassemblyBytes - StoredAt(m.flows, k), c.maxReassembly)
  /\ \A j \in DOMAIN m.flows \ {k} : Len(Held(m, j)) < c.maxHeldPackets

\* The limits of a configuration are natural numbers.
LEMMA ConfigType ==
  ASSUME NEW c \in Config
  PROVE  /\ c.maxFlows \in Nat /\ c.maxHeldBytes \in Nat /\ c.maxReassembly \in Nat
         /\ c.maxHeldPackets \in Nat \ {0}
BY DEF Config

\* A smaller number exceeds no limit that a larger one does not.
LEMMA ExceedsLess ==
  ASSUME NEW n \in Int, NEW l \in Int, l <= n, NEW limit \in Nat, ~Exceeds(n, limit)
  PROVE  ~Exceeds(l, limit)
BY DEF Exceeds

\* With less, the limits are kept.
LEMMA WithinWithout ==
  ASSUME NEW m, Sound(m), NEW c \in Config, NEW k \in DOMAIN m.flows, Within(m, c)
  PROVE  WithinBut(m, c, k)
<1>1. /\ m.heldBytes \in Nat /\ m.reassemblyBytes \in Nat
      /\ HeldAt(m.flows, k) \in Nat /\ StoredAt(m.flows, k) \in Nat
  BY SoundTable, SoundFlow
<1>2. ~Exceeds(m.heldBytes - HeldAt(m.flows, k), c.maxHeldBytes)
  BY <1>1, ConfigType, ExceedsLess DEF Within
<1>3. ~Exceeds(m.reassemblyBytes - StoredAt(m.flows, k), c.maxReassembly)
  BY <1>1, ConfigType, ExceedsLess DEF Within
<1> QED BY <1>2, <1>3 DEF Within, WithinBut

\* What flow k holds does not count.
LEMMA UpdatedWithout ==
  ASSUME NEW m, Sound(m), NEW x, Sound(x), NEW c, NEW k \in DOMAIN m.flows, NEW st,
         Updated(m, x, k, st), Elsewhere(m, x, k), WithinBut(m, c, k)
  PROVE  WithinBut(x, c, k)
<1>1. DOMAIN x.flows = DOMAIN m.flows /\ k \in DOMAIN x.flows /\ x.flows[k] = st
  BY DEF Updated
<1>2. /\ m.heldBytes \in Nat /\ m.reassemblyBytes \in Nat
      /\ HeldAt(m.flows, k) \in Nat /\ StoredAt(m.flows, k) \in Nat
  BY SoundTable, SoundFlow
<1>3. /\ HeldAt(x.flows, k) = HeldSize(st) /\ HeldSize(st) \in Nat
      /\ StoredAt(x.flows, k) = Cardinality(st.buf) /\ Cardinality(st.buf) \in Nat
  BY <1>1, SoundFlow
<1>4. /\ x.heldBytes = m.heldBytes - HeldAt(m.flows, k) + HeldSize(st)
      /\ x.reassemblyBytes = m.reassemblyBytes - StoredAt(m.flows, k) + Cardinality(st.buf)
  BY DEF Updated
<1>5. /\ x.heldBytes - HeldAt(x.flows, k) = m.heldBytes - HeldAt(m.flows, k)
      /\ x.reassemblyBytes - StoredAt(x.flows, k) = m.reassemblyBytes - StoredAt(m.flows, k)
  BY <1>2, <1>3, <1>4
<1>6. \A j \in DOMAIN x.flows \ {k} : Held(x, j) = Held(m, j)
  BY <1>1, SoundTable DEF Elsewhere
<1> QED BY <1>1, <1>5, <1>6 DEF WithinBut

\* After failOpen the limits are kept, with whatever the flow held before.
LEMMA OpenedWithin ==
  ASSUME NEW m, Sound(m), NEW x, Sound(x), NEW c \in Config, NEW k \in DOMAIN m.flows,
         Opened(m, x, k), Elsewhere(m, x, k), x.next # "failed", WithinBut(m, c, k)
  PROVE  Within(x, c)
<1>1. /\ DOMAIN x.flows = DOMAIN m.flows /\ Held(x, k) = <<>>
      /\ x.heldBytes = m.heldBytes - HeldAt(m.flows, k)
      /\ x.reassemblyBytes = m.reassemblyBytes - StoredAt(m.flows, k)
  BY SoundFlow DEF Opened
<1>2. \A j \in DOMAIN x.flows : Len(Held(x, j)) < c.maxHeldPackets
  <2>1. Len(Held(x, k)) < c.maxHeldPackets
    BY <1>1, EmptySeq, ConfigType
  <2>2. \A j \in DOMAIN x.flows \ {k} : Held(x, j) = Held(m, j)
    BY <1>1, SoundTable DEF Elsewhere
  <2> QED BY <1>1, <2>1, <2>2 DEF WithinBut
<1> QED BY <1>1, <1>2 DEF WithinBut, Within

\* A flow that is deleted does not count any more.
LEMMA DeletedWithin ==
  ASSUME NEW m, Sound(m), NEW x, Sound(x), NEW c \in Config, NEW k \in DOMAIN m.flows,
         Deleted(m, x, k), Elsewhere(m, x, k), Within(m, c)
  PROVE  Within(x, c)
<1>1. IsFiniteSet(DOMAIN m.flows) /\ DOMAIN x.flows \subseteq DOMAIN m.flows
  BY DEF Sound, TableOK, Deleted
<1>2. /\ Cardinality(DOMAIN x.flows) <= Cardinality(DOMAIN m.flows)
      /\ Cardinality(DOMAIN x.flows) \in Nat /\ Cardinality(DOMAIN m.flows) \in Nat
  BY <1>1, FS_Subset, FS_CardinalityType
<1>3. ~Exceeds(Cardinality(DOMAIN x.flows), c.maxFlows)
  BY <1>2, ConfigType, ExceedsLess DEF Within
<1>4. \A j \in DOMAIN x.flows : j # k /\ Held(x, j) = Held(m, j)
  BY SoundTable DEF Deleted, Elsewhere
<1> QED BY <1>1, <1>3, <1>4 DEF Within, Deleted

-----------------------------------------------------------------------------
\* Packets of flow k, p of them, are each in one place.
PlacedIn(m, k, p) == Placed(m.wire[k], Held(m, k), m.dropped[k], p)

\* x is what a handler of flow k makes of m: it is sound, concerns no other flow,
\* and without an error the first p packets are in place and the limits are kept.
Outcome(m, x, c, k, p) ==
  /\ Sound(x) /\ Elsewhere(m, x, k)
  /\ DOMAIN m.flows \ {k} \subseteq DOMAIN x.flows
  /\ x.next \in {"split", "inject"} => k \in DOMAIN x.flows
  /\ x.next # "failed" => PlacedIn(x, k, p) /\ (Within(m, c) => Within(x, c))

\* What concerns only flow k twice.
LEMMA ElsewhereTwice ==
  ASSUME NEW m, NEW y, NEW x, NEW k, Elsewhere(m, y, k), Elsewhere(y, x, k)
  PROVE  Elsewhere(m, x, k)
BY DEF Elsewhere

\* failOpen keeps every packet in its place.
LEMMA OpenedPlaced ==
  ASSUME NEW m, Sound(m), NEW x, NEW k \in DOMAIN m.flows, NEW p \in Nat,
         Opened(m, x, k), x.next # "failed", PlacedIn(m, k, p)
  PROVE  PlacedIn(x, k, p)
<1> DEFINE st == m.flows[k]
<1>1. k \in Keys /\ st \in Flow /\ m.wire[k] \in Seq(Item)
  BY SoundTable
<1>2. /\ HeldOut(st) \in Seq(Item) /\ DOMAIN HeldOut(st) = DOMAIN st.held
      /\ \A i \in DOMAIN st.held : HeldOut(st)[i].id = st.held[i].id
  BY <1>1, HeldOutType
<1>3. Placed(m.wire[k], st.held, m.dropped[k], p)
  BY DEF PlacedIn, Held
<1> HIDE DEF st
<1>4. Placed(m.wire[k] \o HeldOut(st), <<>>, m.dropped[k], p)
  BY <1>1, <1>2, <1>3, PlacedOpen
<1> QED BY <1>4 DEF PlacedIn, Opened, st

\* A handler that ends, with or without an error, and counts the flow k out.
Ended(m, x, c, k, p) ==
  /\ Sound(x) /\ Elsewhere(m, x, k)
  /\ DOMAIN m.flows \ {k} \subseteq DOMAIN x.flows /\ x.next \in {"idle", "failed"}
  /\ x.next # "failed" => PlacedIn(x, k, p) /\ (WithinBut(m, c, k) => Within(x, c))

\* A flow fails open, and nothing else happens.
LEMMA FailOpenEnds ==
  ASSUME NEW m, Sound(m), NEW c \in Config, NEW k \in DOMAIN m.flows, m.next = "idle",
         NEW p \in Nat, PlacedIn(m, k, p), NEW x, x = failOpen(m, k)
  PROVE  Ended(m, x, c, k, p)
<1>1. Sound(x) /\ Elsewhere(m, x, k) /\ Opened(m, x, k)
  BY FailOpenSound
<1>2. ASSUME x.next # "failed"
      PROVE  PlacedIn(x, k, p) /\ (WithinBut(m, c, k) => Within(x, c))
  BY <1>1, <1>2, OpenedPlaced, OpenedWithin
<1>3. DOMAIN x.flows = DOMAIN m.flows /\ x.next \in {"idle", "failed"}
  BY <1>1 DEF Opened
<1> QED BY <1>1, <1>2, <1>3 DEF Ended

\* A flow fails open and is deleted.
LEMMA FailOpenDeleteEnds ==
  ASSUME NEW m, Sound(m), NEW c \in Config, NEW k \in DOMAIN m.flows, m.next = "idle",
         NEW p \in Nat, PlacedIn(m, k, p), NEW x, x = Delete(failOpen(m, k), k)
  PROVE  Ended(m, x, c, k, p)
<1> DEFINE y == failOpen(m, k)
<1>1. Sound(y) /\ Elsewhere(m, y, k) /\ Opened(m, y, k)
  BY FailOpenSound
<1>2. DOMAIN y.flows = DOMAIN m.flows /\ y.next \in {"idle", "failed"}
  BY <1>1 DEF Opened
<1>3. CASE y.next = "failed"
  <2>1. x = y
    BY <1>3 DEF Delete
  <2> QED BY <1>1, <1>2, <1>3, <2>1 DEF Ended
<1>4. CASE y.next # "failed"
  <2> HIDE DEF y
  <2>1. k \in DOMAIN y.flows /\ Held(y, k) = <<>>
    BY <1>1, <1>2, <1>4 DEF Opened
  <2>2. Sound(x) /\ Elsewhere(y, x, k) /\ Deleted(y, x, k)
    BY <1>1, <1>4, <2>1, DeleteSound DEF y
  <2>3. PlacedIn(y, k, p)
    BY <1>1, <1>4, OpenedPlaced
  <2>4. PlacedIn(x, k, p)
    BY <2>1, <2>2, <2>3 DEF PlacedIn, Deleted
  <2>5. ASSUME WithinBut(m, c, k) PROVE Within(x, c)
    <3>1. Within(y, c)
      BY <1>1, <1>4, <2>5, OpenedWithin
    <3> QED BY <1>1, <2>1, <2>2, <3>1, DeletedWithin
  <2>6. DOMAIN m.flows \ {k} \subseteq DOMAIN x.flows /\ x.next = "idle"
    BY <1>2, <1>4, <2>2 DEF Deleted
  <2>7. Elsewhere(m, x, k)
    BY <1>1, <2>2, ElsewhereTwice
  <2> QED BY <2>2, <2>4, <2>5, <2>6, <2>7 DEF Ended
<1> QED BY <1>3, <1>4
\* The next function and its window are set.
Goto(m, n, w) == [m EXCEPT !.next = n, !.win = w]

\* A machine with the same data.
SameData(m, x) ==
  /\ x.flows = m.flows /\ x.heldBytes = m.heldBytes
  /\ x.reassemblyBytes = m.reassemblyBytes /\ x.wire = m.wire /\ x.dropped = m.dropped

\* That changes nothing else.
LEMMA NextSound ==
  ASSUME NEW m, Sound(m), NEW n \in {"idle", "split", "inject", "failed"}, NEW w \in Int,
         NEW x, x = Goto(m, n, w)
  PROVE  Sound(x) /\ SameData(m, x) /\ x.next = n
<1>1. m \in Machines
  BY DEF Sound
<1>2. /\ x \in Machines /\ x.flows = m.flows /\ x.heldBytes = m.heldBytes
      /\ x.reassemblyBytes = m.reassemblyBytes /\ x.wire = m.wire
      /\ x.dropped = m.dropped /\ x.next = n
  BY <1>1 DEF Machines, Goto
<1> QED BY <1>2 DEF Sound, SameData

\* handlePacket for a flow that is collecting, from the append on.
LEMMA CollectOutcome ==
  ASSUME NEW m, Sound(m), NEW c \in Config, NEW k \in DOMAIN m.flows,
         m.flows[k].state = "collecting", m.next = "idle",
         NEW pkt \in Packet, NEW p \in Nat, PlacedIn(m, k, p), pkt.id = p + 1,
         ~Exceeds(m.heldBytes + DataLen(pkt), c.maxHeldBytes),
         NEW x, x = collect(m, c, k, pkt)
  PROVE  Outcome(m, x, c, k, p + 1)
<1> DEFINE y == [m EXCEPT !.flows[k].held = Append(@, pkt), !.heldBytes = @ + DataLen(pkt)]
           st == y.flows[k]
           new == push(st, pkt)
           z == Pushed(y, k, new)
<1>1. k \in Keys /\ m.flows[k] \in Flow /\ m.flows[k].held \in Seq(Packet)
  BY SoundFlow DEF Flow
<1>2. /\ Sound(y) /\ Elsewhere(m, y, k)
      /\ Updated(m, y, k, [m.flows[k] EXCEPT !.held = Append(@, pkt)])
      /\ y.heldBytes = m.heldBytes + DataLen(pkt)
      /\ y.reassemblyBytes = m.reassemblyBytes
  BY HoldSound
<1>3. /\ k \in DOMAIN y.flows /\ DOMAIN y.flows = DOMAIN m.flows /\ y.next = "idle"
      /\ st = [m.flows[k] EXCEPT !.held = Append(@, pkt)]
      /\ y.wire = m.wire /\ y.dropped = m.dropped
  BY <1>2 DEF Updated
<1>4. st.held = Append(m.flows[k].held, pkt) /\ st.first \in Nat
  BY <1>1, <1>3 DEF Flow
<1>5. st.held # <<>>
  <2>1. Len(st.held) = Len(m.flows[k].held) + 1 /\ Len(m.flows[k].held) \in Nat
    BY <1>1, <1>4
  <2>2. Len(<<>>) = 0
    BY EmptySeq
  <2> HIDE DEF y, st
  <2> QED BY <2>1, <2>2
<1>6. PlacedIn(y, k, p + 1)
  <2>1. Placed(m.wire[k], m.flows[k].held, m.dropped[k], p)
    BY DEF PlacedIn, Held
  <2>2. \A i \in DOMAIN m.wire[k] : m.wire[k][i].id \in Nat
    BY <1>1, SoundTable, WireIds
  <2>3. Placed(m.wire[k], Append(m.flows[k].held, pkt), m.dropped[k], p + 1)
    BY <1>1, <2>1, <2>2, PlacedHold
  <2> QED BY <1>3, <1>4, <2>3 DEF PlacedIn, Held
<1>7. WithinBut(m, c, k) => WithinBut(y, c, k)
  BY <1>2, UpdatedWithout
<1> HIDE DEF y
<1>8. /\ Sound(z) /\ Elsewhere(y, z, k) /\ Updated(y, z, k, new)
      /\ new \in Flow /\ new.held = st.held
      /\ z.heldBytes = y.heldBytes
  <2>1. y.flows[k].held # <<>> /\ new = push(y.flows[k], pkt) /\ z = Pushed(y, k, new)
    BY <1>5
  <2> HIDE DEF st, new, z
  <2>2. /\ Sound(z) /\ Elsewhere(y, z, k) /\ Updated(y, z, k, new)
        /\ new \in Flow /\ new.held = y.flows[k].held /\ z.heldBytes = y.heldBytes
    BY <1>2, <1>3, <2>1, PushSound
  <2> QED BY <2>2 DEF st
<1>9. /\ DOMAIN z.flows = DOMAIN m.flows /\ z.next = "idle" /\ z.flows[k] = new
      /\ z.wire = y.wire /\ z.dropped = y.dropped /\ z.win \in Int
  BY <1>3, <1>8, SoundTable DEF Updated
<1>10. PlacedIn(z, k, p + 1)
  BY <1>3, <1>6, <1>8, <1>9 DEF PlacedIn, Held
<1>11. WithinBut(m, c, k) => WithinBut(z, c, k)
  BY <1>2, <1>3, <1>7, <1>8, UpdatedWithout
<1>12. Elsewhere(m, z, k)
  BY <1>2, <1>8, ElsewhereTwice
<1>13. Within(m, c) => WithinBut(m, c, k)
  BY WithinWithout
<1>14. ASSUME NEW v, \/ Ended(y, v, c, k, p + 1)
                     \/ Ended(z, v, c, k, p + 1)
       PROVE  Outcome(m, v, c, k, p + 1)
  <2>1. Elsewhere(m, v, k)
    BY <1>2, <1>12, <1>14, ElsewhereTwice DEF Ended
  <2>2. v.next # "failed" => PlacedIn(v, k, p + 1) /\ (Within(m, c) => Within(v, c))
    BY <1>7, <1>11, <1>13, <1>14 DEF Ended
  <2>3. /\ Sound(v) /\ DOMAIN m.flows \ {k} \subseteq DOMAIN v.flows
        /\ v.next \in {"idle", "failed"}
    BY <1>3, <1>9, <1>14 DEF Ended
  <2> QED BY <2>1, <2>2, <2>3 DEF Outcome
<1> HIDE DEF z
<1>15. CASE Len(st.held) >= c.maxHeldPackets \/ st.expired
  <2>1. x = failOpen(y, k)
    BY <1>15 DEF collect, y
  <2>2. Ended(y, x, c, k, p + 1)
    BY <1>2, <1>3, <1>6, <2>1, FailOpenEnds
  <2> QED BY <1>14, <2>2
<1>16. CASE ~(Len(st.held) >= c.maxHeldPackets \/ st.expired)
  <2>1. CASE x = failOpen(z, k)
    <3>1. Ended(z, x, c, k, p + 1)
      BY <1>8, <1>9, <1>10, <2>1, FailOpenEnds
    <3> QED BY <1>14, <3>1
  <2>2. CASE x = Delete(failOpen(z, k), k)
    <3>1. Ended(z, x, c, k, p + 1)
      BY <1>8, <1>9, <1>10, <2>2, FailOpenDeleteEnds
    <3> QED BY <1>14, <3>1
  <2>3. CASE /\ ~Exceeds(z.reassemblyBytes, c.maxReassembly)
             /\ \/ x = z
                \/ x = [z EXCEPT !.next = "split"]
                \/ x = [z EXCEPT !.next = "inject", !.win = new.first]
    <3>1. Sound(x) /\ SameData(z, x) /\ x.next \in {"idle", "split", "inject"}
      <4>1. CASE x = z
        BY <1>8, <1>9, <4>1 DEF SameData
      <4>2. CASE x = [z EXCEPT !.next = "split"]
        <5> DEFINE w == z.win
        <5>1. x = Goto(z, "split", w)
          BY <1>8, <4>2 DEF Sound, Machines, Goto
        <5>2. Sound(z) /\ w \in Int
          BY <1>8, <1>9
        <5> HIDE DEF new, st, w
        <5>3. Sound(x) /\ SameData(z, x) /\ x.next = "split"
          BY <5>1, <5>2, NextSound
        <5> QED BY <5>3
      <4>3. CASE x = [z EXCEPT !.next = "inject", !.win = new.first]
        <5>1. new.first \in Int
          BY <1>8 DEF Flow
        <5>2. x = Goto(z, "inject", new.first)
          BY <4>3 DEF Goto
        <5>3. Sound(z)
          BY <1>8
        <5> HIDE DEF new, st
        <5>4. Sound(x) /\ SameData(z, x) /\ x.next = "inject"
          BY ZenonT(40), <5>1, <5>2, <5>3, NextSound
        <5> QED BY <5>4
      <4> QED BY <2>3, <4>1, <4>2, <4>3
    <3>2. Elsewhere(m, x, k) /\ PlacedIn(x, k, p + 1)
      BY <1>10, <1>12, <3>1 DEF Elsewhere, PlacedIn, Held, SameData
    <3>3. ASSUME Within(m, c) PROVE Within(x, c)
      <4>1. WithinBut(z, c, k)
        BY <1>11, <1>13, <3>3
      <4>2. Len(Held(z, k)) < c.maxHeldPackets
        <5>1. Held(z, k) = st.held /\ st.held \in Seq(Packet)
          BY <1>1, <1>4, <1>8, <1>9 DEF Held
        <5> QED BY <1>16, <5>1, ConfigType
      <4>3. \A j \in DOMAIN z.flows : Len(Held(z, j)) < c.maxHeldPackets
        BY <4>1, <4>2 DEF WithinBut
      <4>4. ~Exceeds(z.heldBytes, c.maxHeldBytes)
        BY <1>2, <1>8
      <4>5. Within(z, c)
        BY <2>3, <4>1, <4>3, <4>4 DEF Within, WithinBut
      <4> QED BY <3>1, <4>5 DEF Within, SameData, Held
    <3> QED BY <1>9, <3>1, <3>2, <3>3 DEF Outcome, SameData
  <2>4. \/ x = failOpen(z, k) \/ x = Delete(failOpen(z, k), k)
        \/ /\ ~Exceeds(z.reassemblyBytes, c.maxReassembly)
           /\ \/ x = z
              \/ x = [z EXCEPT !.next = "split"]
              \/ x = [z EXCEPT !.next = "inject", !.win = new.first]
    BY <1>16 DEF collect, y, z, Pushed
  <2> QED BY <2>1, <2>2, <2>3, <2>4
<1> QED BY <1>15, <1>16

-----------------------------------------------------------------------------
\* x is m but for the flags and the template of its flows.
Alike(m, x) ==
  /\ DOMAIN x.flows = DOMAIN m.flows
  /\ \A j \in DOMAIN m.flows : /\ x.flows[j].held = m.flows[j].held
                               /\ x.flows[j].state = m.flows[j].state
  /\ x.heldBytes = m.heldBytes /\ x.reassemblyBytes = m.reassemblyBytes
  /\ x.wire = m.wire /\ x.dropped = m.dropped /\ x.next = m.next

PutAt(m, k, st) == [m EXCEPT !.flows[k] = st]

\* st holds the same as the sound flow st0.
Same(st0, st) ==
  /\ st \in Flow
  /\ st.held = st0.held /\ st.state = st0.state /\ st.buf = st0.buf /\ st.max = st0.max

\* The flags and the template of a flow are nothing that is counted.
LEMMA AlikeSound ==
  ASSUME NEW m, Sound(m), NEW k \in DOMAIN m.flows, NEW st, Same(m.flows[k], st),
         NEW x, x = PutAt(m, k, st)
  PROVE  Sound(x) /\ Alike(m, x) /\ x.flows[k] = st
<1>1. m.flows[k] \in Flow /\ FlowOK(m.flows[k])
  BY SoundFlow
<1>2. HeldData(st) = HeldData(m.flows[k]) /\ HeldSize(st) = HeldSize(m.flows[k])
  BY SameHeld DEF Same
<1>3. st \in Flow /\ FlowOK(st) /\ st.buf = m.flows[k].buf
  BY <1>1, <1>2 DEF FlowOK, Same
<1>4. x = [m EXCEPT !.flows[k] = st]
  BY DEF PutAt
<1>5. Sound(x) /\ Elsewhere(m, x, k) /\ Updated(m, x, k, st)
  BY <1>2, <1>3, <1>4, TouchSound
<1>6. /\ m.heldBytes \in Nat /\ m.reassemblyBytes \in Nat
      /\ HeldAt(m.flows, k) = HeldSize(st) /\ HeldSize(st) \in Nat
      /\ StoredAt(m.flows, k) = Cardinality(st.buf) /\ Cardinality(st.buf) \in Nat
  BY <1>2, <1>3, SoundTable, SoundFlow
<1>7. x.heldBytes = m.heldBytes /\ x.reassemblyBytes = m.reassemblyBytes
  BY <1>5, <1>6 DEF Updated
<1>8. DOMAIN x.flows = DOMAIN m.flows /\ x.flows[k] = st
  BY <1>5 DEF Updated
<1>9. ASSUME NEW j \in DOMAIN m.flows
      PROVE  x.flows[j].held = m.flows[j].held /\ x.flows[j].state = m.flows[j].state
  <2>1. CASE j = k
    BY <1>8, <2>1 DEF Same
  <2>2. CASE j # k
    <3>1. x.flows[j] = m.flows[j]
      BY <1>5, <2>2 DEF Updated
    <3> QED BY <3>1
  <2> QED BY <2>1, <2>2
<1>10. x.wire = m.wire /\ x.dropped = m.dropped /\ x.next = m.next
  BY <1>5 DEF Updated
<1> QED BY <1>5, <1>7, <1>8, <1>9, <1>10 DEF Alike

\* Where the packets are and whether the limits are kept does not depend on them.
LEMMA AlikeKeeps ==
  ASSUME NEW m, NEW x, Alike(m, x)
  PROVE  /\ \A k : Held(x, k) = Held(m, k)
         /\ \A k, p : PlacedIn(x, k, p) <=> PlacedIn(m, k, p)
         /\ \A k : Elsewhere(m, x, k)
         /\ \A c : Within(x, c) <=> Within(m, c)
<1>1. ASSUME NEW k PROVE Held(x, k) = Held(m, k)
  BY DEF Alike, Held
<1>2. ASSUME NEW k, NEW p PROVE PlacedIn(x, k, p) <=> PlacedIn(m, k, p)
  BY <1>1 DEF Alike, PlacedIn
<1>3. ASSUME NEW k PROVE Elsewhere(m, x, k)
  BY <1>1 DEF Alike, Elsewhere
<1>4. ASSUME NEW c PROVE Within(x, c) <=> Within(m, c)
  <2>1. /\ DOMAIN x.flows = DOMAIN m.flows /\ x.heldBytes = m.heldBytes
        /\ x.reassemblyBytes = m.reassemblyBytes
    BY DEF Alike
  <2> QED BY <1>1, <2>1 DEF Within
<1> QED BY <1>1, <1>2, <1>3, <1>4

\* One part of a handler after the other.
LEMMA OutcomeThen ==
  ASSUME NEW m, NEW y, NEW x, NEW c, NEW k, NEW p, NEW q,
         Outcome(m, y, c, k, q), y.next # "failed", Outcome(y, x, c, k, p)
  PROVE  Outcome(m, x, c, k, p)
<1>1. Elsewhere(m, x, k)
  BY ElsewhereTwice DEF Outcome
<1> QED BY <1>1 DEF Outcome

\* A change of flags, and then a handler.
LEMMA AlikeThen ==
  ASSUME NEW m, NEW y, NEW x, NEW c, NEW k, NEW p, Alike(m, y), Outcome(y, x, c, k, p)
  PROVE  Outcome(m, x, c, k, p)
<1>1. Elsewhere(m, x, k)
  BY AlikeKeeps, ElsewhereTwice DEF Outcome
<1>2. DOMAIN y.flows = DOMAIN m.flows /\ (Within(y, c) <=> Within(m, c))
  BY AlikeKeeps DEF Alike
<1> QED BY <1>1, <1>2 DEF Outcome

\* A packet is passed through, when its flow holds nothing.
LEMMA PassOutcome ==
  ASSUME NEW m, Sound(m), NEW c, NEW k \in Keys, m.next = "idle", Held(m, k) = <<>>,
         NEW p \in Nat, PlacedIn(m, k, p), NEW pkt \in Packet, pkt.id = p + 1,
         NEW x, x = Send(m, k, Wire(pkt))
  PROVE  Outcome(m, x, c, k, p + 1) /\ x.flows = m.flows /\ x.next \in {"idle", "failed"}
<1> DEFINE items == <<Wire(pkt)>>
<1>1. items \in Seq(Item)
  BY SeqSpaceAssumption DEF Wire, Item, Packet
<1>2. x = SendAll(m, k, items)
  BY DEF Send
<1>3. m.wire[k] \in Seq(Item)
  BY SoundTable
<1>4. Placed(m.wire[k], <<>>, m.dropped[k], p)
  BY DEF PlacedIn
<1>5. Placed(m.wire[k] \o items, <<>>, m.dropped[k], p + 1)
  BY <1>3, <1>4, PlacedPass
<1> HIDE DEF items
<1>6. Sound(x) /\ Elsewhere(m, x, k) /\ Sent(m, x, k, items)
  BY <1>1, <1>2, SendSound
<1>7. x.flows = m.flows /\ Held(x, k) = <<>> /\ x.next \in {"idle", "failed"}
  BY <1>6 DEF Sent, Held
<1>8. x.next # "failed" => PlacedIn(x, k, p + 1)
  BY <1>5, <1>6, <1>7 DEF Sent, PlacedIn
<1>9. Within(m, c) => Within(x, c)
  BY <1>6, <1>7 DEF Sent, Within, Held
<1> QED BY <1>6, <1>7, <1>8, <1>9 DEF Outcome

\* A flow that holds nothing is deleted.
LEMMA DeleteOutcome ==
  ASSUME NEW m, Sound(m), NEW c \in Config, NEW k \in DOMAIN m.flows, m.next = "idle",
         Held(m, k) = <<>>, NEW p, PlacedIn(m, k, p), NEW x, x = Delete(m, k)
  PROVE  Outcome(m, x, c, k, p)
<1>1. Sound(x) /\ Elsewhere(m, x, k) /\ Deleted(m, x, k)
  BY DeleteSound
<1>2. Within(m, c) => Within(x, c)
  BY <1>1, DeletedWithin
<1>3. PlacedIn(x, k, p) /\ DOMAIN m.flows \ {k} \subseteq DOMAIN x.flows /\ x.next = "idle"
  BY <1>1 DEF Deleted, PlacedIn
<1> QED BY <1>1, <1>2, <1>3 DEF Outcome

\* A flow fails open.
LEMMA FailOpenOutcome ==
  ASSUME NEW m, Sound(m), NEW c \in Config, NEW k \in DOMAIN m.flows, m.next = "idle",
         NEW p \in Nat, PlacedIn(m, k, p), NEW x, x = failOpen(m, k)
  PROVE  /\ Outcome(m, x, c, k, p) /\ x.next \in {"idle", "failed"}
         /\ DOMAIN x.flows = DOMAIN m.flows
         /\ x.next # "failed" => Held(x, k) = <<>>
<1>1. Ended(m, x, c, k, p)
  BY FailOpenEnds
<1>2. Opened(m, x, k)
  BY FailOpenSound
<1>3. Within(m, c) => WithinBut(m, c, k)
  BY WithinWithout
<1>4. Outcome(m, x, c, k, p)
  BY <1>1, <1>3 DEF Ended, Outcome
<1>5. x.next \in {"idle", "failed"}
  BY <1>1 DEF Ended
<1> QED BY <1>2, <1>4, <1>5 DEF Opened
\* handlePacket for a flow in the table.
LEMMA KnownOutcome ==
  ASSUME NEW m0, Sound(m0), NEW c \in Config, NEW k \in DOMAIN m0.flows, m0.next = "idle",
         NEW p \in Nat, PlacedIn(m0, k, p), NEW pkt \in Packet, pkt.id = p + 1,
         pkt.len = 0 => pkt.flag \in {"FIN", "RST"},
         NEW x, x = handleKnown(m0, c, k, pkt)
  PROVE  Outcome(m0, x, c, k, p + 1)
<1> DEFINE s0 == m0.flows[k]
           s1 == [s0 EXCEPT !.idle = FALSE]
           m == [m0 EXCEPT !.flows[k].idle = FALSE]
           s2 == [s1 EXCEPT !.tpl = pkt]
           y == [m EXCEPT !.flows[k].tpl = pkt]
           st == m.flows[k]
<1>1. s0 \in Flow /\ k \in Keys /\ FlowOK(s0)
  BY SoundFlow
<1>2. Same(s0, s1)
  BY <1>1 DEF Flow, Same
<1>3. m = PutAt(m0, k, s1)
  BY DEF PutAt
<1>4. Sound(m) /\ Alike(m0, m) /\ m.flows[k] = s1
  <2> HIDE DEF m, s1
  <2> QED BY <1>2, <1>3, AlikeSound
<1>5. Same(s1, s2)
  BY <1>1, <1>2 DEF Flow, Same
<1>6. y = PutAt(m, k, s2)
  <2>1. y = [m EXCEPT !.flows[k] = [m.flows[k] EXCEPT !.tpl = pkt]]
    OBVIOUS
  <2>2. y = [m EXCEPT !.flows[k] = s2]
    BY <1>4, <2>1
  <2> QED BY <2>2 DEF PutAt
<1> HIDE DEF m, s0, s1, s2, y
<1>7. k \in DOMAIN m.flows /\ m.next = "idle" /\ st \in Flow /\ FlowOK(st)
  BY <1>4, SoundFlow DEF Alike
<1>8. Sound(y) /\ Alike(m, y) /\ k \in DOMAIN y.flows /\ y.next = "idle"
  <2>1. Sound(y) /\ Alike(m, y)
    BY <1>4, <1>5, <1>6, <1>7, AlikeSound
  <2> QED BY <1>7, <2>1 DEF Alike
<1>9. PlacedIn(m, k, p) /\ PlacedIn(y, k, p)
  BY <1>4, <1>8, AlikeKeeps
<1>10. ASSUME NEW v, Outcome(y, v, c, k, p + 1) PROVE Outcome(m0, v, c, k, p + 1)
  BY <1>4, <1>8, <1>10, AlikeThen
<1>11. ASSUME NEW v, Outcome(m, v, c, k, p + 1) PROVE Outcome(m0, v, c, k, p + 1)
  BY <1>4, <1>11, AlikeThen
<1>12. st.state # "collecting" => Held(m, k) = <<>>
  BY <1>7 DEF FlowOK, Held
<1>13. CASE pkt.len = 0 /\ pkt.flag \in {"RST", "FIN"}
  <2> DEFINE z == IF st.state = "collecting" THEN failOpen(m, k) ELSE m
             a == Send(z, k, Wire(pkt))
  <2>1. x = Delete(a, k)
    BY <1>13 DEF handleKnown, m
  <2>2. /\ Outcome(m, z, c, k, p) /\ z.next \in {"idle", "failed"}
        /\ DOMAIN z.flows = DOMAIN m.flows
        /\ z.next # "failed" => Held(z, k) = <<>>
    <3>1. CASE st.state = "collecting"
      <4>1. z = failOpen(m, k)
        BY <3>1
      <4> HIDE DEF z, st
      <4> QED BY <1>4, <1>7, <1>9, <4>1, FailOpenOutcome
    <3>2. CASE st.state # "collecting"
      <4>1. z = m
        BY <3>2
      <4>2. Elsewhere(m, m, k)
        BY DEF Elsewhere
      <4> QED BY <1>4, <1>7, <1>9, <1>12, <3>2, <4>1, <4>2 DEF Outcome
    <3> QED BY <3>1, <3>2
  <2> HIDE DEF z
  <2>3. CASE z.next = "failed"
    <3>1. a = z
      BY <2>3 DEF Send, SendAll
    <3>2. x = z
      BY <2>1, <2>3, <3>1 DEF Delete
    <3>3. Outcome(m, x, c, k, p + 1)
      BY <2>2, <2>3, <3>2 DEF Outcome
    <3> QED BY <1>11, <3>3
  <2>4. CASE z.next # "failed"
    <3>1. Sound(z) /\ PlacedIn(z, k, p) /\ z.next = "idle" /\ Held(z, k) = <<>>
      BY <2>2, <2>4 DEF Outcome
    <3>2. /\ Outcome(z, a, c, k, p + 1) /\ a.flows = z.flows
          /\ a.next \in {"idle", "failed"}
      BY <1>1, <3>1, PassOutcome
    <3> HIDE DEF a
    <3>3. Outcome(m, a, c, k, p + 1)
      BY <2>2, <2>4, <3>2, OutcomeThen
    <3>4. CASE a.next = "failed"
      <4>1. x = a
        BY <2>1, <3>4 DEF Delete
      <4> QED BY <1>11, <3>3, <4>1
    <3>5. CASE a.next # "failed"
      <4>1. /\ Sound(a) /\ a.next = "idle" /\ Held(a, k) = <<>> /\ k \in DOMAIN a.flows
            /\ PlacedIn(a, k, p + 1)
        BY <1>7, <2>2, <3>1, <3>2, <3>5 DEF Outcome, Held
      <4>2. Outcome(a, x, c, k, p + 1)
        BY <2>1, <4>1, DeleteOutcome
      <4>3. Outcome(m, x, c, k, p + 1)
        BY <3>3, <3>5, <4>2, OutcomeThen
      <4> QED BY <1>11, <4>3
    <3> QED BY <3>4, <3>5
  <2> QED BY <2>3, <2>4
<1>14. CASE ~(pkt.len = 0 /\ pkt.flag \in {"RST", "FIN"}) /\ st.state # "collecting"
  <2>1. x = Send(m, k, Wire(pkt))
    BY <1>14 DEF handleKnown, m
  <2>2. Outcome(m, x, c, k, p + 1)
    BY <1>1, <1>4, <1>7, <1>9, <1>12, <1>14, <2>1, PassOutcome
  <2> QED BY <1>11, <2>2
<1>15. CASE ~(pkt.len = 0 /\ pkt.flag \in {"RST", "FIN"}) /\ st.state = "collecting"
  <2>1. pkt.len # 0
    BY <1>15
  <2>2. CASE Exceeds(m.heldBytes + DataLen(pkt), c.maxHeldBytes)
    <3> DEFINE z == failOpen(y, k)
    <3>1. x = Send(z, k, Wire(pkt))
      BY <1>15, <2>1, <2>2 DEF handleKnown, m, y
    <3>2. /\ Outcome(y, z, c, k, p) /\ z.next \in {"idle", "failed"}
          /\ DOMAIN z.flows = DOMAIN y.flows
          /\ z.next # "failed" => Held(z, k) = <<>>
      BY <1>8, <1>9, FailOpenOutcome
    <3> HIDE DEF z
    <3>3. CASE z.next = "failed"
      <4>1. x = z
        BY <3>1, <3>3 DEF Send, SendAll
      <4>2. Outcome(y, x, c, k, p + 1)
        BY <3>2, <3>3, <4>1 DEF Outcome
      <4> QED BY <1>10, <4>2
    <3>4. CASE z.next # "failed"
      <4>1. Sound(z) /\ PlacedIn(z, k, p) /\ z.next = "idle" /\ Held(z, k) = <<>>
        BY <3>2, <3>4 DEF Outcome
      <4>2. Outcome(z, x, c, k, p + 1)
        BY <1>1, <3>1, <4>1, PassOutcome
      <4>3. Outcome(y, x, c, k, p + 1)
        BY <3>2, <3>4, <4>2, OutcomeThen
      <4> QED BY <1>10, <4>3
    <3> QED BY <3>3, <3>4
  <2>3. CASE ~Exceeds(m.heldBytes + DataLen(pkt), c.maxHeldBytes)
    <3>1. x = collect(y, c, k, pkt)
      BY <1>15, <2>1, <2>3 DEF handleKnown, m, y
    <3>2. y.heldBytes = m.heldBytes /\ y.flows[k].state = "collecting"
      BY <1>7, <1>8, <1>15 DEF Alike
    <3>3. Outcome(y, x, c, k, p + 1)
      BY <1>8, <1>9, <2>3, <3>1, <3>2, CollectOutcome
    <3> QED BY <1>10, <3>3
  <2> QED BY <2>2, <2>3
<1> QED BY <1>13, <1>14, <1>15
\* A new flow holds nothing.
LEMMA NewFlowType ==
  ASSUME NEW c \in Config, NEW pkt \in Packet
  PROVE  /\ NewFlow(c, pkt) \in Flow /\ FlowOK(NewFlow(c, pkt))
         /\ HeldSize(NewFlow(c, pkt)) = 0 /\ Cardinality(NewFlow(c, pkt).buf) = 0
         /\ NewFlow(c, pkt).held = <<>> /\ NewFlow(c, pkt).state = "collecting"
<1> DEFINE st == NewFlow(c, pkt)
<1>1. st.held = <<>> /\ st.state = "collecting" /\ st.buf = {}
  BY DEF NewFlow
<1>2. st \in Flow
  <2>1. <<>> \in Seq(Packet)
    BY EmptySeq
  <2>2. c.maxBuffer \in Nat /\ pkt.seq \in 0 .. SeqSpace - 1 /\ pkt.len \in Nat
    BY DEF Config, Packet
  <2> QED BY <2>1, <2>2 DEF NewFlow, Flow
<1> HIDE DEF st
<1>3. HeldData(st) = {}
  BY <1>1 DEF HeldData, Tagged
<1>4. HeldSize(st) = 0 /\ Cardinality(st.buf) = 0 /\ IsFiniteSet(HeldData(st))
  BY <1>1, <1>3, FS_EmptySet DEF HeldSize
<1> QED BY <1>1, <1>2, <1>4 DEF FlowOK, st

\* A flow that holds nothing is added to the table.
LEMMA CreateSound ==
  ASSUME NEW m, Sound(m), NEW k \in Keys \ DOMAIN m.flows, NEW st \in Flow, FlowOK(st),
         HeldSize(st) = 0, Cardinality(st.buf) = 0, st.held = <<>>,
         NEW x, x = Create(m, k, st)
  PROVE  /\ Sound(x) /\ Elsewhere(m, x, k)
         /\ DOMAIN x.flows = DOMAIN m.flows \cup {k} /\ x.flows[k] = st
         /\ x.heldBytes = m.heldBytes /\ x.reassemblyBytes = m.reassemblyBytes
         /\ x.wire = m.wire /\ x.dropped = m.dropped /\ x.next = m.next
         /\ Held(m, k) = <<>> /\ Held(x, k) = <<>>
<1> DEFINE tab == [j \in DOMAIN m.flows \cup {k} |-> IF j = k THEN st ELSE m.flows[j]]
           hb == m.heldBytes
           rb == m.reassemblyBytes
           hn == NonNegative(hb)
           rn == NonNegative(rb)
<1>1. /\ m \in Machines /\ m.flows \in [DOMAIN m.flows -> Flow]
      /\ m.heldBytes \in Nat /\ m.reassemblyBytes \in Nat
  BY SoundTable
<1>2. HeldAt(m.flows, k) = 0 /\ StoredAt(m.flows, k) = 0
  BY DEF HeldAt, StoredAt
<1>3. Replaces(m, k, st, tab, hb, rb)
  BY <1>1, <1>2 DEF Replaces
<1>4. hn = m.heldBytes /\ rn = m.reassemblyBytes
  BY <1>1 DEF NonNegative
<1>5. x = [m EXCEPT !.flows = tab]
  BY DEF Create
<1> HIDE DEF tab, hn, rn
<1>6. x = [m EXCEPT !.flows = tab, !.heldBytes = hn, !.reassemblyBytes = rn]
  BY <1>1, <1>4, <1>5 DEF Machines
<1>7. x = Update(m, tab, NonNegative(hb), NonNegative(rb))
  BY <1>6 DEF Update, hn, rn
<1> HIDE DEF hb, rb
<1>8. Sound(x) /\ Elsewhere(m, x, k) /\ Updated(m, x, k, st)
  BY <1>3, <1>7, UpdateSound
<1>9. x.heldBytes = m.heldBytes /\ x.reassemblyBytes = m.reassemblyBytes
  BY <1>1, <1>2, <1>8 DEF Updated
<1>10. Held(m, k) = <<>> /\ Held(x, k) = <<>>
  BY <1>8 DEF Held, Updated
<1> QED BY <1>8, <1>9, <1>10 DEF Updated

\* handlePacket for a flow not in the table.
LEMMA UnknownOutcome ==
  ASSUME NEW m, Sound(m), NEW c \in Config, NEW k \in Keys \ DOMAIN m.flows,
         m.next = "idle", NEW p \in Nat, PlacedIn(m, k, p),
         NEW pkt \in Packet, pkt.id = p + 1,
         NEW x, x = handleUnknown(m, c, k, pkt)
  PROVE  Outcome(m, x, c, k, p + 1)
<1>1. Held(m, k) = <<>>
  BY DEF Held
<1>2. CASE \/ pkt.len = 0
           \/ c.maxFlows > 0 /\ Cardinality(DOMAIN m.flows) >= c.maxFlows
           \/ Exceeds(m.heldBytes + DataLen(pkt), c.maxHeldBytes)
           \/ Exceeds(m.reassemblyBytes + pkt.len, c.maxReassembly)
  <2>1. x = Send(m, k, Wire(pkt))
    BY <1>2 DEF handleUnknown
  <2> QED BY <1>1, <2>1, PassOutcome
<1>3. CASE ~ \/ pkt.len = 0
             \/ c.maxFlows > 0 /\ Cardinality(DOMAIN m.flows) >= c.maxFlows
             \/ Exceeds(m.heldBytes + DataLen(pkt), c.maxHeldBytes)
             \/ Exceeds(m.reassemblyBytes + pkt.len, c.maxReassembly)
  <2> DEFINE st == NewFlow(c, pkt)
             y == Create(m, k, st)
  <2>1. x = collect(y, c, k, pkt)
    BY <1>3 DEF handleUnknown
  <2>2. /\ st \in Flow /\ FlowOK(st) /\ HeldSize(st) = 0 /\ Cardinality(st.buf) = 0
        /\ st.held = <<>> /\ st.state = "collecting"
    BY NewFlowType
  <2> HIDE DEF st
  <2>3. /\ Sound(y) /\ Elsewhere(m, y, k)
        /\ DOMAIN y.flows = DOMAIN m.flows \cup {k} /\ y.flows[k] = st
        /\ y.heldBytes = m.heldBytes /\ y.reassemblyBytes = m.reassemblyBytes
        /\ y.wire = m.wire /\ y.dropped = m.dropped /\ y.next = m.next
        /\ Held(m, k) = <<>> /\ Held(y, k) = <<>>
    BY <2>2, CreateSound
  <2> HIDE DEF y
  <2>4. PlacedIn(y, k, p)
    BY <2>3 DEF PlacedIn
  <2>5. Outcome(y, x, c, k, p + 1)
    BY <1>3, <2>1, <2>2, <2>3, <2>4, CollectOutcome
  <2>6. ASSUME Within(m, c) PROVE Within(y, c)
    <3>1. ~Exceeds(Cardinality(DOMAIN y.flows), c.maxFlows)
      <4>1. IsFiniteSet(DOMAIN m.flows)
        BY DEF Sound, TableOK
      <4>2. /\ Cardinality(DOMAIN y.flows) = Cardinality(DOMAIN m.flows) + 1
            /\ Cardinality(DOMAIN m.flows) \in Nat
        BY <2>3, <4>1, FS_AddElement, FS_CardinalityType
      <4> QED BY <1>3, <4>2, ConfigType DEF Exceeds
    <3>2. ASSUME NEW j \in DOMAIN y.flows PROVE Len(Held(y, j)) < c.maxHeldPackets
      <4>1. CASE j = k
        <5>1. Len(Held(y, j)) = 0
          BY <2>3, <4>1, EmptySeq
        <5> QED BY <5>1, ConfigType
      <4>2. CASE j # k
        <5>1. j \in DOMAIN m.flows /\ j \in Keys \ {k}
          BY <2>3, <4>2, SoundTable
        <5> QED BY <2>3, <2>6, <5>1 DEF Elsewhere, Within
      <4> QED BY <4>1, <4>2
    <3> QED BY <2>3, <2>6, <3>1, <3>2 DEF Within
  <2>7. Elsewhere(m, x, k)
    BY <2>3, <2>5, ElsewhereTwice DEF Outcome
  <2> QED BY <2>3, <2>5, <2>6, <2>7 DEF Outcome
<1> QED BY <1>2, <1>3
\* handlePacket, for any flow: the next packet gets its place.
LEMMA HandleOutcome ==
  ASSUME NEW m, Sound(m), NEW c \in Config, NEW k \in Keys,
         m.next = "idle", NEW p \in Nat, PlacedIn(m, k, p),
         NEW pkt \in Packet, pkt.id = p + 1, pkt.len = 0 => pkt.flag \in {"FIN", "RST"},
         NEW x, x = handlePacket(m, c, k, pkt)
  PROVE  Outcome(m, x, c, k, p + 1)
<1>1. CASE k \in DOMAIN m.flows
  <2>1. x = handleKnown(m, c, k, pkt)
    BY <1>1 DEF handlePacket
  <2> QED BY <1>1, <2>1, KnownOutcome
<1>2. CASE k \notin DOMAIN m.flows
  <2>1. x = handleUnknown(m, c, k, pkt)
    BY <1>2 DEF handlePacket
  <2> QED BY <1>2, <2>1, UnknownOutcome
<1> QED BY <1>1, <1>2

\* A machine with the same data, whatever comes next.
LEMMA SameOutcome ==
  ASSUME NEW m, NEW x, Sound(x), SameData(m, x), NEW c, NEW k \in DOMAIN m.flows,
         NEW p, PlacedIn(m, k, p)
  PROVE  Outcome(m, x, c, k, p)
<1>1. \A j : Held(x, j) = Held(m, j)
  BY DEF Held, SameData
<1>2. Elsewhere(m, x, k) /\ PlacedIn(x, k, p)
  BY <1>1 DEF Elsewhere, PlacedIn, SameData
<1>3. Within(m, c) => Within(x, c)
  <2>1. /\ x.flows = m.flows /\ x.heldBytes = m.heldBytes
        /\ x.reassemblyBytes = m.reassemblyBytes
    BY DEF SameData
  <2> QED BY <1>1, <2>1 DEF Within
<1> QED BY <1>2, <1>3 DEF Outcome, SameData

\* trySplitTLSHello: the flow goes on collecting, fails open or is injected next.
LEMMA TrySplitOutcome ==
  ASSUME NEW m, Sound(m), NEW c \in Config, NEW k \in DOMAIN m.flows, m.next = "idle",
         NEW p \in Nat, PlacedIn(m, k, p), NEW x, x = trySplitTLSHello(m, c, k)
  PROVE  Outcome(m, x, c, k, p)
<1> DEFINE h == HeaderAt(k, m.flows[k].base)
           need == 5 + h.recordLen
<1>1. need \in Int
  <2>1. k \in Keys
    BY SoundFlow
  <2>2. Hello[k] \in [contentType : Nat, version : Nat, handshake : Nat, recordLen : Nat]
    BY <2>1, WorkerAssumption
  <2>3. h.recordLen = Hello[k].recordLen /\ Hello[k].recordLen \in Nat
    BY <2>2 DEF HeaderAt
  <2> QED BY <2>3
<1>2. x = m \/ x = failOpen(m, k) \/ x = Goto(m, "inject", need)
  <2>1. CASE DetectClientHelloRecord(ContigLen(m.flows[k]), h) = "needMore"
    BY <2>1 DEF trySplitTLSHello
  <2>2. CASE DetectClientHelloRecord(ContigLen(m.flows[k]), h) = "mismatch"
    BY <2>2 DEF trySplitTLSHello
  <2>3. CASE DetectClientHelloRecord(ContigLen(m.flows[k]), h) \notin {"needMore", "mismatch"}
    BY <2>3 DEF trySplitTLSHello, Goto
  <2> QED BY <2>1, <2>2, <2>3
<1> HIDE DEF need, h
<1>3. CASE x = m
  <2>1. SameData(m, x)
    BY <1>3 DEF SameData
  <2> QED BY <1>3, <2>1, SameOutcome
<1>4. CASE x = failOpen(m, k)
  BY <1>4, FailOpenOutcome
<1>5. CASE x = Goto(m, "inject", need)
  <2>1. Sound(x) /\ SameData(m, x)
    BY <1>1, <1>5, NextSound
  <2> QED BY <2>1, SameOutcome
<1> QED BY <1>2, <1>3, <1>4, <1>5

-----------------------------------------------------------------------------
\* A set of natural numbers has a least element.
LEMMA LeastNat ==
  ASSUME NEW T \in SUBSET Nat, T # {}
  PROVE  \E n \in T : \A l \in T : n <= l
<1> DEFINE R == OpToRel(<, Nat)
<1>1. IsWellFoundedOn(R, Nat)
  BY NatLessThanWellFounded
<1>2. \A a, b \in Nat : a < b => <<a, b>> \in R
  BY DEF OpToRel
<1> HIDE DEF R
<1>3. PICK n \in T : \A l \in T : ~ (<<l, n>> \in R)
  BY <1>1, WFMin
<1>4. ASSUME NEW l \in T PROVE n <= l
  <2>1. n \in Nat /\ l \in Nat /\ ~ (l < n)
    BY <1>2, <1>3
  <2> QED BY <2>1
<1> QED BY <1>3, <1>4

\* The contiguous prefix of a bounded buffer: all before it is stored, its end is not.
LEMMA PrefixLenType ==
  ASSUME NEW S \in SUBSET Nat, NEW max \in Nat, \A o \in S : o < max
  PROVE  /\ PrefixLen(S, max) \in 0 .. max /\ PrefixLen(S, max) \notin S
         /\ \A l \in 0 .. PrefixLen(S, max) - 1 : l \in S
<1> DEFINE T == Nat \ S
<1>1. T \in SUBSET Nat /\ max \in T
  OBVIOUS
<1>2. PICK n \in T : \A l \in T : n <= l
  BY <1>1, LeastNat
<1>3. n \in 0 .. max /\ n \notin S /\ \A l \in 0 .. n - 1 : l \in S
  BY <1>1, <1>2
<1> QED BY <1>3 DEF PrefixLen

\* What a flow has contiguously is a number.
LEMMA ContigLenType ==
  ASSUME NEW st \in Flow, FlowOK(st)
  PROVE  ContigLen(st) \in Nat
<1>1. st.buf \in SUBSET Nat /\ st.max \in Nat
  BY DEF Flow
<1>2. ContigLen(st) \in 0 .. st.max
  BY <1>1, PrefixLenType DEF ContigLen, FlowOK
<1> QED BY <1>1, <1>2

\* The elements of a set of indices, by rank.
LEMMA RankExists ==
  ASSUME NEW n \in Nat, NEW I \in SUBSET (1 .. n), NEW j \in 1 .. Cardinality(I)
  PROVE  \E i \in I : Cardinality({h \in I : h <= i}) = j
<1> DEFINE upTo(i) == {h \in I : h <= i}
           f(i) == Cardinality(upTo(i))
           T == {i \in 1 .. n : f(i) >= j}
<1>1. IsFiniteSet(I) /\ Cardinality(I) \in Nat
  <2>1. IsFiniteSet(1 .. n)
    BY FS_Interval
  <2> QED BY <2>1, FS_Subset, FS_CardinalityType
<1>2. \A i : f(i) \in Nat
  BY <1>1, FS_Subset, FS_CardinalityType
<1>0. \A h \in I : h \in 1 .. n /\ h \in Int
  OBVIOUS
<1>3. upTo(n) = I /\ upTo(0) = {}
  <2>1. ASSUME NEW h \in I PROVE h <= n /\ ~ (h <= 0)
    BY <1>0
  <2> QED BY <2>1
<1>4. f(n) = Cardinality(I) /\ f(0) = 0
  BY <1>3, FS_EmptySet
<1>5. n \in T
  <2>1. n # 0
    BY <1>1, <1>4
  <2> QED BY <1>4, <2>1
<1>6. PICK i \in T : \A l \in T : i <= l
  <2>1. T \in SUBSET Nat
    OBVIOUS
  <2> HIDE DEF T
  <2> QED BY <1>5, <2>1, LeastNat
<1>7. f(i - 1) < j
  <2>1. CASE i = 1
    BY <1>4, <2>1
  <2>2. CASE i # 1
    <3>1. i - 1 \in 1 .. n /\ ~ (i <= i - 1)
      BY <2>2
    <3>2. i - 1 \notin T
      BY <1>6, <3>1
    <3>3. ~ (f(i - 1) >= j)
      BY <3>1, <3>2
    <3> HIDE DEF f
    <3> QED BY <1>2, <3>3
  <2> QED BY <2>1, <2>2
<1>8. CASE i \in I
  <2>1. upTo(i) = upTo(i - 1) \cup {i} /\ i \notin upTo(i - 1)
    <3>1. i \in Int
      OBVIOUS
    <3>2. ASSUME NEW h \in I PROVE (h <= i <=> h <= i - 1 \/ h = i) /\ ~ (i <= i - 1)
      BY <1>0, <3>1
    <3> QED BY <1>8, <3>1, <3>2
  <2>2. IsFiniteSet(upTo(i - 1))
    BY <1>1, FS_Subset
  <2>3. f(i) = f(i - 1) + 1
    BY <2>1, <2>2, FS_AddElement
  <2>4. f(i) >= j
    OBVIOUS
  <2>5. f(i) = j
    <3> HIDE DEF f
    <3> QED BY <1>2, <1>7, <2>3, <2>4
  <2> QED BY <1>8, <2>5
<1>9. CASE i \notin I
  <2>1. upTo(i) = upTo(i - 1)
    <3>1. i \in Int
      OBVIOUS
    <3>2. ASSUME NEW h \in I PROVE h <= i <=> h <= i - 1
      BY <1>0, <1>9, <3>1
    <3> QED BY <3>2
  <2>2. f(i) = f(i - 1)
    BY <2>1
  <2>3. f(i) >= j
    OBVIOUS
  <2> HIDE DEF f
  <2> QED BY <1>2, <1>7, <2>2, <2>3
<1> QED BY <1>8, <1>9

\* Select keeps the elements at the indices chosen.
LEMMA SelectType ==
  ASSUME NEW S, NEW seq \in Seq(S), NEW I \in SUBSET (DOMAIN seq)
  PROVE  Select(seq, I) \in Seq(S)
<1> DEFINE n == Len(seq)
           at(j) == CHOOSE i \in I : Cardinality({h \in I : h <= i}) = j
<1>1. n \in Nat /\ DOMAIN seq = 1 .. n
  OBVIOUS
<1>2. ASSUME NEW j \in 1 .. Cardinality(I) PROVE at(j) \in I
  <2>1. \E i \in I : Cardinality({h \in I : h <= i}) = j
    BY <1>1, RankExists
  <2> QED BY <2>1
<1>3. Cardinality(I) \in Nat
  <2>1. IsFiniteSet(1 .. n)
    BY <1>1, FS_Interval
  <2> QED BY <1>1, <2>1, FS_Subset, FS_CardinalityType
<1>4. ASSUME NEW j \in 1 .. Cardinality(I) PROVE seq[at(j)] \in S
  <2>1. at(j) \in DOMAIN seq
    BY <1>2
  <2> HIDE DEF at
  <2> QED BY <2>1
<1>5. Select(seq, I) = [j \in 1 .. Cardinality(I) |-> seq[at(j)]]
  BY DEF Select
<1> HIDE DEF at
<1> QED BY <1>3, <1>4, <1>5

-----------------------------------------------------------------------------
\* Segments that the worker makes carry no packet id.
Made == [from : Int, len : Int, id : {0}]

Slice == [from : Int, len : Int]

\* Chunks are slices.
LEMMA ChunksType ==
  ASSUME NEW from \in Int, NEW len \in Int, NEW most \in Int, most >= 1
  PROVE  Chunks(from, len, most) \in Seq(Slice)
<1> DEFINE count == (len + most - 1) \div most
           at(i) == [from |-> from + (i - 1) * most,
                     len |-> Smaller(most, len - (i - 1) * most)]
<1>1. count \in Int
  OBVIOUS
<1>2. ASSUME NEW i \in Int PROVE at(i) \in Slice
  <2> DEFINE o == (i - 1) * most
  <2>1. o \in Int
    OBVIOUS
  <2> HIDE DEF o
  <2>2. from + o \in Int /\ Smaller(most, len - o) \in Int
    BY <2>1 DEF Smaller
  <2> QED BY <2>2 DEF Slice, o
<1>3. Chunks(from, len, most) = [i \in 1 .. count |-> at(i)]
  BY DEF Chunks
<1> HIDE DEF count, at
<1>4. ASSUME count < 0 PROVE 1 .. count = 1 .. 0
  BY <1>1, <1>4
<1>5. \E n \in Nat : 1 .. count = 1 .. n
  <2>1. CASE count < 0
    BY <1>4, <2>1
  <2>2. CASE ~ (count < 0)
    BY <1>1, <2>2
  <2> QED BY <2>1, <2>2
<1>6. PICK n \in Nat : 1 .. count = 1 .. n
  BY <1>5
<1>7. Chunks(from, len, most) \in [1 .. n -> Slice]
  BY <1>2, <1>3, <1>6
<1> QED BY <1>7

\* The limit of a segment's payload is a number.
LEMMA ClampType ==
  ASSUME NEW a \in Int, NEW b \in Int, NEW l \in Int, NEW d \in Int
  PROVE  clampSegmentPayload(a, b, l, d) \in Int
BY DEF clampSegmentPayload, Smaller

\* The two parts of a burst, as slices.
LEMMA SplitType ==
  ASSUME NEW len \in Int, NEW lead \in Int, NEW most \in Int
  PROVE  /\ SplitFirst(len, lead, most) \in Seq(Slice)
         /\ \A from \in Int : ChunkPayload(from, len, most) \in Seq(Slice)
<1>0. <<>> \in Seq(Slice)
  BY EmptySeq
<1>1. SplitFirst(len, lead, most) \in Seq(Slice)
  <2>1. CASE SplitFirst(len, lead, most) = <<>>
    BY <1>0, <2>1
  <2>2. CASE SplitFirst(len, lead, most) # <<>>
    <3> DEFINE f == clampFirst(lead, most)
               head == <<[from |-> 0, len |-> f]>>
               tail == Chunks(f, len - f, most)
    <3>1. f \in Int
      BY DEF clampFirst, Smaller
    <3>2. most >= 1 /\ SplitFirst(len, lead, most) = head \o tail
      BY <2>2 DEF SplitFirst
    <3> HIDE DEF f
    <3>3. head \in Seq(Slice)
      BY <3>1 DEF Slice
    <3>4. tail \in Seq(Slice)
      BY <3>1, <3>2, ChunksType
    <3> HIDE DEF head, tail
    <3> QED BY <3>2, <3>3, <3>4, ConcatProperties
  <2> QED BY <2>1, <2>2
<1>2. ASSUME NEW from \in Int PROVE ChunkPayload(from, len, most) \in Seq(Slice)
  <2>1. CASE most < 1 \/ len = 0
    BY <1>0, <2>1 DEF ChunkPayload
  <2>2. CASE ~ (most < 1 \/ len = 0)
    BY <2>2, ChunksType DEF ChunkPayload
  <2> QED BY <2>1, <2>2
<1> QED BY <1>1, <1>2

\* Slices of the stream, as they are sent.
LEMMA OnWireType ==
  ASSUME NEW st \in Flow, NEW segs \in Seq(Slice), NEW off \in Int
  PROVE  OnWire(st, segs, off) \in Seq(Made)
<1>1. st.base \in Int /\ SeqSpace \in Nat \ {0}
  BY SeqSpaceAssumption DEF Flow
<1>2. ASSUME NEW i \in DOMAIN segs
      PROVE  [from |-> (st.base + off + segs[i].from) % SeqSpace,
              len |-> segs[i].len, id |-> 0] \in Made
  <2>1. segs[i] \in Slice
    OBVIOUS
  <2>2. segs[i].from \in Int /\ segs[i].len \in Int
    BY <2>1 DEF Slice
  <2>3. (st.base + off + segs[i].from) % SeqSpace \in Int
    BY <1>1, <2>2
  <2> QED BY <2>2, <2>3 DEF Made
<1>3. Len(segs) \in Nat /\ DOMAIN segs = 1 .. Len(segs)
  OBVIOUS
<1>4. OnWire(st, segs, off) \in [1 .. Len(segs) -> Made]
  BY <1>2, <1>3 DEF OnWire
<1> QED BY <1>3, <1>4

\* The trimmed parts of the held packets.
LEMMA TrimmedType ==
  ASSUME NEW st \in Flow, NEW win \in Int
  PROVE  reinjectTrimmed(st, win) \in Seq(Made)
<1> DEFINE trim(pkt) == NonNegative(win - Offset(st, pkt))
           part(pkt) == [from |-> (pkt.seq + trim(pkt)) % SeqSpace,
                         len |-> pkt.len - trim(pkt), id |-> 0]
           seq == Beyond(st, win)
<1>1. seq \in Seq(Packet)
  <2>1. st.held \in Seq(Packet)
    BY DEF Flow
  <2> QED BY <2>1, SelectType DEF Beyond
<1>2. ASSUME NEW pkt \in Packet PROVE part(pkt) \in Made
  <2>1. st.base \in Int /\ pkt.seq \in Int /\ pkt.len \in Int /\ SeqSpace \in Nat \ {0}
    BY SeqSpaceAssumption DEF Flow, Packet
  <2>2. Offset(st, pkt) \in Int
    BY <2>1 DEF Offset
  <2>3. trim(pkt) \in Int
    BY <2>2 DEF NonNegative
  <2> HIDE DEF trim
  <2>4. (pkt.seq + trim(pkt)) % SeqSpace \in Int /\ pkt.len - trim(pkt) \in Int
    BY <2>1, <2>3
  <2> QED BY <2>4 DEF Made
<1>3. reinjectTrimmed(st, win) = [i \in DOMAIN seq |-> part(seq[i])]
  BY DEF reinjectTrimmed
<1> HIDE DEF seq, part
<1>4. /\ Len(seq) \in Nat /\ DOMAIN seq = 1 .. Len(seq)
      /\ \A i \in DOMAIN seq : seq[i] \in Packet
  BY <1>1
<1>5. reinjectTrimmed(st, win) \in [1 .. Len(seq) -> Made]
  BY <1>2, <1>3, <1>4
<1> QED BY <1>4, <1>5

\* What injectWindow sends are segments that the worker makes.
LEMMA PlanType ==
  ASSUME NEW st \in Flow, FlowOK(st), NEW c \in Config, NEW win \in Int
  PROVE  InjectPlan(st, c, win) \in Seq(Made)
<1> DEFINE most == clampSegmentPayload(st.tpl.len, HeaderLen, c.maxSegment, IPMax)
           split == SplitFirst(win, c.splitChunk, most)
           rest == ContigLen(st) - win
           chunks == ChunkPayload(0, rest, most)
           plan == InjectPlan(st, c, win)
<1>0. <<>> \in Seq(Made)
  BY EmptySeq
<1>1. most \in Int
  <2>1. st.tpl.len \in Int /\ c.maxSegment \in Int /\ HeaderLen \in Int /\ IPMax \in Int
    BY WorkerAssumption DEF Flow, Packet, Config
  <2> QED BY <2>1, ClampType
<1>2. rest \in Int /\ c.splitChunk \in Int
  BY ContigLenType DEF Config
<1> HIDE DEF most, rest
<1>3. split \in Seq(Slice) /\ chunks \in Seq(Slice)
  <2> DEFINE first == c.splitChunk
  <2>1. first \in Int
    BY <1>2
  <2> HIDE DEF first
  <2>2. SplitFirst(win, first, most) \in Seq(Slice)
    BY <1>1, <2>1, SplitType
  <2>3. \A from \in Int : ChunkPayload(from, rest, most) \in Seq(Slice)
    BY <1>1, <1>2, <2>1, SplitType
  <2> QED BY <2>2, <2>3 DEF first
<1> HIDE DEF split, chunks
<1>4. OnWire(st, split, 0) \in Seq(Made)
  BY <1>3, OnWireType
<1>5. reinjectTrimmed(st, win) \in Seq(Made) /\ OnWire(st, chunks, win) \in Seq(Made)
  BY <1>3, OnWireType, TrimmedType
<1>6. \/ plan = <<>>
      \/ plan = OnWire(st, split, 0) \o <<>>
      \/ plan = OnWire(st, split, 0) \o reinjectTrimmed(st, win)
      \/ plan = OnWire(st, split, 0) \o OnWire(st, chunks, win)
  BY DEF InjectPlan, most, split, rest, chunks
<1> HIDE DEF plan
<1>7. plan \in Seq(Made)
  BY <1>0, <1>4, <1>5, <1>6, ConcatProperties
<1> QED BY <1>7 DEF plan
\* x is m after the packets held by flow k were dropped, all of them if there was no
\* error.
Dropped(m, x, k) ==
  /\ x.flows = m.flows /\ x.heldBytes = m.heldBytes
  /\ x.reassemblyBytes = m.reassemblyBytes /\ x.wire = m.wire
  /\ x.next \in {m.next, "failed"}
  /\ \A j \in Keys \ {k} : x.dropped[j] = m.dropped[j]
  /\ x.next # "failed" =>
       x.dropped[k] = m.dropped[k]
                        \cup {m.flows[k].held[i].id : i \in DOMAIN m.flows[k].held}

\* Drops change nothing else.
LEMMA DropHeldSound ==
  ASSUME NEW m, Sound(m), NEW k \in DOMAIN m.flows, m.next # "failed",
         NEW x, x = dropHeld(m, k)
  PROVE  Sound(x) /\ Elsewhere(m, x, k) /\ Dropped(m, x, k)
<1> DEFINE held == m.flows[k].held
           s == Successes(m, Len(held))
           y == Calls(m, Len(held))
           ids(n) == {held[i].id : i \in 1 .. n}
           d == m.dropped[k] \cup ids(s)
<1>1. k \in Keys /\ held \in Seq(Packet) /\ m \in Machines
  BY SoundTable, SoundFlow DEF Flow
<1>2. /\ Len(held) \in Nat /\ DOMAIN held = 1 .. Len(held)
      /\ \A i \in 1 .. Len(held) : held[i] \in Packet
  BY <1>1
<1>3. s \in 0 .. Len(held)
  BY <1>2, SuccessesType
<1>4. /\ y \in Machines
      /\ y.flows = m.flows /\ y.heldBytes = m.heldBytes
      /\ y.reassemblyBytes = m.reassemblyBytes
      /\ y.wire = m.wire /\ y.dropped = m.dropped /\ y.win = m.win
      /\ y.next = IF s = Len(held) THEN m.next ELSE "failed"
  BY <1>1, <1>2, CallsFields
<1>5. m.dropped \in [Keys -> SUBSET Nat]
  BY <1>1 DEF Machines
<1>6. d \in SUBSET Nat
  <2>1. ASSUME NEW i \in 1 .. s PROVE held[i].id \in Nat
    <3>1. held[i] \in Packet
      BY <1>2, <1>3
    <3> QED BY <3>1 DEF Packet
  <2> HIDE DEF held, s
  <2> QED BY <1>1, <1>5, <2>1
<1>7. x = [y EXCEPT !.dropped[k] = d]
  BY <1>4 DEF dropHeld
<1> HIDE DEF s, y, d, ids, held
<1> DEFINE dd == [y.dropped EXCEPT ![k] = d]
<1>8. dd \in [Keys -> SUBSET Nat] /\ dd[k] = d /\ \A j \in Keys \ {k} : dd[j] = m.dropped[j]
  BY <1>1, <1>4, <1>5, <1>6
<1>9. x = [y EXCEPT !.dropped = dd]
  BY <1>7
<1> HIDE DEF dd
<1>10. /\ x \in Machines
       /\ x.flows = y.flows /\ x.heldBytes = y.heldBytes
       /\ x.reassemblyBytes = y.reassemblyBytes
       /\ x.wire = y.wire /\ x.next = y.next /\ x.dropped = dd
  BY <1>4, <1>8, <1>9 DEF Machines
<1>11. s = Len(held) => d = m.dropped[k] \cup {held[i].id : i \in DOMAIN held}
  BY <1>2 DEF d, ids
<1>12. Dropped(m, x, k)
  BY <1>4, <1>8, <1>10, <1>11 DEF Dropped, held
<1>13. Sound(x)
  BY <1>4, <1>10 DEF Sound
<1>14. Elsewhere(m, x, k)
  BY <1>4, <1>8, <1>10 DEF Elsewhere, Held
<1> QED BY <1>12, <1>13, <1>14

\* Some of the segments of a burst are sent: no captured packet is moved.
LEMMA BurstPlaced ==
  ASSUME NEW m, Sound(m), NEW k \in Keys, NEW p \in Nat, PlacedIn(m, k, p),
         NEW plan \in Seq(Made), NEW x, Sent(m, x, k, plan)
  PROVE  PlacedIn(x, k, p)
<1>1. PICK n \in 0 .. Len(plan) : x.wire[k] = m.wire[k] \o SubSeq(plan, 1, n)
  BY DEF Sent
<1> DEFINE segs == SubSeq(plan, 1, n)
<1>2. segs \in Seq(Made)
  BY <1>1
<1> HIDE DEF segs
<1>3. \A i \in DOMAIN segs : segs[i] \in Item /\ segs[i].id = 0
  <2>1. \A i \in DOMAIN segs : segs[i] \in Made
    BY <1>2
  <2>2. \A e \in Made : e \in Item /\ e.id = 0
    BY DEF Made, Item
  <2> QED BY <2>1, <2>2
<1>4. segs \in Seq(Item)
  <2>1. Len(segs) \in Nat /\ segs \in [1 .. Len(segs) -> Made]
    BY <1>2
  <2>2. segs \in [1 .. Len(segs) -> Item]
    BY <1>3, <2>1
  <2> QED BY <2>1, <2>2
<1>5. m.wire[k] \in Seq(Item)
  BY SoundTable
<1>6. Placed(m.wire[k] \o segs, Held(m, k), m.dropped[k], p)
  BY <1>3, <1>4, <1>5, PlacedInject DEF PlacedIn
<1>7. Held(x, k) = Held(m, k) /\ x.dropped = m.dropped
  BY DEF Sent, Held
<1> QED BY <1>1, <1>6, <1>7 DEF PlacedIn, segs

\* Segments that the worker makes can be sent.
LEMMA MadeItems == Seq(Made) \subseteq Seq(Item)
<1>1. \A e \in Made : e \in Item
  BY DEF Made, Item
<1>2. ASSUME NEW s \in Seq(Made) PROVE s \in Seq(Item)
  <2>1. Len(s) \in Nat /\ s \in [1 .. Len(s) -> Made]
    OBVIOUS
  <2>2. s \in [1 .. Len(s) -> Item]
    BY <1>1, <2>1
  <2> QED BY <2>1, <2>2
<1> QED BY <1>2
\* injectWindow: the flow is injected, fails open or is left as it is.
LEMMA InjectOutcome ==
  ASSUME NEW m, Sound(m), NEW c \in Config, NEW k \in DOMAIN m.flows, m.next = "idle",
         NEW p \in Nat, PlacedIn(m, k, p), NEW win, NEW plan \in Seq(Made),
         NEW x, x = injectWindow(m, k, win, plan)
  PROVE  Outcome(m, x, c, k, p)
<1> DEFINE sent == SendAll(m, k, plan)
           idle == [sent EXCEPT !.next = "idle"]
           drop == dropHeld(sent, k)
           st == m.flows[k]
<1>1. k \in Keys /\ plan \in Seq(Item)
  BY SoundFlow, MadeItems
<1>2. Sound(sent) /\ Elsewhere(m, sent, k) /\ Sent(m, sent, k, plan)
  BY <1>1, SendSound
<1>3. \/ x = m
      \/ x = failOpen(m, k)
      \/ x = failOpen(idle, k)
      \/ /\ sent.next # "failed" /\ drop.next = "failed" /\ x = drop
      \/ /\ sent.next # "failed" /\ drop.next # "failed"
         /\ x = clearCollectingState([drop EXCEPT !.flows[k].state = "injected"], k)
  BY DEF injectWindow
<1> HIDE DEF sent
<1>4. sent.flows = m.flows /\ k \in DOMAIN sent.flows /\ Held(sent, k) = st.held
  BY <1>2 DEF Sent, Held
<1>5. PlacedIn(sent, k, p)
  BY <1>1, <1>2, BurstPlaced
<1>6. CASE x = m
  <2>1. SameData(m, x)
    BY <1>6 DEF SameData
  <2> QED BY <1>6, <2>1, SameOutcome
<1>7. CASE x = failOpen(m, k)
  BY <1>7, FailOpenOutcome
<1>8. CASE x = failOpen(idle, k)
  <2> DEFINE w == sent.win
  <2>1. idle = Goto(sent, "idle", w) /\ w \in Int
    BY <1>2, SoundTable DEF Goto, Sound, Machines
  <2> HIDE DEF idle, w
  <2>2. Sound(idle) /\ SameData(sent, idle) /\ idle.next = "idle"
    BY <1>2, <2>1, NextSound
  <2>3. Outcome(sent, idle, c, k, p)
    BY <1>4, <1>5, <2>2, SameOutcome
  <2>4. Within(m, c) => Within(idle, c)
    <3>1. /\ idle.flows = m.flows /\ idle.heldBytes = m.heldBytes
          /\ idle.reassemblyBytes = m.reassemblyBytes
      BY <1>2, <2>2 DEF Sent, SameData
    <3> QED BY <3>1 DEF Within, Held
  <2>5. PlacedIn(idle, k, p) /\ idle.flows = m.flows /\ Elsewhere(m, idle, k)
    BY <1>2, <1>4, <2>2, <2>3, ElsewhereTwice DEF Outcome, SameData
  <2>6. Outcome(m, idle, c, k, p)
    BY <2>2, <2>4, <2>5 DEF Outcome
  <2>7. Outcome(idle, x, c, k, p)
    BY <1>8, <2>2, <2>5, FailOpenOutcome
  <2> QED BY <2>2, <2>6, <2>7, OutcomeThen
<1>9. ASSUME sent.next # "failed"
      PROVE  Sound(drop) /\ Elsewhere(m, drop, k) /\ Dropped(sent, drop, k)
  <2>1. Sound(drop) /\ Elsewhere(sent, drop, k) /\ Dropped(sent, drop, k)
    BY <1>2, <1>4, <1>9, DropHeldSound
  <2> QED BY <1>2, <2>1, ElsewhereTwice
<1> HIDE DEF drop
<1>10. CASE sent.next # "failed" /\ drop.next = "failed" /\ x = drop
  BY <1>4, <1>9, <1>10 DEF Outcome, Dropped
<1>11. CASE /\ sent.next # "failed" /\ drop.next # "failed"
            /\ x = clearCollectingState([drop EXCEPT !.flows[k].state = "injected"], k)
  <2>1. Sound(drop) /\ Elsewhere(m, drop, k) /\ Dropped(sent, drop, k)
    BY <1>9, <1>11
  <2>2. drop.flows = m.flows /\ k \in DOMAIN drop.flows /\ drop.next = "idle"
        /\ drop.heldBytes = m.heldBytes /\ drop.reassemblyBytes = m.reassemblyBytes
    BY <1>2, <1>4, <1>11, <2>1 DEF Dropped, Sent
  <2>3. Sound(x) /\ Gave(drop, x, k, "injected")
    BY <1>11, <2>1, <2>2, ClearSound
  <2>4. st \in Flow /\ m.flows \in [DOMAIN m.flows -> Flow]
    BY SoundTable
  <2>5. Cleared(st, "injected").held = <<>>
    BY <2>4 DEF Cleared, Flow
  <2>6. /\ DOMAIN x.flows = DOMAIN m.flows /\ Held(x, k) = <<>>
        /\ \A j \in DOMAIN m.flows \ {k} : x.flows[j] = m.flows[j]
    BY <2>2, <2>3, <2>4, <2>5 DEF Gave, Held
  <2>7. \A j \in Keys \ {k} : Held(x, j) = Held(m, j)
    BY <2>6 DEF Held
  <2>8. Elsewhere(m, x, k)
    BY <2>1, <2>3, <2>7 DEF Elsewhere, Gave
  <2>9. PlacedIn(x, k, p)
    <3>1. drop.dropped[k] = sent.dropped[k] \cup {st.held[i].id : i \in DOMAIN st.held}
      BY <1>4, <1>11, <2>1 DEF Dropped
    <3>2. Placed(sent.wire[k], st.held, sent.dropped[k], p)
      BY <1>4, <1>5 DEF PlacedIn
    <3>3. \A i \in DOMAIN sent.wire[k] : sent.wire[k][i].id \in Nat
      BY <1>1, <1>2, SoundTable, WireIds
    <3> HIDE DEF st
    <3>4. Placed(sent.wire[k], <<>>, drop.dropped[k], p)
      BY <3>1, <3>2, <3>3, PlacedDrop
    <3> QED BY <2>1, <2>3, <2>6, <3>4 DEF PlacedIn, Gave, Dropped
  <2>10. ASSUME Within(m, c) PROVE Within(x, c)
    <3>1. WithinBut(m, c, k)
      BY <2>10, WithinWithout
    <3>2. /\ x.heldBytes = m.heldBytes - HeldAt(m.flows, k)
          /\ x.reassemblyBytes = m.reassemblyBytes - StoredAt(m.flows, k)
      BY <2>2, <2>3, SoundFlow DEF Gave
    <3>3. Len(Held(x, k)) < c.maxHeldPackets
      BY <2>6, EmptySeq, ConfigType
    <3>4. ASSUME NEW j \in DOMAIN x.flows PROVE Len(Held(x, j)) < c.maxHeldPackets
      <4>1. CASE j = k
        BY <3>3, <4>1
      <4>2. CASE j # k
        <5>1. j \in DOMAIN m.flows \ {k} /\ Held(x, j) = Held(m, j)
          BY <2>6, <2>7, <4>2, SoundTable
        <5> QED BY <3>1, <5>1 DEF WithinBut
      <4> QED BY <4>1, <4>2
    <3> QED BY <2>6, <3>1, <3>2, <3>4 DEF Within, WithinBut
  <2>11. x.next = "idle"
    BY <2>2, <2>3 DEF Gave
  <2> QED BY <2>3, <2>6, <2>8, <2>9, <2>10, <2>11 DEF Outcome
<1> QED BY <1>3, <1>6, <1>7, <1>8, <1>10, <1>11

\* gc for one idle flow: it is evicted, or stays as it is after an error.
LEMMA EvictOutcome ==
  ASSUME NEW m, Sound(m), NEW c \in Config, NEW k \in DOMAIN m.flows, m.next = "idle",
         NEW p \in Nat, PlacedIn(m, k, p), NEW x, x = evict(m, k)
  PROVE  Outcome(m, x, c, k, p) /\ x.next \in {"idle", "failed"}
<1>1. CASE m.flows[k].state = "collecting" /\ m.flows[k].held # <<>>
  <2>1. x = Delete(failOpen(m, k), k)
    BY <1>1 DEF evict
  <2>2. Ended(m, x, c, k, p)
    BY <2>1, FailOpenDeleteEnds
  <2> QED BY <2>2, WithinWithout DEF Ended, Outcome
<1>2. CASE ~(m.flows[k].state = "collecting" /\ m.flows[k].held # <<>>)
  <2>1. x = Delete(m, k)
    BY <1>2 DEF evict
  <2>2. Held(m, k) = <<>>
    BY <1>2, SoundFlow DEF FlowOK, Held
  <2>3. Outcome(m, x, c, k, p)
    BY <2>1, <2>2, DeleteOutcome
  <2>4. Deleted(m, x, k)
    BY <2>1, <2>2, DeleteSound
  <2> QED BY <2>3, <2>4 DEF Deleted
<1> QED BY <1>1, <1>2
\* Whatever the packets are, gc leaves the counters true.
LEMMA EvictSound ==
  ASSUME NEW m, Sound(m), NEW k \in DOMAIN m.flows, m.next = "idle",
         NEW x, x = evict(m, k)
  PROVE  Sound(x) /\ DOMAIN m.flows \ {k} \subseteq DOMAIN x.flows
<1>1. CASE m.flows[k].state = "collecting" /\ m.flows[k].held # <<>>
  <2> DEFINE y == failOpen(m, k)
  <2>1. x = Delete(y, k)
    BY <1>1 DEF evict
  <2>2. Sound(y) /\ Opened(m, y, k)
    BY FailOpenSound
  <2> HIDE DEF y
  <2>3. CASE y.next = "failed"
    <3>1. x = y
      BY <2>1, <2>3 DEF Delete
    <3> QED BY <2>2, <3>1 DEF Opened
  <2>4. CASE y.next # "failed"
    <3>1. k \in DOMAIN y.flows /\ Held(y, k) = <<>>
      BY <2>2, <2>4 DEF Opened
    <3>2. Sound(x) /\ Deleted(y, x, k)
      BY <2>1, <2>2, <2>4, <3>1, DeleteSound
    <3> QED BY <2>2, <3>2 DEF Opened, Deleted
  <2> QED BY <2>3, <2>4
<1>2. CASE ~(m.flows[k].state = "collecting" /\ m.flows[k].held # <<>>)
  <2>1. x = Delete(m, k)
    BY <1>2 DEF evict
  <2>2. Held(m, k) = <<>>
    BY <1>2, SoundFlow DEF FlowOK, Held
  <2>3. Sound(x) /\ Deleted(m, x, k)
    BY <2>1, <2>2, DeleteSound
  <2> QED BY <2>3 DEF Deleted
<1> QED BY <1>1, <1>2

-----------------------------------------------------------------------------
\* A handler begins with the worker's data, whatever calls are to fail.
LEMMA MachineSound ==
  ASSUME TableInv, NEW bad \in Failures
  PROVE  /\ Sound(Machine(bad)) /\ Machine(bad).next = "idle"
         /\ Machine(bad).flows = flows
         /\ \A k : Held(Machine(bad), k) = HeldPackets(k)
         /\ \A c : Within(Machine(bad), c) <=> Within(Machine({}), c)
<1>1. bad \in SUBSET Int
  BY DEF Failures
<1>2. Machine(bad) \in Machines
  <2>1. Machine({}) \in Machines
    BY DEF TableInv, Sound
  <2> QED BY <1>1, <2>1 DEF Machine, Machines
<1>3. Sound(Machine(bad))
  BY <1>2 DEF TableInv, Sound, Machine
<1>4. \A k : Held(Machine(bad), k) = HeldPackets(k)
  BY DEF Held, HeldPackets, Machine
<1>5. \A k : Held(Machine({}), k) = HeldPackets(k)
  BY DEF Held, HeldPackets, Machine
<1>6. ASSUME NEW c PROVE Within(Machine(bad), c) <=> Within(Machine({}), c)
  BY <1>4, <1>5 DEF Within, Machine
<1>7. Machine(bad).next = "idle" /\ Machine(bad).flows = flows
  BY DEF Machine
<1> QED BY <1>3, <1>4, <1>6, <1>7

\* What a sound machine leaves is sound.
LEMMA CommitSound ==
  ASSUME NEW m, Sound(m), Commit(m)
  PROVE  TableInv'
<1>1. /\ m.flows \in Tables /\ m.heldBytes \in Nat /\ m.reassemblyBytes \in Nat
      /\ m.wire \in [Keys -> Seq(Item)] /\ m.dropped \in [Keys -> SUBSET Nat]
  BY DEF Sound, Machines
<1>2. /\ flows' = m.flows /\ heldBytes' = m.heldBytes
      /\ reassemblyBytes' = m.reassemblyBytes /\ wire' = m.wire /\ dropped' = m.dropped
  BY DEF Commit
<1>3. Machine({})' = [flows |-> m.flows, heldBytes |-> m.heldBytes,
                      reassemblyBytes |-> m.reassemblyBytes, wire |-> m.wire,
                      dropped |-> m.dropped, n |-> 0, bad |-> {}, next |-> "idle", win |-> 0]
  BY <1>2 DEF Machine
<1>4. Machine({})' \in Machines
  BY <1>1, <1>3 DEF Machines
<1>5. /\ Machine({})'.flows = m.flows /\ Machine({})'.heldBytes = m.heldBytes
      /\ Machine({})'.reassemblyBytes = m.reassemblyBytes
  BY <1>3
<1>6. Sound(Machine({})')
  BY <1>4, <1>5 DEF Sound
<1> QED BY <1>6 DEF TableInv

\* A handler of flow k that ends without an error keeps all packets in place and the
\* limits.
LEMMA CommitOutcome ==
  ASSUME IInv, NEW bad \in Failures, NEW k \in Keys, NEW p, NEW m,
         Outcome(Machine(bad), m, cfg, k, p), Commit(m), pos' = [pos EXCEPT ![k] = p]
  PROVE  /\ TableInv'
         /\ m.next # "failed" /\ Intact =>
              \A j \in Keys : Placed(wire'[j], HeldPackets(j)', dropped'[j], pos'[j])
         /\ m.next # "failed" /\ Intact /\ reloads = 0 => Within(Machine({})', cfg)
<1>0. TableInv /\ PlaceInv /\ LimitInv /\ pos \in [Keys -> Nat]
  BY DEF IInv, ControlInv
<1>1. TableInv'
  BY CommitSound DEF Outcome
<1>2. /\ flows' = m.flows /\ heldBytes' = m.heldBytes
      /\ reassemblyBytes' = m.reassemblyBytes /\ wire' = m.wire /\ dropped' = m.dropped
  BY DEF Commit
<1>3. \A j : HeldPackets(j)' = Held(m, j)
  BY <1>2 DEF HeldPackets, Held
<1>4. ASSUME m.next # "failed", Intact, NEW j \in Keys
      PROVE  Placed(wire'[j], HeldPackets(j)', dropped'[j], pos'[j])
  <2>1. CASE j = k
    <3>1. pos'[j] = p
      BY <1>0, <2>1
    <3>2. PlacedIn(m, k, p)
      BY <1>4 DEF Outcome
    <3> QED BY <1>2, <1>3, <2>1, <3>1, <3>2 DEF PlacedIn
  <2>2. CASE j # k
    <3>1. pos'[j] = pos[j]
      BY <1>0, <2>2
    <3>2. Placed(wire[j], HeldPackets(j), dropped[j], pos[j])
      BY <1>0, <1>4 DEF PlaceInv
    <3>3. /\ m.wire[j] = wire[j] /\ m.dropped[j] = dropped[j]
          /\ Held(m, j) = HeldPackets(j)
      <4>1. Held(Machine(bad), j) = HeldPackets(j)
        BY <1>0, MachineSound
      <4>2. Machine(bad).wire = wire /\ Machine(bad).dropped = dropped
        BY DEF Machine
      <4> QED BY <2>2, <4>1, <4>2 DEF Outcome, Elsewhere
    <3> QED BY <1>2, <1>3, <3>1, <3>2, <3>3
  <2> QED BY <2>1, <2>2
<1>5. ASSUME m.next # "failed", Intact, reloads = 0
      PROVE  Within(Machine({})', cfg)
  <2>1. Within(Machine(bad), cfg)
    BY <1>0, <1>5, MachineSound DEF LimitInv
  <2>2. Within(m, cfg)
    BY <1>5, <2>1 DEF Outcome
  <2>3. /\ Machine({})'.flows = m.flows /\ Machine({})'.heldBytes = m.heldBytes
        /\ Machine({})'.reassemblyBytes = m.reassemblyBytes
    BY <1>2 DEF Machine
  <2>4. \A j : Held(Machine({})', j) = Held(m, j)
    BY <2>3 DEF Held
  <2> QED BY <2>2, <2>3, <2>4 DEF Within
<1> QED BY <1>1, <1>4, <1>5
\* A packet of the script is one that may come next.
LEMMA ScriptType ==
  ASSUME ControlInv, NEW k \in Keys, NEW i \in 1 .. Len(script[k])
  PROVE  /\ script[k][i] \in Packet /\ script[k][i].id = i
         /\ script[k][i].len = 0 => script[k][i].flag \in {"FIN", "RST"}
<1>1. scenario \in Scenarios
  BY DEF ControlInv
<1>2. /\ scenario.script[k] \in Seq(Packet)
      /\ \A j \in DOMAIN scenario.script[k] :
           /\ scenario.script[k][j].id = j
           /\ scenario.script[k][j].len = 0 => scenario.script[k][j].flag \in {"FIN", "RST"}
  BY <1>1, WorkerAssumption
<1> DEFINE s == scenario.script[k]
<1>3. s \in Seq(Packet) /\ i \in 1 .. Len(s)
  BY <1>2 DEF script
<1> HIDE DEF s
<1>4. i \in DOMAIN s /\ s[i] \in Packet
  BY <1>3
<1> QED BY <1>2, <1>4 DEF s, script

\* The configuration in use is one that is accepted.
LEMMA CfgType ==
  ASSUME ControlInv
  PROVE  cfg \in Config
BY WorkerAssumption DEF ControlInv

\* The packets that a flow's handler finds in place.
LEMMA MachinePlaced ==
  ASSUME IInv, Intact, NEW bad \in Failures, NEW k \in Keys
  PROVE  PlacedIn(Machine(bad), k, pos[k])
<1>1. Placed(wire[k], HeldPackets(k), dropped[k], pos[k])
  BY DEF IInv, PlaceInv
<1>2. Held(Machine(bad), k) = HeldPackets(k)
  BY MachineSound DEF IInv
<1>3. Machine(bad).wire = wire /\ Machine(bad).dropped = dropped
  BY DEF Machine
<1> QED BY <1>1, <1>2, <1>3 DEF PlacedIn

\* A handler that goes on with the next function, or ends.
LEMMA HandlerStep ==
  ASSUME IInv, pc \in {"idle", "split", "inject"}, NEW bad \in Failures, NEW k \in Keys,
         NEW p \in Nat, p <= Len(script[k]), NEW m, Outcome(Machine(bad), m, cfg, k, p),
         Continue(m, k), pos' = [pos EXCEPT ![k] = p],
         UNCHANGED <<scenario, cfg, reloads>>
  PROVE  IInv'
<1>1. Commit(m) /\ pc' = m.next /\ windowLen' = m.win /\ sweep' = sweep
      /\ cur' = IF m.next \in {"split", "inject"} THEN k ELSE "none"
  BY DEF Continue
<1>2. Intact /\ ControlInv /\ sweep = {}
  BY DEF Intact, IInv, ControlInv
<1>3. /\ TableInv'
      /\ m.next # "failed" =>
           \A j \in Keys : Placed(wire'[j], HeldPackets(j)', dropped'[j], pos'[j])
      /\ m.next # "failed" /\ reloads = 0 => Within(Machine({})', cfg)
  BY <1>1, <1>2, CommitOutcome
<1>4. m.next \in {"idle", "split", "inject", "failed"} /\ m.win \in Int
  BY SoundTable DEF Outcome
<1>5. PlaceInv'
  BY <1>1, <1>3 DEF PlaceInv, Intact
<1>6. LimitInv'
  BY <1>1, <1>3 DEF LimitInv, Intact
<1>7. ControlInv'
  <2>1. pos' \in [Keys -> Nat] /\ \A j \in Keys : pos'[j] <= Len(script[j])
    BY <1>2 DEF ControlInv
  <2>2. script' = script
    BY DEF script
  <2>3. pc' \in {"split", "inject"} => cur' \in DOMAIN flows'
    BY <1>1 DEF Outcome, Commit
  <2> QED BY <1>1, <1>2, <1>4, <2>1, <2>2, <2>3 DEF ControlInv
<1> QED BY <1>3, <1>5, <1>6, <1>7 DEF IInv

\* HandlePacket preserves the invariant.
LEMMA HandlePacketStep ==
  ASSUME IInv, NEW k \in Keys, HandlePacket(k)
  PROVE  IInv'
<1>1. ControlInv /\ TableInv /\ pc = "idle" /\ Intact /\ cfg \in Config
  BY CfgType DEF IInv, HandlePacket, Intact
<1> DEFINE p == pos[k]
           pkt == script[k][p + 1]
<1>2. PICK bad \in Failures : Continue(handlePacket(Machine(bad), cfg, k, pkt), k)
  BY DEF HandlePacket
<1>3. p \in Nat /\ p + 1 \in 1 .. Len(script[k]) /\ p + 1 <= Len(script[k])
  <2>1. p \in Nat /\ p < Len(script[k])
    BY <1>1 DEF HandlePacket, ControlInv
  <2>2. script[k] \in Seq(Packet)
    BY <1>1, WorkerAssumption DEF ControlInv, script
  <2>3. Len(script[k]) \in Nat
    BY <2>2
  <2> QED BY <2>1, <2>3
<1>4. /\ pkt \in Packet /\ pkt.id = p + 1
      /\ pkt.len = 0 => pkt.flag \in {"FIN", "RST"}
  BY <1>1, <1>3, ScriptType
<1>5. PlacedIn(Machine(bad), k, p)
  BY <1>1, MachinePlaced
<1>6. Sound(Machine(bad)) /\ Machine(bad).next = "idle"
  BY <1>1, MachineSound
<1>7. pos' = [pos EXCEPT ![k] = p + 1] /\ UNCHANGED <<scenario, cfg, reloads>>
  BY DEF HandlePacket
<1> DEFINE m0 == Machine(bad)
           x == handlePacket(m0, cfg, k, pkt)
<1>8. Continue(x, k)
  BY <1>2
<1> HIDE DEF p, pkt, m0
<1>9. Outcome(m0, x, cfg, k, p + 1)
  BY <1>1, <1>3, <1>4, <1>5, <1>6, HandleOutcome DEF m0
<1> HIDE DEF x
<1> DEFINE q == p + 1
<1>10. q \in Nat /\ q <= Len(script[k]) /\ pos' = [pos EXCEPT ![k] = q]
  BY <1>3, <1>7
<1> HIDE DEF q
<1> QED BY <1>1, <1>7, <1>8, <1>9, <1>10, HandlerStep DEF m0, q
\* TrySplitTLSHello preserves the invariant.
LEMMA TrySplitStep ==
  ASSUME IInv, TrySplitTLSHello
  PROVE  IInv'
<1>1. ControlInv /\ TableInv /\ pc = "split" /\ Intact /\ cfg \in Config
  BY CfgType DEF IInv, TrySplitTLSHello, Intact
<1>2. PICK bad \in Failures : Continue(trySplitTLSHello(Machine(bad), cfg, cur), cur)
  BY DEF TrySplitTLSHello
<1> DEFINE m0 == Machine(bad)
           k == cur
           p == pos[k]
           x == trySplitTLSHello(m0, cfg, k)
<1>3. Sound(m0) /\ m0.next = "idle" /\ k \in DOMAIN m0.flows
  BY <1>1, MachineSound DEF ControlInv
<1>4. k \in Keys
  BY <1>3, SoundFlow
<1>5. p \in Nat /\ p <= Len(script[k]) /\ pos' = [pos EXCEPT ![k] = p]
  BY <1>1, <1>4 DEF ControlInv, TrySplitTLSHello
<1>6. PlacedIn(m0, k, p)
  BY <1>1, <1>4, MachinePlaced
<1>7. UNCHANGED <<scenario, cfg, reloads>>
  BY DEF TrySplitTLSHello
<1>8. Continue(x, k)
  BY <1>2
<1> HIDE DEF p, m0, k
<1>9. Outcome(m0, x, cfg, k, p)
  BY <1>1, <1>3, <1>5, <1>6, TrySplitOutcome
<1> HIDE DEF x
<1> QED BY <1>1, <1>4, <1>5, <1>7, <1>8, <1>9, HandlerStep DEF m0

\* InjectWindow preserves the invariant.
LEMMA InjectStep ==
  ASSUME IInv, InjectWindow
  PROVE  IInv'
<1>1. ControlInv /\ TableInv /\ pc = "inject" /\ Intact /\ cfg \in Config
  BY CfgType DEF IInv, InjectWindow, Intact
<1> DEFINE plan == InjectPlan(flows[cur], cfg, windowLen)
<1>2. PICK bad \in Failures : Continue(injectWindow(Machine(bad), cur, windowLen, plan), cur)
  BY DEF InjectWindow
<1> DEFINE m0 == Machine(bad)
           k == cur
           p == pos[k]
           w == windowLen
           x == injectWindow(m0, k, w, plan)
<1>3. Sound(m0) /\ m0.next = "idle" /\ k \in DOMAIN m0.flows /\ m0.flows = flows
  BY <1>1, MachineSound DEF ControlInv
<1>4. k \in Keys /\ flows[cur] \in Flow /\ FlowOK(flows[cur])
  BY <1>3, SoundFlow
<1>5. plan \in Seq(Made)
  <2> DEFINE st == flows[cur]
  <2>1. st \in Flow /\ FlowOK(st) /\ w \in Int
    BY <1>1, <1>4 DEF ControlInv
  <2> HIDE DEF st, w
  <2>2. InjectPlan(st, cfg, w) \in Seq(Made)
    BY <1>1, <2>1, PlanType
  <2> QED BY <2>2 DEF st, w
<1>6. p \in Nat /\ p <= Len(script[k]) /\ pos' = [pos EXCEPT ![k] = p]
  BY <1>1, <1>4 DEF ControlInv, InjectWindow
<1>7. PlacedIn(m0, k, p)
  BY <1>1, <1>4, MachinePlaced
<1>8. UNCHANGED <<scenario, cfg, reloads>>
  BY DEF InjectWindow
<1>9. Continue(x, k)
  BY <1>2
<1> HIDE DEF p, m0, k, plan, w
<1>10. Outcome(m0, x, cfg, k, p)
  BY <1>1, <1>3, <1>5, <1>6, <1>7, InjectOutcome
<1> HIDE DEF x
<1> QED BY <1>1, <1>4, <1>6, <1>8, <1>9, <1>10, HandlerStep DEF m0

\* gc for one flow preserves the invariant.
LEMMA CollectGarbageStep ==
  ASSUME IInv, NEW k \in Keys, CollectGarbage(k)
  PROVE  IInv'
<1>1. /\ ControlInv /\ TableInv /\ pc \in {"gc", "gcErr"} /\ cfg \in Config
      /\ k \in sweep /\ k \in DOMAIN flows
  BY CfgType DEF IInv, ControlInv, CollectGarbage
<1>2. PICK bad \in Failures :
        LET m == evict(Machine(bad), k)
            err == pc = "gcErr" \/ m.next = "failed"
        IN /\ Commit(m)
           /\ pc' = CASE sweep' # {} /\ ~err -> "gc"
                      [] sweep' # {} /\ err  -> "gcErr"
                      [] sweep' = {} /\ ~err -> "idle"
                      [] sweep' = {} /\ err  -> "failed"
  BY DEF CollectGarbage
<1> DEFINE m0 == Machine(bad)
           x == evict(m0, k)
           p == pos[k]
<1>3. Commit(x)
  BY <1>2
<1>4. sweep' = sweep \ {k} /\ UNCHANGED <<scenario, pos, cfg, cur, windowLen, reloads>>
  BY DEF CollectGarbage
<1>5. Sound(m0) /\ m0.next = "idle" /\ k \in DOMAIN m0.flows /\ m0.flows = flows
  BY <1>1, MachineSound
<1>6. pc' \in {"gc", "gcErr", "idle", "failed"} /\ (pc' \in {"idle", "failed"} => sweep' = {})
  <2>1. CASE sweep' = {}
    <3>1. CASE pc = "gcErr" \/ x.next = "failed"
      BY <1>2, <2>1, <3>1
    <3>2. CASE ~ (pc = "gcErr" \/ x.next = "failed")
      BY <1>2, <2>1, <3>2
    <3> QED BY <3>1, <3>2
  <2>2. CASE sweep' # {}
    <3>1. CASE pc = "gcErr" \/ x.next = "failed"
      BY <1>2, <2>2, <3>1
    <3>2. CASE ~ (pc = "gcErr" \/ x.next = "failed")
      BY <1>2, <2>2, <3>2
    <3> QED BY <3>1, <3>2
  <2> QED BY <2>1, <2>2
<1>7. Intact' => x.next # "failed" /\ pc = "gc"
  <2> SUFFICES ASSUME Intact', pc = "gcErr" \/ x.next = "failed" PROVE FALSE
    BY <1>1
  <2>1. CASE sweep' = {}
    <3>1. pc' = "failed"
      BY <1>2, <2>1
    <3> QED BY <3>1 DEF Intact
  <2>2. CASE sweep' # {}
    <3>1. pc' = "gcErr"
      BY <1>2, <2>2
    <3> QED BY <3>1 DEF Intact
  <2> QED BY <2>1, <2>2
<1> HIDE DEF m0, x
<1>8. Sound(x) /\ DOMAIN flows \ {k} \subseteq DOMAIN x.flows
  BY <1>5, EvictSound DEF x
<1>9. TableInv'
  BY <1>3, <1>8, CommitSound
<1>10. sweep' \subseteq DOMAIN flows'
  BY <1>1, <1>3, <1>4, <1>8 DEF ControlInv, Commit
<1>11. ControlInv'
  <2>1. script' = script
    BY <1>4 DEF script
  <2> QED BY <1>1, <1>4, <1>6, <1>10, <2>1 DEF ControlInv
<1>12. ASSUME Intact' PROVE PlaceInv' /\ LimitInv'
  <2>1. Intact /\ x.next # "failed"
    BY <1>7, <1>12 DEF Intact
  <2>2. p \in Nat /\ pos' = [pos EXCEPT ![k] = p]
    BY <1>1, <1>4 DEF ControlInv
  <2>3. PlacedIn(m0, k, p)
    BY <2>1, MachinePlaced DEF m0
  <2> HIDE DEF p
  <2>4. Outcome(m0, x, cfg, k, p)
    BY <1>1, <1>5, <2>2, <2>3, EvictOutcome DEF x
  <2>5. /\ \A j \in Keys : Placed(wire'[j], HeldPackets(j)', dropped'[j], pos'[j])
        /\ reloads = 0 => Within(Machine({})', cfg)
    BY <1>3, <2>1, <2>2, <2>4, CommitOutcome DEF m0
  <2>6. PlaceInv'
    BY <2>5 DEF PlaceInv
  <2>7. LimitInv'
    BY <1>4, <2>5 DEF LimitInv
  <2> QED BY <2>6, <2>7
<1>13. ~Intact' => PlaceInv' /\ LimitInv'
  BY DEF PlaceInv, LimitInv
<1> QED BY <1>9, <1>11, <1>12, <1>13 DEF IInv
\* What the packets, the table and the counters are has not changed.
Steady == UNCHANGED <<pos, flows, heldBytes, reassemblyBytes, wire, dropped>>

\* Then nothing that the invariant says about them has.
LEMMA SteadyStep ==
  ASSUME Steady
  PROVE  /\ TableInv <=> TableInv'
         /\ \A k : HeldPackets(k)' = HeldPackets(k)
         /\ Machine({})' = Machine({})
<1>1. Machine({})' = Machine({})
  BY DEF Machine, Steady
<1>2. ASSUME NEW k PROVE HeldPackets(k)' = HeldPackets(k)
  BY DEF HeldPackets, Steady
<1> QED BY <1>1, <1>2 DEF TableInv

\* A step that leaves the data alone preserves the invariant, if it preserves the
\* control.
LEMMA ControlStep ==
  ASSUME IInv, Steady, ControlInv', Intact' => Intact,
         reloads' = 0 => reloads = 0 /\ cfg' = cfg
  PROVE  IInv'
<1>1. TableInv' /\ (\A k : HeldPackets(k)' = HeldPackets(k)) /\ Machine({})' = Machine({})
  BY SteadyStep DEF IInv
<1>2. PlaceInv'
  BY <1>1 DEF IInv, PlaceInv, Steady
<1>3. LimitInv'
  BY <1>1 DEF IInv, LimitInv
<1> QED BY <1>1, <1>2, <1>3 DEF IInv

\* Tick preserves the invariant.
LEMMA TickStep ==
  ASSUME IInv, Tick
  PROVE  IInv'
<1>1. ControlInv /\ pc = "idle" /\ pc' = "gc" /\ sweep' \subseteq DOMAIN flows'
  BY DEF IInv, Tick
<1>2. Steady /\ UNCHANGED <<scenario, cfg, cur, windowLen, reloads>>
  BY DEF Tick, Steady
<1>3. script' = script
  BY <1>2 DEF script
<1>4. ControlInv'
  BY <1>1, <1>2, <1>3 DEF ControlInv, Steady
<1>5. Intact
  BY <1>1 DEF Intact
<1> QED BY <1>2, <1>4, <1>5, ControlStep

\* Reload preserves the invariant.
LEMMA ReloadStep ==
  ASSUME IInv, NEW c \in Configs, Reload(c)
  PROVE  IInv'
<1>1. ControlInv /\ reloads \in Nat /\ cfg' = c /\ reloads' = reloads + 1
  BY DEF IInv, ControlInv, Reload
<1>2. Steady /\ UNCHANGED <<scenario, pc, sweep, cur, windowLen>>
  BY DEF Reload, Steady
<1>3. script' = script
  BY <1>2 DEF script
<1>4. ControlInv'
  BY <1>1, <1>2, <1>3 DEF ControlInv, Steady
<1>5. Intact' => Intact
  BY <1>2 DEF Intact
<1>6. reloads' # 0
  BY <1>1
<1> QED BY <1>2, <1>4, <1>5, <1>6, ControlStep

\* A flag of a flow changes between two packets.
LEMMA FlagStep ==
  ASSUME IInv, pc = "idle", NEW k \in DOMAIN flows, NEW st, Same(flows[k], st),
         flows' = [flows EXCEPT ![k] = st],
         UNCHANGED <<scenario, pos, cfg, heldBytes, reassemblyBytes, pc, sweep, cur,
                     windowLen, wire, dropped, reloads>>
  PROVE  IInv'
<1> DEFINE m == Machine({})
           x == PutAt(m, k, st)
<1>1. ControlInv /\ TableInv /\ PlaceInv /\ LimitInv /\ Intact
  BY DEF IInv, Intact
<1>2. Sound(m) /\ m.flows = flows
  BY <1>1 DEF TableInv, Machine
<1>3. Machine({})' = x
  BY DEF Machine, PutAt
<1> HIDE DEF m, x
<1>4. Sound(x) /\ Alike(m, x)
  BY <1>2, AlikeSound DEF x
<1>5. TableInv'
  BY <1>3, <1>4 DEF TableInv
<1>6. \A j : Held(m, j) = HeldPackets(j)
  BY DEF Held, HeldPackets, Machine, m
<1>7. x.flows = flows'
  BY <1>3 DEF Machine
<1>8. \A j : HeldPackets(j)' = Held(x, j)
  BY <1>7 DEF Held, HeldPackets
<1>9. \A j : HeldPackets(j)' = HeldPackets(j)
  BY <1>4, <1>6, <1>8, AlikeKeeps
<1>10. PlaceInv'
  BY <1>1, <1>9 DEF PlaceInv
<1>11. LimitInv'
  <2>1. Within(x, cfg) <=> Within(m, cfg)
    BY <1>4, AlikeKeeps
  <2> QED BY <1>1, <1>3, <2>1 DEF LimitInv, m
<1>12. ControlInv'
  <2>1. script' = script
    BY DEF script
  <2>2. DOMAIN flows' = DOMAIN flows
    OBVIOUS
  <2> QED BY <1>1, <2>1, <2>2 DEF ControlInv
<1> QED BY <1>5, <1>10, <1>11, <1>12 DEF IInv

\* An ACK and the passing of time change flags.
LEMMA TimeStep ==
  ASSUME IInv, NEW k \in Keys, Touch(k) \/ Expire(k) \/ GoIdle(k)
  PROVE  IInv'
<1>1. TableInv /\ pc = "idle" /\ k \in DOMAIN flows
  BY DEF IInv, Touch, Expire, GoIdle
<1>2. flows[k] \in Flow
  <2>1. Sound(Machine({})) /\ Machine({}).flows = flows
    BY <1>1 DEF TableInv, Machine
  <2> QED BY <1>1, <2>1, SoundFlow
<1>3. UNCHANGED <<scenario, pos, cfg, heldBytes, reassemblyBytes, pc, sweep, cur,
                  windowLen, wire, dropped, reloads>>
  BY DEF Touch, Expire, GoIdle
<1>4. \E b \in BOOLEAN : \/ flows' = [flows EXCEPT ![k].idle = b]
                         \/ flows' = [flows EXCEPT ![k].expired = b]
  BY DEF Touch, Expire, GoIdle
<1>5. PICK b \in BOOLEAN : \/ flows' = [flows EXCEPT ![k].idle = b]
                           \/ flows' = [flows EXCEPT ![k].expired = b]
  BY <1>4
<1>6. CASE flows' = [flows EXCEPT ![k].idle = b]
  <2> DEFINE st == [flows[k] EXCEPT !.idle = b]
  <2>1. Same(flows[k], st) /\ flows' = [flows EXCEPT ![k] = st]
    BY <1>2, <1>6 DEF Same, Flow
  <2> HIDE DEF st
  <2> QED BY <1>1, <1>3, <2>1, FlagStep
<1>7. CASE flows' = [flows EXCEPT ![k].expired = b]
  <2> DEFINE st == [flows[k] EXCEPT !.expired = b]
  <2>1. Same(flows[k], st) /\ flows' = [flows EXCEPT ![k] = st]
    BY <1>2, <1>7 DEF Same, Flow
  <2> HIDE DEF st
  <2> QED BY <1>1, <1>3, <2>1, FlagStep
<1> QED BY <1>5, <1>6, <1>7

-----------------------------------------------------------------------------
\* The worker begins with an empty table.
LEMMA InitIInv == Init => IInv
<1> SUFFICES ASSUME Init PROVE IInv
  OBVIOUS
<1>0. /\ flows = [k \in {} |-> NoPacket] /\ DOMAIN flows = {} /\ reloads = 0 /\ pc = "idle"
      /\ heldBytes = 0 /\ reassemblyBytes = 0 /\ wire = [k \in Keys |-> <<>>]
      /\ dropped = [k \in Keys |-> {}] /\ pos = [k \in Keys |-> 0]
  BY DEF Init
<1>1. IsFiniteSet({}) /\ Cardinality({}) = 0
  BY FS_EmptySet
<1>2. ControlInv
  <2>1. scenario \in Scenarios /\ scenario.config \in Configs
    BY WorkerAssumption DEF Init
  <2>2. ASSUME NEW k \in Keys PROVE pos[k] <= Len(script[k])
    <3>1. script[k] \in Seq(Packet)
      BY <2>1, WorkerAssumption DEF script
    <3>2. Len(script[k]) \in Nat
      BY <3>1
    <3> QED BY <1>0, <3>2
  <2>3. pos \in [Keys -> Nat]
    BY <1>0
  <2> QED BY <1>0, <2>1, <2>2, <2>3 DEF Init, ControlInv
<1>3. TableInv
  <2>1. flows \in [{} -> Flow]
    BY <1>0
  <2>2. flows \in Tables
    BY <2>1 DEF Tables
  <2>3. AllHeld(flows) = {} /\ AllStored(flows) = {}
    BY <1>0 DEF AllHeld, AllStored, Tagged
  <2>4. TableOK(flows)
    BY <1>0, <1>1, <2>2, <2>3 DEF TableOK
  <2>5. <<>> \in Seq(Item)
    BY EmptySeq
  <2>6. wire \in [Keys -> Seq(Item)] /\ dropped \in [Keys -> SUBSET Nat]
    BY <1>0, <2>5
  <2>7. Machine({}) \in Machines
    BY <1>0, <2>2, <2>6 DEF Machine, Machines
  <2>8. Sound(Machine({}))
    BY <1>0, <1>1, <2>3, <2>4, <2>7 DEF Sound, Machine
  <2> QED BY <2>8 DEF TableInv
<1>4. PlaceInv
  <2>1. ASSUME NEW k \in Keys PROVE Placed(wire[k], HeldPackets(k), dropped[k], pos[k])
    <3>1. HeldPackets(k) = <<>> /\ wire[k] = <<>> /\ dropped[k] = {} /\ pos[k] = 0
      BY <1>0 DEF HeldPackets
    <3>2. Placed(<<>>, <<>>, {}, 0)
      BY NoIndices DEF Placed
    <3> QED BY <3>1, <3>2
  <2> QED BY <2>1 DEF PlaceInv
<1>5. LimitInv
  <2>1. cfg \in Config
    BY <1>2, CfgType
  <2>2. \A limit \in Nat : ~Exceeds(0, limit)
    BY DEF Exceeds
  <2>3. /\ Machine({}).flows = flows /\ Machine({}).heldBytes = 0
        /\ Machine({}).reassemblyBytes = 0
    BY <1>0 DEF Machine
  <2>4. Within(Machine({}), cfg)
    BY <1>0, <1>1, <2>1, <2>2, <2>3, ConfigType DEF Within
  <2> QED BY <2>4 DEF LimitInv
<1> QED BY <1>2, <1>3, <1>4, <1>5 DEF IInv

\* Every step preserves the invariant.
LEMMA NextIInv == IInv /\ [Next]_vars => IInv'
<1> SUFFICES ASSUME IInv, [Next]_vars PROVE IInv'
  OBVIOUS
<1>1. ASSUME NEW k \in Keys, HandlePacket(k) PROVE IInv'
  BY <1>1, HandlePacketStep
<1>2. ASSUME NEW k \in Keys, Touch(k) \/ Expire(k) \/ GoIdle(k) PROVE IInv'
  BY <1>2, TimeStep
<1>3. CASE TrySplitTLSHello
  BY <1>3, TrySplitStep
<1>4. CASE InjectWindow
  BY <1>4, InjectStep
<1>5. CASE Tick
  BY <1>5, TickStep
<1>6. ASSUME NEW k \in Keys, CollectGarbage(k) PROVE IInv'
  BY <1>6, CollectGarbageStep
<1>7. ASSUME NEW c \in Configs, Reload(c) PROVE IInv'
  BY <1>7, ReloadStep
<1>8. CASE UNCHANGED vars
  <2>1. Steady /\ UNCHANGED <<scenario, cfg, pc, sweep, cur, windowLen, reloads>>
    BY <1>8 DEF vars, Steady
  <2>2. script' = script
    BY <2>1 DEF script
  <2>3. ControlInv'
    BY <2>1, <2>2 DEF IInv, ControlInv, Steady
  <2>4. Intact' => Intact
    BY <2>1 DEF Intact
  <2> QED BY <2>1, <2>3, <2>4, ControlStep
<1> QED BY <1>1, <1>2, <1>3, <1>4, <1>5, <1>6, <1>7, <1>8 DEF Next

\* handlePacket, trySplitTLSHello, injectWindow and gc keep the inductive invariant,
\* with calls of the adapter failing anywhere and the configuration reloaded between.
THEOREM IInvHolds == Spec => []IInv
<1>1. Init => IInv
  BY InitIInv
<1>2. IInv /\ [Next]_vars => IInv'
  BY NextIInv
<1> QED BY <1>1, <1>2, PTL DEF Spec

\* w.heldBytes and w.reassemblyBytes are exactly the bytes in the flow table on every
\* path through the worker, the error paths included: the budgets cannot drift.
THEOREM BudgetsExactHolds == Spec => []BudgetsExact
<1>1. IInv => BudgetsExact
  BY DEF IInv, TableInv, Sound, Machine, AllHeld, AllStored, BudgetsExact
<1> QED BY <1>1, IInvHolds, PTL

\* Under one configuration handlePacket keeps the worker within the limits on flows,
\* held packets, held bytes and reassembly bytes.
THEOREM WithinLimitsHolds == Spec => []WithinLimits
<1>1. IInv => WithinLimits
  <2> SUFFICES ASSUME IInv, reloads = 0, Intact
               PROVE  /\ ~Exceeds(Cardinality(DOMAIN flows), cfg.maxFlows)
                      /\ ~Exceeds(heldBytes, cfg.maxHeldBytes)
                      /\ ~Exceeds(reassemblyBytes, cfg.maxReassembly)
                      /\ \A k \in DOMAIN flows : Len(flows[k].held) < cfg.maxHeldPackets
    BY DEF WithinLimits
  <2>1. Within(Machine({}), cfg)
    BY DEF IInv, LimitInv
  <2>2. /\ Machine({}).flows = flows /\ Machine({}).heldBytes = heldBytes
        /\ Machine({}).reassemblyBytes = reassemblyBytes
    BY DEF Machine
  <2>3. \A k \in DOMAIN flows : Held(Machine({}), k) = flows[k].held
    BY <2>2 DEF Held
  <2> QED BY <2>1, <2>2, <2>3 DEF Within
<1> QED BY <1>1, IInvHolds, PTL

\* Captured packets of a flow leave in the order in which recvLoop captured them.
THEOREM InOrderHolds == Spec => []InOrder
<1>1. IInv => InOrder
  BY DEF IInv, PlaceInv, Placed, InOrder
<1> QED BY <1>1, IInvHolds, PTL

\* At most one index carries a given id.
LEMMA OneIndex ==
  ASSUME NEW I, NEW i \in I, \A j \in I : j = i
  PROVE  Cardinality(I) = 1
<1>1. I = {i}
  OBVIOUS
<1> QED BY <1>1, FS_Singleton

\* A packet that has one place has one verdict.
LEMMA PlacedOnce ==
  ASSUME NEW w \in Seq(Item), NEW h \in Seq(Packet), NEW d, NEW p \in Nat,
         Placed(w, h, d, p), NEW i \in 1 .. p
  PROVE  1 = Cardinality({j \in DOMAIN w : w[j].id = i})
             + Cardinality({j \in DOMAIN h : h[j].id = i})
             + (IF i \in d THEN 1 ELSE 0)
<1> DEFINE A == {j \in DOMAIN w : w[j].id = i}
           B == {j \in DOMAIN h : h[j].id = i}
<1>0. Cardinality({}) = 0
  BY FS_EmptySet
<1>1. \A j, l \in A : j = l
  <2> SUFFICES ASSUME NEW j \in A, NEW l \in A, j # l PROVE FALSE
    OBVIOUS
  <2>1. j \in Int /\ l \in Int /\ i # 0
    OBVIOUS
  <2>2. j < l \/ l < j
    BY <2>1
  <2> QED BY <2>1, <2>2 DEF Placed
<1>2. \A j, l \in B : j = l
  <2> SUFFICES ASSUME NEW j \in B, NEW l \in B, j # l PROVE FALSE
    OBVIOUS
  <2>1. j \in Int /\ l \in Int
    OBVIOUS
  <2>2. j < l \/ l < j
    BY <2>1
  <2> QED BY <2>2 DEF Placed
<1>3. A # {} => B = {} /\ i \notin d
  <2> SUFFICES ASSUME NEW j \in A PROVE B = {} /\ i \notin d
    OBVIOUS
  <2>1. i \notin d
    BY DEF Placed
  <2>2. ASSUME NEW l \in B PROVE FALSE
    <3>1. w[j].id < h[l].id
      BY DEF Placed
    <3> QED BY <3>1
  <2> QED BY <2>1, <2>2
<1>4. B # {} => i \notin d
  BY DEF Placed
<1>5. A # {} \/ B # {} \/ i \in d
  BY DEF Placed
<1> HIDE DEF A, B
<1>6. A # {} => Cardinality(A) = 1
  BY <1>1, OneIndex
<1>7. B # {} => Cardinality(B) = 1
  BY <1>2, OneIndex
<1>8. 1 = Cardinality(A) + Cardinality(B) + (IF i \in d THEN 1 ELSE 0)
  <2>1. CASE A # {}
    <3>1. Cardinality(A) = 1 /\ i \notin d
      BY <1>3, <1>6, <2>1
    <3>2. B = {}
      BY <1>3, <2>1
    <3>3. Cardinality(B) = 0
      BY <1>0, <3>2
    <3> QED BY <3>1, <3>3
  <2>2. CASE A = {} /\ B # {}
    BY <1>0, <1>4, <1>7, <2>2
  <2>3. CASE A = {} /\ B = {}
    BY <1>0, <1>5, <2>3
  <2> QED BY <2>1, <2>2, <2>3
<1> QED BY <1>8 DEF A, B

\* Every packet that handlePacket has taken gets exactly one verdict: it is still held,
\* or was sent once, or was dropped once in favour of injected segments.
THEOREM OneVerdictEachHolds == Spec => []OneVerdictEach
<1>1. IInv => OneVerdictEach
  <2> SUFFICES ASSUME IInv, Intact, NEW k \in Keys, NEW i \in 1 .. pos[k]
               PROVE  1 = Cardinality({j \in DOMAIN wire[k] : wire[k][j].id = i})
                        + Cardinality({j \in DOMAIN HeldPackets(k) : HeldPackets(k)[j].id = i})
                        + (IF i \in dropped[k] THEN 1 ELSE 0)
    BY DEF OneVerdictEach
  <2>1. /\ Placed(wire[k], HeldPackets(k), dropped[k], pos[k])
        /\ pos[k] \in Nat
    BY DEF IInv, PlaceInv, ControlInv
  <2>2. Sound(Machine({})) /\ Machine({}).flows = flows /\ Machine({}).wire = wire
    BY DEF IInv, TableInv, Machine
  <2>3. wire[k] \in Seq(Item)
    BY <2>2, SoundTable
  <2>4. HeldPackets(k) \in Seq(Packet)
    <3>1. CASE k \in DOMAIN flows
      <4>1. flows[k] \in Flow
        BY <2>2, <3>1, SoundFlow
      <4> QED BY <3>1, <4>1 DEF HeldPackets, Flow
    <3>2. CASE k \notin DOMAIN flows
      BY <3>2, EmptySeq DEF HeldPackets
    <3> QED BY <3>1, <3>2
  <2> DEFINE w == wire[k]
             h == HeldPackets(k)
             d == dropped[k]
             p == pos[k]
  <2>5. /\ w \in Seq(Item) /\ h \in Seq(Packet) /\ p \in Nat /\ Placed(w, h, d, p)
        /\ i \in 1 .. p
    BY <2>1, <2>3, <2>4
  <2> HIDE DEF w, h, d, p
  <2>6. 1 = Cardinality({j \in DOMAIN w : w[j].id = i})
            + Cardinality({j \in DOMAIN h : h[j].id = i})
            + (IF i \in d THEN 1 ELSE 0)
    BY <2>5, PlacedOnce
  <2> QED BY <2>6 DEF w, h, d
<1> QED BY <1>1, IInvHolds, PTL

-----------------------------------------------------------------------------
\* Where the bytes of the stream go.  Positions are modulo SeqSpace.

\* The remainder is the only one that fits.
LEMMA RemainderIs ==
  ASSUME NEW n \in Int, NEW m \in Nat, m >= 1, NEW q \in Int, NEW r \in 0 .. m - 1,
         n = q * m + r
  PROVE  n % m = r
<1>1. q * m \in Int /\ q * m <= n /\ n < q * m + m
  OBVIOUS
<1>2. n \div m = q
  BY <1>1, QuotientIs
<1>3. n = m * (n \div m) + (n % m)
  OBVIOUS
<1> QED BY <1>2, <1>3

\* A number and its remainder.
LEMMA Remainder ==
  ASSUME NEW n \in Int, NEW m \in Nat, m >= 1
  PROVE  /\ n % m \in 0 .. m - 1
         /\ \E q \in Int : n = q * m + (n % m)
<1> DEFINE q == n \div m
           r == n % m
<1>1. q \in Int /\ r \in 0 .. m - 1 /\ n = m * q + r
  OBVIOUS
<1> HIDE DEF q, r
<1>2. m * q = q * m
  BY <1>1
<1>3. n = q * m + r
  BY <1>1, <1>2
<1> QED BY <1>1, <1>3 DEF r

\* Sums may be reduced early.
LEMMA ModAdd ==
  ASSUME NEW a \in Int, NEW i \in Int, NEW m \in Nat, m >= 1
  PROVE  ((a % m) + i) % m = (a + i) % m
<1> DEFINE r == a % m
           b == r + i
           s == b % m
<1>1. r \in 0 .. m - 1 /\ \E p \in Int : a = p * m + r
  BY Remainder, Zenon
<1> HIDE DEF r
<1>2. b \in Int
  BY <1>1
<1> HIDE DEF b
<1>3. s \in 0 .. m - 1 /\ \E q \in Int : b = q * m + s
  BY <1>2, Remainder, Zenon
<1>4. PICK p \in Int : a = p * m + r
  BY <1>1
<1>5. PICK q \in Int : b = q * m + s
  BY <1>3
<1> HIDE DEF s
<1>6. p * m \in Int /\ q * m \in Int /\ (p + q) * m = p * m + q * m /\ p + q \in Int
  OBVIOUS
<1>7. a + i = (p + q) * m + s
  BY <1>1, <1>3, <1>4, <1>5, <1>6 DEF b
<1>8. (a + i) % m = s
  <2> DEFINE n == a + i
             t == p + q
  <2>1. n \in Int /\ t \in Int /\ n = t * m + s
    BY <1>6, <1>7
  <2> HIDE DEF n, t
  <2>2. n % m = s
    BY <1>3, <2>1, RemainderIs, Zenon
  <2> QED BY <2>2 DEF n
<1> QED BY <1>8 DEF s, b, r

\* What is less than the space is left alone.
LEMMA ModSmall ==
  ASSUME NEW m \in Nat, m >= 1, NEW a \in 0 .. m - 1
  PROVE  a % m = a
<1>1. a = 0 * m + a
  OBVIOUS
<1> QED BY <1>1, RemainderIs

\* The byte at an offset of a packet is the one at the same offset of the flow.
LEMMA OffsetByte ==
  ASSUME NEW st \in Flow, NEW pkt \in Packet, NEW i \in Int
  PROVE  /\ Offset(st, pkt) \in 0 .. SeqSpace - 1
         /\ (st.base + Offset(st, pkt) + i) % SeqSpace = (pkt.seq + i) % SeqSpace
<1>1. /\ SeqSpace \in Nat /\ SeqSpace >= 1
      /\ st.base \in Int /\ pkt.seq \in Int /\ pkt.seq - st.base \in Int
  BY SeqSpaceAssumption DEF Flow, Packet
<1>2. Offset(st, pkt) \in 0 .. SeqSpace - 1
  BY <1>1, Remainder DEF Offset
<1> DEFINE d == pkt.seq - st.base
           e == st.base + i
<1>3. d \in Int /\ e \in Int
  BY <1>1
<1>4. d % SeqSpace \in Int /\ d % SeqSpace = Offset(st, pkt)
  BY <1>2 DEF Offset
<1>5. d + e = pkt.seq + i
  BY <1>1
<1>6. Offset(st, pkt) + e = st.base + Offset(st, pkt) + i
  BY <1>1, <1>2
<1> HIDE DEF d, e
<1>7. ((d % SeqSpace) + e) % SeqSpace = (d + e) % SeqSpace
  BY <1>1, <1>3, ModAdd, Zenon
<1> QED BY <1>2, <1>4, <1>5, <1>6, <1>7

-----------------------------------------------------------------------------
\* s cuts the range from a to b into slices, in order.
Tiles(s, a, b) ==
  /\ s # <<>> /\ s[1].from = a /\ s[Len(s)].from + s[Len(s)].len = b
  /\ \A i \in 1 .. Len(s) - 1 : s[i + 1].from = s[i].from + s[i].len

\* Every number of the range is in one of the slices.
Covers(s, a, b) ==
  \A o \in a .. b - 1 : \E i \in DOMAIN s : s[i].from <= o /\ o < s[i].from + s[i].len

\* Chunks cut the range they are given.
LEMMA ChunksTile ==
  ASSUME NEW from \in Int, NEW len \in Nat, len >= 1, NEW most \in Nat, most >= 1
  PROVE  /\ Tiles(Chunks(from, len, most), from, from + len)
         /\ Covers(Chunks(from, len, most), from, from + len)
<1> DEFINE count == (len + most - 1) \div most
           s == Chunks(from, len, most)
           at(i) == (i - 1) * most
<1>1. /\ count \in Int /\ count * most \in Int
      /\ count * most <= len + most - 1 /\ len - 1 < count * most
  <2>1. /\ count \in Int /\ count * most <= len + most - 1
        /\ len + most - 1 < count * most + most
    OBVIOUS
  <2> HIDE DEF count
  <2>2. count * most \in Int
    BY <2>1
  <2> QED BY <2>1, <2>2
<1>2. s = [i \in 1 .. count |->
             [from |-> from + at(i), len |-> Smaller(most, len - at(i))]]
  BY DEF Chunks
<1> HIDE DEF count
<1>3. count >= 1
  <2>1. ASSUME count <= 0 PROVE FALSE
    <3>1. CASE count = 0
      <4>1. 0 * most = 0
        OBVIOUS
      <4> QED BY <1>1, <3>1, <4>1
    <3>2. CASE count < 0
      <4>1. count * most + most <= 0 * most
        BY <1>1, <3>2, Multiples
      <4>2. 0 * most = 0
        OBVIOUS
      <4> QED BY <1>1, <4>1, <4>2
    <3> QED BY <1>1, <2>1, <3>1, <3>2
  <2> QED BY <1>1, <2>1
<1>4. ASSUME NEW i \in Int PROVE at(i) \in Int /\ at(i + 1) = at(i) + most
  <2>1. (i - 1) * most \in Int /\ i + 1 - 1 = (i - 1) + 1
    OBVIOUS
  <2>2. ((i - 1) + 1) * most = (i - 1) * most + most
    OBVIOUS
  <2> QED BY <2>1, <2>2
<1>5. Len(s) = count /\ DOMAIN s = 1 .. count /\ s # <<>>
  <2>1. Len([i \in 1 .. count |->
              [from |-> from + at(i), len |-> Smaller(most, len - at(i))]]) = count
    BY <1>1, <1>3
  <2>2. DOMAIN s = 1 .. count
    BY <1>2
  <2> HIDE DEF s, at
  <2>3. 1 \in DOMAIN s
    BY <1>3, <1>1, <2>2
  <2> QED BY <1>2, <2>1, <2>2, <2>3, NoIndices
<1>6. ASSUME NEW i \in 1 .. count
      PROVE  s[i].from = from + at(i) /\ s[i].len = Smaller(most, len - at(i))
  BY <1>2
<1>7. at(1) = 0
  OBVIOUS
<1>8. at(count) + most = count * most
  <2>1. (count - 1) * most = count * most - most
    BY <1>1
  <2> QED BY <1>1, <2>1
<1>9. ASSUME NEW i \in 1 .. count PROVE at(i) < len /\ (i < count => at(i) + most < len)
  <2>1. at(i) \in Int /\ at(count) \in Int
    BY <1>1, <1>4
  <2>2. CASE i = count
    BY <1>1, <1>8, <2>1, <2>2
  <2>3. CASE i < count
    <3>1. i - 1 < count - 1 /\ i - 1 \in Int /\ count - 1 \in Int
      BY <1>1, <2>3
    <3>2. (i - 1) * most + most <= (count - 1) * most
      BY <3>1, Multiples
    <3> QED BY <1>1, <1>8, <2>1, <2>3, <3>2
  <2> QED BY <1>1, <2>2, <2>3
<1>10. Tiles(s, from, from + len)
  <2> HIDE DEF s, at
  <2>1. s[1].from = from
    BY <1>3, <1>6, <1>7, <1>1
  <2>2. s[count].from + s[count].len = from + len
    <3>1. count \in 1 .. count /\ at(count) \in Int
      BY <1>1, <1>3, <1>4
    <3>2. len - at(count) <= most
      BY <1>1, <1>8, <3>1
    <3> QED BY <1>6, <3>1, <3>2 DEF Smaller
  <2>3. ASSUME NEW i \in 1 .. count - 1 PROVE s[i + 1].from = s[i].from + s[i].len
    <3>1. i \in 1 .. count /\ i + 1 \in 1 .. count /\ i < count
      BY <1>1
    <3>2. at(i) \in Int /\ at(i + 1) = at(i) + most
      BY <1>4
    <3>3. at(i) + most < len
      BY <1>9, <3>1
    <3> QED BY <1>6, <3>1, <3>2, <3>3 DEF Smaller
  <2> QED BY <1>5, <2>1, <2>2, <2>3 DEF Tiles
<1>11. Covers(s, from, from + len)
  <2> SUFFICES ASSUME NEW o \in from .. from + len - 1
               PROVE  \E i \in DOMAIN s : s[i].from <= o /\ o < s[i].from + s[i].len
    BY DEF Covers
  <2> DEFINE q == (o - from) \div most
  <2>1. q \in Int /\ q * most <= o - from /\ o - from < q * most + most
    OBVIOUS
  <2> HIDE DEF q
  <2>2. q >= 0
    <3>1. ASSUME q < 0 PROVE FALSE
      <4>1. q * most + most <= 0 * most /\ 0 * most = 0 /\ q * most \in Int
        BY <2>1, <3>1, Multiples
      <4> QED BY <2>1, <4>1
    <3> QED BY <2>1, <3>1
  <2>3. q < count
    <3>1. ASSUME q >= count PROVE FALSE
      <4>1. count * most <= q * most
        <5>1. CASE q = count
          BY <1>1, <5>1
        <5>2. CASE count < q
          <6>1. count * most + most <= q * most /\ q * most \in Int
            BY <1>1, <2>1, <5>2, Multiples
          <6> QED BY <1>1, <6>1
        <5> QED BY <1>1, <2>1, <3>1, <5>1, <5>2
      <4>2. q * most \in Int
        BY <2>1
      <4> QED BY <1>1, <2>1, <4>1, <4>2
    <3> QED BY <1>1, <2>1, <3>1
  <2>4. q + 1 \in 1 .. count /\ at(q + 1) = q * most
    <3>1. q + 1 - 1 = q
      BY <2>1
    <3> QED BY <1>1, <2>1, <2>2, <2>3, <3>1
  <2> HIDE DEF s, at
  <2>5. s[q + 1].from = from + q * most /\ s[q + 1].len = Smaller(most, len - q * most)
    BY <1>6, <2>4
  <2>6. q * most \in Int
    BY <2>1
  <2>7. s[q + 1].from <= o /\ o < s[q + 1].from + s[q + 1].len
    BY <2>1, <2>5, <2>6 DEF Smaller
  <2> QED BY <1>5, <2>4, <2>7
<1> QED BY <1>10, <1>11


\* The segments of splitFirst cut the window.
LEMMA SplitFirstTiles ==
  ASSUME NEW len \in Int, len >= 1, NEW lead \in Int, NEW most \in Int,
         SplitFirst(len, lead, most) # <<>>
  PROVE  /\ Tiles(SplitFirst(len, lead, most), 0, len)
         /\ Covers(SplitFirst(len, lead, most), 0, len)
<1> DEFINE f == clampFirst(lead, most)
           head == <<[from |-> 0, len |-> f]>>
           left == len - f
           tail == Chunks(f, left, most)
           s == SplitFirst(len, lead, most)
<1>1. most >= 1 /\ f < len /\ s = head \o tail
  <2>1. ~ (most < 1 \/ len = 0 \/ f >= len)
    BY DEF SplitFirst
  <2>2. f \in Int
    BY DEF clampFirst, Smaller
  <2>3. s = head \o tail
    BY <2>1 DEF SplitFirst
  <2> HIDE DEF f, s
  <2> QED BY <2>1, <2>2, <2>3
<1>2. f \in 1 .. most
  BY <1>1, ClampFirstRange
<1> HIDE DEF f, s
<1>3. left \in Nat /\ left >= 1 /\ f + left = len /\ f \in Int /\ most \in Nat
  BY <1>1, <1>2
<1> HIDE DEF left
<1>4. Tiles(tail, f, len) /\ Covers(tail, f, len)
  <2>1. Tiles(tail, f, f + left) /\ Covers(tail, f, f + left)
    BY <1>1, <1>3, ChunksTile
  <2> QED BY <1>3, <2>1
<1>5. tail \in Seq(Slice) /\ head \in Seq(Slice) /\ Len(head) = 1 /\ head[1] \in Slice
  BY <1>1, <1>3, ChunksType DEF Slice
<1>6. head[1].from = 0 /\ head[1].len = f
  OBVIOUS
<1> DEFINE n == Len(tail)
<1> HIDE DEF head, tail
<1>7. n \in Nat \ {0} /\ tail # <<>>
  BY <1>4, <1>5, EmptySeq DEF Tiles
<1>8. /\ s \in Seq(Slice) /\ Len(s) = n + 1
      /\ \A i \in 1 .. n + 1 : s[i] = IF i <= 1 THEN head[i] ELSE tail[i - 1]
  <2>1. /\ head \o tail \in Seq(Slice) /\ Len(head \o tail) = Len(head) + Len(tail)
        /\ \A i \in 1 .. Len(head) + Len(tail) :
             (head \o tail)[i] = IF i <= Len(head) THEN head[i] ELSE tail[i - Len(head)]
    BY <1>5, ConcatProperties
  <2>2. Len(head) + Len(tail) = n + 1
    BY <1>5, <1>7
  <2> QED BY <1>1, <1>5, <2>1, <2>2
<1>9. s[1] = head[1] /\ \A i \in 1 .. n : s[i + 1] = tail[i]
  <2>1. 1 \in 1 .. n + 1
    BY <1>7
  <2>2. ASSUME NEW i \in 1 .. n PROVE s[i + 1] = tail[i]
    <3>1. i + 1 \in 1 .. n + 1 /\ ~ (i + 1 <= 1) /\ (i + 1) - 1 = i
      BY <1>7
    <3> QED BY <1>8, <3>1
  <2> QED BY <1>8, <2>1, <2>2
<1>10. Tiles(s, 0, len)
  <2>1. s # <<>>
    BY <1>7, <1>8, EmptySeq
  <2>2. s[1].from = 0
    BY <1>6, <1>9
  <2>3. s[n + 1].from + s[n + 1].len = len
    <3>1. n \in 1 .. n
      BY <1>7
    <3> QED BY <1>4, <1>9, <3>1 DEF Tiles
  <2>4. ASSUME NEW i \in 1 .. n PROVE s[i + 1].from = s[i].from + s[i].len
    <3>1. CASE i = 1
      <4>1. s[i + 1].from = f
        BY <1>4, <1>9, <3>1 DEF Tiles
      <4> QED BY <1>3, <1>6, <1>9, <3>1, <4>1
    <3>2. CASE i # 1
      <4>1. i - 1 \in 1 .. n /\ i - 1 \in 1 .. n - 1 /\ (i - 1) + 1 = i
        BY <1>7, <3>2
      <4>2. s[i] = tail[i - 1] /\ s[i + 1] = tail[i]
        BY <1>9, <4>1
      <4>3. tail[(i - 1) + 1].from = tail[i - 1].from + tail[i - 1].len
        BY <1>4, <4>1 DEF Tiles
      <4> QED BY <4>1, <4>2, <4>3
    <3> QED BY <3>1, <3>2
  <2>5. Len(s) - 1 = n
    BY <1>7, <1>8
  <2> QED BY <1>8, <2>1, <2>2, <2>3, <2>4, <2>5 DEF Tiles
<1>11. Covers(s, 0, len)
  <2> SUFFICES ASSUME NEW o \in 0 .. len - 1
               PROVE  \E i \in DOMAIN s : s[i].from <= o /\ o < s[i].from + s[i].len
    BY DEF Covers
  <2>1. DOMAIN s = 1 .. n + 1 /\ DOMAIN tail = 1 .. n
    BY <1>5, <1>8
  <2>2. CASE o < f
    <3>1. s[1].from <= o /\ o < s[1].from + s[1].len
      BY <1>3, <1>6, <1>9, <2>2
    <3>2. 1 \in DOMAIN s
      BY <1>7, <2>1
    <3> QED BY <3>1, <3>2
  <2>3. CASE o >= f
    <3>1. o \in f .. len - 1
      BY <1>3, <2>3
    <3>2. PICK i \in DOMAIN tail : tail[i].from <= o /\ o < tail[i].from + tail[i].len
      BY <1>4, <3>1 DEF Covers
    <3>3. i + 1 \in DOMAIN s /\ s[i + 1] = tail[i]
      BY <1>7, <1>9, <2>1
    <3> QED BY <3>2, <3>3
  <2> QED BY <1>3, <2>2, <2>3
<1> QED BY <1>10, <1>11 DEF s

-----------------------------------------------------------------------------
\* What is sent for the offsets from a to b of a flow, segment after segment.
WireTiles(w, st, a, b) ==
  /\ w # <<>> /\ w[1].from = (st.base + a) % SeqSpace
  /\ (w[Len(w)].from + w[Len(w)].len) % SeqSpace = (st.base + b) % SeqSpace
  /\ \A i \in 1 .. Len(w) - 1 : w[i + 1].from = (w[i].from + w[i].len) % SeqSpace

\* The bytes of items on the wire, and of packets.
WireBytes(w) == UNION {Bytes(w[i].from, w[i].len) : i \in DOMAIN w}
PacketBytes(h) == UNION {Bytes(h[i].seq, h[i].len) : i \in DOMAIN h}

\* The stream positions of a flow are numbers.
LEMMA SpaceType ==
  ASSUME NEW st \in Flow
  PROVE  st.base \in Int /\ st.base \in 0 .. SeqSpace - 1 /\ SeqSpace \in Nat /\ SeqSpace >= 1
BY SeqSpaceAssumption DEF Flow

\* Slices of the stream, as they are sent, follow each other as the slices do.
LEMMA OnWireTiles ==
  ASSUME NEW st \in Flow, NEW segs \in Seq(Slice), NEW a \in Int, NEW b \in Int,
         NEW off \in Int, Tiles(segs, a, b)
  PROVE  WireTiles(OnWire(st, segs, off), st, off + a, off + b)
<1> DEFINE w == OnWire(st, segs, off)
           n == Len(segs)
           at == st.base + off
<1>1. /\ st.base \in Int /\ SeqSpace \in Nat /\ SeqSpace >= 1 /\ at \in Int
  BY SpaceType
<1>2. /\ n \in Nat \ {0} /\ DOMAIN segs = 1 .. n
      /\ \A i \in 1 .. n : segs[i] \in Slice
      /\ \A i \in 1 .. n : segs[i].from \in Int /\ segs[i].len \in Int
  <2>1. n \in Nat \ {0} /\ DOMAIN segs = 1 .. n
    BY EmptySeq DEF Tiles
  <2>2. \A i \in 1 .. n : segs[i] \in Slice
    BY <2>1
  <2> QED BY <2>1, <2>2 DEF Slice
<1>3. /\ Len(w) = n
      /\ \A i \in 1 .. n : /\ w[i].from = (at + segs[i].from) % SeqSpace
                           /\ w[i].len = segs[i].len
  <2>1. w = [i \in 1 .. n |-> [from |-> (at + segs[i].from) % SeqSpace,
                               len |-> segs[i].len, id |-> 0]]
    BY <1>2 DEF OnWire
  <2>2. n \in Nat
    BY <1>2
  <2> HIDE DEF w, n, at
  <2> DEFINE slice(i) == [from |-> (at + segs[i].from) % SeqSpace,
                          len |-> segs[i].len, id |-> 0]
  <2>3. ASSUME NEW i \in 1 .. n
        PROVE  /\ slice(i).from = (at + segs[i].from) % SeqSpace
               /\ slice(i).len = segs[i].len
    OBVIOUS
  <2>4. w = [i \in 1 .. n |-> slice(i)]
    BY <2>1
  <2> HIDE DEF slice
  <2>5. Len(w) = n /\ \A i \in 1 .. n : w[i] = slice(i)
    BY <2>2, <2>4
  <2> QED BY <2>3, <2>5
<1>4. ASSUME NEW i \in 1 .. n
      PROVE  (w[i].from + w[i].len) % SeqSpace
               = (at + (segs[i].from + segs[i].len)) % SeqSpace
  <2> DEFINE p == at + segs[i].from
             l == segs[i].len
  <2>1. p \in Int /\ l \in Int
    BY <1>1, <1>2
  <2>2. w[i].from = p % SeqSpace /\ w[i].len = l
    BY <1>3
  <2>3. p + l = at + (segs[i].from + segs[i].len)
    BY <1>1, <1>2
  <2> HIDE DEF p, l, w, n, at
  <2>4. ((p % SeqSpace) + l) % SeqSpace = (p + l) % SeqSpace
    BY <1>1, <2>1, ModAdd, Zenon
  <2> QED BY <2>2, <2>3, <2>4
<1>5. w # <<>>
  <2>1. Len(<<>>) = 0
    BY EmptySeq
  <2> HIDE DEF w
  <2> QED BY <1>2, <1>3, <2>1
<1> HIDE DEF w
<1>6. w[1].from = (st.base + (off + a)) % SeqSpace
  <2>1. at + segs[1].from = st.base + (off + a) /\ 1 \in 1 .. n
    BY <1>1, <1>2 DEF Tiles
  <2> QED BY <1>3, <2>1
<1>7. (w[n].from + w[n].len) % SeqSpace = (st.base + (off + b)) % SeqSpace
  <2>1. n \in 1 .. n /\ at + (segs[n].from + segs[n].len) = st.base + (off + b)
    BY <1>1, <1>2 DEF Tiles
  <2> QED BY <1>4, <2>1
<1>8. ASSUME NEW i \in 1 .. n - 1
      PROVE  w[i + 1].from = (w[i].from + w[i].len) % SeqSpace
  <2>1. i \in 1 .. n /\ i + 1 \in 1 .. n
    BY <1>2
  <2>2. segs[i + 1].from = segs[i].from + segs[i].len
    BY DEF Tiles
  <2> QED BY <1>3, <1>4, <2>1, <2>2
<1> QED BY <1>3, <1>5, <1>6, <1>7, <1>8 DEF WireTiles, w

\* A byte of a stream is in a packet or segment that reaches it.
LEMMA InBytes ==
  ASSUME NEW from \in Int, NEW len \in Int, NEW i \in 0 .. len - 1
  PROVE  (from + i) % SeqSpace \in Bytes(from, len)
BY DEF Bytes

\* Slices of the stream, as they are sent, cover what the slices cover.
LEMMA OnWireCovers ==
  ASSUME NEW st \in Flow, NEW segs \in Seq(Slice), NEW a \in Int, NEW b \in Int,
         NEW off \in Int, Covers(segs, a, b), NEW o \in off + a .. off + b - 1
  PROVE  (st.base + o) % SeqSpace \in WireBytes(OnWire(st, segs, off))
<1> DEFINE w == OnWire(st, segs, off)
<1>1. /\ st.base \in Int /\ SeqSpace \in Nat /\ SeqSpace >= 1
  BY SpaceType
<1>2. o - off \in a .. b - 1
  OBVIOUS
<1>3. PICK i \in DOMAIN segs : segs[i].from <= o - off /\ o - off < segs[i].from + segs[i].len
  BY <1>2 DEF Covers
<1>4. segs[i] \in Slice /\ segs[i].from \in Int /\ segs[i].len \in Int
  <2>1. segs[i] \in Slice
    OBVIOUS
  <2> QED BY <2>1 DEF Slice
<1>5. /\ i \in DOMAIN w /\ w[i].len = segs[i].len
      /\ w[i].from = (st.base + off + segs[i].from) % SeqSpace
  BY DEF OnWire
<1> DEFINE from == segs[i].from
           len == segs[i].len
           p == st.base + off + from
           q == p % SeqSpace
           e == o - off - from
<1>6. p \in Int /\ e \in 0 .. len - 1 /\ e \in Int /\ p + e = st.base + o /\ len \in Int
  <2>1. /\ from \in Int /\ len \in Int /\ from <= o - off /\ o - off < from + len
        /\ o \in Int
    BY <1>3, <1>4
  <2> HIDE DEF from, len
  <2> QED BY <1>1, <2>1
<1>7. w[i].from = q /\ w[i].len = len
  BY <1>5
<1> HIDE DEF w, p, e, len
<1>8. q \in Int
  BY <1>1, <1>6
<1>9. (q + e) % SeqSpace = (p + e) % SeqSpace
  BY <1>1, <1>6, ModAdd, Zenon
<1> HIDE DEF q
<1>10. (q + e) % SeqSpace \in Bytes(q, len)
  BY <1>6, <1>8, InBytes
<1>11. (st.base + o) % SeqSpace \in Bytes(w[i].from, w[i].len)
  BY <1>6, <1>7, <1>9, <1>10
<1> QED BY <1>5, <1>11 DEF WireBytes, w


\* One part of a burst after the other.
LEMMA WireTilesConcat ==
  ASSUME NEW u \in Seq(Item), NEW v \in Seq(Item), NEW st, NEW a, NEW b, NEW c,
         WireTiles(u, st, a, b), WireTiles(v, st, b, c)
  PROVE  WireTiles(u \o v, st, a, c)
<1> DEFINE w == u \o v
           l == Len(u)
           n == Len(v)
<1>1. l \in Nat \ {0} /\ n \in Nat \ {0}
  BY EmptySeq DEF WireTiles
<1>2. /\ w \in Seq(Item) /\ Len(w) = l + n
      /\ \A i \in 1 .. l + n : w[i] = IF i <= l THEN u[i] ELSE v[i - l]
  BY ConcatProperties
<1> HIDE DEF w
<1>3. w # <<>>
  BY <1>1, <1>2, EmptySeq
<1>4. w[1] = u[1] /\ w[l] = u[l] /\ w[l + n] = v[n] /\ w[l + 1] = v[1]
  <2>1. 1 \in 1 .. l + n /\ 1 <= l /\ l \in 1 .. l + n /\ l + n \in 1 .. l + n
        /\ ~ (l + n <= l) /\ (l + n) - l = n /\ l + 1 \in 1 .. l + n /\ ~ (l + 1 <= l)
        /\ (l + 1) - l = 1
    BY <1>1
  <2> QED BY SMTT(20), <1>2, <2>1
<1>5. ASSUME NEW i \in 1 .. l + n - 1
      PROVE  w[i + 1].from = (w[i].from + w[i].len) % SeqSpace
  <2>1. CASE i < l
    <3>1. /\ i \in 1 .. l - 1 /\ i \in 1 .. l + n /\ i <= l
          /\ i + 1 \in 1 .. l + n /\ i + 1 <= l
      BY <1>1, <2>1
    <3>2. w[i] = u[i] /\ w[i + 1] = u[i + 1]
      BY <1>2, <3>1
    <3> QED BY <3>1, <3>2 DEF WireTiles
  <2>2. CASE i = l
    <3>1. (u[l].from + u[l].len) % SeqSpace = v[1].from
      BY DEF WireTiles
    <3> QED BY <1>4, <2>2, <3>1
  <2>3. CASE i > l
    <3>1. /\ i - l \in 1 .. n - 1 /\ i \in 1 .. l + n /\ ~ (i <= l)
          /\ i + 1 \in 1 .. l + n /\ ~ (i + 1 <= l) /\ (i + 1) - l = (i - l) + 1
      BY <1>1, <2>3
    <3>2. w[i] = v[i - l] /\ w[i + 1] = v[(i - l) + 1]
      BY <1>2, <3>1
    <3>3. v[(i - l) + 1].from = (v[i - l].from + v[i - l].len) % SeqSpace
      BY <3>1 DEF WireTiles
    <3> QED BY <3>2, <3>3
  <2> QED BY <1>1, <2>1, <2>2, <2>3
<1>6. /\ w[1].from = (st.base + a) % SeqSpace
      /\ (w[l + n].from + w[l + n].len) % SeqSpace = (st.base + c) % SeqSpace
  BY <1>4 DEF WireTiles
<1> QED BY <1>2, <1>3, <1>5, <1>6 DEF WireTiles, w

\* The bytes of one part and of the other.
LEMMA WireBytesConcat ==
  ASSUME NEW u \in Seq(Item), NEW v \in Seq(Item)
  PROVE  WireBytes(u \o v) = WireBytes(u) \cup WireBytes(v)
<1> DEFINE w == u \o v
           l == Len(u)
           n == Len(v)
<1>1. /\ w \in Seq(Item) /\ Len(w) = l + n /\ l \in Nat /\ n \in Nat
      /\ \A i \in 1 .. l + n : w[i] = IF i <= l THEN u[i] ELSE v[i - l]
  BY ConcatProperties
<1> HIDE DEF w
<1>2. DOMAIN w = 1 .. l + n /\ DOMAIN u = 1 .. l /\ DOMAIN v = 1 .. n
  BY <1>1
<1>3. ASSUME NEW i \in DOMAIN w
      PROVE  \/ i \in DOMAIN u /\ w[i] = u[i]
             \/ i - l \in DOMAIN v /\ w[i] = v[i - l]
  <2>1. CASE i <= l
    BY <1>1, <1>2, <2>1
  <2>2. CASE i > l
    <3>1. i - l \in 1 .. n /\ ~ (i <= l)
      BY <1>1, <1>2, <2>2
    <3> QED BY <1>1, <1>2, <3>1
  <2> QED BY <1>1, <1>2, <2>1, <2>2
<1>4. ASSUME NEW i \in DOMAIN u PROVE i \in DOMAIN w /\ w[i] = u[i]
  BY <1>1, <1>2
<1>5. ASSUME NEW i \in DOMAIN v PROVE i + l \in DOMAIN w /\ w[i + l] = v[i]
  <2>1. i + l \in 1 .. l + n /\ ~ (i + l <= l) /\ (i + l) - l = i
    BY <1>1, <1>2
  <2> QED BY <1>1, <1>2, <2>1
<1>6. WireBytes(w) \subseteq WireBytes(u) \cup WireBytes(v)
  <2> SUFFICES ASSUME NEW e \in WireBytes(w) PROVE e \in WireBytes(u) \cup WireBytes(v)
    OBVIOUS
  <2>1. PICK i \in DOMAIN w : e \in Bytes(w[i].from, w[i].len)
    BY DEF WireBytes
  <2>2. CASE i \in DOMAIN u /\ w[i] = u[i]
    BY <2>1, <2>2 DEF WireBytes
  <2>3. CASE i - l \in DOMAIN v /\ w[i] = v[i - l]
    BY <2>1, <2>3 DEF WireBytes
  <2> QED BY <1>3, <2>2, <2>3
<1>7. WireBytes(u) \subseteq WireBytes(w)
  BY <1>4 DEF WireBytes
<1>8. WireBytes(v) \subseteq WireBytes(w)
  BY <1>5 DEF WireBytes
<1> QED BY <1>6, <1>7, <1>8 DEF w

\* Select takes the elements at all the indices chosen.
LEMMA SelectHits ==
  ASSUME NEW seq, NEW n \in Nat, NEW I \in SUBSET (1 .. n), NEW i \in I
  PROVE  \E j \in DOMAIN Select(seq, I) : Select(seq, I)[j] = seq[i]
<1> DEFINE upTo(g) == {h \in I : h <= g}
           j == Cardinality(upTo(i))
           at == CHOOSE g \in I : Cardinality({h \in I : h <= g}) = j
<1>0. \A h \in I : h \in Int
  OBVIOUS
<1>1. IsFiniteSet(I) /\ \A g \in I : IsFiniteSet(upTo(g)) /\ g \in upTo(g)
  <2>1. IsFiniteSet(1 .. n)
    BY FS_Interval
  <2>2. IsFiniteSet(I)
    BY <2>1, FS_Subset
  <2>3. \A g \in I : upTo(g) \subseteq I
    OBVIOUS
  <2> QED BY <1>0, <2>2, <2>3, FS_Subset
<1>2. ASSUME NEW g \in I, NEW h \in I, g < h
      PROVE  Cardinality(upTo(g)) # Cardinality(upTo(h))
  <2>1. upTo(g) \subseteq upTo(h) /\ h \in upTo(h) /\ h \notin upTo(g)
    <3>1. g \in Int /\ h \in Int
      BY <1>0
    <3>2. ASSUME NEW e \in I, e <= g PROVE e <= h
      <4>1. e \in Int
        BY <1>0
      <4> QED BY <1>2, <3>1, <3>2, <4>1
    <3>3. h <= h /\ ~ (h <= g)
      BY <1>2, <3>1
    <3> QED BY <3>2, <3>3
  <2> HIDE DEF upTo
  <2>2. upTo(g) # upTo(h)
    BY <2>1
  <2> QED BY <1>1, <2>1, <2>2, FS_Subset
<1>3. j \in 1 .. Cardinality(I)
  <2>1. Cardinality(upTo(i)) <= Cardinality(I) /\ Cardinality(I) \in Nat
    <3>1. upTo(i) \subseteq I
      OBVIOUS
    <3> QED BY <1>1, <3>1, FS_Subset, FS_CardinalityType
  <2>2. j \in Nat /\ j # 0
    <3>1. upTo(i) # {}
      BY <1>1
    <3> HIDE DEF upTo
    <3> QED BY <1>1, <3>1, FS_CardinalityType, FS_EmptySet
  <2> HIDE DEF upTo
  <2> QED BY <2>1, <2>2
<1>4. at = i
  <2>1. at \in I /\ Cardinality(upTo(at)) = j
    <3>1. Cardinality({h \in I : h <= i}) = j
      OBVIOUS
    <3> HIDE DEF j
    <3> QED BY <3>1
  <2> HIDE DEF at, upTo
  <2>2. at \in Int /\ i \in Int
    BY <1>0, <2>1
  <2>3. ~ (at < i) /\ ~ (i < at)
    BY <1>2, <2>1
  <2> QED BY <2>2, <2>3
<1>5. Select(seq, I) =
        [g \in 1 .. Cardinality(I) |->
           seq[CHOOSE f \in I : Cardinality({h \in I : h <= f}) = g]]
  BY DEF Select
<1> HIDE DEF j
<1>6. j \in DOMAIN Select(seq, I) /\ Select(seq, I)[j] = seq[at]
  BY <1>3, <1>5
<1> QED BY <1>4, <1>6

\* Only one element is taken when one index is chosen.
LEMMA SelectOne ==
  ASSUME NEW seq, NEW i \in Int
  PROVE  Len(Select(seq, {i})) = 1 /\ Select(seq, {i})[1] = seq[i]
<1>1. Cardinality({i}) = 1
  BY FS_Singleton
<1>2. {h \in {i} : h <= i} = {i}
  OBVIOUS
<1>3. (CHOOSE f \in {i} : Cardinality({h \in {i} : h <= f}) = 1) = i
  BY <1>1, <1>2
<1> DEFINE at(g) == CHOOSE f \in {i} : Cardinality({h \in {i} : h <= f}) = g
<1>4. Select(seq, {i}) = [g \in 1 .. 1 |-> seq[at(g)]]
  BY <1>1 DEF Select
<1>5. at(1) = i
  BY <1>3
<1> HIDE DEF at
<1>6. [g \in 1 .. 1 |-> seq[at(g)]] = <<seq[i]>>
  BY <1>5
<1> QED BY <1>4, <1>6


-----------------------------------------------------------------------------
\* The offsets of a packet, and the offset after it.
Span(st, pkt) == Offset(st, pkt) .. Offset(st, pkt) + pkt.len - 1
End(st, pkt) == Offset(st, pkt) + pkt.len

\* The buffer of a flow stores the bytes of the packets that the flow holds.
Whole(st) ==
  /\ st.buf = UNION {Span(st, st.held[i]) : i \in DOMAIN st.held}
  /\ \A i \in DOMAIN st.held : st.held[i].len > 0

\* A buffer that packets have reached in order and without overlap has no gap.
Straight(st) == ~st.ooo /\ ~st.ovl => \A o \in st.buf : o < ContigLen(st)

\* Only the packet held last reaches beyond aim, if the flow has as much.
Ready(st, aim) ==
  /\ st.state = "collecting" /\ st.held # <<>>
  /\ ~st.ooo /\ ~st.ovl =>
       /\ \A i \in DOMAIN st.held : i < Len(st.held) => End(st, st.held[i]) <= aim
       /\ \/ ContigLen(st) < aim
          \/ /\ Offset(st, st.held[Len(st.held)]) < aim
             /\ End(st, st.held[Len(st.held)]) = ContigLen(st)

\* A held packet is a packet, at an offset.
LEMMA HeldType ==
  ASSUME NEW st \in Flow, NEW i \in DOMAIN st.held
  PROVE  /\ st.held[i] \in Packet /\ st.held[i].seq \in Int /\ st.held[i].len \in Nat
         /\ Offset(st, st.held[i]) \in Nat
<1>1. st.held \in Seq(Packet)
  BY DEF Flow
<1>2. st.held[i] \in Packet
  BY <1>1
<1> DEFINE pkt == st.held[i]
<1> HIDE DEF pkt
<1>3. pkt \in Packet
  BY <1>2 DEF pkt
<1>4. SeqSpace \in Nat /\ pkt.seq \in Int /\ pkt.len \in Nat
  BY <1>3, SpaceType DEF Packet
<1>5. Offset(st, pkt) \in 0 .. SeqSpace - 1
  BY <1>3, OffsetByte
<1>6. Offset(st, pkt) \in Nat
  BY <1>4, <1>5
<1> QED BY <1>3, <1>4, <1>6 DEF pkt

\* The bytes beyond the window are in the trimmed packets.
LEMMA TrimmedCovers ==
  ASSUME NEW st \in Flow, Whole(st), NEW win \in Int, NEW o \in st.buf, o >= win
  PROVE  (st.base + o) % SeqSpace \in WireBytes(reinjectTrimmed(st, win))
<1> DEFINE I == {i \in DOMAIN st.held : Offset(st, st.held[i]) + st.held[i].len > win}
           n == Len(st.held)
           w == reinjectTrimmed(st, win)
<1>1. n \in Nat /\ DOMAIN st.held = 1 .. n
  <2>1. st.held \in Seq(Packet)
    BY DEF Flow
  <2> QED BY <2>1
<1>2. st.base \in Int /\ SeqSpace \in Nat /\ SeqSpace >= 1
  BY SpaceType
<1>3. PICK i \in DOMAIN st.held : o \in Span(st, st.held[i])
  BY DEF Whole
<1> DEFINE pkt == st.held[i]
           off == Offset(st, pkt)
           len == pkt.len
           seq == pkt.seq
           t == NonNegative(win - off)
           p == seq + t
           q == p % SeqSpace
           e == o - off - t
<1>4. pkt \in Packet /\ off \in Int /\ len \in Int /\ seq \in Int
  BY HeldType
<1>5. o \in Int /\ off <= o /\ o < off + len
  <2>1. o \in off .. off + len - 1
    BY <1>3 DEF Span
  <2> HIDE DEF off, len
  <2> QED BY <1>4, <2>1
<1>6. i \in I
  <2>1. off + len > win
    <3> HIDE DEF off, len
    <3> QED BY <1>4, <1>5
  <2> QED BY <2>1
<1>7. PICK j \in DOMAIN Select(st.held, I) : Select(st.held, I)[j] = pkt
  <2>1. I \in SUBSET (1 .. n)
    BY <1>1
  <2> HIDE DEF I
  <2> QED BY <1>1, <1>6, <2>1, SelectHits
<1>8. j \in DOMAIN w /\ w[j].from = q /\ w[j].len = len - t
  <2>1. Beyond(st, win) = Select(st.held, I)
    BY DEF Beyond
  <2>2. j \in DOMAIN Beyond(st, win) /\ Beyond(st, win)[j] = pkt
    BY <1>7, <2>1
  <2>3. w = [h \in DOMAIN Beyond(st, win) |->
               [from |-> (Beyond(st, win)[h].seq
                            + NonNegative(win - Offset(st, Beyond(st, win)[h]))) % SeqSpace,
                len |-> Beyond(st, win)[h].len
                          - NonNegative(win - Offset(st, Beyond(st, win)[h])), id |-> 0]]
    BY DEF reinjectTrimmed
  <2> QED BY <2>2, <2>3
<1> HIDE DEF w, I
<1>9. (seq + (o - off)) % SeqSpace = (st.base + o) % SeqSpace
  <2> DEFINE g == o - off
  <2>1. g \in Int /\ st.base + off + g = st.base + o
    BY <1>2, <1>4, <1>5
  <2> HIDE DEF g
  <2>2. (st.base + Offset(st, pkt) + g) % SeqSpace = (pkt.seq + g) % SeqSpace
    BY <1>4, <2>1, OffsetByte
  <2> QED BY <2>1, <2>2 DEF g
<1>10. t \in Int /\ ((t = 0 /\ win <= off) \/ t = win - off)
  <2> HIDE DEF off
  <2>1. win - off < 0 => t = 0
    BY DEF NonNegative
  <2>2. ~ (win - off < 0) => t = win - off
    BY DEF NonNegative
  <2> HIDE DEF t
  <2> QED BY <1>4, <2>1, <2>2
<1> HIDE DEF off, len, seq, t
<1>11. /\ p \in Int /\ e \in Int /\ e \in 0 .. (len - t) - 1 /\ p + e = seq + (o - off)
       /\ len - t \in Int
  BY <1>4, <1>5, <1>10
<1> HIDE DEF p, e
<1>12. q \in Int
  BY <1>2, <1>11
<1>13. (q + e) % SeqSpace = (p + e) % SeqSpace
  BY <1>2, <1>11, ModAdd, Zenon
<1> HIDE DEF q
<1> DEFINE rest == len - t
<1>14. rest \in Int /\ e \in 0 .. rest - 1 /\ w[j].len = rest
  BY <1>8, <1>11
<1> HIDE DEF rest
<1>15. (q + e) % SeqSpace \in Bytes(q, rest)
  BY <1>12, <1>14, InBytes
<1>16. (st.base + o) % SeqSpace \in Bytes(w[j].from, w[j].len)
  BY <1>8, <1>9, <1>11, <1>13, <1>14, <1>15
<1> QED BY <1>8, <1>16 DEF WireBytes, w

\* If only the packet held last reaches beyond the window, it is trimmed to what follows
\* the window.
LEMMA TrimmedTiles ==
  ASSUME NEW st \in Flow, NEW win \in Int, NEW n, n = Len(st.held), st.held # <<>>,
         \A i \in DOMAIN st.held : i < n => End(st, st.held[i]) <= win,
         Offset(st, st.held[n]) < win, End(st, st.held[n]) > win
  PROVE  WireTiles(reinjectTrimmed(st, win), st, win, End(st, st.held[n]))
<1> DEFINE w == reinjectTrimmed(st, win)
           pkt == st.held[n]
           off == Offset(st, pkt)
           len == pkt.len
           seq == pkt.seq
           t == win - off
           p == seq + t
           left == len - t
<1>1. n \in Nat \ {0} /\ DOMAIN st.held = 1 .. n /\ n \in DOMAIN st.held
  <2>1. st.held \in Seq(Packet)
    BY DEF Flow
  <2> QED BY <2>1, EmptySeq
<1>2. st.base \in Int /\ SeqSpace \in Nat /\ SeqSpace >= 1
  BY SpaceType
<1>3. pkt \in Packet /\ off \in Int /\ len \in Int /\ seq \in Int
  BY <1>1, HeldType
<1>4. {i \in DOMAIN st.held : Offset(st, st.held[i]) + st.held[i].len > win} = {n}
  <2>1. ASSUME NEW i \in DOMAIN st.held, i # n
        PROVE  ~ (Offset(st, st.held[i]) + st.held[i].len > win)
    <3>1. i < n
      BY <1>1, <2>1
    <3>2. Offset(st, st.held[i]) + st.held[i].len <= win
      BY <3>1 DEF End
    <3>3. Offset(st, st.held[i]) \in Int /\ st.held[i].len \in Int
      BY HeldType
    <3> QED BY <3>2, <3>3
  <2>2. Offset(st, st.held[n]) + st.held[n].len > win
    BY DEF End
  <2> QED BY <1>1, <2>1, <2>2
<1>5. Len(Beyond(st, win)) = 1 /\ Beyond(st, win)[1] = pkt
  BY <1>1, <1>4, SelectOne DEF Beyond
<1>6. DOMAIN Beyond(st, win) = 1 .. 1
  <2>1. Beyond(st, win) \in Seq(Packet)
    <3>1. st.held \in Seq(Packet)
      BY DEF Flow
    <3> QED BY <3>1, SelectType DEF Beyond
  <2> QED BY <1>5, <2>1
<1>7. NonNegative(win - Offset(st, pkt)) = t
  <2> HIDE DEF off
  <2>1. ~ (win - off < 0)
    BY <1>3 DEF off
  <2> QED BY <2>1 DEF NonNegative, off
<1>8. w = [h \in 1 .. 1 |-> [from |-> p % SeqSpace, len |-> left, id |-> 0]]
  <2>1. w = [h \in 1 .. 1 |->
               [from |-> (Beyond(st, win)[h].seq
                            + NonNegative(win - Offset(st, Beyond(st, win)[h]))) % SeqSpace,
                len |-> Beyond(st, win)[h].len
                          - NonNegative(win - Offset(st, Beyond(st, win)[h])), id |-> 0]]
    BY <1>6 DEF reinjectTrimmed
  <2> QED BY <1>5, <1>7, <2>1
<1> HIDE DEF w
<1>9. Len(w) = 1 /\ w # <<>> /\ w[1].from = p % SeqSpace /\ w[1].len = left
  <2> HIDE DEF p, left
  <2>1. Len(w) = 1 /\ w[1].from = p % SeqSpace /\ w[1].len = left
    BY <1>8
  <2>2. w # <<>>
    <3>1. Len(w) = 1 /\ Len(<<>>) = 0
      BY <2>1, EmptySeq
    <3>2. Len(w) # Len(<<>>)
      BY <3>1
    <3> QED BY <3>2, Zenon
  <2> QED BY <2>1, <2>2
<1>10. ASSUME NEW g \in Int
       PROVE  (seq + g) % SeqSpace = (st.base + (off + g)) % SeqSpace
  <2>1. (st.base + Offset(st, pkt) + g) % SeqSpace = (pkt.seq + g) % SeqSpace
    BY <1>3, OffsetByte
  <2>2. st.base + off + g = st.base + (off + g)
    BY <1>2, <1>3
  <2> QED BY <2>1, <2>2
<1>11. End(st, pkt) = off + len
  BY DEF End
<1> HIDE DEF off, len, seq, pkt
<1>12. t \in Int /\ p \in Int /\ left \in Int /\ off + t = win /\ p + left = seq + len
  BY <1>3
<1>13. p % SeqSpace = (st.base + win) % SeqSpace
  BY <1>10, <1>12
<1>14. ((p % SeqSpace) + left) % SeqSpace = (st.base + (off + len)) % SeqSpace
  <2>1. (seq + len) % SeqSpace = (st.base + (off + len)) % SeqSpace
    BY <1>3, <1>10
  <2> HIDE DEF p, left
  <2>2. ((p % SeqSpace) + left) % SeqSpace = (p + left) % SeqSpace
    BY <1>2, <1>12, ModAdd, Zenon
  <2> QED BY <1>12, <2>1, <2>2
<1> QED BY <1>9, <1>11, <1>13, <1>14 DEF WireTiles, w, pkt


-----------------------------------------------------------------------------
\* The stream bytes at the offsets from a to b are sent.
WireCovers(w, st, a, b) == \A o \in a .. b - 1 : (st.base + o) % SeqSpace \in WireBytes(w)

\* What is sent after the window: nothing, the trimmed packets, or chunks.
RestOf(st, win, v) ==
  LET contig == ContigLen(st)
  IN \/ v = <<>> /\ win = contig
     \/ win < contig /\ ~st.ooo /\ ~st.ovl /\ v = reinjectTrimmed(st, win)
     \/ /\ win < contig /\ (st.ooo \/ st.ovl)
        /\ WireTiles(v, st, win, contig) /\ WireCovers(v, st, win, contig)

\* A burst is the window and what follows it.
LEMMA PlanParts ==
  ASSUME NEW st \in Flow, FlowOK(st), NEW c \in Config, NEW win \in Int,
         win <= ContigLen(st), InjectPlan(st, c, win) # <<>>
  PROVE  /\ win >= 1
         /\ \E u, v \in Seq(Made) :
              /\ InjectPlan(st, c, win) = u \o v
              /\ WireTiles(u, st, 0, win) /\ WireCovers(u, st, 0, win)
              /\ RestOf(st, win, v)
<1> DEFINE most == clampSegmentPayload(st.tpl.len, HeaderLen, c.maxSegment, IPMax)
           lead == c.splitChunk
           split == SplitFirst(win, lead, most)
           contig == ContigLen(st)
           rest == contig - win
           chunks == ChunkPayload(0, rest, most)
           u == OnWire(st, split, 0)
           v == IF rest = 0 THEN <<>>
                ELSE IF ~st.ooo /\ ~st.ovl THEN reinjectTrimmed(st, win)
                ELSE OnWire(st, chunks, win)
           plan == InjectPlan(st, c, win)
<1>1. most \in Int
  <2>1. st.tpl.len \in Int /\ c.maxSegment \in Int /\ HeaderLen \in Int /\ IPMax \in Int
    BY WorkerAssumption DEF Flow, Packet, Config
  <2> QED BY <2>1, ClampType
<1>2. contig \in Nat /\ rest \in Nat /\ lead \in Int /\ win + rest = contig
  <2>1. contig \in Nat
    BY ContigLenType
  <2> QED BY <2>1 DEF Config
<1>3. /\ plan = u \o v
      /\ ~ (win < 1) /\ ~ (most < 1) /\ ~ (Len(split) < 2)
  BY DEF InjectPlan
<1> HIDE DEF most, lead, contig, plan
<1>4. win >= 1 /\ most >= 1 /\ most \in Nat
  BY <1>1, <1>3
<1>5. split # <<>>
  <2>1. ASSUME split = <<>> PROVE FALSE
    <3>1. Len(split) = 0
      BY <2>1, EmptySeq
    <3> HIDE DEF split
    <3> QED BY <1>3, <3>1
  <2> QED BY <2>1
<1>6. Tiles(split, 0, win) /\ Covers(split, 0, win) /\ split \in Seq(Slice)
  BY <1>1, <1>2, <1>4, <1>5, SplitFirstTiles, SplitType
<1>7. chunks \in Seq(Slice)
  <2> HIDE DEF rest
  <2>1. \A from \in Int : ChunkPayload(from, rest, most) \in Seq(Slice)
    BY <1>1, <1>2, SplitType
  <2> QED BY <2>1
<1> HIDE DEF split
<1>8. WireTiles(u, st, 0, win) /\ WireCovers(u, st, 0, win)
  <2>1. WireTiles(u, st, 0 + 0, 0 + win)
    BY <1>6, OnWireTiles
  <2>2. \A o \in 0 + 0 .. 0 + win - 1 : (st.base + o) % SeqSpace \in WireBytes(u)
    BY <1>6, OnWireCovers
  <2>3. 0 + 0 = 0 /\ 0 + win = win
    OBVIOUS
  <2> HIDE DEF u
  <2> QED BY <2>1, <2>2, <2>3 DEF WireCovers
<1>9. RestOf(st, win, v) /\ v \in Seq(Made)
  <2>1. CASE rest = 0
    <3>1. v = <<>>
      BY <2>1
    <3>2. win = ContigLen(st)
      BY <1>2, <2>1 DEF contig
    <3> QED BY <3>1, <3>2, EmptySeq DEF RestOf
  <2>2. CASE rest # 0 /\ ~st.ooo /\ ~st.ovl
    <3>1. v = reinjectTrimmed(st, win)
      BY <2>2
    <3>2. win < ContigLen(st)
      BY <1>2, <2>2 DEF contig
    <3> QED BY <2>2, <3>1, <3>2, TrimmedType DEF RestOf
  <2>3. CASE rest # 0 /\ (st.ooo \/ st.ovl)
    <3>1. v = OnWire(st, chunks, win)
      BY <2>3
    <3>2. win < ContigLen(st)
      BY <1>2, <2>3 DEF contig
    <3> DEFINE from == win + 0
               to == win + rest
    <3> HIDE DEF rest
    <3>3. rest >= 1
      BY <1>2, <2>3
    <3>4. chunks = Chunks(0, rest, most)
      BY <1>4, <3>3 DEF ChunkPayload
    <3>5. Tiles(chunks, 0, 0 + rest) /\ Covers(chunks, 0, 0 + rest)
      BY <1>2, <1>4, <3>3, <3>4, ChunksTile
    <3>6. 0 + rest = rest /\ from = win /\ to = ContigLen(st)
      BY <1>2 DEF contig
    <3> HIDE DEF chunks, v
    <3>7. WireTiles(v, st, from, to)
      BY <1>2, <1>7, <3>1, <3>5, <3>6, OnWireTiles
    <3>8. \A o \in from .. to - 1 : (st.base + o) % SeqSpace \in WireBytes(v)
      BY <1>2, <1>7, <3>1, <3>5, <3>6, OnWireCovers
    <3> HIDE DEF from, to
    <3>9. WireTiles(v, st, win, ContigLen(st)) /\ WireCovers(v, st, win, ContigLen(st))
      BY <3>6, <3>7, <3>8 DEF WireCovers
    <3>10. v \in Seq(Made)
      BY <1>7, <3>1, OnWireType
    <3> QED BY <2>3, <3>2, <3>9, <3>10 DEF RestOf
  <2> QED BY <2>1, <2>2, <2>3
<1>10. u \in Seq(Made)
  BY <1>6, OnWireType
<1> HIDE DEF u, v
<1> QED BY <1>3, <1>4, <1>8, <1>9, <1>10 DEF plan

\* A burst sends the whole prefix, whatever the packets were.
LEMMA PlanCovers ==
  ASSUME NEW st \in Flow, FlowOK(st), Whole(st), NEW c \in Config, NEW win \in Int,
         win <= ContigLen(st), InjectPlan(st, c, win) # <<>>
  PROVE  WireCovers(InjectPlan(st, c, win), st, 0, ContigLen(st))
<1>1. win >= 1
  BY PlanParts
<1>2. PICK u, v \in Seq(Made) :
        /\ InjectPlan(st, c, win) = u \o v
        /\ WireCovers(u, st, 0, win) /\ RestOf(st, win, v)
  BY PlanParts
<1> DEFINE plan == InjectPlan(st, c, win)
           contig == ContigLen(st)
<1> HIDE DEF plan
<1>3. WireBytes(plan) = WireBytes(u) \cup WireBytes(v)
  BY <1>2, MadeItems, WireBytesConcat DEF plan
<1>4. contig \in Nat /\ st.buf \in SUBSET Nat /\ st.max \in Nat
  BY ContigLenType DEF Flow
<1> SUFFICES ASSUME NEW o \in 0 .. contig - 1
             PROVE  (st.base + o) % SeqSpace \in WireBytes(plan)
  BY DEF WireCovers, plan
<1> DEFINE e == (st.base + o) % SeqSpace
<1> HIDE DEF e
<1>5. CASE o < win
  <2>1. o \in 0 .. win - 1
    BY <1>4, <1>5
  <2> QED BY <1>2, <1>3, <2>1 DEF WireCovers
<1>6. CASE o >= win
  <2>1. o \in win .. contig - 1 /\ win < contig
    BY <1>4, <1>6
  <2>2. o \in st.buf
    BY <1>4, PrefixLenType DEF ContigLen, FlowOK
  <2>3. \/ v = reinjectTrimmed(st, win)
        \/ WireCovers(v, st, win, contig)
    <3> HIDE DEF contig
    <3>1. win # contig
      BY <1>4, <2>1
    <3> QED BY <1>2, <3>1 DEF RestOf, contig
  <2>4. CASE v = reinjectTrimmed(st, win)
    <3>1. (st.base + o) % SeqSpace \in WireBytes(v)
      BY <1>6, <2>2, <2>4, TrimmedCovers
    <3> QED BY <1>3, <3>1
  <2>5. CASE WireCovers(v, st, win, contig)
    BY <1>3, <2>1, <2>5 DEF WireCovers
  <2> QED BY <2>3, <2>4, <2>5
<1> QED BY <1>4, <1>5, <1>6

\* A burst sends the prefix in order and once, if only the packet held last reaches beyond
\* the window.
LEMMA PlanTiles ==
  ASSUME NEW st \in Flow, FlowOK(st), NEW c \in Config, NEW win \in Int, Ready(st, win),
         win <= ContigLen(st), InjectPlan(st, c, win) # <<>>
  PROVE  WireTiles(InjectPlan(st, c, win), st, 0, ContigLen(st))
<1> DEFINE contig == ContigLen(st)
           n == Len(st.held)
<1>1. PICK u, v \in Seq(Made) :
        /\ InjectPlan(st, c, win) = u \o v
        /\ WireTiles(u, st, 0, win) /\ RestOf(st, win, v)
  BY PlanParts
<1>2. u \in Seq(Item) /\ v \in Seq(Item)
  BY MadeItems
<1>3. contig \in Nat
  BY ContigLenType
<1>4. CASE v = <<>> /\ win = contig
  <2>1. u \o v = u
    BY <1>2, <1>4, ConcatEmptySeq
  <2> QED BY <1>1, <1>4, <2>1
<1>5. CASE win < contig /\ ~st.ooo /\ ~st.ovl /\ v = reinjectTrimmed(st, win)
  <2> DEFINE last == st.held[n]
  <2>1. /\ st.held # <<>>
        /\ \A i \in DOMAIN st.held : i < n => End(st, st.held[i]) <= win
        /\ contig < win \/ (Offset(st, last) < win /\ End(st, last) = contig)
    BY <1>5 DEF Ready
  <2> HIDE DEF contig, n
  <2>2. ~ (contig < win)
    BY <1>3, <1>5
  <2>3. Offset(st, last) < win /\ End(st, last) = contig /\ End(st, last) > win
    BY <1>3, <1>5, <2>1, <2>2
  <2>4. WireTiles(v, st, win, contig)
    BY <1>5, <2>1, <2>3, TrimmedTiles DEF n
  <2>5. WireTiles(u \o v, st, 0, contig)
    BY <1>1, <1>2, <2>4, WireTilesConcat
  <2> QED BY <1>1, <2>5 DEF contig
<1>6. CASE WireTiles(v, st, win, contig)
  <2>1. WireTiles(u \o v, st, 0, contig)
    BY <1>1, <1>2, <1>6, WireTilesConcat
  <2> QED BY <1>1, <2>1
<1> QED BY <1>1, <1>4, <1>5, <1>6 DEF RestOf


-----------------------------------------------------------------------------
\* The prefix that a collecting flow waits for: the first packet again, the record that a
\* ClientHello fills, or enough of it to see that it is none.
Aim(k, st, c) ==
  IF c.mode = "immediate" THEN st.first
  ELSE IF DetectClientHelloRecord(6, HeaderAt(k, st.base)) = "match"
    THEN 5 + Hello[k].recordLen ELSE 6

\* Both together, of a flow and of flow k of m.
DataOK(st) == Whole(st) /\ Straight(st)
DataIn(m, k) == k \in DOMAIN m.flows => DataOK(m.flows[k])

\* The flow does not collect.
Closed(m, k) == k \in DOMAIN m.flows => m.flows[k].state # "collecting"

\* The bytes of flow k that are sent or held.
Reach(m, k) == WireBytes(m.wire[k]) \cup PacketBytes(Held(m, k))

\* x is m but for flow k.
Kept(m, x, k) ==
  /\ DOMAIN x.flows \subseteq DOMAIN m.flows \cup {k}
  /\ DOMAIN m.flows \ {k} \subseteq DOMAIN x.flows
  /\ \A j \in DOMAIN m.flows \ {k} : x.flows[j] = m.flows[j]

\* Between two handlers a collecting flow has less than it waits for.
Rest(m, c, k) ==
  k \in DOMAIN m.flows /\ m.flows[k].state = "collecting" =>
    ContigLen(m.flows[k]) < Aim(k, m.flows[k], c)

\* What the next function of the handler finds.
Go(m, c, k) ==
  /\ k \in DOMAIN m.flows /\ Ready(m.flows[k], Aim(k, m.flows[k], c))
  /\ m.next = "inject" => m.win = Aim(k, m.flows[k], c)
  /\ m.next = "split" => c.mode = "tls-hello"

\* What flow k waits for when m goes on with the next function of the handler.
Waits(m, c, k) ==
  IF m.next \in {"split", "inject"} THEN Go(m, c, k) ELSE Rest(m, c, k)

\* What a handler does with the bytes B that it is given and those of flow k.
Effect(m, x, k, B) ==
  /\ Kept(m, x, k)
  /\ x.next # "failed" => Reach(m, k) \cup B \subseteq Reach(x, k) /\ DataIn(x, k)

\* One thing after another.
LEMMA EffectThen ==
  ASSUME NEW m, NEW y, NEW x, NEW k, NEW A, NEW B,
         Effect(m, y, k, A), y.next # "failed", Effect(y, x, k, B)
  PROVE  Effect(m, x, k, A \cup B)
<1>1. Kept(m, y, k) /\ Kept(y, x, k)
  BY DEF Effect
<1>2. Kept(m, x, k)
  BY <1>1 DEF Kept
<1>3. ASSUME x.next # "failed"
      PROVE  Reach(m, k) \cup (A \cup B) \subseteq Reach(x, k) /\ DataIn(x, k)
  BY <1>3 DEF Effect
<1> QED BY <1>2, <1>3 DEF Effect

\* A flow that does not collect has no data to lose and waits for nothing.
LEMMA ClosedData ==
  ASSUME NEW m, Sound(m), NEW k, Closed(m, k)
  PROVE  DataIn(m, k) /\ \A c : Rest(m, c, k)
<1>1. ASSUME k \in DOMAIN m.flows PROVE DataOK(m.flows[k])
  <2> DEFINE st == m.flows[k]
  <2>1. FlowOK(st) /\ st.state # "collecting"
    BY <1>1, SoundFlow DEF Closed
  <2>2. st.held = <<>> /\ st.buf = {}
    BY <2>1 DEF FlowOK
  <2> HIDE DEF st
  <2>3. DOMAIN st.held = {}
    BY <2>2, NoIndices
  <2>4. {Span(st, st.held[i]) : i \in DOMAIN st.held} = {}
    BY <2>3
  <2>5. Whole(st)
    BY <2>2, <2>3, <2>4 DEF Whole
  <2> QED BY <2>2, <2>5 DEF DataOK, Straight, st
<1> QED BY <1>1 DEF DataIn, Rest, Closed

\* The bytes of packets are those of what is sent for them.
LEMMA HeldOutBytes ==
  ASSUME NEW st \in Flow
  PROVE  WireBytes(HeldOut(st)) = PacketBytes(st.held)
<1>1. DOMAIN HeldOut(st) = DOMAIN st.held
  BY HeldOutType
<1>2. ASSUME NEW i \in DOMAIN st.held
      PROVE  HeldOut(st)[i].from = st.held[i].seq /\ HeldOut(st)[i].len = st.held[i].len
  BY DEF HeldOut, Wire
<1> QED BY <1>1, <1>2 DEF WireBytes, PacketBytes

\* The bytes of one item.
LEMMA WireOne ==
  ASSUME NEW item
  PROVE  WireBytes(<<item>>) = Bytes(item.from, item.len)
<1>1. DOMAIN <<item>> = {1} /\ <<item>>[1] = item
  OBVIOUS
<1> DEFINE w == <<item>>
<1> HIDE DEF w
<1>2. DOMAIN w = {1} /\ w[1] = item
  BY <1>1 DEF w
<1>3. WireBytes(w) = Bytes(item.from, item.len)
  BY <1>2 DEF WireBytes
<1> QED BY <1>3 DEF w

\* A packet that is held adds its bytes.
LEMMA HeldOne ==
  ASSUME NEW h \in Seq(Packet), NEW pkt \in Packet
  PROVE  PacketBytes(h) \cup Bytes(pkt.seq, pkt.len) \subseteq PacketBytes(Append(h, pkt))
<1> DEFINE a == Append(h, pkt)
           n == Len(h)
<1>1. /\ n \in Nat /\ DOMAIN h = 1 .. n /\ DOMAIN a = 1 .. n + 1
      /\ a[n + 1] = pkt /\ \A i \in 1 .. n : a[i] = h[i]
  OBVIOUS
<1> HIDE DEF a, n
<1>2. n + 1 \in DOMAIN a /\ \A i \in DOMAIN h : i \in DOMAIN a
  BY <1>1
<1>3. PacketBytes(h) \subseteq PacketBytes(a)
  BY <1>1, <1>2 DEF PacketBytes
<1>4. Bytes(pkt.seq, pkt.len) \subseteq PacketBytes(a)
  BY <1>1, <1>2 DEF PacketBytes
<1> QED BY <1>3, <1>4 DEF a

\* A flow that holds nothing holds no bytes.
LEMMA NoBytes == PacketBytes(<<>>) = {}
BY NoIndices DEF PacketBytes

\* What is sent is added to what was.
LEMMA SendReach ==
  ASSUME NEW m, Sound(m), NEW k \in Keys, NEW items \in Seq(Item), m.next # "failed",
         NEW x, x = SendAll(m, k, items)
  PROVE  /\ Sound(x) /\ x.flows = m.flows /\ Kept(m, x, k)
         /\ x.next \in {m.next, "failed"} /\ x.win = m.win
         /\ x.next # "failed" => Reach(x, k) = Reach(m, k) \cup WireBytes(items)
<1>1. Sound(x) /\ Sent(m, x, k, items)
  BY SendSound
<1>2. x.flows = m.flows /\ x.next \in {m.next, "failed"} /\ x.win = m.win
  BY <1>1 DEF Sent
<1>3. Kept(m, x, k)
  BY <1>2 DEF Kept
<1>4. ASSUME x.next # "failed" PROVE Reach(x, k) = Reach(m, k) \cup WireBytes(items)
  <2>1. x.wire[k] = m.wire[k] \o items /\ m.wire[k] \in Seq(Item)
    BY <1>1, <1>4, SoundTable DEF Sent
  <2>2. WireBytes(x.wire[k]) = WireBytes(m.wire[k]) \cup WireBytes(items)
    BY <2>1, WireBytesConcat
  <2>3. Held(x, k) = Held(m, k)
    BY <1>2 DEF Held
  <2> QED BY <2>2, <2>3 DEF Reach
<1> QED BY <1>1, <1>2, <1>3, <1>4

\* A packet that is passed through is sent.
LEMMA PassData ==
  ASSUME NEW m, Sound(m), NEW k \in Keys, m.next = "idle", DataIn(m, k),
         NEW pkt \in Packet, NEW x, x = Send(m, k, Wire(pkt))
  PROVE  /\ Sound(x) /\ x.flows = m.flows /\ x.next \in {"idle", "failed"}
         /\ Effect(m, x, k, Bytes(pkt.seq, pkt.len))
         /\ \A c : Rest(m, c, k) => Rest(x, c, k)
<1>1. <<Wire(pkt)>> \in Seq(Item) /\ x = SendAll(m, k, <<Wire(pkt)>>)
  <2>1. Wire(pkt) \in Item
    BY SeqSpaceAssumption DEF Wire, Packet, Item
  <2> QED BY <2>1 DEF Send
<1>2. /\ Sound(x) /\ x.flows = m.flows /\ Kept(m, x, k) /\ x.next \in {"idle", "failed"}
      /\ x.next # "failed" => Reach(x, k) = Reach(m, k) \cup WireBytes(<<Wire(pkt)>>)
  <2> DEFINE items == <<Wire(pkt)>>
  <2> HIDE DEF items
  <2>1. items \in Seq(Item) /\ x = SendAll(m, k, items) /\ m.next # "failed"
    BY <1>1 DEF items
  <2>2. /\ Sound(x) /\ x.flows = m.flows /\ Kept(m, x, k) /\ x.next \in {m.next, "failed"}
        /\ x.next # "failed" => Reach(x, k) = Reach(m, k) \cup WireBytes(items)
    BY <2>1, SendReach
  <2> QED BY <2>2 DEF items
<1>3. WireBytes(<<Wire(pkt)>>) = Bytes(pkt.seq, pkt.len)
  <2>1. Wire(pkt).from = pkt.seq /\ Wire(pkt).len = pkt.len
    BY DEF Wire
  <2> QED BY <2>1, WireOne
<1>4. DataIn(x, k) /\ \A c : Rest(m, c, k) => Rest(x, c, k)
  BY <1>2 DEF DataIn, Rest
<1> QED BY <1>2, <1>3, <1>4 DEF Effect

\* failOpen sends what was held.
LEMMA FailOpenData ==
  ASSUME NEW m, Sound(m), NEW k \in DOMAIN m.flows, m.next = "idle",
         NEW x, x = failOpen(m, k)
  PROVE  /\ Sound(x) /\ Effect(m, x, k, {}) /\ x.next \in {"idle", "failed"}
         /\ DOMAIN x.flows = DOMAIN m.flows
         /\ x.flows[k].state \in {m.flows[k].state, "pass"}
         /\ x.next # "failed" => Closed(x, k) /\ Held(x, k) = <<>>
<1> DEFINE st == m.flows[k]
           y == SendAll(m, k, HeldOut(st))
<1>0. k \in Keys /\ st \in Flow /\ m.flows \in [DOMAIN m.flows -> Flow]
  BY SoundTable
<1>1. HeldOut(st) \in Seq(Item)
  BY <1>0, HeldOutType
<1>2. /\ Sound(y) /\ y.flows = m.flows /\ Kept(m, y, k) /\ y.next \in {"idle", "failed"}
      /\ y.next # "failed" => Reach(y, k) = Reach(m, k) \cup WireBytes(HeldOut(st))
  BY <1>0, <1>1, SendReach
<1>3. Sound(x)
  BY FailOpenSound
<1>4. CASE y.next = "failed"
  <2>1. x = y
    BY <1>4 DEF failOpen
  <2> QED BY <1>2, <1>4, <2>1 DEF Effect
<1>5. CASE y.next # "failed"
  <2>1. x = clearCollectingState([y EXCEPT !.flows[k].state = "pass"], k)
    BY <1>5 DEF failOpen
  <2> HIDE DEF y
  <2>2. Sound(x) /\ Gave(y, x, k, "pass")
    BY <1>2, <2>1, ClearSound
  <2>3. Cleared(st, "pass").held = <<>> /\ Cleared(st, "pass").state = "pass"
    BY <1>0 DEF Cleared, Flow
  <2>4. /\ DOMAIN x.flows = DOMAIN m.flows /\ x.flows[k] = Cleared(st, "pass")
        /\ \A j \in DOMAIN m.flows \ {k} : x.flows[j] = m.flows[j]
    BY <1>0, <1>2, <2>2 DEF Gave
  <2>5. Closed(x, k) /\ Held(x, k) = <<>>
    BY <2>3, <2>4 DEF Closed, Held
  <2>6. Reach(m, k) \subseteq Reach(x, k)
    <3>1. Reach(m, k) = WireBytes(m.wire[k]) \cup WireBytes(HeldOut(st))
      BY <1>0, HeldOutBytes DEF Reach, Held
    <3>2. Sent(m, y, k, HeldOut(st))
      BY <1>0, <1>1, SendSound DEF y
    <3>3. y.wire[k] = m.wire[k] \o HeldOut(st) /\ m.wire[k] \in Seq(Item)
      BY <1>0, <1>5, <3>2, SoundTable DEF Sent
    <3>4. WireBytes(y.wire[k]) = WireBytes(m.wire[k]) \cup WireBytes(HeldOut(st))
      BY <1>1, <3>3, WireBytesConcat
    <3> QED BY <2>2, <3>1, <3>4 DEF Reach, Gave
  <2>7. DataIn(x, k)
    BY <2>2, <2>5, ClosedData
  <2>8. Kept(m, x, k)
    BY <2>4 DEF Kept
  <2> QED BY <1>2, <1>5, <2>2, <2>3, <2>4, <2>5, <2>6, <2>7, <2>8 DEF Effect, Gave
<1> QED BY <1>3, <1>4, <1>5

\* Table.Delete of a flow that holds nothing.
LEMMA DeleteData ==
  ASSUME NEW m, Sound(m), NEW k \in DOMAIN m.flows, m.next # "failed",
         Held(m, k) = <<>>, NEW x, x = Delete(m, k)
  PROVE  Sound(x) /\ Effect(m, x, k, {}) /\ k \notin DOMAIN x.flows /\ x.next = m.next
<1>1. Sound(x) /\ Deleted(m, x, k)
  BY DeleteSound
<1>2. x.flows = [j \in DOMAIN m.flows \ {k} |-> m.flows[j]]
  <2>1. m.flows \in [DOMAIN m.flows -> Flow] /\ m \in Machines
    BY SoundTable
  <2> QED BY <2>1 DEF Delete, Machines
<1>3. Kept(m, x, k) /\ k \notin DOMAIN x.flows
  BY <1>2 DEF Kept
<1>4. Reach(x, k) = Reach(m, k)
  BY <1>1 DEF Reach, Deleted
<1> QED BY <1>1, <1>3, <1>4 DEF Effect, DataIn, Deleted


-----------------------------------------------------------------------------
\* A prefix that reaches all that is stored grows by what is stored at its end.
LEMMA PrefixGrows ==
  ASSUME NEW S \in SUBSET Nat, NEW max \in Nat, \A o \in S : o < PrefixLen(S, max),
         \A o \in S : o < max, NEW len \in Nat, PrefixLen(S, max) + len <= max,
         NEW T, T = S \cup (PrefixLen(S, max) .. PrefixLen(S, max) + len - 1)
  PROVE  PrefixLen(T, max) = PrefixLen(S, max) + len
<1> DEFINE c == PrefixLen(S, max)
           n == PrefixLen(T, max)
<1>1. c \in 0 .. max /\ \A l \in 0 .. c - 1 : l \in S
  BY PrefixLenType
<1> HIDE DEF c
<1>2. T = S \cup (c .. c + len - 1) /\ c + len <= max /\ \A o \in S : o < c
  BY DEF c
<1>3. T \in SUBSET Nat /\ \A o \in T : o < c + len /\ o < max
  <2>1. ASSUME NEW o \in T PROVE o \in Nat /\ o < c + len /\ o < max
    <3>1. CASE o \in S
      BY <1>1, <1>2, <3>1
    <3>2. CASE o \in c .. c + len - 1
      BY <1>1, <1>2, <3>2
    <3> QED BY <1>2, <3>1, <3>2
  <2> QED BY <2>1
<1>4. n \in 0 .. max /\ n \notin T /\ \A l \in 0 .. n - 1 : l \in T
  BY <1>3, PrefixLenType
<1> HIDE DEF n
<1>5. ~ (n < c + len)
  <2>1. ASSUME n < c + len PROVE n \in T
    BY <1>1, <1>2, <1>4, <2>1
  <2> QED BY <1>4, <2>1
<1>6. ~ (n > c + len)
  <2>1. ASSUME n > c + len PROVE FALSE
    <3>1. c + len \in 0 .. n - 1
      BY <1>1, <1>4, <2>1
    <3>2. c + len \in T
      BY <1>4, <3>1
    <3> QED BY <1>1, <1>3, <3>2
  <2> QED BY <2>1
<1> QED BY <1>1, <1>4, <1>5, <1>6 DEF c, n

\* A packet that is held and stored leaves the buffer with what is held, and reaches
\* beyond what the flow waits for only as the last one.
LEMMA PushedData ==
  ASSUME NEW st \in Flow, FlowOK(st), DataOK(st), st.state = "collecting",
         NEW pkt \in Packet, pkt.len > 0,
         NEW h, h = [st EXCEPT !.held = Append(@, pkt)], ~pushFails(h, pkt),
         NEW x, x = push(h, pkt)
  PROVE  /\ DataOK(x) /\ x.base = st.base /\ x.first = st.first
         /\ \A aim \in Int : ContigLen(st) < aim => Ready(x, aim)
<1> DEFINE off == Offset(st, pkt)
           len == pkt.len
           c == ContigLen(st)
           n == Len(st.held)
           S == st.buf
           max == st.max
           R == PushResult(S, max, off, len)
<1>1. /\ h.held = Append(st.held, pkt) /\ h.buf = S /\ h.max = max /\ h.base = st.base
      /\ h.first = st.first /\ h.ooo = st.ooo /\ h.ovl = st.ovl /\ h.state = st.state
      /\ Offset(h, pkt) = off
  BY DEF Flow, Offset
<1>2. h \in Flow /\ FlowOK(h)
  BY HoldPacket
<1>3. /\ n \in Nat /\ DOMAIN st.held = 1 .. n /\ Len(h.held) = n + 1
      /\ DOMAIN h.held = 1 .. n + 1 /\ h.held[n + 1] = pkt
      /\ \A i \in 1 .. n : h.held[i] = st.held[i]
      /\ h.held \in Seq(Packet)
  <2>1. st.held \in Seq(Packet)
    BY DEF Flow
  <2> QED BY <1>1, <2>1
<1>4. h.held # <<>>
  <2>1. Len(h.held) # 0
    BY <1>3
  <2> QED BY <2>1, EmptySeq
<1>5. x \in Flow /\ FlowOK(x) /\ x.held = h.held /\ x.state = h.state
  BY <1>2, <1>4, PushFlow
<1>6. /\ x.buf = PushOffsets(S, max, off, len) /\ x.max = max /\ x.base = st.base
      /\ x.first = st.first
      /\ x.ooo = (st.ooo \/ PushOutOfOrder(S, max, off, len))
      /\ x.ovl = (st.ovl \/ PushOverlaps(S, max, off, len))
  <2> HIDE DEF off
  <2>1. x = [h EXCEPT !.buf = PushOffsets(@, h.max, off, len),
                !.ooo = @ \/ PushOutOfOrder(h.buf, h.max, off, len),
                !.ovl = @ \/ PushOverlaps(h.buf, h.max, off, len)]
    BY <1>1 DEF push
  <2> HIDE DEF len
  <2> QED BY <1>1, <1>2, <2>1 DEF Flow
<1>7. R \notin {"full", "window"}
  BY <1>1 DEF pushFails
<1>8. /\ off \in Nat /\ len \in Nat /\ len >= 1 /\ c \in Nat /\ max \in Nat
      /\ S \in SUBSET Nat /\ c = PrefixLen(S, max) /\ \A o \in S : o < max
      /\ (off + len) % SeqSpace \in Int
  <2>1. off \in 0 .. SeqSpace - 1 /\ SeqSpace \in Nat /\ SeqSpace >= 1
    BY OffsetByte, SpaceType
  <2>2. len \in Nat /\ len >= 1 /\ max \in Nat /\ S \in SUBSET Nat
    BY DEF Packet, Flow
  <2>3. c \in Nat /\ c = PrefixLen(S, max)
    BY ContigLenType DEF ContigLen
  <2> HIDE DEF off, len, c
  <2>4. off + len \in Int
    BY <2>1, <2>2
  <2>5. (off + len) % SeqSpace \in Int
    BY <2>1, <2>4, Remainder
  <2> QED BY <2>1, <2>2, <2>3, <2>5 DEF FlowOK
<1>9. \A p : /\ Offset(x, p) = Offset(st, p) /\ Span(x, p) = Span(st, p)
             /\ End(x, p) = End(st, p)
  BY <1>6 DEF Offset, Span, End
<1>10. Span(st, pkt) = off .. off + len - 1 /\ End(st, pkt) = off + len
  BY DEF Span, End
<1>11. ASSUME NEW i \in 1 .. n PROVE Span(st, st.held[i]) \subseteq S
  BY <1>3 DEF DataOK, Whole
<1> HIDE DEF off, len, c, n, S, max, R
<1>12. \/ /\ off + len <= c /\ x.buf = S /\ R = "dup"
       \/ /\ R = "stored" /\ off + len > c /\ off + len <= max
          /\ max # 0 /\ (off + len) % SeqSpace >= off
          /\ x.buf = S \cup (off .. off + len - 1)
  <2> DEFINE full == max = 0 \/ (off + len) % SeqSpace < off
  <2>1. R = IF max = 0 THEN "full" ELSE IF off >= max THEN "window"
            ELSE IF (off + len) % SeqSpace < off THEN "full"
            ELSE IF off + len <= c THEN "dup"
            ELSE IF off + len > max THEN "full" ELSE "stored"
    BY <1>8 DEF R, PushResult
  <2>2. max # 0 /\ ~ (off >= max) /\ ~ ((off + len) % SeqSpace < off)
    BY <1>7, <2>1
  <2>3. CASE off + len <= c
    <3>1. R = "dup"
      BY <2>1, <2>2, <2>3
    <3>2. x.buf = S
      BY <1>6, <3>1 DEF PushOffsets, R
    <3> QED BY <2>3, <3>1, <3>2
  <2>4. CASE ~ (off + len <= c)
    <3>1. R = "stored" /\ ~ (off + len > max)
      BY <1>7, <2>1, <2>2, <2>4
    <3>2. x.buf = S \cup (off .. off + len - 1)
      BY <1>6, <3>1 DEF PushOffsets, R
    <3> DEFINE wrap == (off + len) % SeqSpace
    <3>3. wrap \in Int /\ ~ (wrap < off)
      BY <1>8, <2>2
    <3> HIDE DEF wrap
    <3>4. off + len > c /\ off + len <= max /\ wrap >= off
      BY <1>8, <2>4, <3>1, <3>3
    <3> QED BY <2>2, <3>1, <3>2, <3>4 DEF wrap
  <2> QED BY <2>3, <2>4
<1>13. Whole(x)
  <2> DEFINE sp(i) == Span(st, h.held[i])
  <2>1. sp(n + 1) = off .. off + len - 1
    BY <1>3, <1>10
  <2>2. \A i \in 1 .. n : sp(i) = Span(st, st.held[i])
    BY <1>3
  <2>3. S = UNION {Span(st, st.held[i]) : i \in 1 .. n}
    BY <1>3 DEF DataOK, Whole, S
  <2> HIDE DEF sp
  <2>4. S = UNION {sp(i) : i \in 1 .. n}
    BY <2>2, <2>3
  <2>5. x.buf = S \cup sp(n + 1)
    <3>1. CASE off + len <= c
      <4>1. \A l \in 0 .. c - 1 : l \in S
        BY <1>8, PrefixLenType
      <4>2. sp(n + 1) \subseteq S
        BY <1>8, <2>1, <3>1, <4>1
      <4>3. x.buf = S
        BY <1>8, <1>12, <3>1
      <4> QED BY <4>2, <4>3
    <3>2. CASE x.buf = S \cup (off .. off + len - 1)
      BY <2>1, <3>2
    <3> QED BY <1>12, <3>1, <3>2
  <2>6. 1 .. n + 1 = (1 .. n) \cup {n + 1}
    BY <1>3
  <2>7. UNION {sp(i) : i \in 1 .. n + 1} = S \cup sp(n + 1)
    BY <2>4, <2>6
  <2>8. x.buf = UNION {Span(x, x.held[i]) : i \in DOMAIN x.held}
    <3>1. \A i \in 1 .. n + 1 : Span(x, x.held[i]) = sp(i)
      BY <1>5, <1>9 DEF sp
    <3>2. DOMAIN x.held = 1 .. n + 1
      BY <1>3, <1>5
    <3>3. {Span(x, x.held[i]) : i \in DOMAIN x.held} = {sp(i) : i \in 1 .. n + 1}
      BY <3>1, <3>2
    <3> QED BY <2>5, <2>7, <3>3
  <2>9. ASSUME NEW i \in DOMAIN x.held PROVE x.held[i].len > 0
    <3>1. CASE i = n + 1
      BY <1>3, <1>5, <1>8, <3>1
    <3>2. CASE i # n + 1
      <4>1. i \in 1 .. n + 1
        BY <1>3, <1>5
      <4>2. i \in 1 .. n
        BY <1>3, <3>2, <4>1
      <4>3. x.held[i] = st.held[i]
        BY <1>3, <1>5, <4>2
      <4> QED BY <1>3, <4>2, <4>3 DEF DataOK, Whole
    <3> QED BY <3>1, <3>2
  <2> QED BY <2>8, <2>9 DEF Whole
<1>14. ASSUME ~x.ooo, ~x.ovl
       PROVE  /\ \A o \in S : o < c
              /\ R = "stored" => off = c
  <2>1. ~st.ooo /\ ~st.ovl
    BY <1>6, <1>14
  <2>2. \A o \in S : o < c
    BY <2>1 DEF DataOK, Straight, S, c
  <2>3. ASSUME R = "stored" PROVE off = c
    <3>1. ~ (off > c)
      <4>1. ~PushOutOfOrder(S, max, off, len)
        BY <1>6, <1>14
      <4> QED BY <1>8, <2>3, <4>1 DEF PushOutOfOrder, R
    <3>2. ~ (off < c)
      <4>1. ~PushOverlaps(S, max, off, len)
        BY <1>6, <1>14
      <4>2. off + len > c /\ max # 0 /\ (off + len) % SeqSpace >= off
        BY <1>12, <2>3
      <4>3. ASSUME off < c PROVE PushOverlaps(S, max, off, len)
        BY <1>8, <4>2, <4>3 DEF PushOverlaps
      <4> QED BY <4>1, <4>3
    <3> QED BY <1>8, <3>1, <3>2
  <2> QED BY <2>2, <2>3
<1>15. ContigLen(x) = PrefixLen(x.buf, max)
  BY <1>6 DEF ContigLen
<1>16. ASSUME ~x.ooo, ~x.ovl, R = "stored" PROVE off = c /\ ContigLen(x) = c + len
  <2>1. off = c /\ \A o \in S : o < c
    BY <1>14, <1>16
  <2>2. x.buf = S \cup (off .. off + len - 1) /\ off + len <= max
    BY <1>12, <1>16
  <2>3. PrefixLen(x.buf, max) = PrefixLen(S, max) + len
    <3> DEFINE T == x.buf
    <3>1. /\ T = S \cup (PrefixLen(S, max) .. PrefixLen(S, max) + len - 1)
          /\ \A o \in S : o < PrefixLen(S, max)
          /\ PrefixLen(S, max) + len <= max
      BY <1>8, <2>1, <2>2
    <3> HIDE DEF T
    <3>2. PrefixLen(T, max) = PrefixLen(S, max) + len
      BY <1>8, <3>1, PrefixGrows
    <3> QED BY <3>2 DEF T
  <2> QED BY <1>8, <1>15, <2>1, <2>3
<1>17. R # "stored" => ContigLen(x) = c
  BY <1>8, <1>12, <1>15
<1>18. Straight(x)
  <2> SUFFICES ASSUME ~x.ooo, ~x.ovl, NEW o \in x.buf PROVE o < ContigLen(x)
    BY DEF Straight
  <2>1. \A e \in S : e < c
    BY <1>14
  <2>2. CASE R = "stored"
    <3>1. off = c /\ ContigLen(x) = c + len
      BY <1>16, <2>2
    <3>2. o \in S \cup (off .. off + len - 1)
      BY <1>12, <2>2
    <3> QED BY <1>8, <2>1, <3>1, <3>2
  <2>3. CASE R # "stored"
    BY <1>12, <1>17, <2>1, <2>3
  <2> QED BY <2>2, <2>3
<1>19. ASSUME NEW aim \in Int, c < aim PROVE Ready(x, aim)
  <2>1. x.state = "collecting" /\ x.held # <<>>
    BY <1>1, <1>4, <1>5
  <2>2. Len(x.held) = n + 1 /\ x.held[n + 1] = pkt
    BY <1>3, <1>5
  <2> SUFFICES ASSUME ~x.ooo, ~x.ovl
               PROVE  /\ \A i \in DOMAIN x.held : i < n + 1 => End(x, x.held[i]) <= aim
                      /\ ContigLen(x) < aim \/ (Offset(x, pkt) < aim
                                                  /\ End(x, pkt) = ContigLen(x))
    BY <2>1, <2>2 DEF Ready
  <2>3. ASSUME NEW i \in DOMAIN x.held, i < n + 1 PROVE End(x, x.held[i]) <= aim
    <3> DEFINE q == st.held[i]
               e == End(st, q)
    <3>1. i \in 1 .. n /\ i \in DOMAIN st.held /\ x.held[i] = q
      <4>1. i \in 1 .. n + 1
        BY <1>3, <1>5
      <4>2. i \in 1 .. n
        BY <1>3, <2>3, <4>1
      <4> QED BY <1>3, <1>5, <4>2
    <3>2. q.len \in Nat /\ Offset(st, q) \in Nat /\ q.len > 0
      BY <3>1, HeldType DEF DataOK, Whole
    <3>3. e = Offset(st, q) + q.len
      BY DEF End
    <3>4. e - 1 \in Span(st, q) /\ e \in Int
      <4>1. e - 1 \in Offset(st, q) .. Offset(st, q) + q.len - 1
        BY <3>2, <3>3
      <4> QED BY <3>2, <3>3, <4>1 DEF Span
    <3>5. e - 1 < c
      BY <1>11, <1>14, <3>1, <3>4
    <3>6. End(x, x.held[i]) = e
      BY <1>9, <3>1
    <3> HIDE DEF e
    <3> QED BY <1>8, <1>19, <3>4, <3>5, <3>6
  <2>4. Offset(x, pkt) = off /\ End(x, pkt) = off + len
    BY <1>9, <1>10 DEF off
  <2>5. CASE R = "stored"
    <3>1. off = c /\ ContigLen(x) = c + len
      BY <1>16, <2>5
    <3> QED BY <1>19, <2>3, <2>4, <3>1
  <2>6. CASE R # "stored"
    BY <1>17, <1>19, <2>3, <2>6
  <2> QED BY <2>5, <2>6
<1> QED BY <1>6, <1>13, <1>18, <1>19 DEF DataOK, c


-----------------------------------------------------------------------------
\* Two steps that leave the other flows alone leave them alone.
LEMMA KeptThen ==
  ASSUME NEW m, NEW y, NEW x, NEW k, Kept(m, y, k), Kept(y, x, k)
  PROVE  Kept(m, x, k)
BY DEF Kept

\* What a flow waits for is a number of bytes.
LEMMA AimType ==
  ASSUME NEW st \in Flow, NEW k \in Keys, NEW c
  PROVE  Aim(k, st, c) \in Int
<1>1. Hello[k].recordLen \in Nat
  BY WorkerAssumption
<1>2. st.first \in Nat
  BY DEF Flow
<1> QED BY <1>1, <1>2 DEF Aim

\* failOpen and Table.Delete, one after the other.
LEMMA FailOpenDeleteData ==
  ASSUME NEW m, Sound(m), NEW k \in DOMAIN m.flows, m.next = "idle",
         NEW x, x = Delete(failOpen(m, k), k)
  PROVE  /\ Sound(x) /\ Effect(m, x, k, {}) /\ x.next \in {"idle", "failed"}
         /\ x.next # "failed" => k \notin DOMAIN x.flows
<1> DEFINE y == failOpen(m, k)
<1>1. x = Delete(y, k)
  OBVIOUS
<1>2. /\ Sound(y) /\ Effect(m, y, k, {}) /\ y.next \in {"idle", "failed"}
      /\ DOMAIN y.flows = DOMAIN m.flows
      /\ y.next # "failed" => Held(y, k) = <<>>
  BY FailOpenData
<1> HIDE DEF y
<1>3. CASE y.next = "failed"
  <2>1. x = y
    BY <1>1, <1>3 DEF Delete
  <2> QED BY <1>2, <1>3, <2>1
<1>4. CASE y.next # "failed"
  <2>1. /\ Sound(x) /\ Effect(y, x, k, {}) /\ k \notin DOMAIN x.flows /\ x.next = y.next
    BY <1>1, <1>2, <1>4, DeleteData
  <2>2. Effect(m, x, k, {} \cup {})
    BY <1>2, <1>4, <2>1, EffectThen
  <2>3. {} \cup {} = {}
    OBVIOUS
  <2>4. Effect(m, x, k, {})
    BY <2>2, <2>3
  <2> QED BY <1>2, <1>4, <2>1, <2>4
<1> QED BY <1>3, <1>4

\* handlePacket for a flow that is collecting, from the append on.
LEMMA CollectData ==
  ASSUME NEW m, Sound(m), NEW c \in Config, NEW k \in DOMAIN m.flows,
         m.flows[k].state = "collecting", m.next = "idle", DataIn(m, k),
         NEW pkt \in Packet, pkt.len > 0, NEW x, x = collect(m, c, k, pkt)
  PROVE  /\ Effect(m, x, k, Bytes(pkt.seq, pkt.len))
         /\ Rest(m, c, k) /\ x.next # "failed" => Waits(x, c, k)
<1> DEFINE s0 == m.flows[k]
           B == Bytes(pkt.seq, pkt.len)
           y == [m EXCEPT !.flows[k].held = Append(@, pkt), !.heldBytes = @ + DataLen(pkt)]
           st == y.flows[k]
           new == push(st, pkt)
           z == Pushed(y, k, new)
<1>1. /\ k \in Keys /\ s0 \in Flow /\ FlowOK(s0) /\ s0.held \in Seq(Packet) /\ DataOK(s0)
      /\ s0.state = "collecting"
  BY SoundFlow DEF Flow, DataIn
<1>2. /\ Sound(y) /\ Updated(m, y, k, [s0 EXCEPT !.held = Append(@, pkt)])
  BY HoldSound
<1>3. /\ k \in DOMAIN y.flows /\ DOMAIN y.flows = DOMAIN m.flows /\ y.next = "idle"
      /\ st = [s0 EXCEPT !.held = Append(@, pkt)]
      /\ y.wire = m.wire
  BY <1>2 DEF Updated
<1>4. st.held = Append(s0.held, pkt)
  BY <1>1, <1>3 DEF Flow
<1>5. st.held # <<>>
  <2>1. Len(st.held) = Len(s0.held) + 1 /\ Len(s0.held) \in Nat
    BY <1>1, <1>4
  <2>2. Len(<<>>) = 0
    BY EmptySeq
  <2> HIDE DEF y, st
  <2> QED BY <2>1, <2>2
<1>6. Kept(m, y, k)
  BY <1>2, <1>3 DEF Kept, Updated
<1>7. Reach(m, k) \cup B \subseteq Reach(y, k)
  <2>1. Held(m, k) = s0.held /\ Held(y, k) = Append(s0.held, pkt)
    BY <1>3, <1>4 DEF Held
  <2>2. PacketBytes(s0.held) \cup B \subseteq PacketBytes(Append(s0.held, pkt))
    BY <1>1, HeldOne
  <2> QED BY <1>3, <2>1, <2>2 DEF Reach
<1> HIDE DEF y
<1>8. Sound(z) /\ Updated(y, z, k, new) /\ new.held = st.held
  <2>1. y.flows[k].held # <<>> /\ new = push(y.flows[k], pkt) /\ z = Pushed(y, k, new)
    BY <1>5
  <2> HIDE DEF st, new, z
  <2>2. Sound(z) /\ Updated(y, z, k, new) /\ new.held = y.flows[k].held
    BY <1>2, <1>3, <2>1, PushSound
  <2> QED BY <2>2 DEF st
<1>9. /\ DOMAIN z.flows = DOMAIN m.flows /\ z.next = "idle" /\ z.flows[k] = new
      /\ z.wire = y.wire /\ k \in DOMAIN z.flows
  BY <1>3, <1>8 DEF Updated
<1>10. Kept(m, z, k)
  <2>1. Kept(y, z, k)
    BY <1>3, <1>8, <1>9 DEF Kept, Updated
  <2> QED BY <1>6, <2>1, KeptThen
<1>11. Reach(m, k) \cup B \subseteq Reach(z, k)
  <2>1. Held(z, k) = Held(y, k)
    BY <1>3, <1>8, <1>9 DEF Held
  <2> QED BY <1>7, <1>9, <2>1 DEF Reach
<1> HIDE DEF z, B
<1>12. ASSUME NEW v, Sound(v), v.next \in {"idle", "failed"},
              v.next # "failed" => Closed(v, k),
              Effect(y, v, k, {}) \/ Effect(z, v, k, {})
       PROVE  /\ Effect(m, v, k, B)
              /\ Rest(m, c, k) /\ v.next # "failed" => Waits(v, c, k)
  <2>1. Kept(m, v, k)
    BY <1>6, <1>10, <1>12, KeptThen DEF Effect
  <2>2. v.next # "failed" => Reach(m, k) \cup B \subseteq Reach(v, k) /\ DataIn(v, k)
    BY <1>7, <1>11, <1>12 DEF Effect
  <2>3. v.next # "failed" => Rest(v, c, k)
    BY <1>12, ClosedData
  <2> QED BY <1>12, <2>1, <2>2, <2>3 DEF Effect, Waits
<1>13. CASE Len(st.held) >= c.maxHeldPackets \/ st.expired
  <2>1. x = failOpen(y, k)
    BY <1>13 DEF collect, y
  <2>2. /\ Sound(x) /\ Effect(y, x, k, {}) /\ x.next \in {"idle", "failed"}
        /\ x.next # "failed" => Closed(x, k)
    BY <1>2, <1>3, <2>1, FailOpenData
  <2> QED BY <1>12, <2>2 DEF B
<1>14. CASE ~(Len(st.held) >= c.maxHeldPackets \/ st.expired)
  <2>1. CASE x = failOpen(z, k)
    <3>1. /\ Sound(x) /\ Effect(z, x, k, {}) /\ x.next \in {"idle", "failed"}
          /\ x.next # "failed" => Closed(x, k)
      BY <1>8, <1>9, <2>1, FailOpenData
    <3> QED BY <1>12, <3>1 DEF B
  <2>2. CASE x = Delete(failOpen(z, k), k)
    <3>1. /\ Sound(x) /\ Effect(z, x, k, {}) /\ x.next \in {"idle", "failed"}
          /\ x.next # "failed" => k \notin DOMAIN x.flows
      BY <1>8, <1>9, <2>2, FailOpenDeleteData
    <3>2. x.next # "failed" => Closed(x, k)
      BY <3>1 DEF Closed
    <3> QED BY <1>12, <3>1, <3>2 DEF B
  <2>3. CASE /\ ~pushFails(st, pkt)
             /\ \/ x = [z EXCEPT !.next = "split"] /\ c.mode = "tls-hello"
                \/ /\ x = [z EXCEPT !.next = "inject", !.win = new.first]
                   /\ c.mode # "tls-hello"
                \/ x = z /\ ContigLen(new) < new.first /\ c.mode # "tls-hello"
    <3>1. /\ DataOK(new) /\ new.base = s0.base /\ new.first = s0.first
          /\ \A aim \in Int : ContigLen(s0) < aim => Ready(new, aim)
      <4>1. /\ st = [s0 EXCEPT !.held = Append(@, pkt)] /\ new = push(st, pkt)
             /\ ~pushFails(st, pkt)
        BY <1>3, <2>3
      <4> HIDE DEF st, new, s0
      <4> QED BY <1>1, <4>1, PushedData, ZenonT(40)
    <3>2. /\ x.flows = z.flows /\ x.wire = z.wire /\ x.next \in {"idle", "split", "inject"}
          /\ x.next = "idle" => ContigLen(new) < new.first /\ c.mode # "tls-hello"
          /\ x.next = "inject" => x.win = new.first /\ c.mode # "tls-hello"
          /\ x.next = "split" => c.mode = "tls-hello"
      <4>1. z \in Machines
        BY <1>8 DEF Sound
      <4> HIDE DEF new, st
      <4> QED BY <1>9, <2>3, <4>1 DEF Machines
    <3>3. Effect(m, x, k, B)
      <4>1. Kept(m, x, k)
        BY <1>10, <3>2 DEF Kept
      <4>2. Reach(x, k) = Reach(z, k)
        BY <3>2 DEF Reach, Held
      <4>3. DataIn(x, k)
        BY <1>9, <3>1, <3>2 DEF DataIn
      <4> QED BY <1>11, <4>1, <4>2, <4>3 DEF Effect
    <3>4. Aim(k, new, c) = Aim(k, s0, c) /\ Aim(k, s0, c) \in Int
      BY <1>1, <3>1, AimType DEF Aim
    <3>5. c.mode \in {"tls-hello", "immediate"}
      BY DEF Config
    <3>6. c.mode # "tls-hello" => Aim(k, new, c) = new.first
      BY <3>5 DEF Aim
    <3>7. ASSUME Rest(m, c, k) PROVE Waits(x, c, k)
      <4>1. ContigLen(s0) < Aim(k, s0, c)
        BY <3>7 DEF Rest
      <4>2. Ready(new, Aim(k, new, c))
        BY <3>1, <3>4, <4>1
      <4>3. x.flows[k] = new /\ k \in DOMAIN x.flows
        BY <1>9, <3>2
      <4> HIDE DEF new
      <4>4. x.next \in {"split", "inject"} => Go(x, c, k)
        BY <3>2, <3>6, <4>2, <4>3 DEF Go
      <4>5. x.next = "idle" => Rest(x, c, k)
        BY <3>2, <3>6, <4>3 DEF Rest
      <4> QED BY <3>2, <4>4, <4>5 DEF Waits
    <3> QED BY <3>3, <3>7 DEF B
  <2>4. \/ x = failOpen(z, k) \/ x = Delete(failOpen(z, k), k)
        \/ /\ ~pushFails(st, pkt)
           /\ \/ x = [z EXCEPT !.next = "split"] /\ c.mode = "tls-hello"
              \/ /\ x = [z EXCEPT !.next = "inject", !.win = new.first]
                 /\ c.mode # "tls-hello"
              \/ x = z /\ ~ (ContigLen(new) >= new.first) /\ c.mode # "tls-hello"
    BY <1>14 DEF collect, y, z, Pushed
  <2>5. ~ (ContigLen(new) >= new.first) => ContigLen(new) < new.first
    <3>1. new \in Flow /\ FlowOK(new)
      BY <1>8, <1>9, SoundFlow
    <3> HIDE DEF new
    <3>2. ContigLen(new) \in Nat /\ new.first \in Nat
      BY <3>1, ContigLenType DEF Flow
    <3> QED BY <3>2
  <2> QED BY <2>1, <2>2, <2>3, <2>4, <2>5
<1> QED BY <1>13, <1>14


-----------------------------------------------------------------------------
\* What a handler does with flow k: with its bytes, and with what it waits for.
Turn(m, x, c, k, B) ==
  /\ Effect(m, x, k, B)
  /\ Rest(m, c, k) /\ x.next # "failed" => Waits(x, c, k)

\* Two operators, one after the other.
LEMMA TurnThen ==
  ASSUME NEW m, NEW y, NEW x, NEW c, NEW k, NEW B, NEW C, Turn(m, y, c, k, B),
         y.next = "idle", Turn(y, x, c, k, C)
  PROVE  Turn(m, x, c, k, B \cup C)
<1>1. Effect(m, x, k, B \cup C)
  BY EffectThen DEF Turn
<1>2. Rest(m, c, k) => Rest(y, c, k)
  BY DEF Turn, Waits
<1> QED BY <1>1, <1>2 DEF Turn

\* After an error nothing is said of the bytes.
LEMMA TurnFailed ==
  ASSUME NEW m, NEW x, NEW c, NEW k, NEW B, NEW C, Turn(m, x, c, k, B), x.next = "failed"
  PROVE  Turn(m, x, c, k, C)
BY DEF Turn, Effect

\* The parts of the handlers.
LEMMA PassTurn ==
  ASSUME NEW m, Sound(m), NEW c, NEW k \in Keys, m.next = "idle", DataIn(m, k),
         NEW pkt \in Packet, NEW x, x = Send(m, k, Wire(pkt))
  PROVE  /\ Sound(x) /\ x.flows = m.flows /\ x.next \in {"idle", "failed"}
         /\ Turn(m, x, c, k, Bytes(pkt.seq, pkt.len))
<1>1. /\ Sound(x) /\ x.flows = m.flows /\ x.next \in {"idle", "failed"}
      /\ Effect(m, x, k, Bytes(pkt.seq, pkt.len))
      /\ Rest(m, c, k) => Rest(x, c, k)
  BY PassData
<1> QED BY <1>1 DEF Turn, Waits

\* failOpen sends what the flow holds and closes it.
LEMMA FailOpenTurn ==
  ASSUME NEW m, Sound(m), NEW c, NEW k \in DOMAIN m.flows, m.next = "idle",
         NEW x, x = failOpen(m, k)
  PROVE  /\ Sound(x) /\ Turn(m, x, c, k, {}) /\ x.next \in {"idle", "failed"}
         /\ DOMAIN x.flows = DOMAIN m.flows
         /\ x.next # "failed" => Held(x, k) = <<>>
<1>1. /\ Sound(x) /\ Effect(m, x, k, {}) /\ x.next \in {"idle", "failed"}
      /\ DOMAIN x.flows = DOMAIN m.flows
      /\ x.next # "failed" => Closed(x, k) /\ Held(x, k) = <<>>
  BY FailOpenData
<1>2. x.next # "failed" => Rest(x, c, k)
  BY <1>1, ClosedData
<1> QED BY <1>1, <1>2 DEF Turn, Waits

\* Table.Delete of a flow that holds nothing.
LEMMA DeleteTurn ==
  ASSUME NEW m, Sound(m), NEW c, NEW k \in DOMAIN m.flows, m.next = "idle",
         Held(m, k) = <<>>, NEW x, x = Delete(m, k)
  PROVE  Turn(m, x, c, k, {}) /\ x.next = "idle" /\ k \notin DOMAIN x.flows
<1>1. Effect(m, x, k, {}) /\ k \notin DOMAIN x.flows /\ x.next = m.next
  BY DeleteData
<1> QED BY <1>1 DEF Turn, Waits, Rest

\* A flow but for its flags and its template.
Twin(s, t) ==
  /\ Same(s, t) /\ t.base = s.base /\ t.first = s.first
  /\ t.ooo = s.ooo /\ t.ovl = s.ovl

\* Flows that differ in their flags and template only wait for the same.
LEMMA TwinFlow ==
  ASSUME NEW s, NEW t, Twin(s, t)
  PROVE  /\ DataOK(s) => DataOK(t)
         /\ ContigLen(t) = ContigLen(s) /\ t.state = s.state /\ t.held = s.held
         /\ \A k, c : Aim(k, t, c) = Aim(k, s, c)
<1>1. /\ t.held = s.held /\ t.state = s.state /\ t.buf = s.buf /\ t.max = s.max
      /\ t.base = s.base /\ t.first = s.first /\ t.ooo = s.ooo /\ t.ovl = s.ovl
  BY DEF Twin, Same
<1>2. \A p : Span(t, p) = Span(s, p)
  BY <1>1 DEF Span, Offset
<1>3. Whole(s) => Whole(t)
  BY <1>1, <1>2 DEF Whole
<1>4. ContigLen(t) = ContigLen(s)
  BY <1>1 DEF ContigLen
<1>5. Straight(s) => Straight(t)
  BY <1>1, <1>4 DEF Straight
<1>6. \A k, c : Aim(k, t, c) = Aim(k, s, c)
  BY <1>1 DEF Aim
<1> QED BY <1>1, <1>3, <1>4, <1>5, <1>6 DEF DataOK

\* To replace a flow by such a flow loses nothing.
LEMMA TwinTurn ==
  ASSUME NEW m, Sound(m), NEW c, NEW k \in DOMAIN m.flows, m.next = "idle", DataIn(m, k),
         NEW st, Twin(m.flows[k], st), NEW x, x = PutAt(m, k, st)
  PROVE  /\ Sound(x) /\ x.flows[k] = st /\ DOMAIN x.flows = DOMAIN m.flows
         /\ x.next = "idle" /\ x.heldBytes = m.heldBytes
         /\ DataIn(x, k) /\ Turn(m, x, c, k, {})
<1>1. Sound(x) /\ Alike(m, x) /\ x.flows[k] = st
  BY AlikeSound DEF Twin
<1>2. x.next = "idle" /\ DOMAIN x.flows = DOMAIN m.flows /\ x.heldBytes = m.heldBytes
  BY <1>1 DEF Alike
<1>3. Kept(m, x, k)
  <2>1. m \in Machines
    BY SoundTable
  <2>2. \A j \in DOMAIN m.flows \ {k} : x.flows[j] = m.flows[j]
    BY <2>1 DEF PutAt, Machines
  <2> QED BY <1>2, <2>2 DEF Kept
<1>4. Reach(x, k) = Reach(m, k)
  BY <1>1 DEF Reach, Alike, Held
<1>5. /\ DataOK(m.flows[k]) => DataOK(st)
      /\ ContigLen(st) = ContigLen(m.flows[k]) /\ st.state = m.flows[k].state
      /\ Aim(k, st, c) = Aim(k, m.flows[k], c)
  BY TwinFlow
<1>6. DataIn(x, k)
  BY <1>1, <1>5 DEF DataIn
<1>7. Rest(m, c, k) => Rest(x, c, k)
  BY <1>1, <1>2, <1>5 DEF Rest
<1> QED BY <1>1, <1>2, <1>3, <1>4, <1>6, <1>7 DEF Turn, Effect, Waits

\* handlePacket for a flow in the table.
LEMMA KnownTurn ==
  ASSUME NEW m0, Sound(m0), NEW c \in Config, NEW k \in DOMAIN m0.flows, m0.next = "idle",
         DataIn(m0, k), NEW pkt \in Packet, NEW x, x = handleKnown(m0, c, k, pkt)
  PROVE  Turn(m0, x, c, k, Bytes(pkt.seq, pkt.len))
<1> DEFINE s0 == m0.flows[k]
           s1 == [s0 EXCEPT !.idle = FALSE]
           m == [m0 EXCEPT !.flows[k].idle = FALSE]
           s2 == [s1 EXCEPT !.tpl = pkt]
           y == [m EXCEPT !.flows[k].tpl = pkt]
           st == m.flows[k]
           B == Bytes(pkt.seq, pkt.len)
<1>1. s0 \in Flow /\ k \in Keys
  BY SoundFlow
<1>2. Twin(s0, s1)
  BY <1>1 DEF Flow, Same, Twin
<1>3. m = PutAt(m0, k, s1)
  BY DEF PutAt
<1>4. /\ Sound(m) /\ m.flows[k] = s1 /\ DOMAIN m.flows = DOMAIN m0.flows
      /\ m.next = "idle" /\ DataIn(m, k) /\ Turn(m0, m, c, k, {})
  <2> HIDE DEF m, s1
  <2> QED BY <1>2, <1>3, TwinTurn
<1>5. Twin(s1, s2)
  BY <1>1, <1>2 DEF Flow, Same, Twin
<1>6. y = PutAt(m, k, s2)
  <2>1. y = [m EXCEPT !.flows[k] = [m.flows[k] EXCEPT !.tpl = pkt]]
    OBVIOUS
  <2>2. y = [m EXCEPT !.flows[k] = s2]
    BY <1>4, <2>1
  <2> QED BY <2>2 DEF PutAt
<1> HIDE DEF m, s0, s1, s2, y, B
<1>7. /\ Sound(y) /\ y.flows[k] = s2 /\ DOMAIN y.flows = DOMAIN m.flows
      /\ y.next = "idle" /\ y.heldBytes = m.heldBytes
      /\ DataIn(y, k) /\ Turn(m, y, c, k, {})
  BY <1>4, <1>5, <1>6, TwinTurn
<1>8. k \in DOMAIN m.flows /\ k \in DOMAIN y.flows /\ FlowOK(st) /\ y.flows[k].state = st.state
  <2>1. k \in DOMAIN m.flows /\ k \in DOMAIN y.flows
    BY <1>4, <1>7
  <2>2. FlowOK(st)
    BY <1>4, <2>1, SoundFlow
  <2>3. y.flows[k].state = st.state
    BY <1>4, <1>5, <1>7, TwinFlow
  <2> QED BY <2>1, <2>2, <2>3
<1>9. {} \cup B = B /\ B \cup {} = B /\ {} \cup {} = {}
  OBVIOUS
<1>10. ASSUME NEW v, Turn(m, v, c, k, B) PROVE Turn(m0, v, c, k, B)
  <2>1. Turn(m0, v, c, k, {} \cup B)
    BY <1>4, <1>10, TurnThen
  <2> QED BY <1>9, <2>1
<1>11. ASSUME NEW v, Turn(y, v, c, k, B) PROVE Turn(m0, v, c, k, B)
  <2>1. Turn(m, v, c, k, {} \cup B)
    BY <1>7, <1>11, TurnThen
  <2> QED BY <1>9, <1>10, <2>1
<1>12. CASE pkt.len = 0 /\ pkt.flag \in {"RST", "FIN"}
  <2> DEFINE z == IF st.state = "collecting" THEN failOpen(m, k) ELSE m
             a == Send(z, k, Wire(pkt))
  <2>1. x = Delete(a, k)
    BY <1>12 DEF handleKnown, m
  <2>2. /\ Sound(z) /\ Turn(m, z, c, k, {}) /\ z.next \in {"idle", "failed"}
        /\ DOMAIN z.flows = DOMAIN m.flows
        /\ z.next # "failed" => Held(z, k) = <<>>
    <3>1. CASE st.state = "collecting"
      <4>1. z = failOpen(m, k)
        BY <3>1
      <4> HIDE DEF z, st
      <4> QED BY <1>4, <1>8, <4>1, FailOpenTurn
    <3>2. CASE st.state # "collecting"
      <4>1. z = m
        BY <3>2
      <4>2. Held(m, k) = <<>>
        BY <1>8, <3>2 DEF FlowOK, Held
      <4>3. Turn(m, m, c, k, {})
        BY <1>4 DEF Turn, Effect, Kept, Waits
      <4> QED BY <1>4, <4>1, <4>2, <4>3
    <3> QED BY <3>1, <3>2
  <2> HIDE DEF z
  <2>3. CASE z.next = "failed"
    <3>1. a = z
      BY <2>3 DEF Send, SendAll
    <3>2. x = z
      BY <2>1, <2>3, <3>1 DEF Delete
    <3>3. Turn(m, x, c, k, B)
      BY <2>2, <2>3, <3>2, TurnFailed
    <3> QED BY <1>10, <3>3 DEF B
  <2>4. CASE z.next # "failed"
    <3>1. z.next = "idle" /\ Held(z, k) = <<>> /\ DataIn(z, k)
      BY <2>2, <2>4 DEF Turn, Effect
    <3>2. /\ Sound(a) /\ a.flows = z.flows /\ a.next \in {"idle", "failed"}
          /\ Turn(z, a, c, k, B)
      BY <1>1, <2>2, <3>1, PassTurn DEF B
    <3> HIDE DEF a
    <3>3. Turn(m, a, c, k, B)
      <4>1. Turn(m, a, c, k, {} \cup B)
        BY <2>2, <3>1, <3>2, TurnThen
      <4> QED BY <1>9, <4>1
    <3>4. CASE a.next = "failed"
      <4>1. x = a
        BY <2>1, <3>4 DEF Delete
      <4> QED BY <1>10, <3>3, <4>1 DEF B
    <3>5. CASE a.next # "failed"
      <4>1. a.next = "idle" /\ Held(a, k) = <<>> /\ k \in DOMAIN a.flows
        BY <1>8, <2>2, <3>1, <3>2, <3>5 DEF Held
      <4>2. Turn(a, x, c, k, {})
        BY <2>1, <3>2, <4>1, DeleteTurn
      <4>3. Turn(m, x, c, k, B \cup {})
        BY <3>3, <4>1, <4>2, TurnThen
      <4>4. Turn(m, x, c, k, B)
        BY <1>9, <4>3
      <4> QED BY <1>10, <4>4 DEF B
    <3> QED BY <3>4, <3>5
  <2> QED BY <2>3, <2>4
<1>13. CASE /\ ~(pkt.len = 0 /\ pkt.flag \in {"RST", "FIN"})
            /\ st.state # "collecting" \/ pkt.len = 0
  <2>1. x = Send(m, k, Wire(pkt))
    BY <1>13 DEF handleKnown, m
  <2>2. Turn(m, x, c, k, B)
    BY <1>1, <1>4, <2>1, PassTurn DEF B
  <2> QED BY <1>10, <2>2 DEF B
<1>14. CASE /\ ~(pkt.len = 0 /\ pkt.flag \in {"RST", "FIN"})
            /\ ~ (st.state # "collecting" \/ pkt.len = 0)
  <2>1. CASE Exceeds(m.heldBytes + DataLen(pkt), c.maxHeldBytes)
    <3> DEFINE z == failOpen(y, k)
    <3>1. x = Send(z, k, Wire(pkt))
      BY <1>14, <2>1 DEF handleKnown, m, y
    <3>2. /\ Sound(z) /\ Turn(y, z, c, k, {}) /\ z.next \in {"idle", "failed"}
      BY <1>7, <1>8, FailOpenTurn
    <3> HIDE DEF z
    <3>3. CASE z.next = "failed"
      <4>1. x = z
        BY <3>1, <3>3 DEF Send, SendAll
      <4>2. Turn(y, x, c, k, B)
        BY <3>2, <3>3, <4>1, TurnFailed
      <4> QED BY <1>11, <4>2 DEF B
    <3>4. CASE z.next # "failed"
      <4>1. z.next = "idle" /\ DataIn(z, k)
        BY <3>2, <3>4 DEF Turn, Effect
      <4>2. Turn(z, x, c, k, B)
        BY <1>1, <3>1, <3>2, <4>1, PassTurn DEF B
      <4>3. Turn(y, x, c, k, {} \cup B)
        BY <3>2, <4>1, <4>2, TurnThen
      <4>4. Turn(y, x, c, k, B)
        BY <1>9, <4>3
      <4> QED BY <1>11, <4>4 DEF B
    <3> QED BY <3>3, <3>4
  <2>2. CASE ~Exceeds(m.heldBytes + DataLen(pkt), c.maxHeldBytes)
    <3>1. x = collect(y, c, k, pkt)
      BY <1>14, <2>2 DEF handleKnown, m, y
    <3>2. y.flows[k].state = "collecting" /\ pkt.len > 0
      <4>1. pkt.len \in Nat /\ pkt.len # 0
        BY <1>14 DEF Packet
      <4> QED BY <1>8, <1>14, <4>1
    <3>3. Turn(y, x, c, k, B)
      BY <1>7, <1>8, <3>1, <3>2, CollectData DEF Turn, B
    <3> QED BY <1>11, <3>3 DEF B
  <2> QED BY <2>1, <2>2
<1> QED BY <1>12, <1>13, <1>14

\* handlePacket for a flow not in the table.
LEMMA UnknownTurn ==
  ASSUME NEW m, Sound(m), NEW c \in Config, NEW k \in Keys \ DOMAIN m.flows,
         m.next = "idle", NEW pkt \in Packet, NEW x, x = handleUnknown(m, c, k, pkt)
  PROVE  Turn(m, x, c, k, Bytes(pkt.seq, pkt.len))
<1>1. DataIn(m, k) /\ Held(m, k) = <<>>
  BY DEF DataIn, Held
<1>2. CASE x = Send(m, k, Wire(pkt))
  BY <1>1, <1>2, PassTurn
<1>3. CASE pkt.len # 0 /\ x = collect(Create(m, k, NewFlow(c, pkt)), c, k, pkt)
  <2> DEFINE st == NewFlow(c, pkt)
             y == Create(m, k, st)
             B == Bytes(pkt.seq, pkt.len)
  <2>1. /\ st \in Flow /\ FlowOK(st) /\ HeldSize(st) = 0 /\ Cardinality(st.buf) = 0
        /\ st.held = <<>> /\ st.state = "collecting"
    BY NewFlowType
  <2>2. st.buf = {} /\ st.max \in Nat /\ st.first = pkt.len /\ st.base = pkt.seq
    BY <2>1 DEF NewFlow, Flow
  <2>3. pkt.len > 0 /\ pkt.len \in Nat
    BY <1>3 DEF Packet
  <2> HIDE DEF st
  <2>4. DataOK(st)
    <3>1. DOMAIN st.held = {}
      BY <2>1, NoIndices
    <3>2. {Span(st, st.held[i]) : i \in DOMAIN st.held} = {}
      BY <3>1
    <3> QED BY <2>2, <3>1, <3>2 DEF DataOK, Whole, Straight
  <2>5. ContigLen(st) = 0
    <3>1. PrefixLen({}, st.max) \in 0 .. st.max
          /\ \A l \in 0 .. PrefixLen({}, st.max) - 1 : l \in {}
      BY <2>2, PrefixLenType
    <3> DEFINE n == PrefixLen({}, st.max)
    <3>2. n \in Nat /\ \A l \in 0 .. n - 1 : FALSE
      BY <2>2, <3>1
    <3> HIDE DEF n
    <3>3. n = 0
      <4>1. ASSUME n # 0 PROVE FALSE
        <5>1. 0 \in 0 .. n - 1
          BY <3>2, <4>1
        <5> QED BY <3>2, <5>1
      <4> QED BY <4>1
    <3> QED BY <2>2, <3>3 DEF ContigLen, n
  <2>6. Aim(k, st, c) > 0
    <3>1. Hello[k].recordLen \in Nat
      BY WorkerAssumption
    <3> QED BY <2>2, <2>3, <3>1 DEF Aim
  <2>7. /\ Sound(y) /\ DOMAIN y.flows = DOMAIN m.flows \cup {k} /\ y.flows[k] = st
        /\ y.wire = m.wire /\ y.next = m.next /\ Held(y, k) = <<>>
    BY <2>1, CreateSound
  <2>8. Kept(m, y, k)
    <3>1. \A j \in DOMAIN m.flows \ {k} : y.flows[j] = m.flows[j]
      <4>1. m \in Machines
        BY SoundTable
      <4> QED BY <4>1 DEF Create, Machines
    <3> HIDE DEF y
    <3> QED BY <2>7, <3>1 DEF Kept
  <2> HIDE DEF y, B
  <2>9. DataIn(y, k) /\ Rest(y, c, k) /\ y.next = "idle" /\ k \in DOMAIN y.flows
    BY <2>4, <2>5, <2>6, <2>7 DEF DataIn, Rest
  <2>10. Reach(y, k) = Reach(m, k)
    BY <1>1, <2>7 DEF Reach
  <2>11. Turn(m, y, c, k, {})
    BY <2>8, <2>9, <2>10 DEF Turn, Effect, Waits
  <2>12. Turn(y, x, c, k, B)
    BY <1>3, <2>1, <2>3, <2>7, <2>9, CollectData DEF Turn, B, y, st
  <2>13. Turn(m, x, c, k, {} \cup B)
    BY <2>9, <2>11, <2>12, TurnThen
  <2>14. {} \cup B = B
    OBVIOUS
  <2> QED BY <2>13, <2>14 DEF B
<1> QED BY <1>2, <1>3 DEF handleUnknown

\* handlePacket sends or holds the bytes of the packet, and keeps those it held.
LEMMA HandleTurn ==
  ASSUME NEW m, Sound(m), NEW c \in Config, NEW k \in Keys, m.next = "idle", DataIn(m, k),
         NEW pkt \in Packet, NEW x, x = handlePacket(m, c, k, pkt)
  PROVE  Turn(m, x, c, k, Bytes(pkt.seq, pkt.len))
<1>1. CASE k \in DOMAIN m.flows
  <2>1. x = handleKnown(m, c, k, pkt)
    BY <1>1 DEF handlePacket
  <2> QED BY <1>1, <2>1, KnownTurn
<1>2. CASE k \notin DOMAIN m.flows
  <2>1. x = handleUnknown(m, c, k, pkt)
    BY <1>2 DEF handlePacket
  <2> QED BY <1>2, <2>1, UnknownTurn
<1> QED BY <1>1, <1>2


-----------------------------------------------------------------------------
\* trySplitTLSHello, for a flow that has been given a packet.
LEMMA TrySplitTurn ==
  ASSUME NEW m, Sound(m), NEW c \in Config, NEW k \in DOMAIN m.flows, m.next = "idle",
         DataIn(m, k), NEW x, x = trySplitTLSHello(m, c, k)
  PROVE  /\ Effect(m, x, k, {})
         /\ /\ c.mode = "tls-hello" /\ Ready(m.flows[k], Aim(k, m.flows[k], c))
            /\ x.next # "failed"
            => Waits(x, c, k)
<1> DEFINE st == m.flows[k]
           n == ContigLen(st)
           h == HeaderAt(k, st.base)
           need == 5 + h.recordLen
           aim == Aim(k, st, c)
           sees(l) == DetectClientHelloRecord(l, h)
<1>1. k \in Keys /\ st \in Flow /\ FlowOK(st) /\ n \in Nat
  BY SoundFlow, ContigLenType
<1>2. h.recordLen = Hello[k].recordLen /\ h.recordLen \in Nat
  <2>1. Hello[k] \in [contentType : Nat, version : Nat, handshake : Nat, recordLen : Nat]
    BY <1>1, WorkerAssumption
  <2> QED BY <2>1 DEF HeaderAt
<1>3. /\ n < 6 <=> sees(n) = "needMore"
      /\ n >= 6 => sees(n) = sees(6)
      /\ sees(6) \in {"mismatch", "match"}
      /\ sees(6) = "match" => h.recordLen # 0
  <2> HIDE DEF n, h
  <2> QED BY <1>1 DEF DetectClientHelloRecord
<1>4. c.mode = "tls-hello" => aim = IF sees(6) = "match" THEN need ELSE 6
  <2>1. c.mode = "tls-hello" => c.mode # "immediate"
    OBVIOUS
  <2> QED BY <1>2, <2>1 DEF Aim
<1>5. \/ x = m /\ sees(n) = "needMore"
      \/ x = failOpen(m, k)
      \/ x = m /\ sees(n) \notin {"needMore", "mismatch"} /\ n < need
      \/ /\ x = [m EXCEPT !.next = "inject", !.win = need]
         /\ sees(n) \notin {"needMore", "mismatch"}
  <2>1. x = CASE sees(n) = "needMore" -> m
              [] sees(n) = "mismatch" -> failOpen(m, k)
              [] OTHER -> IF need > c.maxBuffer THEN failOpen(m, k)
                          ELSE IF n < need THEN m
                          ELSE [m EXCEPT !.next = "inject", !.win = need]
    BY DEF trySplitTLSHello
  <2> HIDE DEF need, n, sees
  <2>2. CASE sees(n) = "needMore"
    BY <1>3, <2>1, <2>2
  <2>3. CASE sees(n) = "mismatch"
    BY <2>1, <2>3
  <2>4. CASE sees(n) # "needMore" /\ sees(n) # "mismatch"
    <3>1. x = IF need > c.maxBuffer THEN failOpen(m, k)
              ELSE IF n < need THEN m
              ELSE [m EXCEPT !.next = "inject", !.win = need]
      BY <2>1, <2>4
    <3> QED BY <2>4, <3>1
  <2> QED BY <2>2, <2>3, <2>4
<1> HIDE DEF n, h, need, aim, sees
<1>6. CASE x = failOpen(m, k)
  <2>1. /\ Sound(x) /\ Effect(m, x, k, {}) /\ x.next \in {"idle", "failed"}
        /\ x.next # "failed" => Closed(x, k)
    BY <1>6, FailOpenData
  <2> QED BY <2>1, ClosedData DEF Waits
<1>7. ASSUME x.flows = m.flows, x.wire = m.wire PROVE Effect(m, x, k, {})
  BY <1>7 DEF Effect, Kept, Reach, Held, DataIn
<1>8. CASE x = m /\ sees(n) = "needMore"
  <2>1. n < 6
    BY <1>3, <1>8
  <2>2. c.mode = "tls-hello" => n < aim
    <3>1. need = 5 + h.recordLen
      BY DEF need
    <3> QED BY <1>1, <1>2, <1>3, <1>4, <2>1, <3>1
  <2> QED BY <1>7, <1>8, <2>2 DEF Waits, Rest, n, aim
<1>9. CASE x = m /\ sees(n) \notin {"needMore", "mismatch"} /\ n < need
  <2>1. n >= 6 /\ sees(6) = "match"
    BY <1>1, <1>3, <1>9
  <2>2. c.mode = "tls-hello" => n < aim
    BY <1>4, <1>9, <2>1
  <2> QED BY <1>7, <1>9, <2>2 DEF Waits, Rest, n, aim
<1>10. CASE /\ x = [m EXCEPT !.next = "inject", !.win = need]
            /\ sees(n) \notin {"needMore", "mismatch"}
  <2>1. sees(6) = "match"
    BY <1>1, <1>3, <1>10
  <2>2. c.mode = "tls-hello" => need = aim
    BY <1>4, <2>1
  <2>3. x.flows = m.flows /\ x.wire = m.wire /\ x.next = "inject" /\ x.win = need
    <3>1. m \in Machines
      BY SoundTable
    <3> QED BY <1>10, <3>1 DEF Machines
  <2> QED BY <1>7, <2>2, <2>3 DEF Waits, Go, aim
<1> QED BY <1>5, <1>6, <1>8, <1>9, <1>10

\* Held bytes are in the prefix or beyond a gap.
LEMMA HeldCovered ==
  ASSUME NEW st \in Flow, FlowOK(st), Whole(st), NEW w,
         WireCovers(w, st, 0, ContigLen(st))
  PROVE  PacketBytes(st.held)
           \subseteq WireBytes(w) \cup Positions(st, {o \in st.buf : o > ContigLen(st)})
<1> SUFFICES ASSUME NEW i \in DOMAIN st.held,
                    NEW b \in Bytes(st.held[i].seq, st.held[i].len)
             PROVE  b \in WireBytes(w) \cup Positions(st, {o \in st.buf : o > ContigLen(st)})
  BY DEF PacketBytes
<1> DEFINE pkt == st.held[i]
           off == Offset(st, pkt)
           c == ContigLen(st)
<1>1. /\ pkt \in Packet /\ pkt.seq \in Int /\ pkt.len \in Nat /\ off \in Nat
      /\ st.base \in Int /\ st.buf \in SUBSET Nat /\ st.max \in Nat
  BY HeldType, SpaceType DEF Flow
<1>2. PICK g \in 0 .. pkt.len - 1 : b = (pkt.seq + g) % SeqSpace
  BY DEF Bytes
<1> DEFINE o == off + g
<1>3. (st.base + off + g) % SeqSpace = (pkt.seq + g) % SeqSpace
  BY <1>1, <1>2, OffsetByte
<1>4. st.base + off + g = st.base + o /\ o \in Nat
  BY <1>1, <1>2
<1>5. o \in st.buf
  <2>1. Span(st, pkt) \subseteq st.buf
    BY DEF Whole
  <2>2. o \in off .. off + pkt.len - 1
    BY <1>1, <1>2
  <2> QED BY <2>1, <2>2 DEF Span
<1> HIDE DEF o, off
<1>6. b = (st.base + o) % SeqSpace
  BY <1>2, <1>3, <1>4
<1>7. c \in Nat /\ c \notin st.buf
  BY <1>1, ContigLenType, PrefixLenType DEF ContigLen, FlowOK
<1> HIDE DEF c
<1>8. CASE o < c
  <2>1. o \in 0 .. c - 1
    BY <1>4, <1>7, <1>8
  <2>2. b \in WireBytes(w)
    BY <1>6, <2>1 DEF WireCovers, c
  <2> QED BY <2>2
<1>9. CASE o > c
  <2>1. o \in {e \in st.buf : e > ContigLen(st)}
    BY <1>5, <1>9 DEF c
  <2>2. b \in Positions(st, {e \in st.buf : e > ContigLen(st)})
    BY <1>6, <2>1 DEF Positions
  <2> QED BY <2>2
<1> QED BY <1>4, <1>5, <1>7, <1>8, <1>9

\* What is sent is kept, also if a call fails.
LEMMA SomeSent ==
  ASSUME NEW m, Sound(m), NEW k \in Keys, NEW items \in Seq(Item), NEW x,
         Sent(m, x, k, items)
  PROVE  Reach(m, k) \subseteq Reach(x, k)
<1>1. PICK n \in 0 .. Len(items) : x.wire[k] = m.wire[k] \o SubSeq(items, 1, n)
  BY DEF Sent
<1> DEFINE some == SubSeq(items, 1, n)
<1>2. some \in Seq(Item)
  <2>1. Len(items) \in Nat /\ n \in Int
    OBVIOUS
  <2>2. ASSUME NEW i \in 1 .. n PROVE items[i] \in Item
    OBVIOUS
  <2> QED BY <2>1, <2>2, SubSeqProperties
<1>3. m.wire[k] \in Seq(Item)
  BY SoundTable
<1> HIDE DEF some
<1>4. WireBytes(m.wire[k]) \subseteq WireBytes(x.wire[k])
  BY <1>1, <1>2, <1>3, WireBytesConcat DEF some
<1>5. Held(x, k) = Held(m, k)
  BY DEF Sent, Held
<1> QED BY <1>4, <1>5 DEF Reach


\* The bytes of a flow that lie beyond a gap.
Gap(st) == Positions(st, {o \in st.buf : o > ContigLen(st)})

\* injectWindow sends all that is held but what lies beyond a gap.
LEMMA InjectTurn ==
  ASSUME NEW m, Sound(m), NEW c \in Config, NEW k \in DOMAIN m.flows, m.next = "idle",
         DataIn(m, k), NEW win \in Int, NEW plan, plan = InjectPlan(m.flows[k], c, win),
         NEW x, x = injectWindow(m, k, win, plan)
  PROVE  /\ Kept(m, x, k) /\ k \in DOMAIN x.flows /\ x.next \in {"idle", "failed"}
         /\ x.next # "failed" =>
              /\ DataIn(x, k)
              /\ win = Aim(k, m.flows[k], c) => Rest(x, c, k)
              /\ \/ Reach(m, k) \subseteq Reach(x, k)
                 \/ /\ x.flows[k].state = "injected"
                    /\ Reach(m, k) \subseteq Reach(x, k) \cup Gap(m.flows[k])
         /\ x.flows[k].state = "injected" /\ m.flows[k].state # "injected" =>
              plan # <<>> /\ win <= ContigLen(m.flows[k])
<1> DEFINE sent == SendAll(m, k, plan)
           idle == [sent EXCEPT !.next = "idle"]
           drop == dropHeld(sent, k)
           st == m.flows[k]
<1>1. /\ k \in Keys /\ st \in Flow /\ FlowOK(st) /\ DataOK(st)
      /\ ContigLen(st) \in Nat
  BY SoundFlow, ContigLenType DEF DataIn
<1>2. plan \in Seq(Made) /\ plan \in Seq(Item)
  <2>1. plan \in Seq(Made)
    BY <1>1, PlanType
  <2> QED BY <2>1, MadeItems
<1>3. Sound(sent) /\ Sent(m, sent, k, plan) /\ Reach(m, k) \subseteq Reach(sent, k)
  <2>1. Sound(sent) /\ Sent(m, sent, k, plan)
    BY <1>1, <1>2, SendSound
  <2> HIDE DEF sent
  <2> QED BY <1>1, <1>2, <2>1, SomeSent
<1>4. \/ x = m /\ ContigLen(st) < win
      \/ x = failOpen(m, k)
      \/ x = failOpen(idle, k) /\ sent.next = "failed"
      \/ /\ sent.next # "failed" /\ drop.next = "failed" /\ x = drop
      \/ /\ ~ (ContigLen(st) < win) /\ plan # <<>>
         /\ sent.next # "failed" /\ drop.next # "failed"
         /\ x = clearCollectingState([drop EXCEPT !.flows[k].state = "injected"], k)
  BY DEF injectWindow
<1> HIDE DEF sent
<1>5. sent.flows = m.flows /\ k \in DOMAIN sent.flows
  BY <1>3 DEF Sent
<1>6. CASE x = m /\ ContigLen(st) < win
  BY <1>1, <1>6 DEF Kept, Rest
<1>7. ASSUME NEW v, Sound(v), v.next = "idle", v.flows = m.flows,
             Reach(m, k) \subseteq Reach(v, k), x = failOpen(v, k)
      PROVE  /\ Kept(m, x, k) /\ k \in DOMAIN x.flows /\ x.next \in {"idle", "failed"}
             /\ x.next # "failed" =>
                  /\ DataIn(x, k) /\ Rest(x, c, k)
                  /\ Reach(m, k) \subseteq Reach(x, k)
             /\ x.flows[k].state \in {st.state, "pass"}
  <2>1. /\ Sound(x) /\ Effect(v, x, k, {}) /\ x.next \in {"idle", "failed"}
        /\ DOMAIN x.flows = DOMAIN v.flows
        /\ x.flows[k].state \in {v.flows[k].state, "pass"}
        /\ x.next # "failed" => Closed(x, k)
    BY <1>7, FailOpenData
  <2>2. Kept(m, x, k)
    BY <1>7, <2>1 DEF Kept, Effect
  <2>3. x.next # "failed" => Rest(x, c, k)
    BY <2>1, ClosedData
  <2> QED BY <1>7, <2>1, <2>2, <2>3 DEF Effect
<1>8. CASE x = failOpen(m, k)
  <2>1. /\ Kept(m, x, k) /\ k \in DOMAIN x.flows /\ x.next \in {"idle", "failed"}
        /\ x.next # "failed" =>
             /\ DataIn(x, k) /\ Rest(x, c, k)
             /\ Reach(m, k) \subseteq Reach(x, k)
        /\ x.flows[k].state \in {st.state, "pass"}
    BY <1>7, <1>8
  <2> QED BY <2>1
<1>9. CASE x = failOpen(idle, k)
  <2> DEFINE w == sent.win
  <2>1. idle = Goto(sent, "idle", w) /\ w \in Int
    BY <1>3, SoundTable DEF Goto, Sound, Machines
  <2> HIDE DEF idle, w
  <2>2. Sound(idle) /\ SameData(sent, idle) /\ idle.next = "idle"
    BY <1>3, <2>1, NextSound
  <2>3. idle.flows = m.flows /\ Reach(m, k) \subseteq Reach(idle, k)
    BY <1>3, <1>5, <2>2 DEF SameData, Reach, Held
  <2>4. /\ Kept(m, x, k) /\ k \in DOMAIN x.flows /\ x.next \in {"idle", "failed"}
        /\ x.next # "failed" =>
             /\ DataIn(x, k) /\ Rest(x, c, k)
             /\ Reach(m, k) \subseteq Reach(x, k)
        /\ x.flows[k].state \in {st.state, "pass"}
    BY <1>7, <1>9, <2>2, <2>3
  <2> QED BY <2>4
<1>10. ASSUME sent.next # "failed"
       PROVE  Sound(drop) /\ Dropped(sent, drop, k)
  BY <1>3, <1>5, <1>10, DropHeldSound
<1> HIDE DEF drop
<1>11. CASE sent.next # "failed" /\ drop.next = "failed" /\ x = drop
  <2>1. x.flows = m.flows /\ x.next = "failed"
    BY <1>5, <1>10, <1>11 DEF Dropped
  <2> QED BY <2>1 DEF Kept
<1>12. CASE /\ ~ (ContigLen(st) < win) /\ plan # <<>>
            /\ sent.next # "failed" /\ drop.next # "failed"
            /\ x = clearCollectingState([drop EXCEPT !.flows[k].state = "injected"], k)
  <2>1. Sound(drop) /\ Dropped(sent, drop, k)
    BY <1>10, <1>12
  <2>2. /\ drop.flows = m.flows /\ k \in DOMAIN drop.flows /\ drop.next = "idle"
        /\ drop.wire = sent.wire
    BY <1>3, <1>5, <1>12, <2>1 DEF Dropped, Sent
  <2>3. Sound(x) /\ Gave(drop, x, k, "injected")
    BY <1>12, <2>1, <2>2, ClearSound
  <2>4. m.flows \in [DOMAIN m.flows -> Flow]
    BY SoundTable
  <2>5. Cleared(st, "injected").held = <<>> /\ Cleared(st, "injected").state = "injected"
    BY <1>1 DEF Cleared, Flow
  <2>6. /\ DOMAIN x.flows = DOMAIN m.flows /\ x.flows[k] = Cleared(st, "injected")
        /\ \A j \in DOMAIN m.flows \ {k} : x.flows[j] = m.flows[j]
    BY <2>2, <2>3, <2>4 DEF Gave
  <2>7. Kept(m, x, k) /\ Closed(x, k) /\ x.flows[k].state = "injected"
    BY <2>5, <2>6 DEF Kept, Closed
  <2>8. DataIn(x, k) /\ Rest(x, c, k)
    BY <2>3, <2>7, ClosedData
  <2>9. win <= ContigLen(st)
    BY <1>1, <1>12
  <2>10. Reach(m, k) \subseteq Reach(x, k) \cup Gap(st)
    <3>1. WireCovers(plan, st, 0, ContigLen(st))
      BY <1>1, <1>12, <2>9, PlanCovers DEF DataOK
    <3>2. PacketBytes(st.held) \subseteq WireBytes(plan) \cup Gap(st)
      BY <1>1, <3>1, HeldCovered DEF DataOK, Gap
    <3>3. x.wire[k] = m.wire[k] \o plan /\ m.wire[k] \in Seq(Item)
      BY <1>1, <1>3, <1>12, <2>2, <2>3, SoundTable DEF Sent, Gave
    <3>4. WireBytes(x.wire[k]) = WireBytes(m.wire[k]) \cup WireBytes(plan)
      BY <1>2, <3>3, WireBytesConcat
    <3>5. Held(m, k) = st.held
      BY DEF Held
    <3> HIDE DEF st
    <3> QED BY <3>2, <3>4, <3>5 DEF Reach
  <2>11. x.next = "idle"
    BY <2>2, <2>3 DEF Gave
  <2> QED BY <1>12, <2>6, <2>7, <2>8, <2>9, <2>10, <2>11
<1> QED BY <1>4, <1>6, <1>8, <1>9, <1>11, <1>12

\* gc for one idle flow: what it holds is sent before it is deleted.
LEMMA EvictTurn ==
  ASSUME NEW m, Sound(m), NEW k \in DOMAIN m.flows, m.next = "idle",
         NEW x, x = evict(m, k)
  PROVE  /\ Effect(m, x, k, {})
         /\ x.next # "failed" => k \notin DOMAIN x.flows
<1>1. CASE m.flows[k].state = "collecting" /\ m.flows[k].held # <<>>
  <2>1. x = Delete(failOpen(m, k), k)
    BY <1>1 DEF evict
  <2> QED BY <2>1, FailOpenDeleteData
<1>2. CASE ~(m.flows[k].state = "collecting" /\ m.flows[k].held # <<>>)
  <2>1. x = Delete(m, k)
    BY <1>2 DEF evict
  <2>2. Held(m, k) = <<>>
    BY <1>2, SoundFlow DEF FlowOK, Held
  <2> QED BY <2>1, <2>2, DeleteData
<1> QED BY <1>1, <1>2


-----------------------------------------------------------------------------
\* The buffer of every flow is what its packets make of it.
DataInv == Intact => \A k \in DOMAIN flows : DataOK(flows[k])

\* Under one configuration a collecting flow has less than it waits for, but for the one
\* that the worker is about to split.
WaitInv ==
  reloads = 0 /\ Intact =>
    /\ \A k \in DOMAIN flows :
         /\ flows[k].state = "collecting"
         /\ ~ (pc \in {"split", "inject"} /\ k = cur)
         => ContigLen(flows[k]) < Aim(k, flows[k], cfg)
    /\ pc \in {"split", "inject"} => Ready(flows[cur], Aim(cur, flows[cur], cfg))
    /\ pc = "inject" => windowLen = Aim(cur, flows[cur], cfg)
    /\ pc = "split" => cfg.mode = "tls-hello"

\* The inductive invariant, relative to IInv.
LossInv ==
  /\ DataInv /\ WaitInv /\ DOMAIN beyond = Keys
  /\ OnlyGapBytesLost /\ BurstTiles

\* A handler that leaves its flow as the next one expects it.
LEMMA DataStep ==
  ASSUME TableInv, DataInv, WaitInv, pc \in {"idle", "split", "inject"},
         NEW k \in Keys, pc \in {"split", "inject"} => k = cur,
         NEW bad \in Failures, NEW m, Sound(m), Kept(Machine(bad), m, k),
         Continue(m, k), cfg' = cfg, reloads' = reloads,
         m.next # "failed" => DataIn(m, k) /\ (reloads = 0 => Waits(m, cfg, k))
  PROVE  DataInv' /\ WaitInv'
<1>1. /\ flows' = m.flows /\ pc' = m.next /\ windowLen' = m.win
      /\ cur' = IF m.next \in {"split", "inject"} THEN k ELSE "none"
  BY DEF Continue, Commit
<1>2. Intact
  BY DEF Intact
<1>3. Intact' => m.next # "failed"
  BY <1>1 DEF Intact
<1>4. /\ DOMAIN flows' \subseteq DOMAIN flows \cup {k}
      /\ \A j \in DOMAIN flows' \ {k} : j \in DOMAIN flows /\ flows'[j] = flows[j]
  <2>1. Machine(bad).flows = flows
    BY MachineSound
  <2> QED BY <1>1, <2>1 DEF Kept
<1>5. DataInv'
  <2> SUFFICES ASSUME Intact', NEW j \in DOMAIN flows' PROVE DataOK(flows'[j])
    BY DEF DataInv
  <2>1. CASE j = k
    BY <1>1, <1>3, <2>1 DEF DataIn
  <2>2. CASE j # k
    BY <1>2, <1>4, <2>2 DEF DataInv
  <2> QED BY <2>1, <2>2
<1>6. WaitInv'
  <2> SUFFICES ASSUME reloads' = 0, Intact'
               PROVE  /\ \A j \in DOMAIN flows' :
                           /\ flows'[j].state = "collecting"
                           /\ ~ (pc' \in {"split", "inject"} /\ j = cur')
                           => ContigLen(flows'[j]) < Aim(j, flows'[j], cfg)
                      /\ pc' \in {"split", "inject"} =>
                           Ready(flows'[cur'], Aim(cur', flows'[cur'], cfg))
                      /\ pc' = "inject" => windowLen' = Aim(cur', flows'[cur'], cfg)
                      /\ pc' = "split" => cfg.mode = "tls-hello"
    BY DEF WaitInv
  <2>1. Waits(m, cfg, k) /\ reloads = 0
    BY <1>3
  <2>2. ASSUME NEW j \in DOMAIN flows', flows'[j].state = "collecting",
               ~ (pc' \in {"split", "inject"} /\ j = cur')
        PROVE  ContigLen(flows'[j]) < Aim(j, flows'[j], cfg)
    <3>1. CASE j = k
      <4>1. Rest(m, cfg, k)
        BY <1>1, <2>1, <2>2, <3>1 DEF Waits
      <4> QED BY <1>1, <2>2, <3>1, <4>1 DEF Rest
    <3>2. CASE j # k
      <4>1. j \in DOMAIN flows /\ flows'[j] = flows[j]
        BY <1>4, <3>2
      <4> QED BY <1>2, <2>1, <2>2, <3>2, <4>1 DEF WaitInv
    <3> QED BY <3>1, <3>2
  <2>3. ASSUME pc' \in {"split", "inject"}
        PROVE  /\ Ready(flows'[cur'], Aim(cur', flows'[cur'], cfg))
               /\ pc' = "inject" => windowLen' = Aim(cur', flows'[cur'], cfg)
               /\ pc' = "split" => cfg.mode = "tls-hello"
    <3>1. Go(m, cfg, k) /\ cur' = k
      BY <1>1, <2>1, <2>3 DEF Waits
    <3> QED BY <1>1, <3>1 DEF Go
  <2> QED BY <2>2, <2>3
<1> QED BY <1>5, <1>6

\* The bytes of a flow in the worker's variables.
LEMMA ReachIs ==
  ASSUME TableInv, NEW bad \in Failures, NEW k \in Keys
  PROVE  Reach(Machine(bad), k) = SentBytes(k) \cup HeldStream(k)
<1>1. Held(Machine(bad), k) = HeldPackets(k) /\ Machine(bad).wire = wire
  BY MachineSound DEF Machine
<1> QED BY <1>1 DEF Reach, WireBytes, PacketBytes, SentBytes, HeldStream

\* What is sent or held after the step is what the machine says.
LEMMA ReachIsNext ==
  ASSUME NEW m, Commit(m), NEW k
  PROVE  Reach(m, k) = (SentBytes(k) \cup HeldStream(k))'
<1>1. flows' = m.flows /\ wire' = m.wire
  BY DEF Commit
<1>2. Held(m, k) = HeldPackets(k)'
  BY <1>1 DEF Held, HeldPackets
<1> QED BY <1>1, <1>2 DEF Reach, WireBytes, PacketBytes, SentBytes, HeldStream

\* No byte is lost by a handler that keeps what it is given and what it held.
LEMMA LossStep ==
  ASSUME TableInv, Intact, OnlyGapBytesLost, NEW bad \in Failures, NEW k \in Keys,
         NEW m, Commit(m), Elsewhere(Machine(bad), m, k), scenario' = scenario,
         \A j \in Keys \ {k} : pos'[j] = pos[j],
         \A j \in Keys : beyond[j] \subseteq beyond'[j],
         NEW B, \A i \in 1 .. pos'[k] : \/ i \in 1 .. pos[k]
                                        \/ Bytes(script[k][i].seq, script[k][i].len) \subseteq B,
         Reach(Machine(bad), k) \cup B \subseteq Reach(m, k) \cup beyond'[k]
  PROVE  OnlyGapBytesLost'
<1> SUFFICES ASSUME NEW j \in Keys
             PROVE  Handled(j)' \subseteq (SentBytes(j) \cup HeldStream(j))' \cup beyond'[j]
  BY DEF OnlyGapBytesLost
<1>1. Handled(j) \subseteq SentBytes(j) \cup HeldStream(j) \cup beyond[j]
  BY DEF OnlyGapBytesLost
<1>2. script' = script
  BY DEF script
<1>3. SentBytes(j) \cup HeldStream(j) = Reach(Machine(bad), j)
  BY ReachIs
<1>4. (SentBytes(j) \cup HeldStream(j))' = Reach(m, j)
  BY ReachIsNext
<1>5. CASE j = k
  <2>1. Handled(k)' \subseteq Handled(k) \cup B
    BY <1>2 DEF Handled
  <2> QED BY <1>1, <1>3, <1>4, <1>5, <2>1
<1>6. CASE j # k
  <2>1. Handled(j)' = Handled(j)
    BY <1>2, <1>6 DEF Handled
  <2>2. Reach(m, j) = Reach(Machine(bad), j)
    BY <1>6 DEF Reach, Elsewhere
  <2>3. beyond[j] \subseteq beyond'[j]
    OBVIOUS
  <2> QED BY <1>1, <1>3, <1>4, <2>1, <2>2, <2>3
<1> QED BY <1>5, <1>6

\* Nothing is said of the bytes after an error.
LEMMA LossFailed == ~Intact' => OnlyGapBytesLost'
BY DEF OnlyGapBytesLost

\* The last injection is the same.
LEMMA BurstStep ==
  ASSUME BurstTiles, burst' = burst, reloads' = 0 => reloads = 0
  PROVE  BurstTiles'
BY DEF BurstTiles

\* HandlePacket preserves the invariant.
LEMMA HandlePacketLoss ==
  ASSUME IInv, LossInv, NEW k \in Keys, HandlePacket(k)
  PROVE  LossInv'
<1>1. /\ ControlInv /\ TableInv /\ pc = "idle" /\ Intact /\ cfg \in Config
      /\ DataInv /\ WaitInv /\ OnlyGapBytesLost /\ BurstTiles
  BY CfgType DEF IInv, LossInv, HandlePacket, Intact
<1> DEFINE p == pos[k]
           pkt == script[k][p + 1]
<1>2. PICK bad \in Failures : Continue(handlePacket(Machine(bad), cfg, k, pkt), k)
  BY DEF HandlePacket
<1>3. p \in Nat /\ p + 1 \in 1 .. Len(script[k])
  <2>1. p \in Nat /\ p < Len(script[k])
    BY <1>1 DEF HandlePacket, ControlInv
  <2>2. script[k] \in Seq(Packet)
    BY <1>1, WorkerAssumption DEF ControlInv, script
  <2>3. Len(script[k]) \in Nat
    BY <2>2
  <2> QED BY <2>1, <2>3
<1>4. /\ pkt \in Packet /\ pkt.id = p + 1
      /\ pkt.len = 0 => pkt.flag \in {"FIN", "RST"}
  BY <1>1, <1>3, ScriptType
<1>5. PlacedIn(Machine(bad), k, p)
  BY <1>1, MachinePlaced
<1>6. UNCHANGED <<scenario, cfg, burst, beyond, reloads>> /\ pos' = [pos EXCEPT ![k] = p + 1]
  BY DEF HandlePacket
<1> DEFINE m0 == Machine(bad)
           x == handlePacket(m0, cfg, k, pkt)
           B == Bytes(pkt.seq, pkt.len)
<1>7. Sound(m0) /\ m0.next = "idle" /\ m0.flows = flows
  BY <1>1, MachineSound
<1>8. Continue(x, k)
  BY <1>2
<1>9. DataIn(m0, k) /\ (reloads = 0 => Rest(m0, cfg, k))
  BY <1>1, <1>7 DEF DataIn, DataInv, Rest, WaitInv
<1> HIDE DEF m0
<1>10. Outcome(m0, x, cfg, k, p + 1)
  <2> HIDE DEF p, pkt
  <2> QED BY <1>1, <1>3, <1>4, <1>5, <1>7, HandleOutcome DEF m0
<1>11. Turn(m0, x, cfg, k, B)
  <2> HIDE DEF p, pkt
  <2> QED BY <1>1, <1>4, <1>7, <1>9, HandleTurn
<1> HIDE DEF x, B
<1>12. DataInv' /\ WaitInv'
  <2>1. Sound(x) /\ Kept(Machine(bad), x, k)
    BY <1>10, <1>11 DEF Outcome, Turn, Effect, m0
  <2>2. x.next # "failed" => DataIn(x, k) /\ (reloads = 0 => Waits(x, cfg, k))
    BY <1>9, <1>11 DEF Turn, Effect
  <2> QED BY <1>1, <1>6, <1>8, <2>1, <2>2, DataStep
<1>13. OnlyGapBytesLost'
  <2>1. CASE x.next = "failed"
    <3>1. ~Intact'
      BY <1>8, <2>1 DEF Continue, Intact
    <3> QED BY <3>1, LossFailed
  <2>2. CASE x.next # "failed"
    <3>1. Commit(x) /\ Elsewhere(Machine(bad), x, k)
      BY <1>8, <1>10 DEF Continue, Outcome, m0
    <3>2. Reach(Machine(bad), k) \cup B \subseteq Reach(x, k) \cup beyond'[k]
      BY <1>11, <2>2 DEF Turn, Effect, m0
    <3>3. pos'[k] = p + 1 /\ \A j \in Keys \ {k} : pos'[j] = pos[j]
      BY <1>1, <1>6 DEF ControlInv
    <3>4. \A i \in 1 .. pos'[k] : \/ i \in 1 .. pos[k]
                                  \/ Bytes(script[k][i].seq, script[k][i].len) \subseteq B
      <4> SUFFICES ASSUME NEW i \in 1 .. p + 1, i \notin 1 .. p
                   PROVE  Bytes(script[k][i].seq, script[k][i].len) \subseteq B
        BY <3>3
      <4>1. i = p + 1
        BY <1>3
      <4> QED BY <4>1 DEF B
    <3>5. scenario' = scenario /\ \A j \in Keys : beyond[j] \subseteq beyond'[j]
      BY <1>6
    <3> HIDE DEF p, pkt
    <3> QED BY <1>1, <3>1, <3>2, <3>3, <3>4, <3>5, LossStep, Zenon
  <2> QED BY <2>1, <2>2
<1>14. BurstTiles' /\ DOMAIN beyond' = Keys
  BY <1>1, <1>6, BurstStep DEF LossInv
<1> QED BY <1>12, <1>13, <1>14 DEF LossInv

\* TrySplitTLSHello preserves the invariant.
LEMMA TrySplitLoss ==
  ASSUME IInv, LossInv, TrySplitTLSHello
  PROVE  LossInv'
<1>1. /\ ControlInv /\ TableInv /\ pc = "split" /\ Intact /\ cfg \in Config
      /\ DataInv /\ WaitInv /\ OnlyGapBytesLost /\ BurstTiles
  BY CfgType DEF IInv, LossInv, TrySplitTLSHello, Intact
<1>2. PICK bad \in Failures : Continue(trySplitTLSHello(Machine(bad), cfg, cur), cur)
  BY DEF TrySplitTLSHello
<1> DEFINE m0 == Machine(bad)
           k == cur
           p == pos[k]
           x == trySplitTLSHello(m0, cfg, k)
<1>3. Sound(m0) /\ m0.next = "idle" /\ k \in DOMAIN m0.flows /\ m0.flows = flows
  BY <1>1, MachineSound DEF ControlInv
<1>4. k \in Keys
  BY <1>3, SoundFlow
<1>5. p \in Nat
  BY <1>1, <1>4 DEF ControlInv
<1>6. PlacedIn(m0, k, p)
  BY <1>1, <1>4, MachinePlaced
<1>7. UNCHANGED <<scenario, pos, cfg, burst, beyond, reloads>>
  BY DEF TrySplitTLSHello
<1>8. Continue(x, k)
  BY <1>2
<1>9. /\ DataIn(m0, k)
      /\ reloads = 0 => cfg.mode = "tls-hello" /\ Ready(m0.flows[k], Aim(k, m0.flows[k], cfg))
  BY <1>1, <1>3 DEF DataIn, DataInv, WaitInv
<1> HIDE DEF p, m0, k
<1>10. Outcome(m0, x, cfg, k, p)
  BY <1>1, <1>3, <1>5, <1>6, TrySplitOutcome
<1>11. /\ Effect(m0, x, k, {})
       /\ /\ cfg.mode = "tls-hello" /\ Ready(m0.flows[k], Aim(k, m0.flows[k], cfg))
          /\ x.next # "failed"
          => Waits(x, cfg, k)
  BY <1>1, <1>3, <1>9, TrySplitTurn
<1> HIDE DEF x
<1>12. DataInv' /\ WaitInv'
  <2>1. Sound(x) /\ Kept(Machine(bad), x, k)
    BY <1>10, <1>11 DEF Outcome, Effect, m0
  <2>2. x.next # "failed" => DataIn(x, k) /\ (reloads = 0 => Waits(x, cfg, k))
    BY <1>9, <1>11 DEF Effect
  <2>3. k = cur
    BY DEF k
  <2> QED BY <1>1, <1>4, <1>7, <1>8, <2>1, <2>2, <2>3, DataStep
<1>13. OnlyGapBytesLost'
  <2>1. CASE x.next = "failed"
    <3>1. ~Intact'
      BY <1>8, <2>1 DEF Continue, Intact
    <3> QED BY <3>1, LossFailed
  <2>2. CASE x.next # "failed"
    <3>1. Commit(x) /\ Elsewhere(Machine(bad), x, k)
      BY <1>8, <1>10 DEF Continue, Outcome, m0
    <3>2. Reach(Machine(bad), k) \cup {} \subseteq Reach(x, k) \cup beyond'[k]
      BY <1>11, <2>2 DEF Effect, m0
    <3> QED BY <1>1, <1>4, <1>7, <3>1, <3>2, LossStep
  <2> QED BY <2>1, <2>2
<1>14. BurstTiles' /\ DOMAIN beyond' = Keys
  BY <1>1, <1>7, BurstStep DEF LossInv
<1> QED BY <1>12, <1>13, <1>14 DEF LossInv


\* The segments of a burst, as the property has them.
LEMMA BurstFollows ==
  ASSUME NEW st \in Flow, NEW plan, NEW contig, WireTiles(plan, st, 0, contig),
         burst' = [base |-> st.base, contig |-> contig, segs |-> plan]
  PROVE  BurstTiles'
<1>1. burst'.segs = plan /\ burst'.base = st.base /\ burst'.contig = contig
  OBVIOUS
<1>2. (st.base + 0) % SeqSpace = st.base
  <2>1. st.base + 0 = st.base
    BY SpaceType
  <2>2. st.base % SeqSpace = st.base
    BY SpaceType, ModSmall
  <2> QED BY <2>1, <2>2
<1>3. /\ plan[1].from = st.base
      /\ (plan[Len(plan)].from + plan[Len(plan)].len) % SeqSpace = (st.base + contig) % SeqSpace
      /\ \A i \in 1 .. Len(plan) - 1 :
           plan[i + 1].from = (plan[i].from + plan[i].len) % SeqSpace
  BY <1>2 DEF WireTiles
<1> QED BY <1>1, <1>3, Zenon DEF BurstTiles

\* InjectWindow preserves the invariant.
LEMMA InjectLoss ==
  ASSUME IInv, LossInv, InjectWindow
  PROVE  LossInv'
<1>1. /\ ControlInv /\ TableInv /\ pc = "inject" /\ Intact /\ cfg \in Config
      /\ DataInv /\ WaitInv /\ OnlyGapBytesLost /\ BurstTiles /\ windowLen \in Int
  BY CfgType DEF IInv, LossInv, InjectWindow, Intact, ControlInv
<1> DEFINE st == flows[cur]
           plan == InjectPlan(st, cfg, windowLen)
           done == cur \in DOMAIN flows' /\ flows'[cur].state = "injected"
<1>2. PICK bad \in Failures : Continue(injectWindow(Machine(bad), cur, windowLen, plan), cur)
  BY DEF InjectWindow
<1>3. /\ burst' = IF done THEN [base |-> st.base, contig |-> ContigLen(st), segs |-> plan]
                  ELSE burst
      /\ beyond' = IF done THEN [beyond EXCEPT ![cur] = @ \cup Gap(st)] ELSE beyond
      /\ UNCHANGED <<scenario, pos, cfg, reloads>>
  BY DEF InjectWindow, Gap
<1> DEFINE m0 == Machine(bad)
           k == cur
           p == pos[k]
           w == windowLen
           x == injectWindow(m0, k, w, plan)
<1>4. Sound(m0) /\ m0.next = "idle" /\ k \in DOMAIN m0.flows /\ m0.flows = flows
  BY <1>1, MachineSound DEF ControlInv
<1>5. k \in Keys /\ st \in Flow /\ FlowOK(st) /\ m0.flows[k] = st
  BY <1>4, SoundFlow
<1>6. plan \in Seq(Made)
  <2> HIDE DEF st
  <2> QED BY <1>1, <1>5, PlanType
<1>7. p \in Nat
  BY <1>1, <1>5 DEF ControlInv
<1>8. PlacedIn(m0, k, p)
  BY <1>1, <1>5, MachinePlaced
<1>9. Continue(x, k)
  BY <1>2
<1>10. /\ DataIn(m0, k)
       /\ reloads = 0 => w = Aim(k, st, cfg) /\ Ready(st, Aim(k, st, cfg))
  BY <1>1, <1>4 DEF DataIn, DataInv, WaitInv
<1>11. cur = k /\ windowLen = w /\ m0 = Machine(bad) /\ flows[k] = st
  OBVIOUS
<1>12. plan = InjectPlan(m0.flows[k], cfg, w)
  BY <1>5
<1> HIDE DEF p, m0, k, w, st, plan
<1>13. Outcome(m0, x, cfg, k, p)
  BY <1>1, <1>4, <1>6, <1>7, <1>8, InjectOutcome
<1>14. /\ Kept(m0, x, k) /\ k \in DOMAIN x.flows /\ x.next \in {"idle", "failed"}
       /\ x.next # "failed" =>
            /\ DataIn(x, k)
            /\ w = Aim(k, m0.flows[k], cfg) => Rest(x, cfg, k)
            /\ \/ Reach(m0, k) \subseteq Reach(x, k)
               \/ /\ x.flows[k].state = "injected"
                  /\ Reach(m0, k) \subseteq Reach(x, k) \cup Gap(m0.flows[k])
       /\ x.flows[k].state = "injected" /\ m0.flows[k].state # "injected" =>
            plan # <<>> /\ w <= ContigLen(m0.flows[k])
  <2>1. w \in Int
    BY <1>1, <1>11
  <2> QED BY <1>1, <1>4, <1>10, <1>12, <2>1, InjectTurn
<1> HIDE DEF x
<1>15. flows' = x.flows /\ Commit(x)
  BY <1>9 DEF Continue, Commit
<1> HIDE DEF done
<1>16. done <=> x.flows[k].state = "injected"
  BY <1>11, <1>14, <1>15 DEF done
<1>17. DataInv' /\ WaitInv'
  <2>1. Sound(x) /\ Kept(Machine(bad), x, k)
    BY <1>11, <1>13, <1>14 DEF Outcome
  <2>2. x.next # "failed" => DataIn(x, k) /\ (reloads = 0 => Waits(x, cfg, k))
    BY <1>5, <1>10, <1>14 DEF Waits
  <2> QED BY <1>1, <1>3, <1>5, <1>9, <1>11, <2>1, <2>2, DataStep
<1>18. /\ DOMAIN beyond' = Keys /\ \A j \in Keys : beyond[j] \subseteq beyond'[j]
       /\ done => Gap(st) \subseteq beyond'[k]
  <2>1. DOMAIN beyond = Keys
    BY DEF LossInv
  <2> DEFINE G == Gap(st)
  <2>2. beyond' = IF done THEN [beyond EXCEPT ![k] = @ \cup G] ELSE beyond
    BY <1>3, <1>11
  <2> HIDE DEF G
  <2>3. CASE done
    <3>1. beyond' = [beyond EXCEPT ![k] = @ \cup G]
      BY <2>2, <2>3
    <3>2. beyond'[k] = beyond[k] \cup G /\ DOMAIN beyond' = Keys
          /\ \A j \in Keys \ {k} : beyond'[j] = beyond[j]
      BY <1>5, <2>1, <3>1
    <3> QED BY <3>2 DEF G
  <2>4. CASE ~done
    BY <2>1, <2>2, <2>4
  <2> QED BY <2>3, <2>4
<1>19. OnlyGapBytesLost'
  <2>1. CASE x.next = "failed"
    <3>1. ~Intact'
      BY <1>9, <2>1 DEF Continue, Intact
    <3> QED BY <3>1, LossFailed
  <2>2. CASE x.next # "failed"
    <3>1. Elsewhere(Machine(bad), x, k)
      BY <1>11, <1>13 DEF Outcome
    <3>2. Reach(Machine(bad), k) \cup {} \subseteq Reach(x, k) \cup beyond'[k]
      BY <1>5, <1>11, <1>14, <1>16, <1>18, <2>2
    <3>3. /\ scenario' = scenario /\ \A j \in Keys \ {k} : pos'[j] = pos[j]
          /\ \A i \in 1 .. pos'[k] : \/ i \in 1 .. pos[k]
                                     \/ Bytes(script[k][i].seq, script[k][i].len) \subseteq {}
      BY <1>3
    <3> QED BY <1>1, <1>5, <1>15, <1>18, <3>1, <3>2, <3>3, LossStep, Zenon
  <2> QED BY <2>1, <2>2
<1>20. BurstTiles'
  <2>1. CASE ~done
    <3>1. burst' = burst /\ reloads' = reloads
      BY <1>3, <2>1
    <3> QED BY <1>1, <3>1, BurstStep
  <2>2. CASE done /\ reloads # 0
    BY <1>3, <2>2 DEF BurstTiles
  <2>3. CASE done /\ reloads = 0
    <3>1. Ready(st, w)
      BY <1>10, <2>3
    <3>2. plan # <<>> /\ w <= ContigLen(st) /\ w \in Int
      <4>1. st.state # "injected"
        BY <3>1 DEF Ready
      <4> QED BY <1>1, <1>5, <1>11, <1>14, <1>16, <2>3, <4>1
    <3>3. WireTiles(plan, st, 0, ContigLen(st))
      BY <1>1, <1>5, <1>12, <3>1, <3>2, PlanTiles
    <3> DEFINE contig == ContigLen(st)
    <3>4. burst' = [base |-> st.base, contig |-> contig, segs |-> plan]
      BY <1>3, <2>3
    <3> HIDE DEF contig
    <3>5. WireTiles(plan, st, 0, contig)
      BY <3>3 DEF contig
    <3> QED BY <1>5, <3>4, <3>5, BurstFollows
  <2> QED BY <2>1, <2>2, <2>3
<1> QED BY <1>17, <1>18, <1>19, <1>20 DEF LossInv


\* gc for one idle flow preserves the invariant.
LEMMA CollectGarbageLoss ==
  ASSUME IInv, LossInv, NEW k \in Keys, CollectGarbage(k)
  PROVE  LossInv'
<1>1. /\ ControlInv /\ TableInv /\ pc \in {"gc", "gcErr"} /\ cfg \in Config
      /\ k \in sweep /\ k \in DOMAIN flows
      /\ DataInv /\ WaitInv /\ OnlyGapBytesLost /\ BurstTiles /\ DOMAIN beyond = Keys
  BY CfgType DEF IInv, ControlInv, CollectGarbage, LossInv
<1>2. PICK bad \in Failures :
        LET m == evict(Machine(bad), k)
            err == pc = "gcErr" \/ m.next = "failed"
        IN /\ Commit(m)
           /\ pc' = CASE sweep' # {} /\ ~err -> "gc"
                      [] sweep' # {} /\ err  -> "gcErr"
                      [] sweep' = {} /\ ~err -> "idle"
                      [] sweep' = {} /\ err  -> "failed"
  BY DEF CollectGarbage
<1> DEFINE m0 == Machine(bad)
           x == evict(m0, k)
           p == pos[k]
<1>3. Commit(x)
  BY <1>2
<1>4. UNCHANGED <<scenario, pos, cfg, cur, windowLen, burst, beyond, reloads>>
  BY DEF CollectGarbage
<1>5. Sound(m0) /\ m0.next = "idle" /\ k \in DOMAIN m0.flows /\ m0.flows = flows
  BY <1>1, MachineSound
<1>6. /\ pc' \in {"gc", "gcErr", "idle", "failed"}
      /\ pc = "gcErr" \/ x.next = "failed" => pc' \in {"gcErr", "failed"}
  <2>1. CASE sweep' = {}
    <3>1. CASE pc = "gcErr" \/ x.next = "failed"
      BY <1>2, <2>1, <3>1
    <3>2. CASE ~ (pc = "gcErr" \/ x.next = "failed")
      BY <1>2, <2>1, <3>2
    <3> QED BY <3>1, <3>2
  <2>2. CASE sweep' # {}
    <3>1. CASE pc = "gcErr" \/ x.next = "failed"
      BY <1>2, <2>2, <3>1
    <3>2. CASE ~ (pc = "gcErr" \/ x.next = "failed")
      BY <1>2, <2>2, <3>2
    <3> QED BY <3>1, <3>2
  <2> QED BY <2>1, <2>2
<1> HIDE DEF m0, x
<1>7. Effect(m0, x, k, {}) /\ (x.next # "failed" => k \notin DOMAIN x.flows)
  BY <1>5, EvictTurn DEF x
<1>8. BurstTiles'
  BY <1>1, <1>4, BurstStep
<1>9. CASE ~Intact'
  <2>1. DataInv' /\ WaitInv'
    BY <1>9 DEF DataInv, WaitInv
  <2> QED BY <1>1, <1>4, <1>8, <1>9, <2>1, LossFailed DEF LossInv
<1>10. CASE Intact'
  <2>1. Intact /\ x.next # "failed" /\ pc = "gc" /\ pc' \in {"gc", "idle"}
    BY <1>1, <1>6, <1>10 DEF Intact
  <2>2. \A j \in DOMAIN flows' : j \in DOMAIN flows \ {k} /\ flows'[j] = flows[j]
    BY <1>3, <1>5, <1>7, <2>1 DEF Commit, Effect, Kept
  <2>3. DataInv'
    BY <1>1, <2>1, <2>2 DEF DataInv
  <2>4. WaitInv'
    BY <1>1, <1>4, <2>1, <2>2 DEF WaitInv
  <2>5. OnlyGapBytesLost'
    <3>1. p \in Nat
      BY <1>1 DEF ControlInv
    <3>2. PlacedIn(m0, k, p)
      BY <2>1, MachinePlaced DEF m0
    <3> HIDE DEF p
    <3>3. Outcome(m0, x, cfg, k, p)
      BY <1>1, <1>5, <3>1, <3>2, EvictOutcome DEF x
    <3>4. Elsewhere(Machine(bad), x, k)
      BY <3>3 DEF Outcome, m0
    <3>5. Reach(Machine(bad), k) \cup {} \subseteq Reach(x, k) \cup beyond'[k]
      BY <1>7, <2>1 DEF Effect, m0
    <3>6. /\ scenario' = scenario /\ \A j \in Keys \ {k} : pos'[j] = pos[j]
          /\ \A j \in Keys : beyond[j] \subseteq beyond'[j]
          /\ \A i \in 1 .. pos'[k] : \/ i \in 1 .. pos[k]
                                     \/ Bytes(script[k][i].seq, script[k][i].len) \subseteq {}
      BY <1>4
    <3> QED BY <1>1, <1>3, <2>1, <3>4, <3>5, <3>6, LossStep, Zenon
  <2> QED BY <1>1, <1>4, <1>8, <2>3, <2>4, <2>5 DEF LossInv
<1> QED BY <1>9, <1>10

\* The bytes are where they were.
LEMMA SteadyLoss ==
  ASSUME OnlyGapBytesLost, \A k : HeldPackets(k)' = HeldPackets(k),
         UNCHANGED <<scenario, pos, wire, beyond>>, Intact' => Intact
  PROVE  OnlyGapBytesLost'
<1>1. script' = script
  BY DEF script
<1>2. ASSUME NEW k \in Keys
      PROVE  /\ Handled(k)' = Handled(k) /\ SentBytes(k)' = SentBytes(k)
             /\ HeldStream(k)' = HeldStream(k)
  BY <1>1 DEF Handled, SentBytes, HeldStream
<1> QED BY <1>2 DEF OnlyGapBytesLost

\* A step that leaves the data alone preserves the invariant.
LEMMA SteadyLossInv ==
  ASSUME LossInv, UNCHANGED <<scenario, pos, flows, wire, burst, beyond, cur, windowLen>>,
         Intact' => Intact, pc' = pc \/ (pc = "idle" /\ pc' = "gc"),
         reloads' = 0 => reloads = 0 /\ cfg' = cfg
  PROVE  LossInv'
<1>1. DataInv' /\ WaitInv' /\ DOMAIN beyond' = Keys
  BY DEF LossInv, DataInv, WaitInv
<1>2. \A k : HeldPackets(k)' = HeldPackets(k)
  BY DEF HeldPackets
<1>3. OnlyGapBytesLost'
  BY <1>2, SteadyLoss DEF LossInv
<1>4. BurstTiles'
  BY BurstStep DEF LossInv
<1> QED BY <1>1, <1>3, <1>4 DEF LossInv

\* An ACK and the passing of time preserve the invariant.
LEMMA TimeLoss ==
  ASSUME IInv, LossInv, NEW k \in Keys, Touch(k) \/ Expire(k) \/ GoIdle(k)
  PROVE  LossInv'
<1>1. TableInv /\ pc = "idle" /\ k \in DOMAIN flows
  BY DEF IInv, Touch, Expire, GoIdle
<1>2. flows[k] \in Flow
  <2>1. Sound(Machine({})) /\ Machine({}).flows = flows
    BY <1>1 DEF TableInv, Machine
  <2> QED BY <1>1, <2>1, SoundFlow
<1>3. UNCHANGED <<scenario, pos, cfg, pc, cur, windowLen, wire, burst, beyond, reloads>>
  BY DEF Touch, Expire, GoIdle
<1>4. PICK st : Twin(flows[k], st) /\ flows' = [flows EXCEPT ![k] = st]
  <2>1. PICK b \in BOOLEAN : \/ flows' = [flows EXCEPT ![k].idle = b]
                             \/ flows' = [flows EXCEPT ![k].expired = b]
    <3>1. \E b \in BOOLEAN : \/ flows' = [flows EXCEPT ![k].idle = b]
                             \/ flows' = [flows EXCEPT ![k].expired = b]
      BY DEF Touch, Expire, GoIdle
    <3> QED BY <3>1
  <2>2. CASE flows' = [flows EXCEPT ![k].idle = b]
    <3> DEFINE st == [flows[k] EXCEPT !.idle = b]
    <3>1. Twin(flows[k], st) /\ flows' = [flows EXCEPT ![k] = st]
      BY <1>2, <2>2 DEF Same, Flow, Twin
    <3> QED BY <3>1
  <2>3. CASE flows' = [flows EXCEPT ![k].expired = b]
    <3> DEFINE st == [flows[k] EXCEPT !.expired = b]
    <3>1. Twin(flows[k], st) /\ flows' = [flows EXCEPT ![k] = st]
      BY <1>2, <2>3 DEF Same, Flow, Twin
    <3> QED BY <3>1
  <2> QED BY <2>1, <2>2, <2>3
<1>5. /\ DataOK(flows[k]) => DataOK(st)
      /\ ContigLen(st) = ContigLen(flows[k]) /\ st.state = flows[k].state
      /\ st.held = flows[k].held
      /\ \A c : Aim(k, st, c) = Aim(k, flows[k], c)
  BY <1>4, TwinFlow
<1>6. /\ DOMAIN flows' = DOMAIN flows /\ flows'[k] = st
      /\ \A j \in DOMAIN flows \ {k} : flows'[j] = flows[j]
  BY <1>1, <1>4
<1>7. Intact /\ Intact'
  BY <1>1, <1>3 DEF Intact
<1>8. DataInv'
  <2> SUFFICES ASSUME NEW j \in DOMAIN flows PROVE DataOK(flows'[j])
    BY <1>6 DEF DataInv
  <2>1. DataOK(flows[j])
    BY <1>7 DEF LossInv, DataInv
  <2> QED BY <1>5, <1>6, <2>1
<1>9. WaitInv'
  <2> SUFFICES ASSUME reloads' = 0, NEW j \in DOMAIN flows, flows'[j].state = "collecting"
               PROVE  ContigLen(flows'[j]) < Aim(j, flows'[j], cfg)
    BY <1>1, <1>3, <1>6 DEF WaitInv
  <2>1. flows[j].state = "collecting" => ContigLen(flows[j]) < Aim(j, flows[j], cfg)
    BY <1>1, <1>3, <1>7 DEF LossInv, WaitInv
  <2> QED BY <1>5, <1>6, <2>1
<1>10. \A j : HeldPackets(j)' = HeldPackets(j)
  BY <1>5, <1>6 DEF HeldPackets
<1>11. OnlyGapBytesLost'
  BY <1>3, <1>7, <1>10, SteadyLoss DEF LossInv
<1>12. BurstTiles' /\ DOMAIN beyond' = Keys
  BY <1>3, BurstStep DEF LossInv
<1> QED BY <1>8, <1>9, <1>11, <1>12 DEF LossInv

\* The worker has nothing to lose yet.
LEMMA InitLossInv == Init => LossInv
<1> SUFFICES ASSUME Init PROVE LossInv
  OBVIOUS
<1>1. /\ DOMAIN flows = {} /\ pc = "idle" /\ pos = [k \in Keys |-> 0]
      /\ beyond = [k \in Keys |-> {}] /\ burst.segs = <<>>
  BY DEF Init
<1>2. DataInv /\ WaitInv /\ DOMAIN beyond = Keys
  BY <1>1 DEF DataInv, WaitInv
<1>3. OnlyGapBytesLost
  <2>1. ASSUME NEW k \in Keys PROVE Handled(k) = {}
    <3>1. 1 .. pos[k] = {}
      BY <1>1
    <3> QED BY <3>1 DEF Handled
  <2> QED BY <2>1 DEF OnlyGapBytesLost
<1>4. BurstTiles
  BY <1>1 DEF BurstTiles
<1> QED BY <1>2, <1>3, <1>4 DEF LossInv

\* Every step preserves the invariant.
LEMMA NextLossInv == IInv /\ LossInv /\ [Next]_vars => LossInv'
<1> SUFFICES ASSUME IInv, LossInv, [Next]_vars PROVE LossInv'
  OBVIOUS
<1>1. ASSUME NEW k \in Keys, HandlePacket(k) PROVE LossInv'
  BY <1>1, HandlePacketLoss
<1>2. ASSUME NEW k \in Keys, Touch(k) \/ Expire(k) \/ GoIdle(k) PROVE LossInv'
  BY <1>2, TimeLoss
<1>3. CASE TrySplitTLSHello
  BY <1>3, TrySplitLoss
<1>4. CASE InjectWindow
  BY <1>4, InjectLoss
<1>5. CASE Tick
  <2>1. /\ UNCHANGED <<scenario, pos, flows, wire, burst, beyond, cur, windowLen>>
        /\ pc = "idle" /\ pc' = "gc" /\ reloads' = reloads /\ cfg' = cfg
    BY <1>5 DEF Tick
  <2>2. Intact
    BY <2>1 DEF Intact
  <2> QED BY <2>1, <2>2, SteadyLossInv
<1>6. ASSUME NEW k \in Keys, CollectGarbage(k) PROVE LossInv'
  BY <1>6, CollectGarbageLoss
<1>7. ASSUME NEW c \in Configs, Reload(c) PROVE LossInv'
  <2>1. /\ UNCHANGED <<scenario, pos, flows, wire, burst, beyond, cur, windowLen, pc>>
        /\ reloads' = reloads + 1 /\ reloads \in Nat
    BY <1>7 DEF Reload, IInv, ControlInv
  <2>2. reloads' # 0 /\ (Intact' => Intact)
    BY <2>1 DEF Intact
  <2> QED BY <2>1, <2>2, SteadyLossInv
<1>8. CASE UNCHANGED vars
  <2>1. /\ UNCHANGED <<scenario, pos, flows, wire, burst, beyond, cur, windowLen, pc>>
        /\ reloads' = reloads /\ cfg' = cfg
    BY <1>8 DEF vars
  <2>2. Intact' => Intact
    BY <2>1 DEF Intact
  <2> QED BY <2>1, <2>2, SteadyLossInv
<1> QED BY <1>1, <1>2, <1>3, <1>4, <1>5, <1>6, <1>7, <1>8 DEF Next

\* handlePacket, trySplitTLSHello, injectWindow and gc keep every byte that is held or
\* sent, with calls of the adapter failing anywhere.
THEOREM LossInvHolds == Spec => []LossInv
<1>1. Init => LossInv
  BY InitLossInv
<1>2. IInv /\ LossInv /\ [Next]_vars => LossInv'
  BY NextLossInv
<1> QED BY <1>1, <1>2, IInvHolds, PTL DEF Spec

\* Until an error ends a handler, every byte of every packet handled is sent or held, but
\* for those beyond a gap that injectWindow drops with the held packets.
THEOREM OnlyGapBytesLostHolds == Spec => []OnlyGapBytesLost
<1>1. LossInv => OnlyGapBytesLost
  BY DEF LossInv
<1> QED BY <1>1, LossInvHolds, PTL

\* Under one configuration what injectWindow sends is the prefix of the stream, once and
\* in order, whether reinjectTrimmed or chunkPayload makes the segments after the window.
THEOREM BurstTilesHolds == Spec => []BurstTiles
<1>1. LossInv => BurstTiles
  BY DEF LossInv
<1> QED BY <1>1, LossInvHolds, PTL
=============================================================================
