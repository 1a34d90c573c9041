----------------------------- MODULE WinDivertProofs -----------------------------
(***************************************************************************)
(* Proofs about WinDivertAdapter.tla for any set of packets and any size   *)
(* of the receive buffer.                                                  *)
(***************************************************************************)
EXTENDS WinDivertAdapter, SequenceTheorems, TLAPS

Holding == {"got", "room", "select", "lastSend", "fullSend"}

TypeOK ==
  /\ loc \in [Packets -> {"driver", "loop", "recv", "taken", "settled", "lost"}]
  /\ recv \in Seq(Packets) /\ errs \in BOOLEAN
  /\ loopPc \in {"top", "recv", "ended"} \cup Holding
  /\ canceled \in BOOLEAN /\ shut \in BOOLEAN /\ open \in BOOLEAN
  /\ consumer \in {"on", "off", "error"}
  /\ flushPc \in {"off", "shutdown", "wait", "drain", "returned"}
  /\ flushErr \in BOOLEAN /\ flushRet \in {"none", "deadline", "error", "nil"}
  /\ trouble \in BOOLEAN

\* The goroutine has one packet in hand from WinDivertRecv until it has put it into
\* the channel or reinjected it, and none otherwise.
HandInv ==
  /\ loopPc \in Holding => \E p \in Packets : loc[p] = "loop"
  /\ loopPc \notin Holding => \A p \in Packets : loc[p] # "loop"
  /\ \A p, q \in Packets : loc[p] = "loop" /\ loc[q] = "loop" => p = q

\* The channel holds packets that are nowhere else, each of them once.
ChanInv ==
  /\ \A i \in 1 .. Len(recv) : loc[recv[i]] = "recv"
  /\ \A i, j \in 1 .. Len(recv) : recv[i] = recv[j] => i = j

\* A packet is lost only in a WinDivertSend that failed.
LostInv == \A p \in Packets : loc[p] = "lost" => trouble

\* Flush drains after the goroutine has ended, or its deadline is what it returns.
FlushInv ==
  /\ flushPc \in {"off", "shutdown", "wait"} => flushRet = "none"
  /\ flushPc = "drain" => flushRet \in {"none", "deadline"}
  /\ flushPc = "drain" /\ flushRet = "none" => loopPc = "ended"
  /\ flushRet = "nil" => flushPc = "returned" /\ loopPc = "ended" /\ recv = <<>>

IInv == TypeOK /\ HandInv /\ ChanInv /\ LostInv /\ FlushInv

\* A started adapter has nothing in hand and nothing in its channel.
LEMMA InitIInv == WinInit => IInv
<1> SUFFICES ASSUME WinInit PROVE IInv
  OBVIOUS
<1> USE DEF WinInit
<1>1. TypeOK
  <2>1. loc \in [Packets -> {"driver", "loop", "recv", "taken", "settled", "lost"}]
    OBVIOUS
  <2>2. recv \in Seq(Packets)
    BY EmptySeq
  <2> QED BY <2>1, <2>2 DEF TypeOK, Holding
<1>2. HandInv BY DEF HandInv, Holding
<1>3. ChanInv BY DEF ChanInv
<1>4. LostInv BY DEF LostInv
<1>5. FlushInv BY DEF FlushInv
<1> QED BY <1>1, <1>2, <1>3, <1>4, <1>5 DEF IInv

\* The packet that the goroutine is about to put or reinject.
LEMMA CurrentInHand ==
  ASSUME HandInv, loopPc \in Holding
  PROVE  Current \in Packets /\ loc[Current] = "loop"
BY DEF HandInv, Current

\* WinDivertSend moves one packet, and notes a failure.
LEMMA ReinjectMoves ==
  ASSUME TypeOK, LostInv, NEW p \in Packets, NEW ok \in BOOLEAN, Reinject(p, ok)
  PROVE  /\ loc' \in [Packets -> {"driver", "loop", "recv", "taken", "settled", "lost"}]
         /\ loc'[p] \in {"settled", "lost"}
         /\ \A q \in Packets : q # p => loc'[q] = loc[q]
         /\ trouble' \in BOOLEAN /\ LostInv'
<1>1. loc' = [loc EXCEPT ![p] = IF ok THEN "settled" ELSE "lost"]
  BY DEF Reinject
<1>2. trouble' \in BOOLEAN /\ (trouble \/ ~ok => trouble')
  BY DEF Reinject, TypeOK
<1>3. /\ loc' \in [Packets -> {"driver", "loop", "recv", "taken", "settled", "lost"}]
      /\ loc'[p] = IF ok THEN "settled" ELSE "lost"
      /\ \A q \in Packets : q # p => loc'[q] = loc[q]
  BY <1>1 DEF TypeOK
<1>4. LostInv'
  BY <1>2, <1>3 DEF LostInv
<1> QED BY <1>2, <1>3, <1>4

\* The channel without its first packet.
LEMMA TakeHead ==
  ASSUME TypeOK, ChanInv, recv # <<>>
  PROVE  /\ Head(recv) \in Packets /\ loc[Head(recv)] = "recv"
         /\ Tail(recv) \in Seq(Packets)
         /\ \A i \in 1 .. Len(Tail(recv)) :
              loc[Tail(recv)[i]] = "recv" /\ Tail(recv)[i] # Head(recv)
         /\ \A i, j \in 1 .. Len(Tail(recv)) : Tail(recv)[i] = Tail(recv)[j] => i = j
<1>1. /\ recv \in Seq(Packets) /\ Len(recv) \in Nat \ {0}
      /\ Head(recv) = recv[1] /\ recv[1] \in Packets
  BY EmptySeq DEF TypeOK
<1>2. /\ Tail(recv) \in Seq(Packets) /\ Len(Tail(recv)) = Len(recv) - 1
      /\ \A i \in 1 .. Len(Tail(recv)) : Tail(recv)[i] = recv[i + 1]
  BY <1>1, HeadTailProperties
<1>3. \A i \in 1 .. Len(Tail(recv)) : i + 1 \in 1 .. Len(recv) /\ i + 1 # 1
  BY <1>1, <1>2
<1> QED BY <1>1, <1>2, <1>3 DEF ChanInv

\* The tests of the goroutine, and the ways in which it ends without a packet.
LEMMA LoopControl ==
  ASSUME IInv,
         \/ LoopTop \/ LoopEmpty \/ LoopBreaks \/ LoopUnblocked
         \/ LoopCheck \/ LoopRoom \/ LoopCanceled
  PROVE  IInv'
<1> USE DEF IInv, chanVars, flushVars
<1>1. /\ UNCHANGED <<loc, recv, canceled, shut, open, consumer, flushVars, trouble>>
      /\ errs' \in BOOLEAN
      /\ loopPc # "ended"
      /\ \/ loopPc \in {"top", "recv"} /\ loopPc' \in {"top", "recv", "ended"}
         \/ loopPc \in Holding /\ loopPc' \in Holding
  BY DEF LoopTop, LoopEmpty, LoopBreaks, LoopUnblocked, LoopCheck, LoopRoom, LoopCanceled,
     LoopFails, TypeOK, Holding
<1>2. TypeOK' BY <1>1 DEF TypeOK, Holding
<1>3. HandInv' BY <1>1 DEF HandInv, Holding
<1>4. ChanInv' /\ LostInv' BY <1>1 DEF ChanInv, LostInv
<1>5. FlushInv' BY <1>1 DEF FlushInv
<1> QED BY <1>2, <1>3, <1>4, <1>5

\* WinDivertRecv returns a packet.
LEMMA LoopRecvStep ==
  ASSUME IInv, NEW p \in Packets, LoopRecv(p)
  PROVE  IInv'
<1> USE DEF IInv, LoopRecv, chanVars, flushVars
<1>1. /\ loc' \in [Packets -> {"driver", "loop", "recv", "taken", "settled", "lost"}]
      /\ loc[p] = "driver" /\ loc'[p] = "loop"
      /\ \A q \in Packets : q # p => loc'[q] = loc[q]
  BY DEF TypeOK
<1>2. TypeOK' BY <1>1 DEF TypeOK, Holding
<1>3. HandInv' BY <1>1 DEF HandInv, Holding
<1>4. ChanInv' BY <1>1 DEF ChanInv, TypeOK
<1>5. LostInv' BY <1>1 DEF LostInv
<1>6. FlushInv' BY DEF FlushInv
<1> QED BY <1>2, <1>3, <1>4, <1>5, <1>6

\* The goroutine puts its packet into the channel: it was not there before, and
\* the goroutine runs, so that no flush has returned nil.
LEMMA LoopPutStep ==
  ASSUME IInv, LoopPut
  PROVE  IInv'
<1> USE DEF IInv, LoopPut, flushVars
<1>1. Current \in Packets /\ loc[Current] = "loop"
  BY CurrentInHand DEF Holding
<1> DEFINE p == Current
<1>2. /\ loc' \in [Packets -> {"driver", "loop", "recv", "taken", "settled", "lost"}]
      /\ loc'[p] = "recv"
      /\ \A q \in Packets : q # p => loc'[q] = loc[q]
  BY <1>1 DEF TypeOK
<1>3. /\ recv' \in Seq(Packets) /\ Len(recv') = Len(recv) + 1 /\ Len(recv) \in Nat
      /\ \A i \in 1 .. Len(recv) : recv'[i] = recv[i] /\ recv[i] \in Packets
      /\ recv'[Len(recv) + 1] = p
  BY <1>1, AppendProperties, ElementOfSeq, LenProperties DEF TypeOK
<1>4. \A i \in 1 .. Len(recv) : recv[i] # p /\ loc[recv[i]] = "recv"
  BY <1>1 DEF ChanInv
<1> HIDE DEF p
<1>5. TypeOK' BY <1>2, <1>3 DEF TypeOK, Holding
<1>6. HandInv' BY <1>1, <1>2 DEF HandInv, Holding, p
<1>7. ChanInv'
  <2>1. ASSUME NEW i \in 1 .. Len(recv') PROVE loc'[recv'[i]] = "recv"
    BY <1>2, <1>3, <1>4
  <2>2. ASSUME NEW i \in 1 .. Len(recv'), NEW j \in 1 .. Len(recv'), recv'[i] = recv'[j]
        PROVE  i = j
    BY <2>2, <1>3, <1>4 DEF ChanInv
  <2> QED BY <2>1, <2>2 DEF ChanInv
<1>8. LostInv' BY <1>2 DEF LostInv
<1>9. FlushInv' BY DEF FlushInv
<1> QED BY <1>5, <1>6, <1>7, <1>8, <1>9

\* The goroutine reinjects its packet: it has none in hand any more.
LEMMA LoopSendStep ==
  ASSUME IInv, LoopLastSend \/ LoopFullSend
  PROVE  IInv'
<1> USE DEF IInv, chanVars, flushVars
<1>1. loopPc \in Holding /\ loopPc' \in {"top", "ended"} /\ errs' \in BOOLEAN
  BY DEF LoopLastSend, LoopFullSend, Holding, TypeOK
<1>2. Current \in Packets /\ loc[Current] = "loop"
  BY <1>1, CurrentInHand
<1> DEFINE p == Current
<1>3. PICK ok \in BOOLEAN : Reinject(p, ok)
  BY DEF LoopLastSend, LoopFullSend
<1>4. UNCHANGED <<recv, canceled, shut, open, consumer, flushVars>>
  BY DEF LoopLastSend, LoopFullSend
<1> HIDE DEF p
<1>5. /\ loc' \in [Packets -> {"driver", "loop", "recv", "taken", "settled", "lost"}]
      /\ loc'[p] \in {"settled", "lost"}
      /\ \A q \in Packets : q # p => loc'[q] = loc[q]
      /\ trouble' \in BOOLEAN /\ LostInv'
  BY <1>2, <1>3, ReinjectMoves DEF p
<1>6. TypeOK' BY <1>1, <1>4, <1>5 DEF TypeOK
<1>7. HandInv' BY <1>1, <1>2, <1>5 DEF HandInv, Holding, p
<1>8. ChanInv' BY <1>2, <1>4, <1>5 DEF ChanInv, TypeOK, p
<1>9. FlushInv' BY <1>1, <1>4 DEF FlushInv, Holding
<1> QED BY <1>5, <1>6, <1>7, <1>8, <1>9

\* The engine takes a packet, and settles it.
LEMMA EngineStep ==
  ASSUME IInv, Recv \/ RecvError \/ RecvCanceled \/ \E p \in Packets : SendOrDrop(p)
  PROVE  IInv'
<1> USE DEF IInv, chanVars, flushVars
<1>1. CASE Recv
  <2> USE <1>1 DEF Recv
  <2> DEFINE p == Head(recv)
  <2>1. /\ p \in Packets /\ loc[p] = "recv" /\ recv' \in Seq(Packets)
        /\ \A i \in 1 .. Len(recv') : loc[recv'[i]] = "recv" /\ recv'[i] # p
        /\ \A i, j \in 1 .. Len(recv') : recv'[i] = recv'[j] => i = j
    BY TakeHead
  <2>2. loc' = [loc EXCEPT ![p] = "taken"]
    OBVIOUS
  <2> HIDE DEF p
  <2>3. /\ loc' \in [Packets -> {"driver", "loop", "recv", "taken", "settled", "lost"}]
        /\ loc'[p] = "taken" /\ \A q \in Packets : q # p => loc'[q] = loc[q]
    BY <2>1, <2>2 DEF TypeOK
  <2>4. TypeOK' BY <2>1, <2>3 DEF TypeOK
  <2>5. HandInv' BY <2>1, <2>3 DEF HandInv
  <2>6. ChanInv' BY <2>1, <2>3, ElementOfSeq DEF ChanInv
  <2>7. LostInv' BY <2>1, <2>3 DEF LostInv
  <2>8. FlushInv' BY DEF FlushInv
  <2> QED BY <2>4, <2>5, <2>6, <2>7, <2>8
<1>2. CASE RecvError \/ RecvCanceled
  <2>1. /\ UNCHANGED <<loc, recv, loopPc, canceled, shut, open, flushVars, trouble>>
        /\ errs' \in BOOLEAN /\ consumer' \in {"off", "error"}
    BY <1>2 DEF RecvError, RecvCanceled, TypeOK
  <2>2. TypeOK' BY <2>1 DEF TypeOK
  <2>3. HandInv' /\ ChanInv' /\ LostInv' BY <2>1 DEF HandInv, ChanInv, LostInv
  <2>4. FlushInv' BY <2>1 DEF FlushInv
  <2> QED BY <2>2, <2>3, <2>4
<1>3. ASSUME NEW p \in Packets, SendOrDrop(p) PROVE IInv'
  <2> USE <1>3 DEF SendOrDrop
  <2>1. PICK ok \in BOOLEAN : Reinject(p, ok)
    OBVIOUS
  <2>2. /\ loc' \in [Packets -> {"driver", "loop", "recv", "taken", "settled", "lost"}]
        /\ loc[p] = "taken" /\ loc'[p] \in {"settled", "lost"}
        /\ \A q \in Packets : q # p => loc'[q] = loc[q]
        /\ trouble' \in BOOLEAN /\ LostInv'
    BY <2>1, ReinjectMoves
  <2>3. TypeOK' BY <2>2 DEF TypeOK
  <2>4. HandInv' BY <2>2 DEF HandInv
  <2>5. ChanInv' BY <2>2 DEF ChanInv, TypeOK
  <2>6. FlushInv' BY DEF FlushInv
  <2> QED BY <2>2, <2>3, <2>4, <2>5, <2>6
<1> QED BY <1>1, <1>2, <1>3

\* Flush reinjects a packet of the channel.
LEMMA FlushDrainStep ==
  ASSUME IInv, FlushDrain
  PROVE  IInv'
<1> USE DEF IInv, FlushDrain
<1> DEFINE p == Head(recv)
<1>1. /\ p \in Packets /\ loc[p] = "recv" /\ recv' \in Seq(Packets)
      /\ \A i \in 1 .. Len(recv') : loc[recv'[i]] = "recv" /\ recv'[i] # p
      /\ \A i, j \in 1 .. Len(recv') : recv'[i] = recv'[j] => i = j
  BY TakeHead
<1>2. PICK ok \in BOOLEAN : Reinject(p, ok) /\ flushErr' = (flushErr \/ ~ok)
  OBVIOUS
<1>3. /\ flushErr' \in BOOLEAN
      /\ UNCHANGED <<errs, loopPc, canceled, shut, open, consumer, flushPc, flushRet>>
      /\ flushPc = "drain"
  BY <1>2 DEF TypeOK
<1> HIDE DEF p
<1>4. /\ loc' \in [Packets -> {"driver", "loop", "recv", "taken", "settled", "lost"}]
      /\ loc'[p] \in {"settled", "lost"}
      /\ \A q \in Packets : q # p => loc'[q] = loc[q]
      /\ trouble' \in BOOLEAN /\ LostInv'
  BY <1>1, <1>2, ReinjectMoves
<1>5. TypeOK' BY <1>1, <1>3, <1>4 DEF TypeOK
<1>6. HandInv' BY <1>1, <1>3, <1>4 DEF HandInv
<1>7. ChanInv' BY <1>1, <1>4, ElementOfSeq DEF ChanInv
<1>8. FlushInv' BY <1>3 DEF FlushInv
<1> QED BY <1>4, <1>5, <1>6, <1>7, <1>8

\* The other steps of Flush, and Close.
LEMMA FlushControl ==
  ASSUME IInv,
         FlushCancel \/ FlushShutdown \/ FlushWait \/ FlushTimeout \/ FlushDone \/ Close
  PROVE  IInv'
<1> USE DEF IInv, chanVars, flushVars
<1>1. UNCHANGED <<loc, recv, errs, loopPc, consumer, flushErr, trouble>>
  BY DEF FlushCancel, FlushShutdown, FlushWait, FlushTimeout, FlushDone, Close
<1>2. HandInv' /\ ChanInv' /\ LostInv'
  BY <1>1 DEF HandInv, ChanInv, LostInv
<1>3. CASE FlushCancel \/ FlushShutdown \/ FlushTimeout
  <2>1. TypeOK'
    <3>1. CASE FlushCancel BY <1>1, <3>1 DEF FlushCancel, TypeOK
    <3>2. CASE FlushShutdown BY <1>1, <3>2 DEF FlushShutdown, TypeOK
    <3>3. CASE FlushTimeout BY <1>1, <3>3 DEF FlushTimeout, TypeOK
    <3> QED BY <1>3, <3>1, <3>2, <3>3
  <2>2. FlushInv' BY <1>1, <1>3 DEF FlushCancel, FlushShutdown, FlushTimeout, FlushInv
  <2> QED BY <1>2, <2>1, <2>2
<1>4. CASE FlushWait
  <2>1. TypeOK' BY <1>1, <1>4 DEF FlushWait, TypeOK
  <2>2. FlushInv' BY <1>1, <1>4 DEF FlushWait, FlushInv
  <2> QED BY <1>2, <2>1, <2>2
<1>5. CASE FlushDone
  <2>1. /\ flushRet' \in {"none", "deadline", "error", "nil"} /\ flushPc' = "returned"
        /\ UNCHANGED <<canceled, shut, open>>
    BY <1>5 DEF FlushDone
  <2>2. TypeOK' BY <1>1, <2>1 DEF TypeOK
  <2>3. FlushInv' BY <1>1, <1>5 DEF FlushDone, FlushInv, TypeOK
  <2> QED BY <1>2, <2>2, <2>3
<1>6. CASE Close
  <2>1. TypeOK' BY <1>1, <1>6 DEF Close, TypeOK
  <2>2. FlushInv' BY <1>1, <1>6 DEF Close, FlushInv
  <2> QED BY <1>2, <2>1, <2>2
<1> QED BY <1>3, <1>4, <1>5, <1>6

\* Every step keeps the inductive invariant.
LEMMA StepIInv == IInv /\ [WinNext]_winVars => IInv'
<1> SUFFICES ASSUME IInv, [WinNext]_winVars PROVE IInv'
  OBVIOUS
<1>1. CASE WinNext
  BY <1>1, LoopControl, LoopRecvStep, LoopPutStep, LoopSendStep, EngineStep, FlushDrainStep,
     FlushControl DEF WinNext, Loop, Flush
<1>2. CASE UNCHANGED winVars
  BY <1>2 DEF winVars, IInv, TypeOK, HandInv, ChanInv, LostInv, FlushInv
<1> QED BY <1>1, <1>2

\* A Flush of the WinDivert adapter that returns nil leaves no packet behind, in the
\* channel or in the hands of its goroutine, however it raced with the last ones.
THEOREM FlushEmpties == WinSpec => []FlushLeavesNothing
<1>1. IInv => FlushLeavesNothing
  BY DEF IInv, HandInv, LostInv, FlushInv, FlushLeavesNothing, InHand, Holding
<1> QED BY <1>1, InitIInv, StepIInv, PTL DEF WinSpec
=============================================================================
