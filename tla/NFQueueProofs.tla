------------------------------ MODULE NFQueueProofs ------------------------------
(***************************************************************************)
(* Proofs about NFQueueAdapter.tla for any set of packets, with or without *)
(* payload, and any size of the receive buffer.                            *)
(***************************************************************************)
EXTENDS NFQueueAdapter, SequenceTheorems, TLAPS

Places  == {"kernel", "callback", "recv", "taken", "settled", "stuck"}
Holding == {"enter", "check", "enqueue", "accept"}
Counted == {"check", "enqueue", "accept", "leave"}

TypeOK ==
  /\ loc \in [Packets -> Places] /\ recv \in Seq(Packets) /\ errs \in BOOLEAN
  /\ cbPc \in {"idle", "enter", "check", "enqueue", "accept", "leave", "failed", "ended"}
  /\ flushing \in BOOLEAN /\ stopped \in BOOLEAN /\ queueOpen \in BOOLEAN
  /\ consumer \in {"on", "off", "error"}
  /\ flushPc \in {"off", "stop", "wait", "drain", "returned"}
  /\ flushRet \in {"none", "deadline", "error", "nil"}
  /\ late \subseteq Packets /\ trouble \in BOOLEAN

\* The callback has one packet in hand until it has enqueued or accepted it, and
\* inFlight says whether it is between its first and its last line.
CallbackInv ==
  /\ cbPc \in Holding => \E p \in Packets : loc[p] = "callback"
  /\ cbPc \notin Holding => \A p \in Packets : loc[p] # "callback"
  /\ \A p, q \in Packets : loc[p] = "callback" /\ loc[q] = "callback" => p = q
  /\ inFlight = IF cbPc \in Counted THEN 1 ELSE 0

\* The channel holds packets that are nowhere else, each of them once.
ChanInv ==
  /\ \A i \in 1 .. Len(recv) : loc[recv[i]] = "recv"
  /\ \A i, j \in 1 .. Len(recv) : recv[i] = recv[j] => i = j

\* Flush has seen inFlight = 0, or its deadline is what it returns: a callback that
\* is under way now began after the flag was set and cannot enqueue.
FlushInv ==
  /\ flushPc # "off" => flushing
  /\ flushPc \in {"off", "stop", "wait"} => flushRet = "none"
  /\ flushPc = "drain" => flushRet \in {"none", "error"}
  /\ flushPc \in {"drain", "returned"} /\ flushRet # "deadline" =>
       /\ cbPc # "enqueue"
       /\ cbPc \in {"check", "accept"} => \A p \in Packets : loc[p] = "callback" => p \in late
  /\ flushRet = "nil" => flushPc = "returned" /\ recv = <<>>
  /\ ~queueOpen => flushPc = "returned"

IInv == TypeOK /\ CallbackInv /\ ChanInv /\ FlushInv /\ StuckIsExcused

\* A started adapter has no callback and nothing in its channel.
LEMMA InitIInv == Init => IInv
<1> SUFFICES ASSUME Init PROVE IInv
  OBVIOUS
<1> USE DEF Init
<1>1. TypeOK
  <2>1. loc \in [Packets -> Places] /\ recv \in Seq(Packets)
    BY EmptySeq DEF Places
  <2> QED BY <2>1 DEF TypeOK
<1>2. CallbackInv BY DEF CallbackInv, Holding, Counted
<1>3. ChanInv BY DEF ChanInv
<1>4. FlushInv BY DEF FlushInv
<1>5. StuckIsExcused BY DEF StuckIsExcused
<1> QED BY <1>1, <1>2, <1>3, <1>4, <1>5 DEF IInv

\* The packet that the callback is about to enqueue or accept.
LEMMA CurrentInHand ==
  ASSUME CallbackInv, cbPc \in Holding
  PROVE  Current \in Packets /\ loc[Current] = "callback"
BY DEF CallbackInv, Current

\* setVerdict moves one packet; if it fails there is an excuse in an open queue.
LEMMA VerdictMoves ==
  ASSUME TypeOK, NEW p \in Packets, NEW ok \in BOOLEAN, SetVerdict(p, ok)
  PROVE  /\ loc' \in [Packets -> Places]
         /\ loc'[p] \in {"settled", "stuck"}
         /\ \A q \in Packets : q # p => loc'[q] = loc[q]
         /\ trouble' \in BOOLEAN /\ (trouble => trouble')
         /\ loc'[p] = "stuck" => trouble' \/ ~queueOpen
<1>1. /\ loc' = [loc EXCEPT ![p] = IF ok THEN "settled" ELSE "stuck"]
      /\ trouble' = (trouble \/ (~ok /\ queueOpen))
  BY DEF SetVerdict
<1>2. trouble' \in BOOLEAN /\ (trouble => trouble') /\ (~ok => trouble' \/ ~queueOpen)
  BY <1>1 DEF TypeOK
<1>3. /\ loc' \in [Packets -> Places]
      /\ loc'[p] = IF ok THEN "settled" ELSE "stuck"
      /\ \A q \in Packets : q # p => loc'[q] = loc[q]
  BY <1>1 DEF TypeOK, Places
<1> QED BY <1>2, <1>3

\* The channel without its first packet.
LEMMA TakeHead ==
  ASSUME TypeOK, ChanInv, recv # <<>>
  PROVE  /\ Head(recv) \in Packets /\ loc[Head(recv)] = "recv"
         /\ Tail(recv) \in Seq(Packets)
         /\ \A i \in 1 .. Len(Tail(recv)) :
              loc[Tail(recv)[i]] = "recv" /\ Tail(recv)[i] # Head(recv)
         /\ \A i, j \in 1 .. Len(Tail(recv)) : Tail(recv)[i] = Tail(recv)[j] => i = j
<1>1. /\ recv \in Seq(Packets) /\ Len(recv) \in Nat \ {0}
      /\ Head(recv) = recv[1] /\ recv[1] \in Packets
  BY EmptySeq DEF TypeOK
<1>2. /\ Tail(recv) \in Seq(Packets) /\ Len(Tail(recv)) = Len(recv) - 1
      /\ \A i \in 1 .. Len(Tail(recv)) : Tail(recv)[i] = recv[i + 1]
  BY <1>1, HeadTailProperties
<1>3. \A i \in 1 .. Len(Tail(recv)) : i + 1 \in 1 .. Len(recv) /\ i + 1 # 1
  BY <1>1, <1>2
<1> QED BY <1>1, <1>2, <1>3 DEF ChanInv

\* go-nfqueue calls onPacket.
LEMMA CbBeginStep ==
  ASSUME IInv, NEW p \in Packets, CbBegin(p)
  PROVE  IInv'
<1> USE DEF IInv, CbBegin, chanVars, flushVars
<1>1. /\ loc' \in [Packets -> Places]
      /\ loc[p] = "kernel" /\ loc'[p] = "callback"
      /\ \A q \in Packets : q # p => loc'[q] = loc[q]
  BY DEF TypeOK, Places
<1>2. TypeOK' BY <1>1 DEF TypeOK
<1>3. CallbackInv' BY <1>1 DEF CallbackInv, Holding, Counted
<1>4. ChanInv' BY <1>1 DEF ChanInv, TypeOK
<1>5. FlushInv' BY DEF FlushInv
<1>6. StuckIsExcused' BY <1>1 DEF StuckIsExcused
<1> QED BY <1>2, <1>3, <1>4, <1>5, <1>6

\* The callback counts itself; one that begins after Flush has looked is late.
LEMMA CbEnterStep ==
  ASSUME IInv, CbEnter
  PROVE  IInv'
<1> USE DEF IInv, CbEnter, chanVars, flushVars
<1> DEFINE p == Current
<1>1. p \in Packets /\ loc[p] = "callback"
  BY CurrentInHand DEF Holding
<1>2. /\ late' = IF flushPc \in {"drain", "returned"} THEN late \cup {p} ELSE late
      /\ p \in Bare => cbPc' = "leave" /\ loc' = [loc EXCEPT ![p] = "stuck"]
      /\ p \notin Bare => cbPc' = "check" /\ loc' = loc
      /\ cbPc = "enter" /\ inFlight' = inFlight + 1
      /\ UNCHANGED <<chanVars, flushVars, stopped, queueOpen, consumer, trouble>>
  OBVIOUS
<1> HIDE DEF CbEnter, p
<1>3. /\ loc' \in [Packets -> Places]
      /\ \A q \in Packets : q # p => loc'[q] = loc[q]
      /\ loc'[p] = IF p \in Bare THEN "stuck" ELSE "callback"
  BY <1>1, <1>2 DEF TypeOK, Places
<1>4. late' \subseteq Packets /\ late \subseteq late'
  BY <1>1, <1>2 DEF TypeOK
<1>5. TypeOK' BY <1>2, <1>3, <1>4 DEF TypeOK
<1>6. CallbackInv' BY <1>1, <1>2, <1>3 DEF CallbackInv, Holding, Counted
<1>7. ChanInv' BY <1>1, <1>2, <1>3 DEF ChanInv, TypeOK
<1>8. FlushInv'
  <2>1. \A q \in Packets : loc'[q] = "callback" => q = p
    BY <1>1, <1>2, <1>3 DEF CallbackInv
  <2>2. flushPc \in {"drain", "returned"} => p \in late'
    BY <1>2
  <2> QED BY <1>2, <2>1, <2>2 DEF FlushInv
<1>9. StuckIsExcused' BY <1>2, <1>3, <1>4 DEF StuckIsExcused
<1> QED BY <1>5, <1>6, <1>7, <1>8, <1>9

\* The test of the flag: once Flush has set it, the callback does not enqueue.
LEMMA CbCheckStep ==
  ASSUME IInv, CbCheck
  PROVE  IInv'
<1> USE DEF IInv, CbCheck, chanVars, flushVars
<1>1. cbPc' \in {"accept", "enqueue"} /\ (flushing => cbPc' = "accept") /\ cbPc = "check"
  OBVIOUS
<1>2. UNCHANGED <<loc, chanVars, inFlight, late, flushVars, stopped, queueOpen,
                  consumer, trouble>>
  OBVIOUS
<1> HIDE DEF CbCheck
<1>3. TypeOK' BY <1>1, <1>2 DEF TypeOK
<1>4. CallbackInv' BY <1>1, <1>2 DEF CallbackInv, Holding, Counted
<1>5. ChanInv' /\ StuckIsExcused' BY <1>2 DEF ChanInv, StuckIsExcused
<1>6. FlushInv' BY <1>1, <1>2 DEF FlushInv
<1> QED BY <1>3, <1>4, <1>5, <1>6

\* A callback that has passed the test before enqueues, or finds the channel full:
\* Flush has not looked yet, or it has given up.
LEMMA CbEnqueueStep ==
  ASSUME IInv, CbEnqueue
  PROVE  IInv'
<1> USE DEF IInv, chanVars, flushVars
<1> DEFINE p == Current
<1>1. p \in Packets /\ loc[p] = "callback" /\ cbPc = "enqueue"
  BY CurrentInHand DEF CbEnqueue, Holding
<1>2. UNCHANGED <<errs, inFlight, late, flushVars, stopped, queueOpen, consumer, trouble>>
  BY DEF CbEnqueue
<1>3. CASE Len(recv) < RecvCap
  <2>1. recv' = Append(recv, p) /\ loc' = [loc EXCEPT ![p] = "recv"] /\ cbPc' = "leave"
    BY <1>3 DEF CbEnqueue
  <2> HIDE DEF p
  <2>2. /\ loc' \in [Packets -> Places] /\ loc'[p] = "recv"
        /\ \A q \in Packets : q # p => loc'[q] = loc[q]
    BY <1>1, <2>1 DEF TypeOK, Places
  <2>3. /\ recv' \in Seq(Packets) /\ Len(recv') = Len(recv) + 1 /\ Len(recv) \in Nat
        /\ \A i \in 1 .. Len(recv) : recv'[i] = recv[i] /\ recv[i] \in Packets
        /\ recv'[Len(recv) + 1] = p
    BY <1>1, <2>1, AppendProperties, ElementOfSeq, LenProperties DEF TypeOK
  <2>4. \A i \in 1 .. Len(recv) : recv[i] # p /\ loc[recv[i]] = "recv"
    BY <1>1 DEF ChanInv
  <2>5. TypeOK' BY <1>2, <2>1, <2>2, <2>3 DEF TypeOK
  <2>6. CallbackInv' BY <1>1, <1>2, <2>1, <2>2 DEF CallbackInv, Holding, Counted
  <2>7. ChanInv'
    <3>1. ASSUME NEW i \in 1 .. Len(recv') PROVE loc'[recv'[i]] = "recv"
      BY <2>2, <2>3, <2>4
    <3>2. ASSUME NEW i \in 1 .. Len(recv'), NEW j \in 1 .. Len(recv'), recv'[i] = recv'[j]
          PROVE  i = j
      BY <3>2, <2>3, <2>4 DEF ChanInv
    <3> QED BY <3>1, <3>2 DEF ChanInv
  <2>8. FlushInv' BY <1>1, <1>2, <2>1 DEF FlushInv
  <2>9. StuckIsExcused' BY <1>2, <2>2 DEF StuckIsExcused
  <2> QED BY <2>5, <2>6, <2>7, <2>8, <2>9
<1>4. CASE ~(Len(recv) < RecvCap)
  <2>1. cbPc' = "accept" /\ recv' = recv /\ loc' = loc
    BY <1>4 DEF CbEnqueue
  <2>2. TypeOK' BY <1>2, <2>1 DEF TypeOK
  <2>3. CallbackInv' BY <1>1, <1>2, <2>1 DEF CallbackInv, Holding, Counted
  <2>4. ChanInv' /\ StuckIsExcused' BY <1>2, <2>1 DEF ChanInv, StuckIsExcused
  <2>5. FlushInv' BY <1>1, <1>2, <2>1 DEF FlushInv
  <2> QED BY <2>2, <2>3, <2>4, <2>5
<1> QED BY <1>3, <1>4

\* The callback accepts its packet.  If that fails on a closed queue, the flush is
\* over, and it has run into its deadline or the callback is late.
LEMMA CbAcceptStep ==
  ASSUME IInv, CbAccept
  PROVE  IInv'
<1> USE DEF IInv, chanVars, flushVars
<1> DEFINE p == Current
<1>1. p \in Packets /\ loc[p] = "callback" /\ cbPc = "accept" /\ cbPc' = "leave"
  BY CurrentInHand DEF CbAccept, Holding
<1>2. UNCHANGED <<chanVars, inFlight, late, flushVars, stopped, queueOpen, consumer>>
  BY DEF CbAccept
<1>3. PICK ok \in BOOLEAN : SetVerdict(p, ok)
  BY DEF CbAccept
<1> HIDE DEF p
<1>4. /\ loc' \in [Packets -> Places]
      /\ loc'[p] \in {"settled", "stuck"}
      /\ \A q \in Packets : q # p => loc'[q] = loc[q]
      /\ trouble' \in BOOLEAN /\ (trouble => trouble')
      /\ loc'[p] = "stuck" => trouble' \/ ~queueOpen
  BY <1>1, <1>3, VerdictMoves
<1>5. TypeOK' BY <1>1, <1>2, <1>4 DEF TypeOK
<1>6. CallbackInv' BY <1>1, <1>2, <1>4 DEF CallbackInv, Holding, Counted
<1>7. ChanInv' BY <1>1, <1>2, <1>4 DEF ChanInv, TypeOK
<1>8. FlushInv' BY <1>1, <1>2 DEF FlushInv
<1>9. StuckIsExcused'
  <2>1. ~queueOpen => flushRet = "deadline" \/ p \in late
    BY <1>1 DEF FlushInv
  <2> QED BY <1>2, <1>4, <2>1 DEF StuckIsExcused
<1> QED BY <1>5, <1>6, <1>7, <1>8, <1>9

\* The other steps of the callback goroutine.
LEMMA CbControl ==
  ASSUME IInv, CbLeave \/ CbError \/ CbEnd
  PROVE  IInv'
<1> USE DEF IInv, chanVars, flushVars
<1>1. /\ UNCHANGED <<loc, recv, late, flushVars, stopped, queueOpen, consumer, trouble>>
      /\ errs' \in BOOLEAN
      /\ cbPc \in {"leave", "idle"} /\ cbPc' \in {"idle", "failed", "ended"}
      /\ inFlight' = IF cbPc = "leave" THEN inFlight - 1 ELSE inFlight
  BY DEF CbLeave, CbError, CbEnd, TypeOK
<1>2. TypeOK' BY <1>1 DEF TypeOK
<1>3. CallbackInv' BY <1>1 DEF CallbackInv, Holding, Counted
<1>4. ChanInv' /\ StuckIsExcused' BY <1>1 DEF ChanInv, StuckIsExcused
<1>5. FlushInv' BY <1>1 DEF FlushInv
<1> QED BY <1>2, <1>3, <1>4, <1>5

\* The engine takes a packet or stops receiving.
LEMMA ReceiverStep ==
  ASSUME IInv, Receiver
  PROVE  IInv'
<1> USE DEF IInv, chanVars, cbVars, flushVars
<1>1. CASE Recv
  <2> DEFINE p == Head(recv)
  <2>1. /\ p \in Packets /\ loc[p] = "recv" /\ Tail(recv) \in Seq(Packets)
        /\ \A i \in 1 .. Len(Tail(recv)) : loc[Tail(recv)[i]] = "recv" /\ Tail(recv)[i] # p
        /\ \A i, j \in 1 .. Len(Tail(recv)) : Tail(recv)[i] = Tail(recv)[j] => i = j
    BY <1>1, TakeHead DEF Recv
  <2>2. /\ loc' = [loc EXCEPT ![p] = "taken"] /\ recv' = Tail(recv) /\ recv # <<>>
        /\ UNCHANGED <<errs, cbVars, flushVars, stopped, queueOpen, consumer, trouble>>
    BY <1>1 DEF Recv
  <2> HIDE DEF p
  <2>3. /\ loc' \in [Packets -> Places] /\ loc'[p] = "taken"
        /\ \A q \in Packets : q # p => loc'[q] = loc[q]
    BY <2>1, <2>2 DEF TypeOK, Places
  <2>4. TypeOK' BY <2>1, <2>2, <2>3 DEF TypeOK
  <2>5. CallbackInv' BY <2>1, <2>2, <2>3 DEF CallbackInv
  <2>6. ChanInv' BY <2>1, <2>2, <2>3, ElementOfSeq DEF ChanInv
  <2>7. FlushInv' BY <2>1, <2>2, <2>3 DEF FlushInv
  <2>8. StuckIsExcused' BY <2>2, <2>3 DEF StuckIsExcused
  <2> QED BY <2>4, <2>5, <2>6, <2>7, <2>8
<1>2. CASE RecvError \/ RecvCanceled
  <2>1. /\ UNCHANGED <<loc, recv, cbVars, flushVars, stopped, queueOpen, trouble>>
        /\ errs' \in BOOLEAN /\ consumer' \in {"off", "error"}
    BY <1>2 DEF RecvError, RecvCanceled, TypeOK
  <2>2. TypeOK' BY <2>1 DEF TypeOK
  <2>3. CallbackInv' /\ ChanInv' /\ StuckIsExcused'
    BY <2>1 DEF CallbackInv, ChanInv, StuckIsExcused
  <2>4. FlushInv' BY <2>1 DEF FlushInv
  <2> QED BY <2>2, <2>3, <2>4
<1> QED BY <1>1, <1>2 DEF Receiver

\* The engine settles a packet it has taken; the queue is open.
LEMMA VerdictStep ==
  ASSUME IInv, NEW p \in Packets, Verdict(p)
  PROVE  IInv'
<1> USE DEF IInv, Verdict, chanVars, cbVars, flushVars
<1>1. PICK ok \in BOOLEAN : SetVerdict(p, ok)
  OBVIOUS
<1>2. /\ loc' \in [Packets -> Places]
      /\ loc[p] = "taken" /\ loc'[p] \in {"settled", "stuck"}
      /\ \A q \in Packets : q # p => loc'[q] = loc[q]
      /\ trouble' \in BOOLEAN /\ (trouble => trouble')
      /\ loc'[p] = "stuck" => trouble' \/ ~queueOpen
  BY <1>1, VerdictMoves
<1>3. TypeOK' BY <1>2 DEF TypeOK
<1>4. CallbackInv' BY <1>2 DEF CallbackInv
<1>5. ChanInv' BY <1>2 DEF ChanInv, TypeOK
<1>6. FlushInv' BY <1>2 DEF FlushInv
<1>7. StuckIsExcused' BY <1>2 DEF StuckIsExcused
<1> QED BY <1>3, <1>4, <1>5, <1>6, <1>7

\* Flush accepts a packet of the channel; the queue is still open.
LEMMA FlushDrainStep ==
  ASSUME IInv, FlushDrain
  PROVE  IInv'
<1> USE DEF IInv, cbVars
<1> DEFINE p == Head(recv)
<1>1. /\ p \in Packets /\ loc[p] = "recv" /\ Tail(recv) \in Seq(Packets)
      /\ \A i \in 1 .. Len(Tail(recv)) : loc[Tail(recv)[i]] = "recv" /\ Tail(recv)[i] # p
      /\ \A i, j \in 1 .. Len(Tail(recv)) : Tail(recv)[i] = Tail(recv)[j] => i = j
  BY TakeHead DEF FlushDrain
<1>2. PICK ok \in BOOLEAN :
        SetVerdict(p, ok) /\ flushRet' = IF ok THEN flushRet ELSE "error"
  BY DEF FlushDrain
<1>3. /\ flushPc = "drain" /\ recv' = Tail(recv)
      /\ UNCHANGED <<errs, cbVars, flushing, flushPc, stopped, queueOpen, consumer>>
  BY DEF FlushDrain
<1>4. queueOpen /\ flushRet \in {"none", "error"} /\ flushRet' \in {"none", "error"}
  BY <1>2, <1>3 DEF FlushInv
<1> HIDE DEF p
<1>5. /\ loc' \in [Packets -> Places]
      /\ loc'[p] \in {"settled", "stuck"}
      /\ \A q \in Packets : q # p => loc'[q] = loc[q]
      /\ trouble' \in BOOLEAN /\ (trouble => trouble')
      /\ loc'[p] = "stuck" => trouble'
  BY <1>1, <1>2, <1>4, VerdictMoves
<1>6. TypeOK' BY <1>1, <1>3, <1>4, <1>5 DEF TypeOK
<1>7. CallbackInv' BY <1>1, <1>3, <1>5 DEF CallbackInv
<1>8. ChanInv' BY <1>1, <1>3, <1>5, ElementOfSeq DEF ChanInv
<1>9. FlushInv'
  <2>1. \A q \in Packets : loc'[q] = "callback" => loc[q] = "callback"
    BY <1>1, <1>5
  <2> QED BY <1>3, <1>4, <2>1 DEF FlushInv
<1>10. StuckIsExcused' BY <1>3, <1>4, <1>5 DEF StuckIsExcused
<1> QED BY <1>6, <1>7, <1>8, <1>9, <1>10

\* The other steps of Flush, and Close.  FlushWait is the one that matters: no
\* callback is counted, so that none is between its test and its enqueue.
LEMMA FlushControl ==
  ASSUME IInv,
         FlushBegin \/ FlushStop \/ FlushWait \/ FlushTimeout \/ FlushDone \/ Close
  PROVE  IInv'
<1> USE DEF IInv, chanVars, cbVars, flushVars
<1>1. UNCHANGED <<loc, recv, errs, cbPc, inFlight, late, consumer, trouble>>
  BY DEF FlushBegin, FlushStop, FlushWait, FlushTimeout, FlushDone, Close
<1>2. CallbackInv' /\ ChanInv'
  BY <1>1 DEF CallbackInv, ChanInv
<1>3. flushRet' = flushRet \/ flushRet # "deadline"
  BY DEF FlushBegin, FlushStop, FlushWait, FlushTimeout, FlushDone, Close, FlushInv
<1>4. StuckIsExcused'
  BY <1>1, <1>3 DEF StuckIsExcused
<1>5. CASE FlushBegin
  <2>1. TypeOK' BY <1>1, <1>5 DEF FlushBegin, TypeOK
  <2>2. FlushInv' BY <1>1, <1>5 DEF FlushBegin, FlushInv
  <2> QED BY <1>2, <1>4, <2>1, <2>2
<1>6. CASE FlushStop
  <2>1. TypeOK' BY <1>1, <1>6 DEF FlushStop, TypeOK
  <2>2. FlushInv' BY <1>1, <1>6 DEF FlushStop, FlushInv
  <2> QED BY <1>2, <1>4, <2>1, <2>2
<1>7. CASE FlushWait
  <2>1. TypeOK' BY <1>1, <1>7 DEF FlushWait, TypeOK
  <2>2. cbPc \notin Counted
    BY <1>7 DEF FlushWait, CallbackInv
  <2>3. FlushInv' BY <1>1, <1>7, <2>2 DEF FlushWait, FlushInv, Counted
  <2> QED BY <1>2, <1>4, <2>1, <2>3
<1>8. CASE FlushTimeout
  <2>1. TypeOK' BY <1>1, <1>8 DEF FlushTimeout, TypeOK
  <2>2. FlushInv' BY <1>1, <1>8 DEF FlushTimeout, FlushInv
  <2> QED BY <1>2, <1>4, <2>1, <2>2
<1>9. CASE FlushDone
  <2>1. /\ flushRet' \in {"none", "deadline", "error", "nil"} /\ flushPc' = "returned"
        /\ UNCHANGED <<flushing, stopped, queueOpen>>
    BY <1>9 DEF FlushDone, TypeOK
  <2>2. TypeOK' BY <1>1, <2>1 DEF TypeOK
  <2>3. FlushInv' BY <1>1, <1>9 DEF FlushDone, FlushInv, TypeOK
  <2> QED BY <1>2, <1>4, <2>2, <2>3
<1>10. CASE Close
  <2>1. TypeOK' BY <1>1, <1>10 DEF Close, TypeOK
  <2>2. FlushInv' BY <1>1, <1>10 DEF Close, FlushInv
  <2> QED BY <1>2, <1>4, <2>1, <2>2
<1> QED BY <1>5, <1>6, <1>7, <1>8, <1>9, <1>10

\* Every step keeps the inductive invariant.
LEMMA StepIInv == IInv /\ [Next]_vars => IInv'
<1> SUFFICES ASSUME IInv, [Next]_vars PROVE IInv'
  OBVIOUS
<1>1. CASE Next
  BY <1>1, CbBeginStep, CbEnterStep, CbCheckStep, CbEnqueueStep, CbAcceptStep, CbControl,
     ReceiverStep, VerdictStep, FlushDrainStep, FlushControl DEF Next, Callback, Flush
<1>2. CASE UNCHANGED vars
  BY <1>2 DEF vars, IInv, TypeOK, CallbackInv, ChanInv, FlushInv, StuckIsExcused
<1> QED BY <1>1, <1>2

\* The receive buffer of the NFQUEUE adapter stays empty once Flush has returned
\* nil: its wait for inFlight = 0 closes the race between the test and the enqueue.
THEOREM FlushedEmpty == Spec => []FlushedStaysEmpty
<1>1. IInv => FlushedStaysEmpty
  BY DEF IInv, FlushInv, FlushedStaysEmpty
<1> QED BY <1>1, InitIInv, StepIInv, PTL DEF Spec

\* No captured packet is left without a verdict but for the four named reasons.
THEOREM StuckOnlyExcused == Spec => []StuckIsExcused
<1>1. IInv => StuckIsExcused
  BY DEF IInv
<1> QED BY <1>1, InitIInv, StepIInv, PTL DEF Spec
=============================================================================
