----------------------------- MODULE NFQueueAdapter -----------------------------
(***************************************************************************)
(* internal/adapter/nfqueue_linux.go: the hand-over of packets from the    *)
(* callback goroutine of go-nfqueue to Recv, and Flush and Close, which    *)
(* the engine calls when it has stopped receiving (Engine.tla).            *)
(*                                                                         *)
(* go-nfqueue (external) calls onPacket from one goroutine, which notices  *)
(* a canceled context only between two batches: callbacks may go on for a  *)
(* while after stop(), and after the queue has been closed.                *)
(***************************************************************************)
EXTENDS Integers, Sequences, FiniteSets

CONSTANTS Packets,     \* the packets the kernel queues
          Bare,        \* those that come without a payload attribute
          RecvCap      \* cap(n.recv)

ASSUME AdapterAssumption ==
  /\ IsFiniteSet(Packets) /\ Bare \subseteq Packets
  /\ RecvCap \in Nat \ {0}

VARIABLES
  loc,          \* "kernel", "callback", "recv", "taken", "settled", "stuck"
  recv, errs,   \* the channels n.recv and n.errs (its one place is taken)
  cbPc, inFlight,
  flushing, stopped,      \* n.flushing; n.ctx is canceled
  queueOpen,
  consumer,     \* the caller of Recv: "on", "off", or "error" if Recv failed
  flushPc, flushRet,
  late,         \* history: packets whose callback Flush did not wait for
  trouble       \* history: SetVerdict failed on an open queue

vars == <<loc, recv, errs, cbPc, inFlight, flushing, stopped, queueOpen, consumer,
          flushPc, flushRet, late, trouble>>

chanVars  == <<recv, errs>>
cbVars    == <<cbPc, inFlight, late>>
flushVars == <<flushing, flushPc, flushRet>>

Current == CHOOSE p \in Packets : loc[p] = "callback"

\* setVerdict on packet p.  The kernel keeps a packet whose verdict fails.
SetVerdict(p, ok) ==
  /\ ok => queueOpen
  /\ loc' = [loc EXCEPT ![p] = IF ok THEN "settled" ELSE "stuck"]
  /\ trouble' = (trouble \/ (~ok /\ queueOpen))

Init ==
  /\ loc = [p \in Packets |-> "kernel"]
  /\ recv = <<>> /\ errs = FALSE
  /\ cbPc = "idle" /\ inFlight = 0
  /\ flushing = FALSE /\ stopped = FALSE /\ queueOpen = TRUE
  /\ consumer = "on"
  /\ flushPc = "off" /\ flushRet = "none"
  /\ late = {} /\ trouble = FALSE

-----------------------------------------------------------------------------
\* The callback goroutine.

\* go-nfqueue calls onPacket.
CbBegin(p) ==
  /\ cbPc = "idle" /\ loc[p] = "kernel"
  /\ loc' = [loc EXCEPT ![p] = "callback"]
  /\ cbPc' = "enter"
  /\ UNCHANGED <<chanVars, inFlight, late, flushVars, stopped, queueOpen, consumer, trouble>>

\* inFlight.Add(1), and the return on a packet without payload.
CbEnter ==
  /\ cbPc = "enter"
  /\ inFlight' = inFlight + 1
  /\ late' = IF flushPc \in {"drain", "returned"} THEN late \cup {Current} ELSE late
  /\ IF Current \in Bare
       THEN cbPc' = "leave" /\ loc' = [loc EXCEPT ![Current] = "stuck"]
       ELSE cbPc' = "check" /\ UNCHANGED loc
  /\ UNCHANGED <<chanVars, flushVars, stopped, queueOpen, consumer, trouble>>

\* The test of flushing and n.ctx.Err().
CbCheck ==
  /\ cbPc = "check"
  /\ cbPc' = IF flushing \/ stopped THEN "accept" ELSE "enqueue"
  /\ UNCHANGED <<loc, chanVars, inFlight, late, flushVars, stopped, queueOpen, consumer, trouble>>

\* The select with a default: the packet fits into recv, or it does not.
CbEnqueue ==
  /\ cbPc = "enqueue"
  /\ IF Len(recv) < RecvCap
       THEN /\ recv' = Append(recv, Current)
            /\ loc' = [loc EXCEPT ![Current] = "recv"]
            /\ cbPc' = "leave"
       ELSE cbPc' = "accept" /\ UNCHANGED <<recv, loc>>
  /\ UNCHANGED <<errs, inFlight, late, flushVars, stopped, queueOpen, consumer, trouble>>

\* A mutation: the packet that found no room is forgotten.
CbAccept_forgets ==
  /\ cbPc = "accept"
  /\ loc' = [loc EXCEPT ![Current] = "stuck"]
  /\ cbPc' = "leave"
  /\ UNCHANGED <<chanVars, inFlight, late, flushVars, stopped, queueOpen, consumer, trouble>>

\* setVerdict(NfAccept); its error is ignored.
CbAccept ==
  /\ cbPc = "accept"
  /\ \E ok \in BOOLEAN : SetVerdict(Current, ok)
  /\ cbPc' = "leave"
  /\ UNCHANGED <<chanVars, inFlight, late, flushVars, stopped, queueOpen, consumer>>

\* A mutation: the counter is not taken back.
CbLeave_leaks ==
  /\ cbPc = "leave"
  /\ cbPc' = "idle"
  /\ UNCHANGED <<loc, chanVars, inFlight, late, flushVars, stopped, queueOpen, consumer, trouble>>

\* The deferred inFlight.Add(-1).
CbLeave ==
  /\ cbPc = "leave"
  /\ inFlight' = inFlight - 1
  /\ cbPc' = "idle"
  /\ UNCHANGED <<loc, chanVars, late, flushVars, stopped, queueOpen, consumer, trouble>>

\* A mutation: onError does not pass the error on.
CbError_silent ==
  /\ cbPc = "idle"
  /\ cbPc' = "failed"
  /\ UNCHANGED <<loc, recv, errs, inFlight, late, flushVars, stopped, queueOpen, consumer, trouble>>

\* onError with an error that is no timeout: it is posted, and the goroutine ends.
CbError ==
  /\ cbPc = "idle"
  /\ errs' = TRUE
  /\ cbPc' = "failed"
  /\ UNCHANGED <<loc, recv, inFlight, late, flushVars, stopped, queueOpen, consumer, trouble>>

\* go-nfqueue notices that the context is canceled.
CbEnd ==
  /\ cbPc = "idle" /\ stopped
  /\ cbPc' = "ended"
  /\ UNCHANGED <<loc, chanVars, inFlight, late, flushVars, stopped, queueOpen, consumer, trouble>>

Callback ==
  CbEnter \/ CbCheck \/ CbEnqueue \/ CbAccept \/ CbLeave \/ CbEnd

-----------------------------------------------------------------------------
\* The engine.

\* Recv returns a packet.
Recv ==
  /\ consumer = "on" /\ recv # <<>>
  /\ loc' = [loc EXCEPT ![Head(recv)] = "taken"]
  /\ recv' = Tail(recv)
  /\ UNCHANGED <<errs, cbVars, flushVars, stopped, queueOpen, consumer, trouble>>

\* Recv returns the error posted by onError: the engine stops receiving.
RecvError ==
  /\ consumer = "on" /\ errs
  /\ errs' = FALSE /\ consumer' = "error"
  /\ UNCHANGED <<loc, recv, cbVars, flushVars, stopped, queueOpen, trouble>>

\* Recv returns ctx.Err() of its caller.
RecvCanceled ==
  /\ consumer = "on"
  /\ consumer' = "off"
  /\ UNCHANGED <<loc, chanVars, cbVars, flushVars, stopped, queueOpen, trouble>>

\* Send or Drop of a captured packet: its verdict.
Verdict(p) ==
  /\ loc[p] = "taken" /\ queueOpen
  /\ \E ok \in BOOLEAN : SetVerdict(p, ok)
  /\ UNCHANGED <<chanVars, cbVars, flushVars, stopped, queueOpen, consumer>>

FlushBegin ==
  /\ flushPc = "off" /\ consumer # "on"
  /\ flushing' = TRUE
  /\ flushPc' = "stop"
  /\ UNCHANGED <<loc, chanVars, cbVars, stopped, queueOpen, consumer, flushRet, trouble>>

FlushStop ==
  /\ flushPc = "stop"
  /\ stopped' = TRUE
  /\ flushPc' = "wait"
  /\ UNCHANGED <<loc, chanVars, cbVars, flushing, queueOpen, consumer, flushRet, trouble>>

\* A mutation: Flush does not wait for callbacks that have passed the test.
FlushWait_none ==
  /\ flushPc = "wait"
  /\ flushPc' = "drain"
  /\ UNCHANGED <<loc, chanVars, cbVars, flushing, stopped, queueOpen, consumer, flushRet, trouble>>

\* The polling loop sees inFlight = 0.
FlushWait ==
  /\ flushPc = "wait" /\ inFlight = 0
  /\ flushPc' = "drain"
  /\ UNCHANGED <<loc, chanVars, cbVars, flushing, stopped, queueOpen, consumer, flushRet, trouble>>

\* The deadline passes first: Flush returns, and recv is not drained.
FlushTimeout ==
  /\ flushPc = "wait" /\ inFlight > 0
  /\ flushPc' = "returned" /\ flushRet' = "deadline"
  /\ UNCHANGED <<loc, chanVars, cbVars, flushing, stopped, queueOpen, consumer, trouble>>

\* The drain loop accepts one packet, or notes the error.
FlushDrain ==
  /\ flushPc = "drain" /\ recv # <<>>
  /\ \E ok \in BOOLEAN :
       /\ SetVerdict(Head(recv), ok)
       /\ flushRet' = IF ok THEN flushRet ELSE "error"
  /\ recv' = Tail(recv)
  /\ UNCHANGED <<errs, cbVars, flushing, flushPc, stopped, queueOpen, consumer>>

FlushDone ==
  /\ flushPc = "drain" /\ recv = <<>>
  /\ flushPc' = "returned"
  /\ flushRet' = IF flushRet = "none" THEN "nil" ELSE flushRet
  /\ UNCHANGED <<loc, chanVars, cbVars, flushing, stopped, queueOpen, consumer, trouble>>

Close ==
  /\ flushPc = "returned" /\ queueOpen
  /\ queueOpen' = FALSE
  /\ UNCHANGED <<loc, chanVars, cbVars, flushVars, stopped, consumer, trouble>>

Receiver == Recv \/ RecvError \/ RecvCanceled
Flush == FlushBegin \/ FlushStop \/ FlushWait \/ FlushDrain \/ FlushDone

Next ==
  \/ \E p \in Packets : CbBegin(p) \/ Verdict(p)
  \/ Callback \/ CbError
  \/ Receiver
  \/ Flush \/ FlushTimeout \/ Close

Spec == Init /\ [][Next]_vars

\* A callback that runs goes on, Recv is called again and again, and so is
\* Flush's loop.  No deadline need ever pass, no packet come, no error happen,
\* and the caller's context need not be canceled.
Fairness == WF_vars(Callback) /\ WF_vars(Recv \/ RecvError) /\ WF_vars(Flush)

-----------------------------------------------------------------------------
\* Once Flush has returned nil, the receive buffer is empty and stays empty,
\* however late a callback comes: nothing waits there that nobody will take.
FlushedStaysEmpty == flushRet = "nil" => recv = <<>>

\* A captured packet is left without a verdict only if SetVerdict failed on the
\* open queue, if it came without payload, if Flush ran into its deadline, or if
\* its callback began so late that Flush could not see it and Close overtook it.
StuckIsExcused ==
  \A p \in Packets :
    loc[p] = "stuck" => trouble \/ p \in Bare \/ flushRet = "deadline" \/ p \in late

\* An error of the netlink socket makes Recv return, unless the engine has
\* stopped receiving before: the engine never waits on a dead queue.
ErrorEndsRecv == (cbPc = "failed" /\ consumer = "on") ~> (consumer # "on")

\* Flush returns even if its context has no deadline.
FlushEnds == (flushPc # "off") ~> (flushPc = "returned")
=============================================================================
