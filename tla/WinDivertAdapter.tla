---------------------------- MODULE WinDivertAdapter ----------------------------
(***************************************************************************)
(* internal/adapter/windivert_windows.go: the receive goroutine that       *)
(* startRecvLoop starts, Recv, Flush and Close.  The WinDivert driver is   *)
(* external: WinDivertRecv blocks until it has a packet, fails, or the     *)
(* receive side has been shut down; a diverted packet is lost to its flow  *)
(* unless WinDivertSend reinjects it.                                      *)
(***************************************************************************)
EXTENDS Integers, Sequences, FiniteSets

CONSTANTS Packets,     \* the packets the driver diverts
          RecvCap      \* cap(w.recv)

ASSUME DivertAssumption == IsFiniteSet(Packets) /\ RecvCap \in Nat \ {0}

VARIABLES
  loc,          \* "driver", "loop", "recv", "taken", "settled", "lost"
  recv, errs,   \* the channels w.recv and w.errs (its one place is taken)
  loopPc,       \* the goroutine; "ended" is the closed channel w.done
  canceled,     \* w.ctx is canceled
  shut,         \* the receive side of the handle is shut down
  open,         \* the handle is open
  consumer,     \* the caller of Recv: "on", "off", or "error" if Recv failed
  flushPc, flushErr, flushRet,
  trouble       \* history: WinDivertSend failed

winVars == <<loc, recv, errs, loopPc, canceled, shut, open, consumer, flushPc, flushErr,
             flushRet, trouble>>

chanVars  == <<recv, errs>>
flushVars == <<flushPc, flushErr, flushRet>>

Current == CHOOSE p \in Packets : loc[p] = "loop"

\* WinDivertSend of packet p.
Reinject(p, ok) ==
  /\ ok => open
  /\ loc' = [loc EXCEPT ![p] = IF ok THEN "settled" ELSE "lost"]
  /\ trouble' = (trouble \/ ~ok)

WinInit ==
  /\ loc = [p \in Packets |-> "driver"]
  /\ recv = <<>> /\ errs = FALSE
  /\ loopPc = "top"
  /\ canceled = FALSE /\ shut = FALSE /\ open = TRUE
  /\ consumer = "on"
  /\ flushPc = "off" /\ flushErr = FALSE /\ flushRet = "none"
  /\ trouble = FALSE

-----------------------------------------------------------------------------
\* The receive goroutine.

\* The tests at the top of the loop.
LoopTop ==
  /\ loopPc = "top"
  /\ loopPc' = IF canceled \/ ~open THEN "ended" ELSE "recv"
  /\ UNCHANGED <<loc, chanVars, canceled, shut, open, consumer, flushVars, trouble>>

\* WinDivertRecv returns a packet; it still does after a shutdown if one waits.
LoopRecv(p) ==
  /\ loopPc = "recv" /\ open /\ loc[p] = "driver"
  /\ loc' = [loc EXCEPT ![p] = "loop"]
  /\ loopPc' = "got"
  /\ UNCHANGED <<chanVars, canceled, shut, open, consumer, flushVars, trouble>>

\* It returns an empty packet.
LoopEmpty ==
  /\ loopPc = "recv" /\ open
  /\ loopPc' = "top"
  /\ UNCHANGED <<loc, chanVars, canceled, shut, open, consumer, flushVars, trouble>>

\* It fails: the error is posted unless the adapter is being stopped.
LoopFails ==
  /\ errs' = (errs \/ ~canceled)
  /\ loopPc' = "ended"
  /\ UNCHANGED <<loc, recv, canceled, shut, open, consumer, flushVars, trouble>>

\* The driver fails by itself.
LoopBreaks == loopPc = "recv" /\ LoopFails

\* The shutdown, or the closed handle, ends the call.
LoopUnblocked == loopPc = "recv" /\ (shut \/ ~open) /\ LoopFails

\* A mutation: the goroutine ends at once when it is canceled.
LoopCheck_returns ==
  /\ loopPc = "got"
  /\ loopPc' = IF canceled THEN "ended" ELSE "room"
  /\ UNCHANGED <<loc, chanVars, canceled, shut, open, consumer, flushVars, trouble>>

\* The test of w.ctx.Err() after a packet has come.
LoopCheck ==
  /\ loopPc = "got"
  /\ loopPc' = IF canceled THEN "lastSend" ELSE "room"
  /\ UNCHANGED <<loc, chanVars, canceled, shut, open, consumer, flushVars, trouble>>

\* The test len(w.recv) == cap(w.recv).
LoopRoom ==
  /\ loopPc = "room"
  /\ loopPc' = IF Len(recv) = RecvCap THEN "fullSend" ELSE "select"
  /\ UNCHANGED <<loc, chanVars, canceled, shut, open, consumer, flushVars, trouble>>

\* The select takes its first case.  It may do so although the context has been
\* canceled since LoopCheck.  (Its default is dead code: nobody else sends on
\* w.recv, so that a channel with room keeps it.)
LoopPut ==
  /\ loopPc = "select"
  /\ recv' = Append(recv, Current)
  /\ loc' = [loc EXCEPT ![Current] = "recv"]
  /\ loopPc' = "top"
  /\ UNCHANGED <<errs, canceled, shut, open, consumer, flushVars, trouble>>

\* The select takes the ctx.Done case.
LoopCanceled ==
  /\ loopPc = "select" /\ canceled
  /\ loopPc' = "lastSend"
  /\ UNCHANGED <<loc, chanVars, canceled, shut, open, consumer, flushVars, trouble>>

\* Reinject the last packet and end; an error is ignored.
LoopLastSend ==
  /\ loopPc = "lastSend"
  /\ \E ok \in BOOLEAN : Reinject(Current, ok)
  /\ loopPc' = "ended"
  /\ UNCHANGED <<chanVars, canceled, shut, open, consumer, flushVars>>

\* Reinject a packet that finds the channel full; an error ends the goroutine and
\* is posted unless the adapter is being stopped.
LoopFullSend ==
  /\ loopPc = "fullSend"
  /\ \E ok \in BOOLEAN :
       /\ Reinject(Current, ok)
       /\ loopPc' = IF ok THEN "top" ELSE "ended"
       /\ errs' = (errs \/ (~ok /\ ~canceled))
  /\ UNCHANGED <<recv, canceled, shut, open, consumer, flushVars>>

Loop ==
  \/ LoopTop \/ LoopUnblocked \/ LoopCheck \/ LoopRoom \/ LoopPut \/ LoopCanceled
  \/ LoopLastSend \/ LoopFullSend

-----------------------------------------------------------------------------
\* The engine.

Recv ==
  /\ consumer = "on" /\ recv # <<>>
  /\ loc' = [loc EXCEPT ![Head(recv)] = "taken"]
  /\ recv' = Tail(recv)
  /\ UNCHANGED <<errs, loopPc, canceled, shut, open, consumer, flushVars, trouble>>

RecvError ==
  /\ consumer = "on" /\ errs
  /\ errs' = FALSE /\ consumer' = "error"
  /\ UNCHANGED <<loc, recv, loopPc, canceled, shut, open, flushVars, trouble>>

RecvCanceled ==
  /\ consumer = "on"
  /\ consumer' = "off"
  /\ UNCHANGED <<loc, chanVars, loopPc, canceled, shut, open, flushVars, trouble>>

\* Send of a captured packet, or Drop, which does nothing: the driver has taken
\* the packet off the network already.
SendOrDrop(p) ==
  /\ loc[p] = "taken" /\ open
  /\ \E ok \in BOOLEAN : Reinject(p, ok)
  /\ UNCHANGED <<chanVars, loopPc, canceled, shut, open, consumer, flushVars>>

FlushCancel ==
  /\ flushPc = "off" /\ consumer # "on"
  /\ canceled' = TRUE
  /\ flushPc' = "shutdown"
  /\ UNCHANGED <<loc, chanVars, loopPc, shut, open, consumer, flushErr, flushRet, trouble>>

\* A mutation: WinDivertRecv is not unblocked.
FlushShutdown_none ==
  /\ flushPc = "shutdown"
  /\ flushPc' = "wait"
  /\ UNCHANGED <<loc, chanVars, loopPc, canceled, shut, open, consumer, flushErr, flushRet, trouble>>

\* shutdownRecv.  (Its error is ignored: after one, WinDivertRecv may block until
\* the deadline, and FlushTimeout comes instead of LoopUnblocked.)
FlushShutdown ==
  /\ flushPc = "shutdown"
  /\ shut' = TRUE
  /\ flushPc' = "wait"
  /\ UNCHANGED <<loc, chanVars, loopPc, canceled, open, consumer, flushErr, flushRet, trouble>>

\* The select of Flush: w.done.
FlushWait ==
  /\ flushPc = "wait" /\ loopPc = "ended"
  /\ flushPc' = "drain"
  /\ UNCHANGED <<loc, chanVars, loopPc, canceled, shut, open, consumer, flushErr, flushRet, trouble>>

\* The select of Flush: the deadline.  Flush drains what there is.
FlushTimeout ==
  /\ flushPc = "wait"
  /\ flushPc' = "drain" /\ flushRet' = "deadline"
  /\ UNCHANGED <<loc, chanVars, loopPc, canceled, shut, open, consumer, flushErr, trouble>>

FlushDrain ==
  /\ flushPc = "drain" /\ recv # <<>>
  /\ \E ok \in BOOLEAN : Reinject(Head(recv), ok) /\ flushErr' = (flushErr \/ ~ok)
  /\ recv' = Tail(recv)
  /\ UNCHANGED <<errs, loopPc, canceled, shut, open, consumer, flushPc, flushRet>>

\* Flush returns the first error of Send, or else ctx.Err(), also if the deadline
\* has passed since the goroutine ended.
FlushDone ==
  /\ flushPc = "drain" /\ recv = <<>>
  /\ flushPc' = "returned"
  /\ flushRet' \in IF flushErr THEN {"error"}
                   ELSE IF flushRet = "deadline" THEN {"deadline"} ELSE {"deadline", "nil"}
  /\ UNCHANGED <<loc, chanVars, loopPc, canceled, shut, open, consumer, flushErr, trouble>>

\* WinDivertClose.
Close ==
  /\ flushPc = "returned" /\ open
  /\ open' = FALSE
  /\ UNCHANGED <<loc, chanVars, loopPc, canceled, shut, consumer, flushVars, trouble>>

Flush == FlushCancel \/ FlushShutdown \/ FlushWait \/ FlushDrain \/ FlushDone

WinNext ==
  \/ \E p \in Packets : LoopRecv(p) \/ SendOrDrop(p)
  \/ LoopEmpty \/ LoopBreaks \/ Loop
  \/ Recv \/ RecvError \/ RecvCanceled
  \/ Flush \/ FlushTimeout \/ Close

WinSpec == WinInit /\ [][WinNext]_winVars

-----------------------------------------------------------------------------
InHand == {p \in Packets : loc[p] = "loop"}

\* Once Flush has returned nil nothing is left behind: the goroutine has ended,
\* the buffer is empty, and what the goroutine took from the driver has been
\* handed to the engine or reinjected, unless WinDivertSend failed; the goroutine
\* has not ended with a packet in hand.
FlushLeavesNothing ==
  flushRet = "nil" =>
    /\ loopPc = "ended" /\ recv = <<>>
    /\ InHand = {}
    /\ \A p \in Packets : loc[p] = "lost" => trouble

\* Flush returns even if its context has no deadline, because the shutdown of the
\* receive side ends a WinDivertRecv that blocks.
FlushEnds == (flushPc # "off") ~> (flushPc = "returned")
=============================================================================
