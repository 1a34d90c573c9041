----------------------------- MODULE DivertAdapter ------------------------------
(***************************************************************************)
(* internal/adapter/divert_freebsd.go: recvLoop of the engine against the  *)
(* divert socket, then Flush and Close.  There is no goroutine of its own; *)
(* the other side is the kernel, which puts packets into the socket for as *)
(* long as it is open, also during Flush: pf goes on diverting.            *)
(*                                                                         *)
(* Packets are counted, not named, so that traffic need not end.  Where a  *)
(* packet is sent back to (the codec of the address), and Drop, which does *)
(* nothing here, are left out.                                             *)
(***************************************************************************)
EXTENDS Integers

CONSTANTS SockCap,     \* packets that the socket can hold; more are lost in the kernel
          MaxSignals,  \* bound: interrupted system calls
          MaxFailures     \* bound: system calls that fail

ASSUME DivertAssumption == SockCap \in Nat \ {0} /\ {MaxSignals, MaxFailures} \subseteq Nat

VARIABLES
  fd,          \* "open" or "closed"
  sock,        \* packets waiting in the socket
  recvPc,      \* recvLoop: "recv", "encode" (in Recv), "got" (it has a packet), "ended"
  canceled,    \* the context of Run
  drainPc,     \* Flush: "none", "top", "read", "send", "done"
  flushErr,    \* it has an error to return
  deadline,    \* its context is done
  old,         \* history: packets not read of those that waited when it began
  signals, failures

kernelVars == <<fd, sock, old>>
recvVars   == <<recvPc, canceled>>
drainVars  == <<drainPc, flushErr, deadline>>
divertVars == <<kernelVars, recvVars, drainVars, signals, failures>>

\* NewDivert
DivertInit ==
  /\ fd = "open" /\ sock = 0 /\ old = 0
  /\ recvPc = "recv" /\ canceled = FALSE
  /\ drainPc = "none" /\ flushErr = FALSE /\ deadline = FALSE
  /\ signals = 0 /\ failures = 0

Arrive ==
  /\ fd = "open" /\ sock < SockCap
  /\ sock' = sock + 1
  /\ UNCHANGED <<fd, old, recvVars, drainVars, signals, failures>>

Cancel ==
  /\ ~canceled
  /\ canceled' = TRUE
  /\ UNCHANGED <<kernelVars, recvPc, drainVars, signals, failures>>

\* A system call is interrupted, or fails.
Interrupted == signals < MaxSignals /\ signals' = signals + 1 /\ UNCHANGED failures
Failing     == failures < MaxFailures /\ failures' = failures + 1 /\ UNCHANGED signals
Succeeding  == UNCHANGED <<signals, failures>>

\* Recvfrom takes a packet out of the socket.
ReadSocket ==
  /\ sock > 0
  /\ sock' = sock - 1
  /\ old' = IF old > 0 THEN old - 1 ELSE 0
  /\ UNCHANGED fd

-----------------------------------------------------------------------------
\* Recv, and what recvLoop does with the packet.

RecvPacket ==
  /\ recvPc = "recv" /\ ReadSocket /\ Succeeding
  /\ recvPc' = "encode"
  /\ UNCHANGED <<canceled, drainVars>>

\* A mutation: the read is repeated without a look at the context.
RecvTimeout_ignores ==
  /\ recvPc = "recv" /\ sock = 0
  /\ UNCHANGED divertVars

\* No packet for divertReadTimeout.  Only here is the context looked at.
RecvTimeout ==
  /\ recvPc = "recv" /\ sock = 0 /\ canceled /\ Succeeding
  /\ recvPc' = "ended"
  /\ UNCHANGED <<kernelVars, canceled, drainVars>>

RecvInterrupted ==
  /\ recvPc = "recv" /\ Interrupted
  /\ UNCHANGED <<kernelVars, recvVars, drainVars>>

RecvFails ==
  /\ recvPc = "recv" /\ Failing
  /\ recvPc' = "ended"
  /\ UNCHANGED <<kernelVars, canceled, drainVars>>

\* encodeDivertAddr: a packet from an address that it does not know is sent back
\* at once, and the next one is read.
Encode ==
  /\ recvPc = "encode" /\ Succeeding
  /\ recvPc' \in {"got", "recv"}
  /\ UNCHANGED <<kernelVars, canceled, drainVars>>

\* recvLoop sends the packet or gives it to a worker; after a cancellation it
\* sends it.  Either way it calls Recv again.
PassOn ==
  /\ recvPc = "got" /\ Succeeding
  /\ recvPc' = "recv"
  /\ UNCHANGED <<kernelVars, canceled, drainVars>>

SendFails ==
  /\ recvPc \in {"encode", "got"} /\ Failing
  /\ recvPc' = "ended"
  /\ UNCHANGED <<kernelVars, canceled, drainVars>>

-----------------------------------------------------------------------------
\* Flush and Close, when recvLoop and the workers have ended.

DivertFlushBegin ==
  /\ drainPc = "none" /\ recvPc = "ended" /\ Succeeding
  /\ drainPc' = "top" /\ old' = sock
  /\ UNCHANGED <<fd, sock, recvVars, flushErr, deadline>>

Deadline ==
  /\ drainPc # "none" /\ ~deadline
  /\ deadline' = TRUE
  /\ UNCHANGED <<kernelVars, recvVars, drainPc, flushErr, signals, failures>>

\* The select with a default at the top of the loop.
FlushTop ==
  /\ drainPc = "top" /\ Succeeding
  /\ drainPc' = IF deadline THEN "done" ELSE "read"
  /\ flushErr' = (flushErr \/ deadline)
  /\ UNCHANGED <<kernelVars, recvVars, deadline>>

FlushRead ==
  /\ drainPc = "read" /\ ReadSocket /\ Succeeding
  /\ drainPc' = "send"
  /\ UNCHANGED <<recvVars, flushErr, deadline>>

\* The socket is empty: break.
FlushEmpty ==
  /\ drainPc = "read" /\ sock = 0 /\ Succeeding
  /\ drainPc' = "done"
  /\ UNCHANGED <<kernelVars, recvVars, flushErr, deadline>>

\* A mutation: an interrupted read ends the loop like an empty socket.
FlushInterrupted_breaks ==
  /\ drainPc = "read" /\ Interrupted
  /\ drainPc' = "done"
  /\ UNCHANGED <<kernelVars, recvVars, flushErr, deadline>>

FlushInterrupted ==
  /\ drainPc = "read" /\ Interrupted
  /\ drainPc' = "top"
  /\ UNCHANGED <<kernelVars, recvVars, flushErr, deadline>>

FlushReadFails ==
  /\ drainPc = "read" /\ Failing
  /\ drainPc' = "done" /\ flushErr' = TRUE
  /\ UNCHANGED <<kernelVars, recvVars, deadline>>

FlushSend ==
  /\ drainPc = "send" /\ (Succeeding \/ Failing)
  /\ drainPc' = "top" /\ flushErr' = (flushErr \/ failures' # failures)
  /\ UNCHANGED <<kernelVars, recvVars, deadline>>

\* The kernel drops what is still in the socket.
DivertClose ==
  /\ drainPc = "done" /\ fd = "open" /\ Succeeding
  /\ fd' = "closed" /\ sock' = 0
  /\ UNCHANGED <<old, recvVars, drainVars>>

DivertRecv  == RecvPacket \/ RecvTimeout \/ Encode \/ PassOn
DivertFlush == FlushTop \/ FlushRead \/ FlushEmpty \/ FlushSend
Trouble == RecvInterrupted \/ RecvFails \/ SendFails \/ FlushInterrupted \/ FlushReadFails

DivertNext ==
  \/ Arrive \/ Cancel \/ DivertRecv
  \/ DivertFlushBegin \/ DivertFlush \/ DivertClose
  \/ Trouble \/ Deadline

DivertSpec == DivertInit /\ [][DivertNext]_divertVars

\* recvLoop and Flush run on, Run calls Flush after recvLoop, and time passes.  The
\* kernel owes nothing, and no failure need happen.
DivertFairness ==
  /\ WF_divertVars(DivertRecv) /\ WF_divertVars(Deadline)
  /\ WF_divertVars(DivertFlushBegin) /\ WF_divertVars(DivertFlush)

DivertFairSpec == DivertSpec /\ DivertFairness

-----------------------------------------------------------------------------
\* A Flush that returns nil has given back every packet that was waiting when it
\* began, whatever interrupted it and however much traffic still comes in.
FlushDrains ==
  drainPc = "done" /\ ~flushErr => old = 0

\* A canceled recvLoop ends, unless packets keep coming: Recv looks at its context
\* only when the socket has been empty for a while.  Flush ends even then, because
\* it looks at its deadline before every packet.
ShutdownUnlessBusy ==
  /\ (canceled ~> recvPc = "ended") \/ []<><<Arrive>>_divertVars
  /\ drainPc = "top" ~> drainPc = "done"

\* docs/DESIGN_BSD.md:73: "Shutdown draining is bounded by a timeout and max packet
\* count to prevent Stop from hanging forever under load."  A stop that was asked
\* for comes to its end, whatever the traffic.
StopNeverHangs ==
  canceled ~> drainPc = "done"
=============================================================================
