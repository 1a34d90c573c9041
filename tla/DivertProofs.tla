------------------------------ MODULE DivertProofs ------------------------------
(***************************************************************************)
(* Proofs about DivertAdapter.tla for any size of the socket and any       *)
(* number of interrupted and failing calls.                                *)
(***************************************************************************)
EXTENDS DivertAdapter, TLAPS

TypeOK ==
  /\ fd \in {"open", "closed"}
  /\ sock \in Nat /\ old \in Nat
  /\ recvPc \in {"recv", "encode", "got", "ended"}
  /\ drainPc \in {"none", "top", "read", "send", "done"}
  /\ canceled \in BOOLEAN /\ flushErr \in BOOLEAN /\ deadline \in BOOLEAN
  /\ signals \in Nat /\ failures \in Nat

\* Nobody but Flush takes packets out of the socket when it has begun, and nobody
\* closes it, so that those that waited then are a part of those that wait now; and
\* the only way out of the loop without an error is an empty socket.
FlushInv ==
  /\ drainPc # "none" => recvPc = "ended"
  /\ drainPc # "done" => fd = "open"
  /\ drainPc \in {"top", "read", "send"} => old <= sock
  /\ drainPc = "done" => flushErr \/ old = 0

IInv == TypeOK /\ FlushInv

\* The opened socket is empty, and there is no flush.
LEMMA InitIInv == DivertInit => IInv
<1> SUFFICES ASSUME DivertInit PROVE IInv
  OBVIOUS
<1>1. TypeOK
  BY DEF DivertInit, TypeOK
<1>2. FlushInv
  BY DEF DivertInit, FlushInv
<1> QED BY <1>1, <1>2 DEF IInv

\* A packet from the kernel.
LEMMA ArriveStep ==
  ASSUME IInv, Arrive
  PROVE  IInv'
BY DEF IInv, Arrive, TypeOK, FlushInv, recvVars, drainVars

\* A packet that is read is one of the old ones while there are any.
LEMMA ReadKeepsOld ==
  ASSUME TypeOK, ReadSocket
  PROVE  /\ sock' \in Nat /\ old' \in Nat /\ fd' = fd
         /\ old <= sock => old' <= sock'
BY DEF TypeOK, ReadSocket

\* recvLoop has ended when there is a flush; none of its steps is possible then.
LEMMA RecvStep ==
  ASSUME IInv, DivertRecv \/ RecvInterrupted \/ RecvFails \/ SendFails
  PROVE  IInv'
<1> USE DEF IInv
<1>1. recvPc # "ended" /\ drainPc = "none" /\ fd = "open"
  BY DEF DivertRecv, RecvPacket, RecvTimeout, Encode, PassOn, RecvInterrupted, RecvFails,
     SendFails, FlushInv
<1>2. drainPc' = "none" /\ fd' = "open"
  BY <1>1 DEF DivertRecv, RecvPacket, ReadSocket, RecvTimeout, Encode, PassOn, RecvInterrupted,
     RecvFails, SendFails, drainVars, recvVars, kernelVars
<1>3. TypeOK'
  <2>1. CASE RecvPacket
    BY <2>1, ReadKeepsOld DEF RecvPacket, TypeOK, Succeeding, drainVars
  <2>2. CASE RecvTimeout \/ Encode \/ PassOn
    BY <2>2 DEF RecvTimeout, Encode, PassOn, TypeOK, Succeeding, drainVars, kernelVars
  <2>3. CASE RecvInterrupted \/ RecvFails \/ SendFails
    BY <2>3 DEF RecvInterrupted, RecvFails, SendFails, TypeOK, Interrupted, Failing,
       drainVars, kernelVars, recvVars
  <2> QED BY <2>1, <2>2, <2>3 DEF DivertRecv
<1> QED BY <1>2, <1>3 DEF FlushInv

\* Beginning, and the steps of the loop that give no packet back.
LEMMA FlushControl ==
  ASSUME IInv, DivertFlushBegin \/ FlushTop \/ FlushEmpty \/ FlushInterrupted \/ FlushReadFails
  PROVE  IInv'
<1> USE DEF IInv, kernelVars, recvVars
<1>1. CASE DivertFlushBegin
  <2>1. TypeOK' BY <1>1 DEF DivertFlushBegin, TypeOK, Succeeding
  <2>2. FlushInv' BY <1>1 DEF DivertFlushBegin, TypeOK, FlushInv
  <2> QED BY <2>1, <2>2
<1>2. CASE FlushTop
  <2>1. TypeOK' BY <1>2 DEF FlushTop, TypeOK, Succeeding
  <2>2. FlushInv' BY <1>2 DEF FlushTop, TypeOK, FlushInv
  <2> QED BY <2>1, <2>2
<1>3. CASE FlushEmpty
  <2>1. TypeOK' BY <1>3 DEF FlushEmpty, TypeOK, Succeeding
  <2>2. FlushInv' BY <1>3 DEF FlushEmpty, TypeOK, FlushInv
  <2> QED BY <2>1, <2>2
<1>4. CASE FlushInterrupted
  <2>1. TypeOK' BY <1>4 DEF FlushInterrupted, TypeOK, Interrupted
  <2>2. FlushInv' BY <1>4 DEF FlushInterrupted, TypeOK, FlushInv
  <2> QED BY <2>1, <2>2
<1>5. CASE FlushReadFails
  <2>1. TypeOK' BY <1>5 DEF FlushReadFails, TypeOK, Failing
  <2>2. FlushInv' BY <1>5 DEF FlushReadFails, TypeOK, FlushInv
  <2> QED BY <2>1, <2>2
<1> QED BY <1>1, <1>2, <1>3, <1>4, <1>5

\* Taking a packet and sending it.
LEMMA FlushPacket ==
  ASSUME IInv, FlushRead \/ FlushSend
  PROVE  IInv'
<1> USE DEF IInv
<1>1. CASE FlushRead
  <2>1. /\ drainPc = "read" /\ drainPc' = "send"
        /\ UNCHANGED <<recvPc, canceled, flushErr, deadline, signals, failures>>
    BY <1>1 DEF FlushRead, recvVars, Succeeding
  <2>2. sock' \in Nat /\ old' \in Nat /\ fd' = fd /\ old' <= sock'
    BY <1>1, <2>1, ReadKeepsOld DEF FlushRead, FlushInv
  <2> QED BY <2>1, <2>2 DEF TypeOK, FlushInv
<1>2. CASE FlushSend
  <2>1. TypeOK' BY <1>2 DEF FlushSend, TypeOK, Succeeding, Failing, kernelVars, recvVars
  <2>2. FlushInv' BY <1>2 DEF FlushSend, FlushInv, kernelVars, recvVars
  <2> QED BY <2>1, <2>2
<1> QED BY <1>1, <1>2

\* What is left: the context, the deadline and the close after the flush.
LEMMA OtherStep ==
  ASSUME IInv, Cancel \/ Deadline \/ DivertClose
  PROVE  IInv'
<1> USE DEF IInv, kernelVars, recvVars, drainVars
<1>1. CASE Cancel
  <2>1. TypeOK' BY <1>1 DEF Cancel, TypeOK
  <2>2. FlushInv' BY <1>1 DEF Cancel, FlushInv
  <2> QED BY <2>1, <2>2
<1>2. CASE Deadline
  <2>1. TypeOK' BY <1>2 DEF Deadline, TypeOK
  <2>2. FlushInv' BY <1>2 DEF Deadline, FlushInv
  <2> QED BY <2>1, <2>2
<1>3. CASE DivertClose
  <2>1. TypeOK' BY <1>3 DEF DivertClose, TypeOK, Succeeding
  <2>2. FlushInv' BY <1>3 DEF DivertClose, FlushInv
  <2> QED BY <2>1, <2>2
<1> QED BY <1>1, <1>2, <1>3

\* Every step keeps the inductive invariant.
LEMMA StepIInv == IInv /\ [DivertNext]_divertVars => IInv'
<1> SUFFICES ASSUME IInv, [DivertNext]_divertVars PROVE IInv'
  OBVIOUS
<1>1. CASE DivertNext
  BY <1>1, ArriveStep, RecvStep, FlushControl, FlushPacket, OtherStep
     DEF DivertNext, DivertFlush, Trouble
<1>2. CASE UNCHANGED divertVars
  BY <1>2 DEF divertVars, kernelVars, recvVars, drainVars, IInv, TypeOK, FlushInv
<1> QED BY <1>1, <1>2

\* A Flush of the divert socket that returns nil has given back every packet that
\* waited when it began, for any traffic and any interruptions.
THEOREM FlushGivesBack == DivertSpec => []FlushDrains
<1>1. IInv => FlushDrains
  BY DEF IInv, FlushInv, FlushDrains
<1> QED BY <1>1, InitIInv, StepIInv, PTL DEF DivertSpec
=============================================================================
