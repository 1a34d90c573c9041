------------------------------ MODULE EngineProofs ------------------------------
(***************************************************************************)
(* Proofs about Engine.tla for any set of workers, any finite set of       *)
(* packets and any sharding, queue size and flush limit; and, after them,  *)
(* about the reassembly buffer of a flow, Reassembly.tla, for any sequence *)
(* space, byte limit and bytes: the list of segments stays sorted and      *)
(* apart, the byte count is exact, and the buffer implements the window of *)
(* bytes of StreamWindow.tla.                                              *)
(***************************************************************************)
EXTENDS Engine, Reassembly, FiniteSetTheorems, SequenceTheorems, WellFoundedInduction,
        TLAPS

Ended    == {"finish", "done"}
Flushing == {"held", "drain", "finish", "done"}
AfterRecv == {"closing", "wait", "flush", "close", "return", "returned"}
AfterWait == {"flush", "close", "return", "returned"}
AfterFlush == {"close", "return", "returned"}

\* recvLoop has at most one packet in its hands, and none between two rounds.
RecvInv ==
  /\ recvPc \in {"recv", "done"} => \A p \in Packets : loc[p] # "recv"
  /\ \A p, q \in Packets : loc[p] = "recv" /\ loc[q] = "recv" => p = q
  /\ recvPc # "done" <=> recvErr = "none"

\* How far the other goroutines have come when Run has reached a point.
RunInv ==
  /\ runPc # "select" => cancelled
  /\ runPc \in AfterRecv => recvPc = "done"
  /\ runPc \in AfterWait => \A w \in Workers : wPc[w] = "done"
  /\ \A w \in Workers : closed[w] => runPc \in AfterRecv
  /\ adapter # "open" <=> runPc \in AfterFlush

\* A worker flushes only in a canceled engine, and leaves no held packet behind
\* unless a guardrail stopped it.
WorkerInv ==
  \A w \in Workers :
    /\ wPc[w] \in Flushing => cancelled
    /\ wPc[w] \in {"drain"} \cup Ended => "guard" \in trouble \/ HeldBy(w) = {}

\* A packet in a queue that nobody will read again.
Late(p) == loc[p] = "queue" /\ wPc[Shard[p]] \in Ended

\* Such a packet got there by the last select of enqueue that began before the
\* cancellation: recvLoop has left that select and cannot enter it again.
StrandInv ==
  trouble = {} =>
    /\ \A p \in Packets : Late(p) => recvPc # "select"
    /\ \A p, q \in Packets : Late(p) /\ Late(q) => p = q
    /\ adapter # "open" => \A p \in Packets : loc[p] # "adapter"

\* Without a failed call a packet is given back when, and only when, it is out.
SentInv ==
  "io" \notin trouble =>
    \A p \in Packets : sent[p] <= 1 /\ (loc[p] # "out" => sent[p] = 0)

\* The error of a worker that has ended waits in the channel or is Run's error.
ErrInv ==
  /\ \A w \in Workers : wPc[w] = "done" /\ wErr[w] = "fail" =>
       workerErrCh # "none" \/ runErr \in {"fail", "guard"}
  /\ runPc = "select" => runErr = "none"
  /\ runPc # "returned" => runErr # "nil"
  /\ runPc = "returned" /\ runErr = "nil" => workerErrCh = "none"

IInv == /\ TypeOK /\ RecvInv /\ RunInv /\ WorkerInv
        /\ StrandInv /\ SentInv /\ ErrInv

\* A freshly started engine satisfies the inductive invariant.
LEMMA InitIInv == Init => IInv
<1> SUFFICES ASSUME Init PROVE IInv
  OBVIOUS
<1> USE EngineAssumption DEF Init
<1>1. TypeOK
  <2>1. loc \in [Packets -> Places] /\ sent \in [Packets -> Nat]
    BY DEF Places
  <2>2. flushed \in [Workers -> 0 .. FlushMax]
    OBVIOUS
  <2>3. /\ wPc \in [Workers -> {"run", "cancel", "held", "drain", "finish", "done"}]
        /\ wErr \in [Workers -> {"none", "nil", "canceled", "fail"}]
        /\ flushErr \in [Workers -> SUBSET {"fail", "guard"}]
        /\ closed \in [Workers -> BOOLEAN]
    OBVIOUS
  <2> QED BY <2>1, <2>2, <2>3 DEF TypeOK
<1>2. RecvInv
  BY DEF RecvInv, TypeOK, Places
<1>3. RunInv
  BY DEF RunInv, RecvInv, TypeOK, AfterRecv, AfterWait, AfterFlush
<1>4. WorkerInv
  BY DEF WorkerInv, RunInv, TypeOK, HeldBy, Flushing, Ended, AfterRecv, AfterWait,
     AfterFlush
<1>5. StrandInv
  BY DEF StrandInv, WorkerInv, RunInv, RecvInv, TypeOK, Late, Flushing, Ended, AfterRecv,
     AfterWait, AfterFlush
<1>6. SentInv
  BY DEF SentInv, TypeOK
<1>7. ErrInv
  BY DEF ErrInv, RecvInv, RunInv, TypeOK, AfterWait
<1> QED BY <1>1, <1>2, <1>3, <1>4, <1>5, <1>6, <1>7 DEF IInv

\* Giving packets back keeps the types.
LEMMA ReleaseType ==
  ASSUME TypeOK, NEW S \in SUBSET Packets, Release(S)
  PROVE  loc' \in [Packets -> Places] /\ sent' \in [Packets -> Nat]
<1>1. loc \in [Packets -> Places] /\ sent \in [Packets -> Nat]
  BY DEF TypeOK
<1>2. loc' \in [Packets -> Places]
  BY <1>1 DEF Release, Places
<1>3. sent' \in [Packets -> Nat]
  BY <1>1 DEF Release
<1> QED BY <1>2, <1>3

\* The adapter is open, so Run is not past its flush.
LEMMA ArriveStep ==
  ASSUME IInv, NEW p \in Packets, Arrive(p)
  PROVE  IInv'
<1> USE EngineAssumption DEF IInv, Arrive
<1>1. TypeOK'
  BY DEF TypeOK, Places, recvVars, workerVars, runVars
<1>2. RecvInv'
  BY DEF RecvInv, TypeOK, Places, recvVars, workerVars, runVars
<1>3. WorkerInv'
  BY DEF WorkerInv, RunInv, TypeOK, HeldBy, Flushing, Ended, AfterRecv, AfterWait,
     AfterFlush, recvVars, workerVars, runVars
<1>4. StrandInv'
  BY DEF StrandInv, WorkerInv, RunInv, RecvInv, TypeOK, Late, Flushing, Ended, AfterRecv,
     AfterWait, AfterFlush, recvVars, workerVars, runVars
<1>5. SentInv'
  BY DEF SentInv, TypeOK, recvVars, workerVars, runVars
<1>6. RunInv' /\ ErrInv'
  BY DEF RunInv, ErrInv, recvVars, workerVars, runVars
<1> QED BY <1>1, <1>2, <1>3, <1>4, <1>5, <1>6

\* Only the context changes.
LEMMA CancelStep ==
  ASSUME IInv, Cancel
  PROVE  IInv'
<1> USE EngineAssumption DEF IInv, Cancel
<1>1. TypeOK'
  BY DEF TypeOK, Places, recvVars, workerVars, runVars
<1>2. RunInv'
  BY DEF RunInv, RecvInv, TypeOK, AfterRecv, AfterWait, AfterFlush, recvVars, workerVars,
     runVars
<1>3. WorkerInv'
  BY DEF WorkerInv, RunInv, TypeOK, HeldBy, Flushing, Ended, AfterRecv, AfterWait,
     AfterFlush, recvVars, workerVars, runVars
<1>4. RecvInv' /\ StrandInv' /\ SentInv' /\ ErrInv'
  BY DEF RecvInv, StrandInv, Late, SentInv, ErrInv, recvVars, workerVars, runVars
<1> QED BY <1>1, <1>2, <1>3, <1>4

\* recvLoop had no packet before.
LEMMA RecvPacketStep ==
  ASSUME IInv, NEW p \in Packets, RecvPacket(p)
  PROVE  IInv'
<1> USE EngineAssumption DEF IInv, RecvPacket
<1>0. /\ recvPc' \in {"send", "touch", "enqueue"}
      /\ loc' = [loc EXCEPT ![p] = "recv"] /\ recvPc = "recv" /\ loc[p] = "adapter"
      /\ UNCHANGED <<cancelled, sent, recvErr, workerVars, runVars, stopAsked, trouble>>
  BY DEF Classes
<1>1. TypeOK'
  BY <1>0 DEF TypeOK, Places, workerVars, runVars
<1>2. RecvInv'
  BY <1>0 DEF RecvInv, TypeOK, Places
<1>3. RunInv'
  BY DEF RunInv, RecvInv, TypeOK, AfterRecv, AfterWait, AfterFlush, workerVars, runVars
<1>4. WorkerInv'
  BY DEF WorkerInv, RunInv, TypeOK, HeldBy, Flushing, Ended, AfterRecv, AfterWait,
     AfterFlush, workerVars, runVars
<1>5. StrandInv'
  BY <1>0 DEF StrandInv, RecvInv, TypeOK, Late, workerVars, runVars
<1>6. SentInv'
  BY DEF SentInv, TypeOK, workerVars, runVars
<1>7. ErrInv'
  BY DEF ErrInv, workerVars, runVars
<1> QED BY <1>1, <1>2, <1>3, <1>4, <1>5, <1>6, <1>7

\* recvLoop gives its one packet back, or loses it and ends.
LEMMA DirectSendStep ==
  ASSUME IInv, NEW p \in Packets, DirectSend(p)
  PROVE  IInv'
<1> USE EngineAssumption DEF IInv, DirectSend
<1>1. TypeOK'
  <2>1. CASE Release({p}) /\ recvPc' = "recv" /\ UNCHANGED <<recvErr, trouble>>
    <3>1. loc' \in [Packets -> Places] /\ sent' \in [Packets -> Nat]
      BY <2>1, ReleaseType
    <3> QED BY <2>1, <3>1 DEF TypeOK, workerVars, runVars
  <2>2. CASE Lose(p) /\ recvPc' = "done" /\ recvErr' = "fail"
    BY <2>2 DEF TypeOK, Places, Lose, workerVars, runVars
  <2> QED BY <2>1, <2>2
<1>2. RecvInv'
  BY SMTT(20) DEF RecvInv, TypeOK, Places, Release, Lose, workerVars, runVars
<1>3. RunInv'
  BY DEF RunInv, RecvInv, TypeOK, AfterRecv, AfterWait, AfterFlush, Release, Lose,
     workerVars, runVars
<1>4. WorkerInv'
  BY DEF WorkerInv, RunInv, TypeOK, HeldBy, Flushing, Ended, AfterRecv, AfterWait,
     AfterFlush, Release, Lose, workerVars, runVars
<1>5. StrandInv'
  BY DEF StrandInv, WorkerInv, RunInv, RecvInv, TypeOK, Late, Flushing, Ended, AfterRecv,
     AfterWait, AfterFlush, Release, Lose, workerVars, runVars
<1>6. SentInv'
  BY DEF SentInv, TypeOK, Release, Lose, workerVars, runVars
<1>7. ErrInv'
  BY DEF ErrInv, workerVars, runVars
<1> QED BY <1>1, <1>2, <1>3, <1>4, <1>5, <1>6, <1>7

\* The step that can strand a packet; by StrandInv none was stranded before
\* it.
LEMMA EnqueuePutStep ==
  ASSUME IInv, NEW p \in Packets, EnqueuePut(p)
  PROVE  IInv'
<1> USE EngineAssumption DEF IInv, EnqueuePut
<1>1. TypeOK'
  BY DEF TypeOK, Places, workerVars, runVars
<1>2. RecvInv'
  BY DEF RecvInv, TypeOK, Places, workerVars, runVars
<1>3. RunInv'
  BY DEF RunInv, RecvInv, TypeOK, AfterRecv, AfterWait, AfterFlush, workerVars, runVars
<1>4. WorkerInv'
  BY DEF WorkerInv, RunInv, TypeOK, HeldBy, Flushing, Ended, AfterRecv, AfterWait,
     AfterFlush, workerVars, runVars
<1>5. StrandInv'
  BY DEF StrandInv, WorkerInv, RunInv, RecvInv, TypeOK, Late, Flushing, Ended, AfterRecv,
     AfterWait, AfterFlush, workerVars, runVars
<1>6. SentInv'
  BY DEF SentInv, TypeOK, workerVars, runVars
<1>7. ErrInv'
  BY DEF ErrInv, workerVars, runVars
<1> QED BY <1>1, <1>2, <1>3, <1>4, <1>5, <1>6, <1>7

\* recvLoop ends on a cancellation with no packet in its hands.
LEMMA RecvCanceledStep ==
  ASSUME IInv, RecvCanceled
  PROVE  IInv'
<1> USE EngineAssumption DEF IInv, RecvCanceled
<1>1. TypeOK'
  BY DEF TypeOK, Places, workerVars, runVars
<1>2. RecvInv'
  BY DEF RecvInv, TypeOK, Places, workerVars, runVars
<1>3. RunInv'
  BY DEF RunInv, RecvInv, TypeOK, AfterRecv, AfterWait, AfterFlush, workerVars, runVars
<1>4. StrandInv'
  BY DEF StrandInv, WorkerInv, RunInv, RecvInv, TypeOK, Late, Flushing, Ended, AfterRecv,
     AfterWait, AfterFlush, workerVars, runVars
<1>5. WorkerInv' /\ SentInv' /\ ErrInv'
  BY DEF WorkerInv, HeldBy, SentInv, ErrInv, workerVars, runVars
<1> QED BY <1>1, <1>2, <1>3, <1>4, <1>5

\* recvLoop ends on an adapter error with no packet in its hands.
LEMMA RecvFailsStep ==
  ASSUME IInv, RecvFails
  PROVE  IInv'
<1> USE EngineAssumption DEF IInv, RecvFails
<1>1. TypeOK'
  BY DEF TypeOK, Places, workerVars, runVars
<1>2. RecvInv'
  BY DEF RecvInv, TypeOK, Places, workerVars, runVars
<1>3. RunInv'
  BY DEF RunInv, RecvInv, TypeOK, AfterRecv, AfterWait, AfterFlush, workerVars, runVars
<1>4. WorkerInv'
  BY DEF WorkerInv, RunInv, TypeOK, HeldBy, Flushing, Ended, AfterRecv, AfterWait,
     AfterFlush, workerVars, runVars
<1>5. StrandInv'
  BY DEF StrandInv, WorkerInv, RunInv, RecvInv, TypeOK, Late, Flushing, Ended, AfterRecv,
     AfterWait, AfterFlush, workerVars, runVars
<1>6. SentInv'
  BY DEF SentInv, TypeOK, workerVars, runVars
<1>7. ErrInv'
  BY DEF ErrInv, workerVars, runVars
<1> QED BY <1>1, <1>2, <1>3, <1>4, <1>5, <1>6, <1>7

\* Touching a flow moves no packet.
LEMMA TouchFlowStep ==
  ASSUME IInv, TouchFlow
  PROVE  IInv'
<1> USE EngineAssumption DEF IInv, TouchFlow
<1>1. TypeOK'
  BY DEF TypeOK, Places, workerVars, runVars
<1>2. RecvInv'
  BY DEF RecvInv, TypeOK, Places, workerVars, runVars
<1>3. RunInv'
  BY DEF RunInv, RecvInv, TypeOK, AfterRecv, AfterWait, AfterFlush, workerVars, runVars
<1>4. StrandInv'
  BY DEF StrandInv, WorkerInv, RunInv, RecvInv, TypeOK, Late, Flushing, Ended, AfterRecv,
     AfterWait, AfterFlush, workerVars, runVars
<1>5. WorkerInv' /\ SentInv' /\ ErrInv'
  BY DEF WorkerInv, HeldBy, SentInv, ErrInv, workerVars, runVars
<1> QED BY <1>1, <1>2, <1>3, <1>4, <1>5

\* recvLoop enters the select only in an engine that is not canceled, in
\* which no worker has ended.
LEMMA EnqueueCheckStep ==
  ASSUME IInv, EnqueueCheck
  PROVE  IInv'
<1> USE EngineAssumption DEF IInv, EnqueueCheck
<1>1. TypeOK'
  BY DEF TypeOK, Places, workerVars, runVars
<1>2. RecvInv'
  BY DEF RecvInv, TypeOK, Places, workerVars, runVars
<1>3. RunInv'
  BY DEF RunInv, RecvInv, TypeOK, AfterRecv, AfterWait, AfterFlush, workerVars, runVars
<1>4. StrandInv'
  BY DEF StrandInv, WorkerInv, RunInv, RecvInv, TypeOK, Late, Flushing, Ended, AfterRecv,
     AfterWait, AfterFlush, workerVars, runVars
<1>5. WorkerInv' /\ SentInv' /\ ErrInv'
  BY DEF WorkerInv, HeldBy, SentInv, ErrInv, workerVars, runVars
<1> QED BY <1>1, <1>2, <1>3, <1>4, <1>5

\* The ctx.Done case of enqueue leaves its packet with recvLoop.
LEMMA EnqueueCanceledStep ==
  ASSUME IInv, EnqueueCanceled
  PROVE  IInv'
<1> USE EngineAssumption DEF IInv, EnqueueCanceled
<1>1. TypeOK'
  BY DEF TypeOK, Places, workerVars, runVars
<1>2. RecvInv'
  BY DEF RecvInv, TypeOK, Places, workerVars, runVars
<1>3. RunInv'
  BY DEF RunInv, RecvInv, TypeOK, AfterRecv, AfterWait, AfterFlush, workerVars, runVars
<1>4. StrandInv'
  BY DEF StrandInv, WorkerInv, RunInv, RecvInv, TypeOK, Late, Flushing, Ended, AfterRecv,
     AfterWait, AfterFlush, workerVars, runVars
<1>5. WorkerInv' /\ SentInv' /\ ErrInv'
  BY DEF WorkerInv, HeldBy, SentInv, ErrInv, workerVars, runVars
<1> QED BY <1>1, <1>2, <1>3, <1>4, <1>5

\* A running worker may hold packets; a flushing one may not.
LEMMA HandlePacketStep ==
  ASSUME IInv, NEW w \in Workers, NEW p \in Packets, HandlePacket(w, p)
  PROVE  IInv'
<1> USE EngineAssumption DEF IInv, HandlePacket
<1>1. TypeOK'
  BY DEF TypeOK, Places, Release, InQueue, HeldBy, recvVars, workerVars, runVars
<1>2. RecvInv'
  BY DEF RecvInv, TypeOK, Places, Release, InQueue, HeldBy, recvVars, workerVars, runVars
<1>3. WorkerInv'
  BY DEF WorkerInv, RunInv, TypeOK, HeldBy, Flushing, Ended, AfterRecv, AfterWait,
     AfterFlush, Release, InQueue, recvVars, workerVars, runVars
<1>4. StrandInv'
  BY DEF StrandInv, WorkerInv, RunInv, RecvInv, TypeOK, Late, Flushing, Ended, AfterRecv,
     AfterWait, AfterFlush, Release, InQueue, HeldBy, recvVars, workerVars, runVars
<1>5. SentInv'
  BY DEF SentInv, TypeOK, Release, InQueue, HeldBy, recvVars, workerVars, runVars
<1>6. RunInv' /\ ErrInv'
  BY DEF RunInv, ErrInv, recvVars, workerVars, runVars
<1> QED BY <1>1, <1>2, <1>3, <1>4, <1>5, <1>6

\* The failed call is on record, so SentInv and StrandInv claim nothing.
LEMMA HandleFailsStep ==
  ASSUME IInv, NEW w \in Workers, NEW p \in Packets, HandleFails(w, p)
  PROVE  IInv'
<1> USE EngineAssumption DEF IInv, HandleFails
<1>1. TypeOK'
  BY DEF TypeOK, Places, InQueue, HeldBy, recvVars, runVars
<1>2. RecvInv'
  BY DEF RecvInv, TypeOK, Places, InQueue, HeldBy, recvVars, runVars
<1>3. RunInv'
  BY DEF RunInv, RecvInv, TypeOK, AfterRecv, AfterWait, AfterFlush, InQueue, HeldBy,
     recvVars, runVars
<1>4. WorkerInv'
  BY DEF WorkerInv, RunInv, TypeOK, HeldBy, Flushing, Ended, AfterRecv, AfterWait,
     AfterFlush, InQueue, recvVars, runVars
<1>5. StrandInv'
  BY DEF StrandInv, WorkerInv, RunInv, RecvInv, TypeOK, Late, Flushing, Ended, AfterRecv,
     AfterWait, AfterFlush, InQueue, HeldBy, recvVars, runVars
<1>6. SentInv'
  BY DEF SentInv, TypeOK, InQueue, HeldBy, recvVars, runVars
<1>7. ErrInv'
  BY DEF ErrInv, RecvInv, RunInv, TypeOK, AfterWait, InQueue, HeldBy, recvVars, runVars
<1> QED BY <1>1, <1>2, <1>3, <1>4, <1>5, <1>6, <1>7

\* A packet reinjected by shutdownFailOpen was not given back before, and
\* leaves the worker's hands whether or not the adapter takes it.
LEMMA ReinjectStep ==
  ASSUME IInv, NEW w \in Workers, NEW p \in Packets, Reinject(w, p)
  PROVE  IInv'
<1> USE EngineAssumption DEF IInv, Reinject
<1>1. TypeOK'
  <2>1. CASE Release({p}) /\ flushed' = [flushed EXCEPT ![w] = @ + 1]
                               /\ UNCHANGED <<flushErr, trouble>>
    <3>1. loc' \in [Packets -> Places] /\ sent' \in [Packets -> Nat]
      BY <2>1, ReleaseType
    <3> QED BY <2>1, <3>1 DEF TypeOK, recvVars, runVars
  <2>2. CASE Lose(p) /\ flushErr' = [flushErr EXCEPT ![w] = @ \cup {"fail"}]
                    /\ UNCHANGED flushed
    BY <2>2 DEF TypeOK, Places, Lose, recvVars, runVars
  <2> QED BY <2>1, <2>2
<1>2. RecvInv'
  BY DEF RecvInv, TypeOK, Places, Release, Lose, InQueue, HeldBy, recvVars, runVars
<1>3. WorkerInv'
  BY DEF WorkerInv, RunInv, TypeOK, HeldBy, Flushing, Ended, AfterRecv, AfterWait,
     AfterFlush, Release, Lose, InQueue, recvVars, runVars
<1>4. StrandInv'
  BY DEF StrandInv, WorkerInv, RunInv, RecvInv, TypeOK, Late, Flushing, Ended, AfterRecv,
     AfterWait, AfterFlush, Release, Lose, InQueue, HeldBy, recvVars, runVars
<1>5. SentInv'
  BY DEF SentInv, TypeOK, Release, Lose, InQueue, HeldBy, recvVars, runVars
<1>6. RunInv' /\ ErrInv'
  BY DEF RunInv, ErrInv, recvVars, runVars
<1> QED BY <1>1, <1>2, <1>3, <1>4, <1>5, <1>6

\* gc gives back held packets of a running worker only.
LEMMA CollectGarbageStep ==
  ASSUME IInv, NEW w \in Workers, CollectGarbage(w)
  PROVE  IInv'
<1> USE EngineAssumption DEF IInv, CollectGarbage
<1>1. TypeOK'
  BY DEF TypeOK, Places, Release, HeldBy, recvVars, workerVars, runVars
<1>2. RecvInv'
  BY DEF RecvInv, TypeOK, Places, Release, HeldBy, recvVars, workerVars, runVars
<1>3. WorkerInv'
  BY DEF WorkerInv, RunInv, TypeOK, HeldBy, Flushing, Ended, AfterRecv, AfterWait,
     AfterFlush, Release, recvVars, workerVars, runVars
<1>4. StrandInv'
  BY DEF StrandInv, WorkerInv, RunInv, RecvInv, TypeOK, Late, Flushing, Ended, AfterRecv,
     AfterWait, AfterFlush, Release, HeldBy, recvVars, workerVars, runVars
<1>5. SentInv'
  BY DEF SentInv, TypeOK, Release, HeldBy, recvVars, workerVars, runVars
<1>6. RunInv' /\ ErrInv'
  BY DEF RunInv, ErrInv, recvVars, workerVars, runVars
<1> QED BY <1>1, <1>2, <1>3, <1>4, <1>5, <1>6

\* A failed gc is an I/O failure: it excuses what may be sent twice.
LEMMA GarbageFailsStep ==
  ASSUME IInv, NEW w \in Workers, GarbageFails(w)
  PROVE  IInv'
<1> USE EngineAssumption DEF IInv, GarbageFails
<1>1. TypeOK'
  BY DEF TypeOK, Places, HeldBy, recvVars, runVars
<1>2. RecvInv'
  BY DEF RecvInv, TypeOK, Places, HeldBy, recvVars, runVars
<1>3. RunInv'
  BY DEF RunInv, RecvInv, TypeOK, AfterRecv, AfterWait, AfterFlush, HeldBy, recvVars,
     runVars
<1>4. WorkerInv'
  BY DEF WorkerInv, RunInv, TypeOK, HeldBy, Flushing, Ended, AfterRecv, AfterWait,
     AfterFlush, recvVars, runVars
<1>5. StrandInv'
  BY DEF StrandInv, WorkerInv, RunInv, RecvInv, TypeOK, Late, Flushing, Ended, AfterRecv,
     AfterWait, AfterFlush, HeldBy, recvVars, runVars
<1>6. SentInv'
  BY DEF SentInv, TypeOK, HeldBy, recvVars, runVars
<1>7. ErrInv'
  BY DEF ErrInv, RecvInv, RunInv, TypeOK, AfterWait, HeldBy, recvVars, runVars
<1> QED BY <1>1, <1>2, <1>3, <1>4, <1>5, <1>6, <1>7

\* A worker stops on ctx.Done only in a canceled engine.
LEMMA ExitCanceledStep ==
  ASSUME IInv, NEW w \in Workers, ExitCanceled(w)
  PROVE  IInv'
<1> USE EngineAssumption DEF IInv, ExitCanceled
<1>1. TypeOK'
  BY DEF TypeOK, Places, recvVars, runVars
<1>2. RunInv'
  BY DEF RunInv, RecvInv, TypeOK, AfterRecv, AfterWait, AfterFlush, recvVars, runVars
<1>3. WorkerInv'
  BY DEF WorkerInv, RunInv, TypeOK, HeldBy, Flushing, Ended, AfterRecv, AfterWait,
     AfterFlush, recvVars, runVars
<1>4. StrandInv'
  BY DEF StrandInv, WorkerInv, RunInv, RecvInv, TypeOK, Late, Flushing, Ended, AfterRecv,
     AfterWait, AfterFlush, recvVars, runVars
<1>5. ErrInv'
  BY DEF ErrInv, RecvInv, RunInv, TypeOK, AfterWait, recvVars, runVars
<1>6. RecvInv' /\ SentInv'
  BY DEF RecvInv, SentInv, recvVars, runVars
<1> QED BY <1>1, <1>2, <1>3, <1>4, <1>5, <1>6

\* The queue is closed, so Run has canceled the context.
LEMMA ExitClosedStep ==
  ASSUME IInv, NEW w \in Workers, ExitClosed(w)
  PROVE  IInv'
<1> USE EngineAssumption DEF IInv, ExitClosed
<1>1. TypeOK'
  BY DEF TypeOK, Places, recvVars, runVars
<1>2. RunInv'
  BY DEF RunInv, RecvInv, TypeOK, AfterRecv, AfterWait, AfterFlush, recvVars, runVars
<1>3. WorkerInv'
  BY DEF WorkerInv, RunInv, TypeOK, HeldBy, Flushing, Ended, AfterRecv, AfterWait,
     AfterFlush, recvVars, runVars
<1>4. StrandInv'
  BY DEF StrandInv, WorkerInv, RunInv, RecvInv, TypeOK, Late, Flushing, Ended, AfterRecv,
     AfterWait, AfterFlush, recvVars, runVars
<1>5. ErrInv'
  BY DEF ErrInv, RecvInv, RunInv, TypeOK, AfterWait, recvVars, runVars
<1>6. RecvInv' /\ SentInv'
  BY DEF RecvInv, SentInv, recvVars, runVars
<1> QED BY <1>1, <1>2, <1>3, <1>4, <1>5, <1>6

\* The engine is canceled before the worker that failed flushes.
LEMMA CancelOnErrorStep ==
  ASSUME IInv, NEW w \in Workers, CancelOnError(w)
  PROVE  IInv'
<1> USE EngineAssumption DEF IInv, CancelOnError
<1>1. TypeOK'
  BY DEF TypeOK, Places, recvVars, runVars
<1>2. RunInv'
  BY DEF RunInv, RecvInv, TypeOK, AfterRecv, AfterWait, AfterFlush, recvVars, runVars
<1>3. WorkerInv'
  BY DEF WorkerInv, RunInv, TypeOK, HeldBy, Flushing, Ended, AfterRecv, AfterWait,
     AfterFlush, recvVars, runVars
<1>4. StrandInv'
  BY DEF StrandInv, WorkerInv, RunInv, RecvInv, TypeOK, Late, Flushing, Ended, AfterRecv,
     AfterWait, AfterFlush, recvVars, runVars
<1>5. ErrInv'
  BY DEF ErrInv, RecvInv, RunInv, TypeOK, AfterWait, recvVars, runVars
<1>6. RecvInv' /\ SentInv'
  BY DEF RecvInv, SentInv, recvVars, runVars
<1> QED BY <1>1, <1>2, <1>3, <1>4, <1>5, <1>6

\* A worker starts to drain its queue with no packet held.
LEMMA HeldDoneStep ==
  ASSUME IInv, NEW w \in Workers, HeldDone(w)
  PROVE  IInv'
<1> USE EngineAssumption DEF IInv, HeldDone
<1>1. TypeOK'
  BY DEF TypeOK, Places, recvVars, runVars
<1>2. RunInv'
  BY DEF RunInv, RecvInv, TypeOK, AfterRecv, AfterWait, AfterFlush, recvVars, runVars
<1>3. WorkerInv'
  BY DEF WorkerInv, RunInv, TypeOK, HeldBy, Flushing, Ended, AfterRecv, AfterWait,
     AfterFlush, recvVars, runVars
<1>4. StrandInv'
  BY DEF StrandInv, WorkerInv, RunInv, RecvInv, TypeOK, Late, Flushing, Ended, AfterRecv,
     AfterWait, AfterFlush, recvVars, runVars
<1>5. ErrInv'
  BY DEF ErrInv, RecvInv, RunInv, TypeOK, AfterWait, recvVars, runVars
<1>6. RecvInv' /\ SentInv'
  BY DEF RecvInv, SentInv, recvVars, runVars
<1> QED BY <1>1, <1>2, <1>3, <1>4, <1>5, <1>6

\* The queue is empty at this moment: nothing becomes stranded.
LEMMA DrainDoneStep ==
  ASSUME IInv, NEW w \in Workers, DrainDone(w)
  PROVE  IInv'
<1> USE EngineAssumption DEF IInv, DrainDone
<1>1. TypeOK'
  BY DEF TypeOK, Places, InQueue, recvVars, runVars
<1>2. RunInv'
  BY DEF RunInv, RecvInv, TypeOK, AfterRecv, AfterWait, AfterFlush, InQueue, recvVars,
     runVars
<1>3. WorkerInv'
  BY DEF WorkerInv, RunInv, TypeOK, HeldBy, Flushing, Ended, AfterRecv, AfterWait,
     AfterFlush, InQueue, recvVars, runVars
<1>4. StrandInv'
  BY DEF StrandInv, WorkerInv, RunInv, RecvInv, TypeOK, Late, Flushing, Ended, AfterRecv,
     AfterWait, AfterFlush, InQueue, recvVars, runVars
<1>5. ErrInv'
  BY DEF ErrInv, RecvInv, RunInv, TypeOK, AfterWait, InQueue, recvVars, runVars
<1>6. RecvInv' /\ SentInv'
  BY DEF RecvInv, SentInv, recvVars, runVars
<1> QED BY <1>1, <1>2, <1>3, <1>4, <1>5, <1>6

\* The guardrail is on record.
LEMMA GuardrailHitStep ==
  ASSUME IInv, NEW w \in Workers, GuardrailHit(w)
  PROVE  IInv'
<1> USE EngineAssumption DEF IInv, GuardrailHit
<1>1. TypeOK'
  BY DEF TypeOK, Places, recvVars, runVars
<1>2. RunInv'
  BY DEF RunInv, RecvInv, TypeOK, AfterRecv, AfterWait, AfterFlush, recvVars, runVars
<1>3. WorkerInv'
  BY DEF WorkerInv, RunInv, TypeOK, HeldBy, Flushing, Ended, AfterRecv, AfterWait,
     AfterFlush, recvVars, runVars
<1>4. StrandInv'
  BY DEF StrandInv, WorkerInv, RunInv, RecvInv, TypeOK, Late, Flushing, Ended, AfterRecv,
     AfterWait, AfterFlush, recvVars, runVars
<1>5. SentInv'
  BY DEF SentInv, TypeOK, recvVars, runVars
<1>6. ErrInv'
  BY DEF ErrInv, RecvInv, RunInv, TypeOK, AfterWait, recvVars, runVars
<1>7. RecvInv'
  BY DEF RecvInv, recvVars, runVars
<1> QED BY <1>1, <1>2, <1>3, <1>4, <1>5, <1>6, <1>7

\* The error is posted, or another one is in the channel.
LEMMA FinishStep ==
  ASSUME IInv, NEW w \in Workers, Finish(w)
  PROVE  IInv'
<1> USE EngineAssumption DEF IInv, Finish
<1>1. TypeOK'
  BY DEF TypeOK, Places, Unforgiven, FinalErr, recvVars, runVars
<1>2. RunInv'
  BY DEF RunInv, RecvInv, TypeOK, AfterRecv, AfterWait, AfterFlush, Unforgiven, FinalErr,
     recvVars, runVars
<1>3. WorkerInv'
  BY DEF WorkerInv, RunInv, TypeOK, HeldBy, Flushing, Ended, AfterRecv, AfterWait,
     AfterFlush, Unforgiven, FinalErr, recvVars, runVars
<1>4. StrandInv'
  BY DEF StrandInv, WorkerInv, RunInv, RecvInv, TypeOK, Late, Flushing, Ended, AfterRecv,
     AfterWait, AfterFlush, Unforgiven, FinalErr, recvVars, runVars
<1>5. ErrInv'
  BY DEF ErrInv, RecvInv, RunInv, TypeOK, AfterWait, Unforgiven, FinalErr, recvVars, runVars
<1>6. RecvInv' /\ SentInv'
  BY DEF RecvInv, SentInv, recvVars, runVars
<1> QED BY <1>1, <1>2, <1>3, <1>4, <1>5, <1>6

\* The error moves from the channel to Run.
LEMMA RunWorkerErrStep ==
  ASSUME IInv, RunWorkerErr
  PROVE  IInv'
<1> USE EngineAssumption DEF IInv, RunWorkerErr
<1>1. TypeOK'
  BY DEF TypeOK, Places, recvVars
<1>2. RunInv'
  BY DEF RunInv, RecvInv, TypeOK, AfterRecv, AfterWait, AfterFlush, recvVars
<1>3. WorkerInv'
  BY DEF WorkerInv, RunInv, TypeOK, HeldBy, Flushing, Ended, AfterRecv, AfterWait,
     AfterFlush, recvVars
<1>4. ErrInv'
  BY DEF ErrInv, RecvInv, RunInv, TypeOK, AfterWait, recvVars
<1>5. RecvInv' /\ StrandInv' /\ SentInv'
  BY DEF RecvInv, StrandInv, Late, SentInv, recvVars
<1> QED BY <1>1, <1>2, <1>3, <1>4, <1>5

\* Run leaves its select with the error of a recvLoop that has ended.
LEMMA RunRecvErrStep ==
  ASSUME IInv, RunRecvErr
  PROVE  IInv'
<1> USE EngineAssumption DEF IInv, RunRecvErr
<1>1. TypeOK'
  BY DEF TypeOK, Places, recvVars, workerVars
<1>2. RunInv'
  BY DEF RunInv, RecvInv, TypeOK, AfterRecv, AfterWait, AfterFlush, recvVars, workerVars
<1>3. WorkerInv'
  BY DEF WorkerInv, RunInv, TypeOK, HeldBy, Flushing, Ended, AfterRecv, AfterWait,
     AfterFlush, recvVars, workerVars
<1>4. ErrInv'
  BY DEF ErrInv, RecvInv, RunInv, TypeOK, AfterWait, recvVars, workerVars
<1>5. RecvInv' /\ StrandInv' /\ SentInv'
  BY DEF RecvInv, StrandInv, Late, SentInv, recvVars, workerVars
<1> QED BY <1>1, <1>2, <1>3, <1>4, <1>5

\* After a worker error Run waits for the end of recvLoop.
LEMMA RunDrainRecvStep ==
  ASSUME IInv, RunDrainRecv
  PROVE  IInv'
<1> USE EngineAssumption DEF IInv, RunDrainRecv
<1>1. TypeOK'
  BY DEF TypeOK, Places, recvVars, workerVars
<1>2. RunInv'
  BY DEF RunInv, RecvInv, TypeOK, AfterRecv, AfterWait, AfterFlush, recvVars, workerVars
<1>3. ErrInv'
  BY DEF ErrInv, RecvInv, RunInv, TypeOK, AfterWait, recvVars, workerVars
<1>4. RecvInv' /\ WorkerInv' /\ StrandInv' /\ SentInv'
  BY DEF RecvInv, WorkerInv, HeldBy, StrandInv, Late, SentInv, recvVars, workerVars
<1> QED BY <1>1, <1>2, <1>3, <1>4

\* recvLoop has ended.
LEMMA RunCloseStep ==
  ASSUME IInv, NEW w \in Workers, RunClose(w)
  PROVE  IInv'
<1> USE EngineAssumption DEF IInv, RunClose
<1>1. TypeOK'
  BY DEF TypeOK, Places, recvVars, workerVars
<1>2. RunInv'
  BY DEF RunInv, RecvInv, TypeOK, AfterRecv, AfterWait, AfterFlush, recvVars, workerVars
<1>3. ErrInv'
  BY DEF ErrInv, RecvInv, RunInv, TypeOK, AfterWait, recvVars, workerVars
<1>4. RecvInv' /\ WorkerInv' /\ StrandInv' /\ SentInv'
  BY DEF RecvInv, WorkerInv, HeldBy, StrandInv, Late, SentInv, recvVars, workerVars
<1> QED BY <1>1, <1>2, <1>3, <1>4

\* wg.Wait returns when every worker goroutine has ended.
LEMMA RunWaitStep ==
  ASSUME IInv, RunWait
  PROVE  IInv'
<1> USE EngineAssumption DEF IInv, RunWait
<1>1. TypeOK'
  BY DEF TypeOK, Places, recvVars, workerVars
<1>2. RunInv'
  BY DEF RunInv, RecvInv, TypeOK, AfterRecv, AfterWait, AfterFlush, recvVars, workerVars
<1>3. ErrInv'
  BY DEF ErrInv, RecvInv, RunInv, TypeOK, AfterWait, recvVars, workerVars
<1>4. RecvInv' /\ WorkerInv' /\ StrandInv' /\ SentInv'
  BY DEF RecvInv, WorkerInv, HeldBy, StrandInv, Late, SentInv, recvVars, workerVars
<1> QED BY <1>1, <1>2, <1>3, <1>4

\* The adapter buffer is empty afterwards unless Flush failed.
LEMMA RunFlushStep ==
  ASSUME IInv, RunFlush
  PROVE  IInv'
<1> USE EngineAssumption DEF IInv, RunFlush
<1>1. TypeOK'
  <2>1. PICK S \in SUBSET Packets : Release(S)
    BY DEF Buffered
  <2>2. loc' \in [Packets -> Places] /\ sent' \in [Packets -> Nat]
    BY <2>1, ReleaseType
  <2>3. trouble' \subseteq {"io", "guard", "adapter"} /\ runErr' \in {"none", "nil", "canceled", "fail", "guard"}
    BY DEF TypeOK
  <2> QED BY <2>2, <2>3 DEF TypeOK, recvVars, workerVars
<1>2. RecvInv'
  BY DEF RecvInv, TypeOK, Places, Release, Buffered, recvVars, workerVars
<1>3. RunInv'
  BY DEF RunInv, RecvInv, TypeOK, AfterRecv, AfterWait, AfterFlush, Release, Buffered,
     recvVars, workerVars
<1>4. WorkerInv'
  BY DEF WorkerInv, RunInv, TypeOK, HeldBy, Flushing, Ended, AfterRecv, AfterWait,
     AfterFlush, Release, Buffered, recvVars, workerVars
<1>5. StrandInv'
  BY DEF StrandInv, WorkerInv, RunInv, RecvInv, TypeOK, Late, Flushing, Ended, AfterRecv,
     AfterWait, AfterFlush, Release, Buffered, recvVars, workerVars
<1>6. SentInv'
  BY DEF SentInv, TypeOK, Release, Buffered, recvVars, workerVars
<1>7. ErrInv'
  BY DEF ErrInv, RecvInv, RunInv, TypeOK, AfterWait, Release, Buffered, recvVars, workerVars
<1> QED BY <1>1, <1>2, <1>3, <1>4, <1>5, <1>6, <1>7

\* The adapter is closed after its flush.
LEMMA RunCloseAdapterStep ==
  ASSUME IInv, RunCloseAdapter
  PROVE  IInv'
<1> USE EngineAssumption DEF IInv, RunCloseAdapter
<1>1. TypeOK'
  BY DEF TypeOK, Places, recvVars, workerVars
<1>2. RunInv'
  BY DEF RunInv, RecvInv, TypeOK, AfterRecv, AfterWait, AfterFlush, recvVars, workerVars
<1>3. StrandInv'
  BY DEF StrandInv, WorkerInv, RunInv, RecvInv, TypeOK, Late, Flushing, Ended, AfterRecv,
     AfterWait, AfterFlush, recvVars, workerVars
<1>4. ErrInv'
  BY DEF ErrInv, RecvInv, RunInv, TypeOK, AfterWait, recvVars, workerVars
<1>5. RecvInv' /\ WorkerInv' /\ SentInv'
  BY DEF RecvInv, WorkerInv, HeldBy, SentInv, recvVars, workerVars
<1> QED BY <1>1, <1>2, <1>3, <1>4, <1>5

\* A worker error in the channel wins over a cancellation.
LEMMA RunReturnStep ==
  ASSUME IInv, RunReturn
  PROVE  IInv'
<1> USE EngineAssumption DEF IInv, RunReturn
<1>1. TypeOK'
  BY DEF TypeOK, Places, recvVars
<1>2. RunInv'
  BY DEF RunInv, RecvInv, TypeOK, AfterRecv, AfterWait, AfterFlush, recvVars
<1>3. ErrInv'
  BY DEF ErrInv, RecvInv, RunInv, TypeOK, AfterWait, recvVars
<1>4. RecvInv' /\ WorkerInv' /\ StrandInv' /\ SentInv'
  BY DEF RecvInv, WorkerInv, HeldBy, StrandInv, Late, SentInv, recvVars
<1> QED BY <1>1, <1>2, <1>3, <1>4
\* Every step of the engine preserves the inductive invariant.
LEMMA StepIInv == IInv /\ [Next]_vars => IInv'
<1> SUFFICES ASSUME IInv, [Next]_vars PROVE IInv'
  OBVIOUS
<1>1. CASE Environment
  BY <1>1, ArriveStep, CancelStep DEF Environment
<1>2. CASE RecvLoop
  BY <1>2, RecvPacketStep, DirectSendStep, EnqueuePutStep, RecvCanceledStep,
     RecvFailsStep, TouchFlowStep, EnqueueCheckStep, EnqueueCanceledStep DEF RecvLoop
<1>3. ASSUME NEW w \in Workers, WorkerGo(w) PROVE IInv'
  BY <1>3, HandlePacketStep, HandleFailsStep, ReinjectStep, CollectGarbageStep,
     GarbageFailsStep, ExitCanceledStep, ExitClosedStep, CancelOnErrorStep,
     HeldDoneStep, DrainDoneStep, GuardrailHitStep, FinishStep DEF WorkerGo
<1>4. CASE RunGo
  BY <1>4, RunWorkerErrStep, RunRecvErrStep, RunDrainRecvStep, RunCloseStep,
     RunWaitStep, RunFlushStep, RunCloseAdapterStep, RunReturnStep DEF RunGo
<1>5. CASE UNCHANGED vars
  <2> USE <1>5 DEF vars, IInv
  <2>1. TypeOK'
    BY DEF TypeOK
  <2>2. RecvInv' /\ RunInv' /\ WorkerInv'
    BY DEF RecvInv, RunInv, WorkerInv, HeldBy
  <2>3. StrandInv' /\ SentInv' /\ ErrInv'
    BY DEF StrandInv, SentInv, ErrInv, Late
  <2> QED BY <2>1, <2>2, <2>3
<1> QED BY <1>1, <1>2, <1>3, <1>4, <1>5 DEF Next

\* The inductive invariant holds of every reachable state of the engine.
THEOREM Invariance == Spec => []IInv
BY InitIInv, StepIInv, PTL DEF Spec

-----------------------------------------------------------------------------
\* The variables of the engine keep their types.
THEOREM TypeCorrect == Spec => []TypeOK
<1>1. IInv => TypeOK BY DEF IInv
<1> QED BY <1>1, Invariance, PTL

\* recvLoop never sends on a closed worker channel, for any number of workers:
\* Run closes them only after recvLoop has ended.
THEOREM QueueCloseSafe == Spec => []NoSendOnClosedQueue
<1>1. IInv => NoSendOnClosedQueue
  BY DEF IInv, RunInv, NoSendOnClosedQueue
<1> QED BY <1>1, Invariance, PTL

\* The adapter is flushed and closed only when nobody can send any more.
THEOREM AdapterLast == Spec => []AdapterOutlivesSenders
<1>1. IInv => AdapterOutlivesSenders
  BY DEF IInv, RunInv, AdapterOutlivesSenders, AfterFlush, AfterWait, AfterRecv
<1> QED BY <1>1, Invariance, PTL

\* What is left in the program when the adapter has been flushed: at most one
\* packet, in a queue, if nothing went wrong.
LEMMA LeftOver ==
  ASSUME IInv, runPc \in AfterFlush, trouble = {}
  PROVE  /\ \A p \in Packets : loc[p] \in {"wire", "out", "queue"}
         /\ \A p, q \in Packets : loc[p] = "queue" /\ loc[q] = "queue" => p = q
<1>1. /\ recvPc = "done" /\ adapter # "open"
      /\ \A w \in Workers : wPc[w] = "done"
  BY DEF IInv, RunInv, AfterFlush, AfterWait, AfterRecv
<1>2. \A p \in Packets : loc[p] # "recv" /\ loc[p] # "adapter"
  BY <1>1 DEF IInv, RecvInv, StrandInv
<1>3. \A p \in Packets : loc[p] # "held"
  BY <1>1, EngineAssumption DEF IInv, WorkerInv, HeldBy, Ended
<1>4. \A p \in Packets : loc[p] \in Places
  BY DEF IInv, TypeOK
<1>5. \A p \in Packets : loc[p] = "queue" => Late(p)
  BY <1>1, EngineAssumption DEF Late, Ended
<1>6. \A p, q \in Packets : loc[p] = "queue" /\ loc[q] = "queue" => p = q
  BY <1>5 DEF IInv, StrandInv
<1> QED BY <1>2, <1>3, <1>4, <1>6 DEF Places

\* Shutdown fails open: without I/O failures and guardrails every captured
\* packet but at most one has been given back when Run returns, whatever the
\* number of packets, the sharding and the queue size.
THEOREM FailsOpen == Spec => []AtMostOneStranded
<1>1. IInv => AtMostOneStranded
  BY LeftOver DEF AtMostOneStranded, AfterFlush
<1> QED BY <1>1, Invariance, PTL

\* No packet is given back twice unless an adapter call failed before.
THEOREM OnceUnlessFailure == Spec => []TwiceOnlyAfterFailure
<1>1. IInv => TwiceOnlyAfterFailure
  BY DEF IInv, SentInv, TypeOK, TwiceOnlyAfterFailure
<1> QED BY <1>1, Invariance, PTL

\* Run never returns nil after a worker has failed.
THEOREM FailureReported == Spec => []WorkerFailureReported
<1>1. IInv => WorkerFailureReported
  BY DEF IInv, ErrInv, RunInv, WorkerFailureReported, AfterWait
<1> QED BY <1>1, Invariance, PTL

-----------------------------------------------------------------------------
(***************************************************************************)
(* The engine implements FailOpen.tla.                                     *)
(***************************************************************************)

\* What every step but an arrival and the return of Run does to the places:
\* nothing enters from the wire, nothing comes back once it is out.
Forward ==
  /\ \A p \in Packets : /\ loc'[p] = "wire" <=> loc[p] = "wire"
                        /\ loc[p] = "out" => loc'[p] = "out"
  /\ trouble \subseteq trouble'
  /\ runPc # "returned" /\ runPc' # "returned"

\* Such a step settles a set of packets in the ledger.
LEMMA ForwardSettles ==
  ASSUME Forward
  PROVE  Ledger!LedgerNext
<1>1. PICK S \in SUBSET Packets :
        S = {p \in Packets : loc[p] # "out" /\ loc'[p] = "out"}
  OBVIOUS
<1>2. Ledger!Settle(S)
  BY <1>1 DEF Forward, Ledger!Settle, Ledger!Inside
<1>3. \E T \in SUBSET Packets : Ledger!Settle(T)
  BY <1>2
<1> QED BY <1>3 DEF Ledger!LedgerNext

\* A step of recvLoop: Run has not returned, and packets only move on.
LEMMA RecvForward ==
  ASSUME IInv, RecvLoop
  PROVE  Forward
<1>1. runPc # "returned" /\ runPc' = runPc
  BY DEF RecvLoop, IInv, RunInv, AfterRecv, RecvPacket, DirectSend, EnqueuePut,
     RecvCanceled, RecvFails, TouchFlow, EnqueueCheck, EnqueueCanceled, runVars
<1>2. trouble \subseteq trouble'
  BY DEF RecvLoop, RecvPacket, DirectSend, EnqueuePut, Lose,
     RecvCanceled, RecvFails, TouchFlow, EnqueueCheck, EnqueueCanceled
<1>3. \A p \in Packets : /\ loc'[p] = "wire" <=> loc[p] = "wire"
                         /\ loc[p] = "out" => loc'[p] = "out"
  BY DEF RecvLoop, IInv, TypeOK, RecvPacket, DirectSend, EnqueuePut, Release, Lose,
     RecvCanceled, RecvFails, TouchFlow, EnqueueCheck, EnqueueCanceled
<1> QED BY <1>1, <1>2, <1>3 DEF Forward

\* A step of a worker: likewise.
LEMMA WorkerForward ==
  ASSUME IInv, NEW w \in Workers, WorkerGo(w)
  PROVE  Forward
<1> USE DEF WorkerGo, HandlePacket, HandleFails, Reinject, CollectGarbage, GarbageFails,
        ExitCanceled, ExitClosed, CancelOnError, HeldDone, DrainDone, GuardrailHit, Finish
<1>1. wPc[w] # "done" /\ runPc' = runPc
  BY DEF runVars
<1>2. runPc # "returned"
  BY <1>1 DEF IInv, RunInv, AfterWait
<1>3. trouble \subseteq trouble'
  BY DEF Lose
<1>4. \A p \in Packets : /\ loc'[p] = "wire" <=> loc[p] = "wire"
                         /\ loc[p] = "out" => loc'[p] = "out"
  BY DEF IInv, TypeOK, Release, Lose, InQueue, HeldBy
<1> QED BY <1>1, <1>2, <1>3, <1>4 DEF Forward

\* A step of Run before its return: only RunFlush moves packets.
LEMMA RunForward ==
  ASSUME IInv, RunGo, ~RunReturn
  PROVE  Forward
<1>1. runPc # "returned" /\ runPc' # "returned"
  BY DEF RunGo, RunWorkerErr, RunRecvErr, RunDrainRecv, RunClose, RunWait, RunFlush,
     RunCloseAdapter
<1>2. trouble \subseteq trouble'
  BY DEF RunGo, RunWorkerErr, RunRecvErr, RunDrainRecv, RunClose, RunWait, RunFlush,
     RunCloseAdapter
<1>3. \A p \in Packets : /\ loc'[p] = "wire" <=> loc[p] = "wire"
                         /\ loc[p] = "out" => loc'[p] = "out"
  BY DEF RunGo, RunWorkerErr, RunRecvErr, RunDrainRecv, RunClose, RunWait, RunFlush,
     RunCloseAdapter, Release, Buffered
<1> QED BY <1>1, <1>2, <1>3 DEF Forward

\* A packet delivered by the kernel is a Capture of the ledger.
LEMMA ArriveCaptures ==
  ASSUME IInv, NEW p \in Packets, Arrive(p)
  PROVE  Ledger!Capture(p)
<1>1. runPc # "returned" /\ UNCHANGED <<runPc, trouble>>
  BY DEF Arrive, runVars, IInv, RunInv, AfterFlush
<1>2. loc[p] = "wire" /\ loc' = [loc EXCEPT ![p] = "adapter"]
  BY DEF Arrive
<1> QED BY <1>1, <1>2 DEF Ledger!Capture, IInv, TypeOK

\* The return of Run is a Stop of the ledger: at most one packet is inside.
LEMMA ReturnStops ==
  ASSUME IInv, RunReturn
  PROVE  Ledger!Stop
<1>1. trouble # {} \/ \A p, q \in Ledger!Inside : p = q
  BY LeftOver DEF RunReturn, AfterFlush, Ledger!Inside
<1>2. runPc = "return" /\ runPc' = "returned" /\ UNCHANGED <<loc, trouble>>
  BY DEF RunReturn
<1> QED BY <1>1, <1>2 DEF Ledger!Stop

\* Every step of the engine is a step of the ledger or leaves it unchanged.
LEMMA StepLedger == IInv /\ [Next]_vars => [Ledger!LedgerNext]_(Ledger!ledger)
<1> SUFFICES ASSUME IInv, [Next]_vars PROVE [Ledger!LedgerNext]_(Ledger!ledger)
  OBVIOUS
<1>1. CASE Cancel \/ UNCHANGED vars
  BY <1>1 DEF Cancel, vars, runVars, Ledger!ledger
<1>2. ASSUME NEW p \in Packets, Arrive(p) PROVE Ledger!LedgerNext
  BY <1>2, ArriveCaptures DEF Ledger!LedgerNext
<1>3. CASE RecvLoop
  BY <1>3, RecvForward, ForwardSettles
<1>4. ASSUME NEW w \in Workers, WorkerGo(w) PROVE Ledger!LedgerNext
  BY <1>4, WorkerForward, ForwardSettles
<1>5. CASE RunReturn
  BY <1>5, ReturnStops DEF Ledger!LedgerNext
<1>6. CASE RunGo /\ ~RunReturn
  BY <1>6, RunForward, ForwardSettles
<1> QED BY <1>1, <1>2, <1>3, <1>4, <1>5, <1>6 DEF Next, Environment

\* Every behaviour of the engine is a behaviour of the ledger: a captured packet
\* is settled once and for all, and Run stops with at most one unsettled packet
\* unless an adapter call failed or a guardrail was hit.
THEOREM EngineKeepsLedger == Spec => KeepsLedger
<1>1. Init => Ledger!LedgerInit
  BY DEF Init, Ledger!LedgerInit
<1> QED BY <1>1, StepLedger, Invariance, PTL DEF Spec, KeepsLedger, Ledger!LedgerSpec

-----------------------------------------------------------------------------
\* The reassembly buffer.  First numbers: the least of a set, quotient and remainder.

\* A set of natural numbers has a least element.
LEMMA LeastNat ==
  ASSUME NEW T \in SUBSET Nat, T # {}
  PROVE  \E n \in T : \A l \in T : n <= l
<1> DEFINE R == OpToRel(<, Nat)
<1>1. IsWellFoundedOn(R, Nat)
  BY NatLessThanWellFounded
<1>2. \A a, b \in Nat : a < b => <<a, b>> \in R
  BY DEF OpToRel
<1> HIDE DEF R
<1>3. PICK n \in T : \A l \in T : ~ (<<l, n>> \in R)
  BY <1>1, WFMin
<1>4. ASSUME NEW l \in T PROVE n <= l
  <2>1. n \in Nat /\ l \in Nat /\ ~ (l < n)
    BY <1>2, <1>3
  <2> QED BY <2>1
<1> QED BY <1>3, <1>4

\* The contiguous prefix of a bounded buffer: all before it is stored, its end is not.
LEMMA PrefixLenType ==
  ASSUME NEW S \in SUBSET Nat, NEW max \in Nat, \A o \in S : o < max
  PROVE  /\ PrefixLen(S, max) \in 0 .. max /\ PrefixLen(S, max) \notin S
         /\ \A l \in 0 .. PrefixLen(S, max) - 1 : l \in S
<1> DEFINE T == Nat \ S
<1>1. T \in SUBSET Nat /\ max \in T
  OBVIOUS
<1>2. PICK n \in T : \A l \in T : n <= l
  BY <1>1, LeastNat
<1>3. n \in 0 .. max /\ n \notin S /\ \A l \in 0 .. n - 1 : l \in S
  BY <1>1, <1>2
<1> QED BY <1>3 DEF PrefixLen

\* Between two multiples of m there is room for m.
LEMMA Multiples ==
  ASSUME NEW a \in Int, NEW b \in Int, NEW m \in Nat, m >= 1, a < b
  PROVE  a * m + m <= b * m
<1> DEFINE d == b - a - 1
<1>1. d \in Nat /\ b = (a + 1) + d
  OBVIOUS
<1> HIDE DEF d
<1>2. d * m \in Nat /\ ((a + 1) + d) * m = a * m + m + d * m
  BY <1>1
<1> QED BY <1>1, <1>2

\* The quotient is the only number that fits.
LEMMA QuotientIs ==
  ASSUME NEW n \in Int, NEW m \in Nat, m >= 1, NEW k \in Int,
         k * m <= n, n < k * m + m
  PROVE  n \div m = k
<1> DEFINE q == n \div m
<1>1. q \in Int /\ q * m <= n /\ n < q * m + m
  OBVIOUS
<1> HIDE DEF q
<1>2. q * m \in Int /\ k * m \in Int
  BY <1>1
<1>3. ~(q < k) /\ ~(k < q)
  BY <1>1, <1>2, Multiples
<1>4. q = k
  BY <1>1, <1>3
<1> QED BY <1>4 DEF q

\* The remainder is the only one that fits.
LEMMA RemainderIs ==
  ASSUME NEW n \in Int, NEW m \in Nat, m >= 1, NEW q \in Int, NEW r \in 0 .. m - 1,
         n = q * m + r
  PROVE  n % m = r
<1>1. q * m \in Int /\ q * m <= n /\ n < q * m + m
  OBVIOUS
<1>2. n \div m = q
  BY <1>1, QuotientIs
<1>3. n = m * (n \div m) + (n % m)
  OBVIOUS
<1> QED BY <1>2, <1>3

\* A number and its remainder.
LEMMA Remainder ==
  ASSUME NEW n \in Int, NEW m \in Nat, m >= 1
  PROVE  /\ n % m \in 0 .. m - 1
         /\ \E q \in Int : n = q * m + (n % m)
<1> DEFINE q == n \div m
           r == n % m
<1>1. q \in Int /\ r \in 0 .. m - 1 /\ n = m * q + r
  OBVIOUS
<1> HIDE DEF q, r
<1>2. m * q = q * m
  BY <1>1
<1>3. n = q * m + r
  BY <1>1, <1>2
<1> QED BY <1>1, <1>3 DEF r

\* What is less than the space is left alone.
LEMMA ModSmall ==
  ASSUME NEW m \in Nat, m >= 1, NEW a \in 0 .. m - 1
  PROVE  a % m = a
<1>1. a = 0 * m + a
  OBVIOUS
<1> QED BY <1>1, RemainderIs

\* A segment and a buffer; totalBytes is a uint32 in the code, and shown not to wrap.
Seg == [offset : Nat, data : Seq(Nat)]
Buf == [contig : Seq(Nat), contigLen : Nat, totalBytes : Int, segments : Seq(Seg),
        hadOutOfOrder : BOOLEAN, hadOverlap : BOOLEAN]

\* A sorted list of segments with gaps between them, beyond low and within the buffer.
Apart(segs, low) ==
  /\ segs \in Seq(Seg)
  /\ \A j \in DOMAIN segs : segs[j].offset > low /\ segs[j].data # <<>>
  /\ \A j \in DOMAIN segs : SegEnd(segs[j]) <= MaxBytes
  /\ \A j, l \in DOMAIN segs : j < l => SegEnd(segs[j]) < segs[l].offset

\* A buffer whose segments begin beyond low, with its bytes counted.
Counted(buf, low) ==
  /\ buf \in Buf /\ buf.contigLen = Len(buf.contig) /\ buf.contigLen <= MaxBytes
  /\ Apart(buf.segments, low)
  /\ buf.totalBytes = buf.contigLen + Cardinality(Covered(buf.segments))

\* The numbers of a segment.
LEMMA SegType ==
  ASSUME NEW segs, NEW low, Apart(segs, low)
  PROVE  /\ Len(segs) \in Nat /\ DOMAIN segs = 1 .. Len(segs)
         /\ \A j \in 1 .. Len(segs) :
              /\ segs[j] \in Seg /\ segs[j].offset \in Nat /\ SegEnd(segs[j]) \in Nat
              /\ segs[j].data \in Seq(Nat) /\ segs[j].offset < SegEnd(segs[j])
              /\ SegEnd(segs[j]) = segs[j].offset + Len(segs[j].data)
              /\ SegEnd(segs[j]) <= MaxBytes
<1>1. segs \in Seq(Seg)
  BY DEF Apart
<1>2. Len(segs) \in Nat /\ DOMAIN segs = 1 .. Len(segs)
  BY <1>1
<1>3. ASSUME NEW j \in 1 .. Len(segs)
      PROVE  /\ segs[j] \in Seg /\ segs[j].offset \in Nat /\ SegEnd(segs[j]) \in Nat
             /\ segs[j].data \in Seq(Nat) /\ segs[j].offset < SegEnd(segs[j])
             /\ SegEnd(segs[j]) = segs[j].offset + Len(segs[j].data)
             /\ SegEnd(segs[j]) <= MaxBytes
  <2> DEFINE s == segs[j]
  <2>1. s \in Seg
    BY <1>1, <1>3
  <2>2. s.data # <<>> /\ SegEnd(s) <= MaxBytes
    BY <1>2, <1>3 DEF Apart
  <2> HIDE DEF s
  <2>3. s.offset \in Nat /\ s.data \in Seq(Nat) /\ Len(s.data) \in Nat
    BY <2>1 DEF Seg
  <2>4. Len(s.data) # 0
    BY <2>2, <2>3, EmptySeq
  <2>5. SegEnd(s) = s.offset + Len(s.data)
    BY DEF SegEnd
  <2>6. s.offset < SegEnd(s) /\ SegEnd(s) \in Nat
    BY <2>3, <2>4, <2>5
  <2> QED BY <2>1, <2>2, <2>3, <2>5, <2>6 DEF s
<1> QED BY <1>2, <1>3

\* The bytes of the segments lie within the buffer.
LEMMA CoveredType ==
  ASSUME NEW segs, NEW low, Apart(segs, low)
  PROVE  /\ Covered(segs) \subseteq Nat /\ \A o \in Covered(segs) : o < MaxBytes
         /\ IsFiniteSet(Covered(segs)) /\ Cardinality(Covered(segs)) \in Nat
<1>1. ASSUME NEW o \in Covered(segs) PROVE o \in 0 .. MaxBytes - 1
  <2>1. PICK j \in DOMAIN segs : o \in segs[j].offset .. SegEnd(segs[j]) - 1
    BY DEF Covered
  <2>2. /\ segs[j].offset \in Nat /\ SegEnd(segs[j]) \in Nat
        /\ SegEnd(segs[j]) <= MaxBytes
    BY <2>1, SegType
  <2>3. MaxBytes \in Nat
    BY SeqSpaceAssumption, BufferAssumption
  <2> QED BY <2>1, <2>2, <2>3
<1>2. MaxBytes \in Nat
  BY SeqSpaceAssumption, BufferAssumption
<1>3. IsFiniteSet(0 .. MaxBytes - 1)
  BY <1>2, FS_Interval
<1>4. Covered(segs) \subseteq 0 .. MaxBytes - 1
  BY <1>1
<1>5. IsFiniteSet(Covered(segs))
  BY <1>3, <1>4, FS_Subset
<1> QED BY <1>2, <1>4, <1>5, FS_CardinalityType

\* Each byte of a list with gaps is counted once by the sum of the lengths.
LEMMA LenSumIs ==
  ASSUME NEW segs, NEW low, Apart(segs, low)
  PROVE  LenSum(segs) = Cardinality(Covered(segs))
<1> DEFINE n == Len(segs)
           C == Covered(segs)
           T == UNION {{j} \X DOMAIN segs[j].data : j \in DOMAIN segs}
           f == [p \in T |-> segs[p[1]].offset + p[2] - 1]
<1>1. n \in Nat /\ DOMAIN segs = 1 .. n
  BY SegType
<1>2. ASSUME NEW j \in 1 .. n
      PROVE  /\ segs[j].offset \in Nat /\ SegEnd(segs[j]) \in Nat
             /\ SegEnd(segs[j]) = segs[j].offset + Len(segs[j].data)
             /\ Len(segs[j].data) \in Nat
             /\ DOMAIN segs[j].data = 1 .. Len(segs[j].data)
  BY <1>1, <1>2, SegType
<1>3. ASSUME NEW p \in T
      PROVE  \E j \in 1 .. n : \E e \in 1 .. Len(segs[j].data) : p = <<j, e>>
  <2>1. PICK j \in 1 .. n : p \in {j} \X DOMAIN segs[j].data
    BY <1>1
  <2>2. p \in {j} \X (1 .. Len(segs[j].data))
    BY <1>2, <2>1
  <2> QED BY <2>2
<1>4. ASSUME NEW j \in 1 .. n, NEW e \in 1 .. Len(segs[j].data)
      PROVE  /\ <<j, e>> \in T /\ f[<<j, e>>] = segs[j].offset + e - 1
             /\ f[<<j, e>>] \in segs[j].offset .. SegEnd(segs[j]) - 1
  <2>1. <<j, e>> \in T
    BY <1>1, <1>2
  <2>2. f[<<j, e>>] = segs[j].offset + e - 1
    BY <2>1
  <2>3. segs[j].offset + e - 1 \in segs[j].offset .. SegEnd(segs[j]) - 1
    BY <1>2
  <2> QED BY <2>1, <2>2, <2>3
<1>5. ASSUME NEW j \in 1 .. n, NEW l \in 1 .. n, NEW o,
             o \in segs[j].offset .. SegEnd(segs[j]) - 1,
             o \in segs[l].offset .. SegEnd(segs[l]) - 1
      PROVE  j = l
  <2>1. /\ j < l => SegEnd(segs[j]) < segs[l].offset
        /\ l < j => SegEnd(segs[l]) < segs[j].offset
    BY <1>1 DEF Apart
  <2>2. /\ o \in Int /\ segs[j].offset <= o /\ o < SegEnd(segs[j])
        /\ segs[l].offset <= o /\ o < SegEnd(segs[l])
    BY <1>2, <1>5
  <2>3. /\ segs[j].offset \in Nat /\ SegEnd(segs[j]) \in Nat
        /\ segs[l].offset \in Nat /\ SegEnd(segs[l]) \in Nat
    BY <1>2
  <2>4. ~ (j < l) /\ ~ (l < j)
    BY <2>1, <2>2, <2>3
  <2> QED BY <2>4
<1>6. f \in Injection(T, C)
  <2>1. ASSUME NEW p \in T PROVE f[p] \in C
    <3>1. PICK j \in 1 .. n : \E e \in 1 .. Len(segs[j].data) : p = <<j, e>>
      BY <1>3
    <3>2. PICK e \in 1 .. Len(segs[j].data) : p = <<j, e>>
      BY <3>1
    <3>3. f[p] \in segs[j].offset .. SegEnd(segs[j]) - 1
      BY <1>4, <3>2
    <3> HIDE DEF f
    <3> QED BY <1>1, <3>3 DEF Covered
  <2>2. ASSUME NEW p \in T, NEW q \in T, f[p] = f[q] PROVE p = q
    <3>1. PICK j \in 1 .. n : \E e \in 1 .. Len(segs[j].data) : p = <<j, e>>
      BY <1>3
    <3>2. PICK e \in 1 .. Len(segs[j].data) : p = <<j, e>>
      BY <3>1
    <3>3. PICK l \in 1 .. n : \E d \in 1 .. Len(segs[l].data) : q = <<l, d>>
      BY <1>3
    <3>4. PICK d \in 1 .. Len(segs[l].data) : q = <<l, d>>
      BY <3>3
    <3>5. /\ f[p] = segs[j].offset + e - 1 /\ f[q] = segs[l].offset + d - 1
          /\ f[p] \in segs[j].offset .. SegEnd(segs[j]) - 1
          /\ f[q] \in segs[l].offset .. SegEnd(segs[l]) - 1
      BY <1>4, <3>2, <3>4
    <3> HIDE DEF f
    <3>6. j = l
      BY <1>5, <2>2, <3>5
    <3>7. e = d
      <4>1. segs[j].offset + e - 1 = segs[j].offset + d - 1
        BY <2>2, <3>5, <3>6
      <4>2. segs[j].offset \in Nat /\ e \in Int /\ d \in Int
        BY <1>2
      <4> QED BY <4>1, <4>2
    <3> QED BY <3>2, <3>4, <3>6, <3>7
  <2>3. f \in [T -> C]
    BY <2>1
  <2> HIDE DEF f
  <2> QED BY <2>2, <2>3 DEF Injection, IsInjective
<1>7. f \in Surjection(T, C)
  <2>1. f \in [T -> C]
    BY <1>6 DEF Injection
  <2>2. ASSUME NEW o \in C PROVE \E p \in T : f[p] = o
    <3>1. PICK j \in 1 .. n : o \in segs[j].offset .. SegEnd(segs[j]) - 1
      BY <1>1 DEF Covered
    <3>2. o - segs[j].offset + 1 \in 1 .. Len(segs[j].data)
      BY SMTT(20), <1>2, <3>1
    <3>3. /\ <<j, o - segs[j].offset + 1>> \in T
          /\ f[<<j, o - segs[j].offset + 1>>] = segs[j].offset + (o - segs[j].offset + 1) - 1
      BY <1>4, <3>2
    <3> HIDE DEF f, T
    <3>4. segs[j].offset + (o - segs[j].offset + 1) - 1 = o
      BY <1>2, <3>1
    <3> QED BY <3>3, <3>4
  <2> HIDE DEF f
  <2> QED BY <2>1, <2>2 DEF Surjection
<1>8. IsFiniteSet(C)
  BY CoveredType
<1> HIDE DEF f, T, C
<1>9. Cardinality(T) = Cardinality(C)
  BY <1>6, <1>7, <1>8, FS_Injection
<1> QED BY <1>9 DEF LenSum, T, C

\* sort.Search finds how many segments begin left of an offset.
LEMMA BeforeIs ==
  ASSUME NEW segs, NEW low, Apart(segs, low), NEW off \in Nat
  PROVE  /\ Before(segs, off) \in 0 .. Len(segs)
         /\ \A j \in 1 .. Len(segs) : j <= Before(segs, off) <=> segs[j].offset < off
<1> DEFINE n == Len(segs)
           I == {j \in DOMAIN segs : segs[j].offset < off}
           K == {l \in 0 .. n : \A j \in I : j <= l}
<1>1. n \in Nat /\ DOMAIN segs = 1 .. n
  BY SegType
<1>2. ASSUME NEW j \in 1 .. n, NEW l \in 1 .. n, j < l PROVE segs[j].offset < segs[l].offset
  <2>1. /\ segs[j].offset \in Nat /\ segs[l].offset \in Nat /\ SegEnd(segs[j]) \in Nat
        /\ segs[j].offset < SegEnd(segs[j])
    BY SegType
  <2>2. SegEnd(segs[j]) < segs[l].offset
    BY <1>1, <1>2 DEF Apart
  <2> QED BY <2>1, <2>2
<1>3. \A j \in 1 .. n : segs[j].offset \in Nat
  BY SegType
<1>4. K \in SUBSET Nat /\ n \in K
  BY <1>1
<1>5. PICK l \in K : \A e \in K : l <= e
  <2> HIDE DEF K
  <2> QED BY <1>4, LeastNat
<1>6. l \in Nat /\ l <= n /\ \A j \in I : j <= l
  BY <1>1, <1>5
<1>7. l # 0 => l \in I
  <2> SUFFICES ASSUME l # 0, l \notin I PROVE FALSE
    OBVIOUS
  <2>1. \A j \in I : j <= l - 1
    BY <1>1, <1>6
  <2>2. l - 1 \in K
    BY <1>1, <1>6, <2>1
  <2> QED BY <1>5, <1>6, <2>2
<1>8. I = 1 .. l
  <2>1. ASSUME NEW j \in 1 .. l PROVE j \in I
    <3>1. l \in 1 .. n /\ j \in 1 .. n /\ segs[l].offset < off
      BY <1>1, <1>6, <1>7
    <3>2. segs[j].offset < off
      BY <1>2, <1>3, <3>1
    <3> QED BY <1>1, <3>1, <3>2
  <2>2. ASSUME NEW j \in I PROVE j \in 1 .. l
    BY <1>1, <1>6
  <2> QED BY <2>1, <2>2
<1>9. Cardinality(I) = l
  <2>1. \A a, d \in Int : Cardinality(a .. d) = IF a > d THEN 0 ELSE d - a + 1
    BY FS_Interval
  <2>2. 1 \in Int /\ l \in Int
    BY <1>6
  <2>3. Cardinality(1 .. l) = IF 1 > l THEN 0 ELSE l - 1 + 1
    BY <2>1, <2>2
  <2> HIDE DEF I
  <2> QED BY <1>6, <1>8, <2>3
<1>10. Before(segs, off) = l
  BY <1>9 DEF Before
<1>11. \A j \in 1 .. n : j <= l <=> segs[j].offset < off
  BY <1>1, <1>8
<1> QED BY <1>6, <1>10, <1>11

\* The end of the merged range is that of the new fragment or of the last segment.
LEMMA MergedEndIs ==
  ASSUME NEW segs, NEW low, Apart(segs, low), NEW i \in 0 .. Len(segs),
         NEW r \in i .. Len(segs), NEW end \in Nat
  PROVE  MergedEnd(segs, i, r, end) = IF r = i THEN end ELSE Later(end, SegEnd(segs[r]))
<1> DEFINE n == Len(segs)
           ends == {end} \cup {SegEnd(segs[j]) : j \in i + 1 .. r}
           top == IF r = i THEN end ELSE Later(end, SegEnd(segs[r]))
<1>1. n \in Nat /\ DOMAIN segs = 1 .. n /\ i \in Nat /\ r \in Nat /\ i <= r /\ r <= n
  BY SegType
<1>2. \A j \in 1 .. n : SegEnd(segs[j]) \in Nat
  BY SegType
<1>3. r # i => r \in i + 1 .. r /\ r \in 1 .. n
  BY <1>1
<1>4. \A j \in i + 1 .. r : j \in 1 .. n
  BY <1>1
<1>5. ASSUME NEW j \in i + 1 .. r PROVE r # i /\ SegEnd(segs[j]) <= SegEnd(segs[r])
  <2>1. r # i
    BY <1>1
  <2>2. CASE j = r
    BY <1>2, <1>3, <2>1, <2>2
  <2>3. CASE j # r
    <3>1. j < r /\ j \in 1 .. n /\ r \in 1 .. n
      BY <1>1, <1>3, <1>4, <2>1, <2>3
    <3>2. SegEnd(segs[j]) < segs[r].offset
      BY <1>1, <3>1 DEF Apart
    <3>3. /\ SegEnd(segs[j]) \in Nat /\ SegEnd(segs[r]) \in Nat /\ segs[r].offset \in Nat
          /\ segs[r].offset < SegEnd(segs[r])
      BY <3>1, SegType
    <3> QED BY <2>1, <3>2, <3>3
  <2> QED BY <2>2, <2>3
<1>6. top \in ends
  BY <1>3 DEF Later
<1>7. ends \subseteq Nat
  BY <1>2, <1>4
<1>8. \A d \in ends : d <= top
  <2>1. CASE r = i
    <3>1. ends = {end}
      BY <1>1, <2>1
    <3> QED BY <2>1, <3>1
  <2>2. CASE r # i
    <3>1. SegEnd(segs[r]) \in Nat
      BY <1>2, <1>3, <2>2
    <3>2. end <= top /\ SegEnd(segs[r]) <= top /\ top \in Nat
      BY <2>2, <3>1 DEF Later
    <3> HIDE DEF top
    <3>3. ASSUME NEW j \in i + 1 .. r PROVE SegEnd(segs[j]) <= top
      <4>1. SegEnd(segs[j]) \in Nat /\ SegEnd(segs[j]) <= SegEnd(segs[r])
        BY <1>2, <1>4, <1>5
      <4> QED BY <3>1, <3>2, <4>1
    <3> QED BY <3>2, <3>3
  <2> QED BY <2>1, <2>2
<1> HIDE DEF ends, top
<1>9. (CHOOSE e \in ends : \A d \in ends : d <= e) = top
  <2> DEFINE e == CHOOSE e \in ends : \A d \in ends : d <= e
  <2>1. e \in ends /\ \A d \in ends : d <= e
    BY <1>6, <1>8
  <2> HIDE DEF e
  <2>2. e \in Nat /\ top \in Nat /\ e <= top /\ top <= e
    BY <1>6, <1>7, <1>8, <2>1
  <2>3. e = top
    BY <2>2
  <2> QED BY <2>3 DEF e
<1>10. MergedEnd(segs, i, r, end) = CHOOSE e \in ends : \A d \in ends : d <= e
  BY DEF MergedEnd, ends
<1> QED BY <1>9, <1>10 DEF top

\* The loop absorbs the segments that begin at most where the merged range ended before
\* it, and no segment after them is touched by the merged range.
LEMMA AbsorbIs ==
  ASSUME NEW segs, NEW low, Apart(segs, low), NEW i \in 0 .. Len(segs), NEW end \in Nat,
         NEW r, r = absorbRight(segs, i, end)
  PROVE  /\ r \in i .. Len(segs)
         /\ \A j \in i + 1 .. r : segs[j].offset <= end
         /\ \A j \in r + 1 .. Len(segs) : segs[j].offset > MergedEnd(segs, i, r, end)
<1> DEFINE n == Len(segs)
           E(l) == MergedEnd(segs, i, l, end)
           stop(l) == l = n \/ segs[l + 1].offset > E(l)
           K == {l \in i .. n : stop(l)}
<1>1. n \in Nat /\ DOMAIN segs = 1 .. n /\ i \in Nat /\ i <= n
  BY SegType
<1>2. \A j \in 1 .. n : /\ SegEnd(segs[j]) \in Nat /\ segs[j].offset \in Nat
                        /\ segs[j].offset < SegEnd(segs[j])
  BY SegType
<1>3. \A l \in i .. n : E(l) = IF l = i THEN end ELSE Later(end, SegEnd(segs[l]))
  BY MergedEndIs
<1>4. \A l \in i .. n : E(l) \in Nat /\ E(l) >= end
  <2> SUFFICES ASSUME NEW l \in i .. n PROVE E(l) \in Nat /\ E(l) >= end
    OBVIOUS
  <2>1. E(l) = IF l = i THEN end ELSE Later(end, SegEnd(segs[l]))
    BY <1>3
  <2>2. l # i => l \in 1 .. n
    BY <1>1
  <2> HIDE DEF E
  <2> QED BY <1>2, <2>1, <2>2 DEF Later
<1> HIDE DEF E
<1>5. n \in K /\ K \in SUBSET Nat
  BY <1>1
<1>6. \E l \in i .. n : (\A j \in i + 1 .. l : segs[j].offset <= E(j - 1)) /\ stop(l)
  <2>1. PICK l \in K : \A e \in K : l <= e
    BY <1>5, LeastNat
  <2>2. l \in i .. n /\ l \in Nat /\ stop(l)
    BY <1>5, <2>1
  <2>3. ASSUME NEW j \in i + 1 .. l PROVE segs[j].offset <= E(j - 1)
    <3> HIDE DEF n, K
    <3>0. j \in Int /\ i + 1 <= j /\ j <= l /\ l <= n /\ l \in Nat /\ n \in Nat /\ i \in Nat
      BY <1>1, <2>2
    <3>1. j - 1 \in i .. n /\ j \in 1 .. n /\ ~ (l <= j - 1) /\ j - 1 # n /\ j - 1 + 1 = j
      BY <3>0
    <3>2. j - 1 \notin K
      BY <2>1, <3>1
    <3> USE DEF n, K
    <3>3. ~ (segs[j].offset > E(j - 1))
      BY <3>1, <3>2
    <3>4. segs[j].offset \in Nat /\ E(j - 1) \in Nat
      BY <1>2, <1>4, <3>1
    <3> QED BY <3>3, <3>4
  <2> QED BY <2>2, <2>3
<1>7. /\ r \in i .. n /\ stop(r)
      /\ \A j \in i + 1 .. r : segs[j].offset <= E(j - 1)
  <2>1. r = CHOOSE l \in i .. n : /\ \A j \in i + 1 .. l : segs[j].offset <= E(j - 1)
                                  /\ stop(l)
    BY DEF absorbRight, E
  <2> HIDE DEF stop
  <2> QED BY <1>6, <2>1
<1>8. ASSUME NEW j \in i + 1 .. r PROVE segs[j].offset <= end
  <2>1. j \in 1 .. n /\ j - 1 \in i .. n
    BY <1>1, <1>7
  <2>2. segs[j].offset <= E(j - 1)
    BY <1>7
  <2>3. CASE j - 1 = i
    BY <1>3, <2>1, <2>2, <2>3
  <2>4. CASE j - 1 # i
    <3>1. j - 1 \in 1 .. n /\ j - 1 < j
      BY <1>1, <2>1, <2>4
    <3>2. SegEnd(segs[j - 1]) < segs[j].offset
      BY <1>1, <2>1, <3>1 DEF Apart
    <3>3. E(j - 1) = Later(end, SegEnd(segs[j - 1]))
      BY <1>3, <2>1, <2>4
    <3>4. SegEnd(segs[j - 1]) \in Nat /\ segs[j].offset \in Nat
      BY <1>2, <2>1, <3>1
    <3> QED BY <2>2, <3>2, <3>3, <3>4 DEF Later
  <2> QED BY <2>3, <2>4
<1>9. ASSUME NEW j \in r + 1 .. n PROVE segs[j].offset > E(r)
  <2>1. r \in Nat /\ r # n /\ r + 1 \in 1 .. n /\ j \in 1 .. n
    BY <1>1, <1>7
  <2>2. segs[r + 1].offset > E(r)
    BY <1>7, <2>1
  <2>3. CASE j = r + 1
    BY <2>2, <2>3
  <2>4. CASE j # r + 1
    <3>1. r + 1 < j
      BY <2>1, <2>4
    <3>2. SegEnd(segs[r + 1]) < segs[j].offset
      BY <1>1, <2>1, <3>1 DEF Apart
    <3>3. /\ segs[r + 1].offset \in Nat /\ SegEnd(segs[r + 1]) \in Nat
          /\ segs[j].offset \in Nat /\ segs[r + 1].offset < SegEnd(segs[r + 1])
      BY <1>2, <2>1
    <3>4. E(r) \in Nat
      BY <1>4, <1>7
    <3> QED BY <2>2, <3>2, <3>3, <3>4
  <2> QED BY <2>3, <2>4
<1> QED BY <1>7, <1>8, <1>9 DEF E

\* The bytes of the segments from a to z.
CoveredIn(segs, a, z) == UNION {segs[j].offset .. SegEnd(segs[j]) - 1 : j \in a .. z}

\* A part of a list with gaps is one, and has the bytes of its segments.
LEMMA PartApart ==
  ASSUME NEW segs, NEW low, Apart(segs, low), NEW a \in 1 .. Len(segs) + 1,
         NEW z \in a - 1 .. Len(segs), NEW part, part = SubSeq(segs, a, z)
  PROVE  /\ Apart(part, low) /\ Len(part) = z - a + 1
         /\ \A j \in 1 .. z - a + 1 : part[j] = segs[a + j - 1]
         /\ Covered(part) = CoveredIn(segs, a, z)
<1> DEFINE n == Len(segs)
           m == z - a + 1
<1>1. n \in Nat /\ DOMAIN segs = 1 .. n
  BY SegType
<1>2. a \in Nat /\ z \in Nat /\ m \in Nat /\ \A j \in a .. z : j \in 1 .. n
  BY <1>1
<1>3. /\ part \in Seq(Seg) /\ Len(part) = m
      /\ \A j \in 1 .. m : part[j] = segs[a + j - 1]
  <2>1. \A j \in a .. z : segs[j] \in Seg
    BY <1>1, <1>2, SegType
  <2>2. /\ part \in Seq(Seg) /\ Len(part) = IF a <= z THEN z - a + 1 ELSE 0
        /\ \A j \in 1 .. z - a + 1 : part[j] = segs[a + j - 1]
    BY <1>2, <2>1, SubSeqProperties
  <2> QED BY <1>2, <2>2
<1>4. DOMAIN part = 1 .. m
  BY <1>3
<1>5. \A j \in 1 .. m : a + j - 1 \in 1 .. n /\ a + j - 1 \in a .. z
  BY <1>1, <1>2
<1>6. \A j \in a .. z : j - a + 1 \in 1 .. m /\ a + (j - a + 1) - 1 = j
  BY <1>2
<1>7. ASSUME NEW j \in 1 .. m, NEW l \in 1 .. m, j < l
      PROVE  SegEnd(part[j]) < part[l].offset
  <2>1. a + j - 1 \in 1 .. n /\ a + l - 1 \in 1 .. n /\ a + j - 1 < a + l - 1
    BY <1>2, <1>5, <1>7
  <2>2. SegEnd(segs[a + j - 1]) < segs[a + l - 1].offset
    BY <1>1, <2>1 DEF Apart
  <2> QED BY <1>3, <2>2
<1>8. ASSUME NEW j \in 1 .. m
      PROVE  part[j].offset > low /\ part[j].data # <<>> /\ SegEnd(part[j]) <= MaxBytes
  <2>1. a + j - 1 \in DOMAIN segs
    BY <1>1, <1>5
  <2>2. /\ segs[a + j - 1].offset > low /\ segs[a + j - 1].data # <<>>
        /\ SegEnd(segs[a + j - 1]) <= MaxBytes
    BY <2>1 DEF Apart
  <2> QED BY <1>3, <2>2
<1>9. Apart(part, low)
  BY <1>3, <1>4, <1>7, <1>8 DEF Apart
<1>10. Covered(part) = CoveredIn(segs, a, z)
  <2> DEFINE A == UNION {segs[j].offset .. SegEnd(segs[j]) - 1 : j \in a .. z}
  <2>1. ASSUME NEW o \in Covered(part) PROVE o \in A
    <3>1. PICK j \in 1 .. m : o \in part[j].offset .. SegEnd(part[j]) - 1
      BY <1>4 DEF Covered
    <3>2. a + j - 1 \in a .. z /\ part[j] = segs[a + j - 1]
      BY <1>3, <1>5
    <3>3. o \in segs[a + j - 1].offset .. SegEnd(segs[a + j - 1]) - 1
      BY <3>1, <3>2
    <3> QED BY <3>2, <3>3
  <2>2. ASSUME NEW o \in A PROVE o \in Covered(part)
    <3>1. PICK j \in a .. z : o \in segs[j].offset .. SegEnd(segs[j]) - 1
      OBVIOUS
    <3>2. j - a + 1 \in 1 .. m /\ part[j - a + 1] = segs[j]
      BY <1>3, <1>6
    <3>3. o \in part[j - a + 1].offset .. SegEnd(part[j - a + 1]) - 1
      BY <3>1, <3>2
    <3> QED BY <1>4, <3>2, <3>3 DEF Covered
  <2> QED BY <2>1, <2>2 DEF CoveredIn
<1> QED BY <1>3, <1>9, <1>10

\* An offset lies in one segment at most, which has its byte.
LEMMA SegByteIs ==
  ASSUME NEW segs, NEW low, Apart(segs, low), NEW j \in 1 .. Len(segs),
         NEW o \in segs[j].offset .. SegEnd(segs[j]) - 1
  PROVE  /\ SegByte(segs, o) = segs[j].data[o - segs[j].offset + 1]
         /\ SegByte(segs, o) \in Nat /\ o \in Covered(segs)
         /\ o - segs[j].offset + 1 \in 1 .. Len(segs[j].data)
<1> DEFINE n == Len(segs)
           in(l) == o \in segs[l].offset .. SegEnd(segs[l]) - 1
<1>1. n \in Nat /\ DOMAIN segs = 1 .. n
  BY SegType
<1>2. ASSUME NEW l \in 1 .. n
      PROVE  /\ segs[l].offset \in Nat /\ SegEnd(segs[l]) \in Nat
             /\ segs[l].data \in Seq(Nat)
             /\ SegEnd(segs[l]) = segs[l].offset + Len(segs[l].data)
  BY <1>2, SegType
<1>3. ASSUME NEW l \in 1 .. n, in(l) PROVE l = j
  <2>1. /\ j < l => SegEnd(segs[j]) < segs[l].offset
        /\ l < j => SegEnd(segs[l]) < segs[j].offset
    BY <1>1 DEF Apart
  <2>2. /\ o \in Int /\ segs[j].offset <= o /\ o < SegEnd(segs[j])
        /\ segs[l].offset <= o /\ o < SegEnd(segs[l])
    BY <1>2, <1>3
  <2>3. /\ segs[j].offset \in Nat /\ SegEnd(segs[j]) \in Nat
        /\ segs[l].offset \in Nat /\ SegEnd(segs[l]) \in Nat
    BY <1>2
  <2>4. ~ (j < l) /\ ~ (l < j)
    BY <2>1, <2>2, <2>3
  <2> QED BY <2>4
<1>4. in(j)
  OBVIOUS
<1>5. (CHOOSE l \in DOMAIN segs : in(l)) = j
  <2> HIDE DEF in
  <2> QED BY <1>1, <1>3, <1>4
<1>6. SegByte(segs, o) = segs[j].data[o - segs[j].offset + 1]
  BY <1>5 DEF SegByte
<1>7. o - segs[j].offset + 1 \in 1 .. Len(segs[j].data)
  BY SMTT(20), <1>2
<1>8. \A d \in Seq(Nat) : \A l \in 1 .. Len(d) : d[l] \in Nat
  OBVIOUS
<1>9. segs[j].data[o - segs[j].offset + 1] \in Nat
  BY <1>2, <1>7, <1>8
<1>10. o \in Covered(segs)
  BY <1>1 DEF Covered
<1> QED BY <1>6, <1>7, <1>9, <1>10

\* compact takes at most one segment, because of the gaps; no byte changes.
LEMMA CompactIs ==
  ASSUME NEW buf, Counted(buf, buf.contigLen - 1), NEW x, x = compact(buf)
  PROVE  /\ Counted(x, x.contigLen) /\ Stored(x) = Stored(buf)
         /\ \A o \in Stored(buf) : ByteAt(x, o) = ByteAt(buf, o)
         /\ x.hadOutOfOrder = buf.hadOutOfOrder /\ x.hadOverlap = buf.hadOverlap
<1> DEFINE segs == buf.segments
           n == Len(segs)
           c == buf.contigLen
           m == Chained(buf)
           e == PrefixEnd(buf, m)
           g == [k \in 1 .. e - c |-> SegByte(segs, c + k - 1)]
           low == c - 1
<1>1. /\ buf \in Buf /\ c = Len(buf.contig) /\ c <= MaxBytes /\ Apart(segs, low)
      /\ buf.totalBytes = c + Cardinality(Covered(segs))
  BY DEF Counted
<1>2. n \in Nat /\ DOMAIN segs = 1 .. n /\ c \in Nat /\ buf.contig \in Seq(Nat)
  BY <1>1, SegType DEF Buf
<1>3. \A j \in 1 .. n : /\ segs[j].offset \in Nat /\ SegEnd(segs[j]) \in Nat
                        /\ segs[j].offset < SegEnd(segs[j]) /\ SegEnd(segs[j]) <= MaxBytes
                        /\ segs[j].offset > c - 1
  <2>1. \A j \in 1 .. n : segs[j].offset > c - 1
    BY <1>1, <1>2 DEF Apart
  <2> QED BY <1>1, <2>1, SegType
<1>4. \A j, l \in 1 .. n : j < l => SegEnd(segs[j]) < segs[l].offset
  BY <1>1, <1>2 DEF Apart
<1>5. PrefixEnd(buf, 0) = c /\ PrefixEnd(buf, 1) = SegEnd(segs[1])
  BY DEF PrefixEnd
<1>6. /\ m \in 0 .. n /\ \A j \in 1 .. m : segs[j].offset = PrefixEnd(buf, j - 1)
      /\ m = n \/ segs[m + 1].offset # PrefixEnd(buf, m)
  <2> DEFINE stop(l) == /\ \A j \in 1 .. l : segs[j].offset = PrefixEnd(buf, j - 1)
                        /\ l = n \/ segs[l + 1].offset # PrefixEnd(buf, l)
  <2>1. \E l \in 0 .. n : stop(l)
    <3>1. CASE n >= 1 /\ segs[1].offset = c
      <4>1. \A j \in 1 .. 1 : segs[j].offset = PrefixEnd(buf, j - 1)
        BY <1>5, <3>1
      <4>2. 1 = n \/ segs[1 + 1].offset # PrefixEnd(buf, 1)
        <5> SUFFICES ASSUME 1 # n PROVE segs[2].offset # SegEnd(segs[1])
          BY <1>5
        <5>0. n \in Nat /\ n >= 1 /\ n # 1
          BY <1>2, <3>1
        <5> HIDE DEF n
        <5>1. 1 \in 1 .. n /\ 2 \in 1 .. n
          BY <5>0
        <5> QED BY <1>3, <1>4, <5>1
      <4>3. 1 \in 0 .. n
        BY <1>2, <3>1
      <4> QED BY <4>1, <4>2, <4>3
    <3>2. CASE ~ (n >= 1 /\ segs[1].offset = c)
      <4>1. stop(0) /\ 0 \in 0 .. n
        BY <1>2, <1>5, <3>2
      <4> HIDE DEF stop
      <4> QED BY <4>1
    <3> QED BY <3>1, <3>2
  <2>2. m = CHOOSE l \in 0 .. n : stop(l)
    BY DEF Chained
  <2> HIDE DEF stop, m
  <2>3. m \in 0 .. n /\ stop(m)
    BY <2>1, <2>2
  <2> QED BY <2>3 DEF stop
<1> HIDE DEF m
<1>7. m = 0 \/ m = 1
  <2> SUFFICES ASSUME m # 0, m # 1 PROVE FALSE
    OBVIOUS
  <2>1. 2 \in 1 .. m /\ 1 \in 1 .. n /\ 2 \in 1 .. n
    BY <1>2, <1>6
  <2>2. segs[2].offset = PrefixEnd(buf, 2 - 1)
    BY <1>6, <2>1
  <2> QED BY <1>3, <1>4, <1>5, <2>1, <2>2
<1>8. e = IF m = 0 THEN c ELSE SegEnd(segs[1])
  BY <1>5, <1>7
<1>9. m = 1 => n >= 1 /\ 1 \in 1 .. n /\ segs[1].offset = c
  BY <1>2, <1>5, <1>6
<1>10. e \in Nat /\ c <= e /\ e <= MaxBytes
  BY <1>1, <1>2, <1>3, <1>7, <1>8, <1>9
<1> HIDE DEF e
<1>11. ASSUME NEW k \in 1 .. e - c
       PROVE  /\ m = 1 /\ c + k - 1 \in segs[1].offset .. SegEnd(segs[1]) - 1
              /\ SegByte(segs, c + k - 1) \in Nat
  <2>1. m = 1
    BY <1>2, <1>7, <1>8
  <2>2. c + k - 1 \in segs[1].offset .. SegEnd(segs[1]) - 1
    <3>1. c \in Nat /\ e \in Nat /\ e = SegEnd(segs[1]) /\ segs[1].offset = c
      BY <1>2, <1>8, <1>9, <1>10, <2>1
    <3> HIDE DEF c, segs
    <3>2. c + k - 1 \in c .. e - 1
      BY <3>1
    <3> QED BY <3>1, <3>2
  <2> QED BY <1>1, <1>9, <2>1, <2>2, SegByteIs
<1>12. g \in Seq(Nat) /\ Len(g) = e - c /\ \A k \in 1 .. e - c : g[k] = SegByte(segs, c + k - 1)
  <2>1. e - c \in Nat
    BY <1>2, <1>10
  <2> QED BY <1>11, <2>1
<1>13. /\ x.contig = buf.contig \o g /\ x.contigLen = e /\ x.totalBytes = buf.totalBytes
       /\ x.segments = SubSeq(segs, m + 1, n)
       /\ x.hadOutOfOrder = buf.hadOutOfOrder /\ x.hadOverlap = buf.hadOverlap
       /\ x \in [contig : {x.contig}, contigLen : {x.contigLen}, totalBytes : {x.totalBytes},
                 segments : {x.segments}, hadOutOfOrder : {x.hadOutOfOrder},
                 hadOverlap : {x.hadOverlap}]
  <2>1. x = [Extended(buf, m) EXCEPT !.segments = SubSeq(@, m + 1, Len(@))]
    BY DEF compact, m
  <2>2. Extended(buf, m) = [buf EXCEPT !.contig = @ \o g, !.contigLen = e]
    BY DEF Extended, e
  <2> HIDE DEF g
  <2> QED BY <1>1, <2>1, <2>2 DEF Buf
<1> DEFINE rest == SubSeq(segs, m + 1, n)
<1>14. /\ Apart(rest, low) /\ Len(rest) = n - m
       /\ \A j \in 1 .. n - m : rest[j] = segs[m + j]
       /\ Covered(rest) = CoveredIn(segs, m + 1, n)
  <2>1. m + 1 \in 1 .. Len(segs) + 1 /\ Len(segs) \in m + 1 - 1 .. Len(segs)
    BY <1>2, <1>6
  <2>2. /\ Apart(rest, low) /\ Len(rest) = n - (m + 1) + 1
        /\ \A j \in 1 .. n - (m + 1) + 1 : rest[j] = segs[m + 1 + j - 1]
        /\ Covered(rest) = CoveredIn(segs, m + 1, n)
    <3> DEFINE a == m + 1
               z == Len(segs)
    <3>1. Apart(segs, low) /\ a \in 1 .. Len(segs) + 1 /\ z \in a - 1 .. Len(segs)
      BY <1>1, <2>1
    <3>2. rest = SubSeq(segs, a, z)
      OBVIOUS
    <3> HIDE DEF low, segs, a, z, rest
    <3>3. /\ Apart(rest, low) /\ Len(rest) = z - a + 1
          /\ \A j \in 1 .. z - a + 1 : rest[j] = segs[a + j - 1]
          /\ Covered(rest) = CoveredIn(segs, a, z)
      <4>1. Apart(rest, low)
        BY <3>1, <3>2, PartApart
      <4>2. Len(rest) = z - a + 1
        BY <3>1, <3>2, PartApart
      <4>3. \A j \in 1 .. z - a + 1 : rest[j] = segs[a + j - 1]
        BY <3>1, <3>2, PartApart
      <4>4. Covered(rest) = CoveredIn(segs, a, z)
        BY <3>1, <3>2, PartApart
      <4> QED BY <4>1, <4>2, <4>3, <4>4
    <3> QED BY <3>3 DEF a, z
  <2> HIDE DEF rest, n, low
  <2>3. n - (m + 1) + 1 = n - m /\ \A j \in 1 .. n - m : m + 1 + j - 1 = m + j
    BY <1>2, <1>6
  <2> QED BY <2>2, <2>3
<1>15. \A j \in m + 1 .. n : segs[j].offset > e
  <2> SUFFICES ASSUME NEW j \in m + 1 .. n PROVE segs[j].offset > e
    OBVIOUS
  <2>1. j \in 1 .. n /\ j \in Int /\ m + 1 <= j
    BY <1>2, <1>6
  <2>2. CASE m = 1
    <3>1. 1 \in 1 .. n /\ 1 < j
      BY <1>9, <2>1, <2>2
    <3> QED BY <1>3, <1>4, <1>8, <2>1, <2>2, <3>1
  <2>3. CASE m = 0
    <3>1. 1 \in 1 .. n /\ n # 0
      BY <1>2, <2>1
    <3>2. segs[1].offset # c
      BY <1>5, <1>6, <2>3, <3>1
    <3>3. segs[1].offset > c
      BY <1>2, <1>3, <3>1, <3>2
    <3>4. CASE j = 1
      BY <1>8, <2>3, <3>3, <3>4
    <3>5. CASE j # 1
      <4>1. 1 < j
        BY <2>1, <3>5
      <4>2. SegEnd(segs[1]) < segs[j].offset
        BY <1>4, <2>1, <3>1, <4>1
      <4> QED BY <1>2, <1>3, <1>8, <2>1, <2>3, <3>1, <3>3, <4>2
    <3> QED BY <3>4, <3>5
  <2> QED BY <1>7, <2>2, <2>3
<1>16. Apart(rest, e)
  <2>1. DOMAIN rest = 1 .. n - m
    BY <1>14, SegType
  <2>2. ASSUME NEW j \in 1 .. n - m PROVE rest[j].offset > e
    <3>1. m + j \in m + 1 .. n
      BY <1>2, <1>6
    <3> QED BY <1>14, <1>15, <3>1
  <2> HIDE DEF rest
  <2> QED BY <1>14, <2>1, <2>2 DEF Apart
<1>17. Covered(segs) = (c .. e - 1) \cup Covered(rest)
  <2> DEFINE iv(j) == segs[j].offset .. SegEnd(segs[j]) - 1
  <2>1. Covered(segs) = UNION {iv(j) : j \in 1 .. n}
    BY <1>2 DEF Covered
  <2>2. Covered(rest) = UNION {iv(j) : j \in m + 1 .. n}
    BY <1>14 DEF CoveredIn
  <2>3. CASE m = 0
    <3>1. c .. e - 1 = {}
      BY <1>2, <1>8, <2>3
    <3>2. m + 1 = 1
      BY <2>3
    <3> HIDE DEF iv
    <3> QED BY <2>1, <2>2, <3>1, <3>2
  <2>4. CASE m = 1
    <3>1. iv(1) = c .. e - 1
      BY <1>8, <1>9, <2>4
    <3>2. 1 .. n = {1} \cup (m + 1 .. n)
      BY <1>2, <1>9, <2>4
    <3> HIDE DEF iv
    <3> QED BY <2>1, <2>2, <3>1, <3>2
  <2> QED BY <1>7, <2>3, <2>4
<1>18. \A o \in Covered(rest) : o \in Nat /\ o > e
  <2> SUFFICES ASSUME NEW o \in Covered(rest) PROVE o \in Nat /\ o > e
    OBVIOUS
  <2>1. PICK j \in m + 1 .. n : o \in segs[j].offset .. SegEnd(segs[j]) - 1
    BY <1>14 DEF CoveredIn
  <2>2. j \in 1 .. n /\ segs[j].offset > e
    BY <1>2, <1>6, <1>15
  <2> QED BY <1>3, <1>10, <2>1, <2>2
<1>19. Cardinality(Covered(segs)) = (e - c) + Cardinality(Covered(rest))
  <2> DEFINE A == c .. e - 1
             B == Covered(rest)
  <2>1. \A a, d \in Int : IsFiniteSet(a .. d) /\ Cardinality(a .. d) = IF a > d THEN 0 ELSE d - a + 1
    BY FS_Interval
  <2>2. IsFiniteSet(A) /\ Cardinality(A) = e - c
    <3>1. c \in Int /\ e - 1 \in Int
      BY <1>2, <1>10
    <3>2. IsFiniteSet(A) /\ Cardinality(A) = IF c > e - 1 THEN 0 ELSE e - 1 - c + 1
      BY <2>1, <3>1
    <3> HIDE DEF A
    <3> QED BY <1>2, <1>10, <3>2
  <2>3. IsFiniteSet(B) /\ Cardinality(B) \in Nat
    BY <1>14, CoveredType
  <2>4. A \cap B = {}
    BY <1>2, <1>10, <1>18
  <2>5. Covered(segs) = A \cup B
    BY <1>17
  <2> HIDE DEF A, B
  <2>6. Cardinality(A \cup B) = Cardinality(A) + Cardinality(B) - Cardinality({})
    BY <2>2, <2>3, <2>4, FS_Union
  <2>7. Cardinality({}) = 0
    BY FS_EmptySet
  <2>8. Cardinality(A \cup B) = (e - c) + Cardinality(B)
    BY <1>2, <1>10, <2>2, <2>3, <2>6, <2>7
  <2> QED BY <2>5, <2>8 DEF B
<1> HIDE DEF rest, g
<1>20. Counted(x, x.contigLen)
  <2>1. x.contig \in Seq(Nat) /\ Len(x.contig) = e
    <3>1. /\ buf.contig \o g \in Seq(Nat)
          /\ Len(buf.contig \o g) = Len(buf.contig) + Len(g)
      BY <1>2, <1>12, ConcatProperties
    <3> QED BY <1>1, <1>2, <1>10, <1>12, <1>13, <3>1
  <2>2. x.segments \in Seq(Seg) /\ x.segments = rest
    BY <1>13, <1>14 DEF Apart, rest
  <2>3. x.totalBytes = e + Cardinality(Covered(rest)) /\ x.totalBytes \in Int
    <3>1. Cardinality(Covered(rest)) \in Nat
      BY <1>14, CoveredType
    <3> QED BY <1>1, <1>2, <1>10, <1>13, <1>19, <3>1
  <2>4. x.hadOutOfOrder \in BOOLEAN /\ x.hadOverlap \in BOOLEAN
    BY <1>1, <1>13 DEF Buf
  <2>5. x \in Buf
    BY <1>10, <1>13, <2>1, <2>2, <2>3, <2>4 DEF Buf
  <2> QED BY <1>10, <1>13, <1>16, <2>1, <2>2, <2>3, <2>5 DEF Counted
<1>21. Stored(x) = Stored(buf)
  <2>1. Stored(x) = (0 .. e - 1) \cup Covered(rest)
    BY <1>13 DEF Stored, rest
  <2>2. Stored(buf) = (0 .. c - 1) \cup ((c .. e - 1) \cup Covered(rest))
    BY <1>17 DEF Stored
  <2>3. 0 .. e - 1 = (0 .. c - 1) \cup (c .. e - 1)
    BY <1>2, <1>10
  <2> QED BY <2>1, <2>2, <2>3
<1>22. ASSUME NEW o \in Stored(buf) PROVE ByteAt(x, o) = ByteAt(buf, o)
  <2>1. o \in (0 .. c - 1) \cup ((c .. e - 1) \cup Covered(rest))
    BY <1>17 DEF Stored
  <2>2. x.contig = buf.contig \o g
    BY <1>13
  <2>3. \A k \in 1 .. c + (e - c) :
          x.contig[k] = IF k <= c THEN buf.contig[k] ELSE g[k - c]
    <3>1. \A k \in 1 .. c + (e - c) :
            (buf.contig \o g)[k] = IF k <= c THEN buf.contig[k] ELSE g[k - c]
      BY <1>1, <1>2, <1>12, ConcatProperties
    <3> QED BY <2>2, <3>1
  <2>4. ByteAt(buf, o) = IF o < c THEN buf.contig[o + 1] ELSE SegByte(segs, o)
    BY DEF ByteAt
  <2>5. ByteAt(x, o) = IF o < e THEN x.contig[o + 1] ELSE SegByte(rest, o)
    BY <1>13 DEF ByteAt, rest
  <2>6. CASE o \in 0 .. c - 1
    <3>1. o < c /\ o < e /\ o + 1 \in 1 .. c + (e - c) /\ o + 1 <= c
      BY <1>2, <1>10, <2>6
    <3> QED BY <2>3, <2>4, <2>5, <3>1
  <2>7. CASE o \in c .. e - 1
    <3>1. /\ ~ (o < c) /\ o < e /\ o + 1 \in 1 .. c + (e - c) /\ ~ (o + 1 <= c)
          /\ o + 1 - c \in 1 .. e - c /\ c + (o + 1 - c) - 1 = o
      <4>1. c \in Nat /\ e \in Nat /\ o \in c .. e - 1
        BY <1>2, <1>10, <2>7
      <4> HIDE DEF c
      <4> QED BY <4>1
    <3>2. g[o + 1 - c] = SegByte(segs, o)
      BY <1>12, <3>1
    <3>3. x.contig[o + 1] = g[o + 1 - c]
      <4>1. c \in Int /\ e \in Int /\ o \in Int
        BY <1>2, <1>10, <2>7
      <4>2. o + 1 \in 1 .. c + (e - c) /\ ~ (o + 1 <= c)
        BY <3>1
      <4> HIDE DEF c
      <4> QED BY <2>3, <4>1, <4>2
    <3> HIDE DEF c, segs
    <3> QED BY <2>4, <2>5, <3>1, <3>2, <3>3
  <2>8. CASE o \in Covered(rest)
    <3>1. ~ (o < e) /\ ~ (o < c)
      BY <1>2, <1>10, <1>18, <2>8
    <3>2. PICK j \in m + 1 .. n : o \in segs[j].offset .. SegEnd(segs[j]) - 1
      BY <1>14, <2>8 DEF CoveredIn
    <3>3. j - m \in 1 .. n - m /\ m + (j - m) = j /\ j \in 1 .. n
      BY <1>2, <1>6
    <3>4. rest[j - m] = segs[j] /\ j - m \in 1 .. Len(rest)
      BY <1>14, <3>3
    <3>5. SegByte(segs, o) = segs[j].data[o - segs[j].offset + 1]
      BY <1>1, <3>2, <3>3, SegByteIs
    <3>6. o \in rest[j - m].offset .. SegEnd(rest[j - m]) - 1
      BY <3>2, <3>4
    <3>7. SegByte(rest, o) = rest[j - m].data[o - rest[j - m].offset + 1]
      BY <1>14, <3>4, <3>6, SegByteIs
    <3> QED BY <2>4, <2>5, <3>1, <3>4, <3>5, <3>7
  <2> QED BY <2>1, <2>6, <2>7, <2>8
<1> QED BY <1>13, <1>20, <1>21, <1>22

\* A fragment of len bytes at offset, and what insert computes to merge it.
Merging(segs, low, off, len, i, left, start, end0, right, end) ==
  /\ Apart(segs, low) /\ off \in Nat /\ len \in Nat /\ len >= 1
  /\ off + len <= MaxBytes
  /\ i = Before(segs, off) /\ left = keptLeft(segs, off)
  /\ start = IF left < i /\ segs[i].offset < off THEN segs[i].offset ELSE off
  /\ end0 = IF left < i THEN Later(off + len, SegEnd(segs[i])) ELSE off + len
  /\ right = absorbRight(segs, i, end0) /\ end = MergedEnd(segs, i, right, end0)

\* The merged range: it holds the fragment, the segments before it end left of it, those
\* after it begin right of it, the ones between touch the fragment, and it has no gap.
MergedRange(segs, off, len, left, start, right, end) ==
  /\ left \in 0 .. Len(segs) /\ right \in left .. Len(segs)
  /\ start \in Nat /\ end \in Nat /\ start <= off /\ off + len <= end
  /\ end <= MaxBytes
  /\ start = off \/ \E j \in 1 .. Len(segs) : start = segs[j].offset
  /\ \A j \in 1 .. left : SegEnd(segs[j]) < start
  /\ \A j \in right + 1 .. Len(segs) : segs[j].offset > end
  /\ \A j \in left + 1 .. right :
       /\ start <= segs[j].offset /\ SegEnd(segs[j]) <= end
       /\ segs[j].offset <= off + len /\ SegEnd(segs[j]) >= off
  /\ \A o \in start .. end - 1 :
       \/ o \in off .. off + len - 1
       \/ \E j \in left + 1 .. right : o \in segs[j].offset .. SegEnd(segs[j]) - 1

\* Which segments a fragment is merged with, and the range of the merged segment.
LEMMA MergeRange ==
  ASSUME NEW segs, NEW low, NEW off, NEW len, NEW i, NEW left, NEW start, NEW end0,
         NEW right, NEW end,
         Merging(segs, low, off, len, i, left, start, end0, right, end)
  PROVE  MergedRange(segs, off, len, left, start, right, end)
<1> SUFFICES ASSUME Apart(segs, low), off \in Nat, len \in Nat, len >= 1,
                    off + len <= MaxBytes,
                    i = Before(segs, off), left = keptLeft(segs, off),
                    start = IF left < i /\ segs[i].offset < off THEN segs[i].offset
                            ELSE off,
                    end0 = IF left < i THEN Later(off + len, SegEnd(segs[i]))
                           ELSE off + len,
                    right = absorbRight(segs, i, end0),
                    end = MergedEnd(segs, i, right, end0)
             PROVE  MergedRange(segs, off, len, left, start, right, end)
  BY DEF Merging
<1> DEFINE n == Len(segs)
           stop == off + len
<1>1. n \in Nat /\ DOMAIN segs = 1 .. n
  BY SegType
<1>2. \A j \in 1 .. n : /\ segs[j].offset \in Nat /\ SegEnd(segs[j]) \in Nat
                        /\ segs[j].offset < SegEnd(segs[j]) /\ SegEnd(segs[j]) <= MaxBytes
  BY SegType
<1>3. \A j, l \in 1 .. n : j < l => SegEnd(segs[j]) < segs[l].offset
  BY <1>1 DEF Apart
<1>4. i \in 0 .. n /\ \A j \in 1 .. n : j <= i <=> segs[j].offset < off
  BY BeforeIs
<1>5. i \in Nat /\ i <= n /\ stop \in Nat /\ off < stop /\ stop <= MaxBytes /\ MaxBytes \in Nat
  BY <1>1, <1>4, SeqSpaceAssumption, BufferAssumption
<1>6. left = IF i > 0 /\ SegEnd(segs[i]) >= off THEN i - 1 ELSE i
  BY DEF keptLeft
<1>7. left < i <=> i > 0 /\ SegEnd(segs[i]) >= off
  BY <1>5, <1>6
<1>8. left \in Nat /\ left <= i /\ left >= i - 1
  BY <1>5, <1>6
<1>9. i > 0 => i \in 1 .. n /\ segs[i].offset < off
  BY <1>4, <1>5
<1>10. left < i => /\ i \in 1 .. n /\ left = i - 1 /\ segs[i].offset < off
                   /\ off <= SegEnd(segs[i]) /\ start = segs[i].offset
                   /\ end0 = Later(stop, SegEnd(segs[i]))
  <2> SUFFICES ASSUME left < i
               PROVE  /\ i \in 1 .. n /\ left = i - 1 /\ segs[i].offset < off
                      /\ off <= SegEnd(segs[i]) /\ start = segs[i].offset
                      /\ end0 = Later(stop, SegEnd(segs[i]))
    OBVIOUS
  <2>1. i > 0 /\ SegEnd(segs[i]) >= off
    BY <1>7
  <2>2. i \in 1 .. n /\ segs[i].offset < off
    BY <1>9, <2>1
  <2>3. left = i - 1
    BY <1>6, <2>1
  <2>4. SegEnd(segs[i]) \in Nat
    BY <1>2, <2>2
  <2> QED BY <2>1, <2>2, <2>3, <2>4
<1>11. ~ (left < i) => left = i /\ start = off /\ end0 = stop
  BY <1>5, <1>8
<1> HIDE DEF stop
<1>12. start \in Nat /\ start <= off /\ end0 \in Nat /\ stop <= end0 /\ end0 <= MaxBytes
  <2>1. CASE left < i
    BY SMTT(20), <1>2, <1>5, <1>10, <2>1 DEF Later
  <2>2. CASE ~ (left < i)
    BY <1>5, <1>11, <2>2
  <2> QED BY <2>1, <2>2
<1>13. /\ right \in i .. n
       /\ \A j \in i + 1 .. right : segs[j].offset <= end0
       /\ \A j \in right + 1 .. n : segs[j].offset > end
  BY <1>4, <1>12, AbsorbIs
<1>14. right \in Nat /\ i <= right /\ right <= n
  BY <1>5, <1>13
<1>15. end = IF right = i THEN end0 ELSE Later(end0, SegEnd(segs[right]))
  BY <1>4, <1>12, <1>13, MergedEndIs
<1>16. right # i => /\ right \in 1 .. n /\ right \in i + 1 .. right
                    /\ SegEnd(segs[right]) \in Nat /\ SegEnd(segs[right]) <= MaxBytes
  BY <1>2, <1>5, <1>14
<1>17. /\ end \in Nat /\ end0 <= end /\ end <= MaxBytes
       /\ right # i => SegEnd(segs[right]) <= end
       /\ end = end0 \/ (right # i /\ end = SegEnd(segs[right]))
  <2>1. CASE right = i
    BY <1>12, <1>15, <2>1
  <2>2. CASE right # i
    BY <1>12, <1>15, <1>16, <2>2 DEF Later
  <2> QED BY <2>1, <2>2
<1>18. ASSUME NEW j \in 1 .. left PROVE SegEnd(segs[j]) < start
  <2>1. j \in 1 .. n /\ j <= left
    BY <1>5, <1>8
  <2>2. CASE left < i
    <3>1. i \in 1 .. n /\ j < i /\ start = segs[i].offset
      BY <1>5, <1>8, <1>10, <2>1, <2>2
    <3> QED BY <1>3, <2>1, <3>1
  <2>3. CASE ~ (left < i)
    <3>1. left = i /\ start = off /\ i > 0
      BY <1>5, <1>8, <1>11, <2>1, <2>3
    <3>2. i \in 1 .. n /\ segs[i].offset < off /\ ~ (SegEnd(segs[i]) >= off)
      BY <1>7, <1>9, <2>3, <3>1
    <3>3. SegEnd(segs[i]) \in Nat /\ segs[i].offset \in Nat /\ SegEnd(segs[j]) \in Nat
      BY <1>2, <2>1, <3>2
    <3>4. CASE j = i
      BY <3>1, <3>2, <3>3, <3>4
    <3>5. CASE j # i
      <4>1. j < i
        BY <1>5, <2>1, <3>1, <3>5
      <4>2. SegEnd(segs[j]) < segs[i].offset
        BY <1>3, <2>1, <3>2, <4>1
      <4> QED BY <3>1, <3>2, <3>3, <4>2
    <3> QED BY <3>4, <3>5
  <2> QED BY <2>2, <2>3
<1>19. ASSUME NEW j \in i + 1 .. right
       PROVE  /\ j \in 1 .. n /\ off <= segs[j].offset /\ segs[j].offset <= stop
              /\ SegEnd(segs[j]) <= end
  <2>1. j \in 1 .. n /\ ~ (j <= i) /\ j <= right /\ j \in Int
    BY <1>5, <1>14
  <2>2. segs[j].offset \in Nat /\ ~ (segs[j].offset < off)
    BY <1>2, <1>4, <2>1
  <2>3. off <= segs[j].offset
    BY <2>2
  <2>4. segs[j].offset <= stop
    <3>1. segs[j].offset <= end0
      BY <1>13
    <3>2. CASE left < i
      <4>1. i \in 1 .. n /\ i < j
        BY <1>5, <1>10, <2>1, <3>2
      <4>2. SegEnd(segs[i]) < segs[j].offset /\ SegEnd(segs[i]) \in Nat
        BY <1>2, <1>3, <2>1, <4>1
      <4>3. end0 = Later(stop, SegEnd(segs[i]))
        BY <1>10, <3>2
      <4> QED BY <1>5, <2>2, <3>1, <4>2, <4>3 DEF Later
    <3>3. CASE ~ (left < i)
      BY <1>11, <3>1, <3>3
    <3> QED BY <3>2, <3>3
  <2>5. SegEnd(segs[j]) <= end
    <3>1. right # i
      BY <1>5, <1>14, <2>1
    <3>2. CASE j = right
      BY <1>17, <3>1, <3>2
    <3>3. CASE j # right
      <4>1. j < right /\ right \in 1 .. n
        BY <1>14, <1>16, <2>1, <3>1, <3>3
      <4>2. SegEnd(segs[j]) < segs[right].offset
        BY <1>3, <2>1, <4>1
      <4>3. /\ SegEnd(segs[j]) \in Nat /\ segs[right].offset \in Nat
            /\ SegEnd(segs[right]) \in Nat /\ segs[right].offset < SegEnd(segs[right])
        BY <1>2, <2>1, <4>1
      <4> QED BY <1>17, <3>1, <4>2, <4>3
    <3> QED BY <3>2, <3>3
  <2> QED BY <2>1, <2>3, <2>4, <2>5
<1>20. ASSUME NEW j \in left + 1 .. right
       PROVE  /\ start <= segs[j].offset /\ SegEnd(segs[j]) <= end
              /\ segs[j].offset <= stop /\ SegEnd(segs[j]) >= off
  <2>1. CASE j \in i + 1 .. right
    <3>1. /\ j \in 1 .. n /\ off <= segs[j].offset /\ segs[j].offset <= stop
          /\ SegEnd(segs[j]) <= end
      BY <1>19, <2>1
    <3>2. /\ segs[j].offset \in Nat /\ SegEnd(segs[j]) \in Nat
          /\ segs[j].offset < SegEnd(segs[j])
      BY <1>2, <3>1
    <3> QED BY <1>12, <3>1, <3>2
  <2>2. CASE j \notin i + 1 .. right
    <3>1. j = i /\ left < i
      BY <1>5, <1>8, <1>14, <2>2
    <3>2. /\ i \in 1 .. n /\ segs[i].offset < off /\ off <= SegEnd(segs[i])
          /\ start = segs[i].offset /\ end0 = Later(stop, SegEnd(segs[i]))
      BY <1>10, <3>1
    <3>3. segs[i].offset \in Nat /\ SegEnd(segs[i]) \in Nat
      BY <1>2, <3>2
    <3>4. SegEnd(segs[i]) <= end0
      BY <1>5, <3>2, <3>3 DEF Later
    <3> QED BY SMTT(20), <1>5, <1>12, <1>17, <3>1, <3>2, <3>3, <3>4
  <2> QED BY <2>1, <2>2
<1>21. ASSUME NEW o \in start .. end - 1, o \notin off .. stop - 1
       PROVE  \E j \in left + 1 .. right : o \in segs[j].offset .. SegEnd(segs[j]) - 1
  <2>1. o \in Int /\ start <= o /\ o < end /\ (o < off \/ o >= stop)
    BY <1>5, <1>12, <1>17, <1>21
  <2>2. CASE left < i /\ o < SegEnd(segs[i])
    <3>1. i \in 1 .. n /\ left = i - 1 /\ start = segs[i].offset
      BY <1>10, <2>2
    <3>2. i \in left + 1 .. right
      BY <1>5, <1>14, <3>1
    <3>3. segs[i].offset \in Nat /\ SegEnd(segs[i]) \in Nat
      BY <1>2, <3>1
    <3>4. o \in segs[i].offset .. SegEnd(segs[i]) - 1
      BY <2>1, <2>2, <3>1, <3>3
    <3> QED BY <3>2, <3>4
  <2>3. CASE ~ (left < i /\ o < SegEnd(segs[i]))
    <3>1. o >= stop /\ o >= end0
      <4>1. CASE left < i
        <5>1. SegEnd(segs[i]) \in Nat /\ off <= SegEnd(segs[i])
          BY <1>2, <1>10, <4>1
        <5>2. o >= SegEnd(segs[i])
          BY <2>1, <2>3, <4>1, <5>1
        <5>3. end0 = Later(stop, SegEnd(segs[i]))
          BY <1>10, <4>1
        <5>4. o >= stop
          BY <1>5, <2>1, <5>1, <5>2
        <5> QED BY <5>2, <5>3, <5>4 DEF Later
      <4>2. CASE ~ (left < i)
        BY <1>5, <1>11, <2>1, <4>2
      <4> QED BY <4>1, <4>2
    <3>2. right # i /\ end = SegEnd(segs[right])
      BY <1>12, <1>17, <2>1, <3>1
    <3>3. right \in i + 1 .. right /\ right \in 1 .. n /\ right \in left + 1 .. right
      BY <1>8, <1>5, <1>14, <1>16, <3>2
    <3>4. segs[right].offset <= stop /\ segs[right].offset \in Nat
      BY <1>2, <1>19, <3>3
    <3>5. o \in segs[right].offset .. SegEnd(segs[right]) - 1
      BY <1>5, <1>17, <2>1, <3>1, <3>2, <3>4
    <3> QED BY <3>3, <3>5
  <2> QED BY <2>2, <2>3
<1>22. start = off \/ \E j \in 1 .. n : start = segs[j].offset
  BY <1>10, <1>11
<1>23. left \in 0 .. n /\ right \in left .. n
  BY <1>5, <1>8, <1>14
<1>24. start \in Nat /\ end \in Nat /\ start <= off /\ stop <= end /\ end <= MaxBytes
  BY <1>5, <1>12, <1>17
<1> QED BY <1>13, <1>18, <1>20, <1>21, <1>22, <1>23, <1>24 DEF stop, MergedRange

\* What mergeBytes copies together, and what it returns: the bytes of the new fragment,
\* and elsewhere the old ones.
MergeInput(old, low, off, payload, start, end) ==
  /\ Apart(old, low) /\ off \in Nat /\ payload \in Seq(Nat)
  /\ start \in Nat /\ end \in Nat /\ start <= end

MergedBytes(data, old, off, payload, start, end) ==
  /\ data \in Seq(Nat) /\ Len(data) = end - start
  /\ \A o \in off .. off + Len(payload) - 1 :
       o \in start .. end - 1 => data[o - start + 1] = payload[o - off + 1]
  /\ \A o \in Covered(old) :
       o \in start .. end - 1 /\ o \notin off .. off + Len(payload) - 1
         => data[o - start + 1] = SegByte(old, o)

\* The merged bytes.
LEMMA MergeBytesIs ==
  ASSUME NEW old, NEW low, NEW off, NEW payload, NEW start, NEW end,
         MergeInput(old, low, off, payload, start, end)
  PROVE  MergedBytes(mergeBytes(old, off, payload, start, end),
                     old, off, payload, start, end)
<1> SUFFICES ASSUME Apart(old, low), off \in Nat, payload \in Seq(Nat), start \in Nat,
                    end \in Nat, start <= end
             PROVE  MergedBytes(mergeBytes(old, off, payload, start, end),
                                old, off, payload, start, end)
  BY DEF MergeInput
<1> DEFINE B(o) == IF o \in off .. off + Len(payload) - 1 THEN payload[o - off + 1]
                   ELSE IF o \in Covered(old) THEN SegByte(old, o)
                   ELSE 0
           m == end - start
           data == mergeBytes(old, off, payload, start, end)
<1>1. m \in Nat /\ Len(payload) \in Nat
  OBVIOUS
<1>2. data = [k \in 1 .. m |-> B(start + k - 1)]
  BY DEF mergeBytes
<1> HIDE DEF data
<1>3. ASSUME NEW o \in Int PROVE B(o) \in Nat
  <2>1. CASE o \in off .. off + Len(payload) - 1
    <3>1. o - off + 1 \in 1 .. Len(payload)
      BY <1>1, <2>1
    <3> QED BY <2>1, <3>1
  <2>2. CASE o \notin off .. off + Len(payload) - 1 /\ o \in Covered(old)
    <3>1. PICK j \in DOMAIN old : o \in old[j].offset .. SegEnd(old[j]) - 1
      BY <2>2 DEF Covered
    <3>2. j \in 1 .. Len(old)
      BY <3>1, SegType
    <3>3. SegByte(old, o) \in Nat
      BY <3>1, <3>2, SegByteIs
    <3> QED BY <2>2, <3>3
  <2>3. CASE o \notin off .. off + Len(payload) - 1 /\ o \notin Covered(old)
    BY <2>3
  <2> QED BY <2>1, <2>2, <2>3
<1> HIDE DEF B
<1>4. \A k \in 1 .. m : start + k - 1 \in Int
  BY <1>1
<1>5. data \in Seq(Nat) /\ Len(data) = m
  <2>1. \A k \in 1 .. m : B(start + k - 1) \in Nat
    BY <1>3, <1>4
  <2> HIDE DEF m
  <2> QED BY <1>1, <1>2, <2>1
<1>6. ASSUME NEW o \in start .. end - 1 PROVE data[o - start + 1] = B(o)
  <2>1. o - start + 1 \in 1 .. m /\ start + (o - start + 1) - 1 = o
    OBVIOUS
  <2> HIDE DEF m
  <2> QED BY <1>2, <2>1
<1> QED BY <1>5, <1>6 DEF B, data, MergedBytes

\* A segment that fits in the place of those from left + 1 to right.
Fits(segs, low, left, right, seg) ==
  /\ Apart(segs, low) /\ left \in 0 .. Len(segs) /\ right \in left .. Len(segs)
  /\ seg \in Seg /\ seg.offset > low /\ seg.data # <<>> /\ SegEnd(seg) <= MaxBytes
  /\ \A j \in 1 .. left : SegEnd(segs[j]) < seg.offset
  /\ \A j \in right + 1 .. Len(segs) : segs[j].offset > SegEnd(seg)

\* A list that has it there.
Replaced(segs, left, right, seg, list) ==
  /\ Len(list) = left + 1 + (Len(segs) - right)
  /\ \A j \in 1 .. left : list[j] = segs[j]
  /\ list[left + 1] = seg
  /\ \A j \in left + 2 .. left + 1 + (Len(segs) - right) :
       list[j] = segs[j - left - 1 + right]

\* The list that insert builds has it there, and is again one with gaps.
LEMMA ReplaceIs ==
  ASSUME NEW segs, NEW low, NEW left, NEW right, NEW seg, Fits(segs, low, left, right, seg),
         NEW list,
         list = SubSeq(segs, 1, left) \o <<seg>> \o SubSeq(segs, right + 1, Len(segs))
  PROVE  Apart(list, low) /\ Replaced(segs, left, right, seg, list)
<1> SUFFICES ASSUME Apart(segs, low), left \in 0 .. Len(segs), right \in left .. Len(segs),
                    seg \in Seg, seg.offset > low, seg.data # <<>>, SegEnd(seg) <= MaxBytes,
                    \A j \in 1 .. left : SegEnd(segs[j]) < seg.offset,
                    \A j \in right + 1 .. Len(segs) : segs[j].offset > SegEnd(seg)
             PROVE  Apart(list, low) /\ Replaced(segs, left, right, seg, list)
  BY DEF Fits
<1> DEFINE n == Len(segs)
           a == SubSeq(segs, 1, left)
           z == SubSeq(segs, right + 1, n)
           az == a \o <<seg>>
           m == left + 1 + (n - right)
<1>1. n \in Nat /\ DOMAIN segs = 1 .. n
  BY SegType
<1>2. left \in Nat /\ right \in Nat /\ left <= right /\ right <= n
  BY <1>1
<1>3. Apart(a, low) /\ Len(a) = left /\ \A j \in 1 .. left : a[j] = segs[j]
  <2>1. 1 \in 1 .. Len(segs) + 1 /\ left \in 1 - 1 .. Len(segs)
    BY <1>1, <1>2
  <2>2. Apart(a, low)
    BY <2>1, PartApart
  <2>3. Len(a) = left - 1 + 1
    BY <2>1, PartApart
  <2>4. \A j \in 1 .. left - 1 + 1 : a[j] = segs[1 + j - 1]
    BY <2>1, PartApart
  <2> HIDE DEF a
  <2>5. left - 1 + 1 = left /\ \A j \in 1 .. left : 1 + j - 1 = j
    BY <1>2
  <2> QED BY <2>2, <2>3, <2>4, <2>5
<1>4. Apart(z, low) /\ Len(z) = n - right /\ \A j \in 1 .. n - right : z[j] = segs[right + j]
  <2> DEFINE e == right + 1
             d == n
  <2>1. e \in 1 .. Len(segs) + 1 /\ d \in e - 1 .. Len(segs) /\ z = SubSeq(segs, e, d)
    BY <1>1, <1>2
  <2> HIDE DEF z, e, d
  <2>2. Apart(z, low)
    BY <2>1, PartApart
  <2>3. Len(z) = d - e + 1
    BY <2>1, PartApart
  <2>4. \A j \in 1 .. d - e + 1 : z[j] = segs[e + j - 1]
    BY <2>1, PartApart
  <2> HIDE DEF n
  <2>5. d - e + 1 = n - right
    BY <1>1, <1>2 DEF d, e
  <2>6. ASSUME NEW j \in 1 .. n - right PROVE z[j] = segs[right + j]
    <3>1. e + j - 1 = right + j
      BY <1>2 DEF e
    <3> QED BY <2>4, <2>5, <3>1
  <2> QED BY <2>2, <2>3, <2>5, <2>6
<1>5. a \in Seq(Seg) /\ z \in Seq(Seg) /\ <<seg>> \in Seq(Seg) /\ Len(<<seg>>) = 1
  BY <1>3, <1>4 DEF Apart
<1> HIDE DEF a, z
<1>6. /\ az \in Seq(Seg) /\ Len(az) = left + 1
      /\ \A j \in 1 .. left + 1 : az[j] = IF j <= left THEN a[j] ELSE seg
  <2>1. az \in Seq(Seg) /\ Len(az) = Len(a) + 1
    BY <1>5, ConcatProperties
  <2>2. \A j \in 1 .. Len(a) + 1 : az[j] = IF j <= Len(a) THEN a[j] ELSE <<seg>>[j - Len(a)]
    BY <1>5, ConcatProperties
  <2> HIDE DEF az
  <2>3. \A j \in 1 .. left + 1 : ~ (j <= left) => j - left = 1
    BY <1>2
  <2>4. <<seg>>[1] = seg
    OBVIOUS
  <2> QED BY <1>3, <2>1, <2>2, <2>3, <2>4
<1> HIDE DEF az, n, m
<1>7. /\ list \in Seq(Seg) /\ Len(list) = m
      /\ \A j \in 1 .. m : list[j] = IF j <= left + 1 THEN az[j] ELSE z[j - (left + 1)]
  <2>1. list = az \o z
    BY DEF az, a, z, n
  <2>2. list \in Seq(Seg) /\ Len(list) = Len(az) + Len(z)
    BY <1>5, <1>6, <2>1, ConcatProperties, ZenonT(40)
  <2>3. \A j \in 1 .. Len(az) + Len(z) :
          list[j] = IF j <= Len(az) THEN az[j] ELSE z[j - Len(az)]
    <3>1. \A j \in 1 .. Len(az) + Len(z) :
            (az \o z)[j] = IF j <= Len(az) THEN az[j] ELSE z[j - Len(az)]
      BY <1>5, <1>6, ConcatProperties
    <3> QED BY <2>1, <3>1
  <2>4. Len(az) = left + 1 /\ Len(az) + Len(z) = m
    BY <1>1, <1>2, <1>4, <1>6 DEF m
  <2> QED BY <2>2, <2>3, <2>4
<1>8. m \in Nat /\ m = left + 1 + (n - right)
  BY <1>1, <1>2 DEF m
<1>9. ASSUME NEW j \in 1 .. left PROVE list[j] = segs[j] /\ j \in 1 .. n /\ j \in 1 .. m
  <2>1. j \in 1 .. left + 1 /\ j \in 1 .. m /\ j <= left + 1 /\ j <= left /\ j \in 1 .. n
    BY <1>1, <1>2, <1>8
  <2> QED BY <1>3, <1>6, <1>7, <2>1
<1>10. list[left + 1] = seg /\ left + 1 \in 1 .. m
  <2>1. left + 1 \in 1 .. left + 1 /\ left + 1 \in 1 .. m /\ ~ (left + 1 <= left)
    BY <1>1, <1>2, <1>8
  <2>2. left + 1 <= left + 1
    BY <1>2
  <2>3. list[left + 1] = az[left + 1]
    BY <1>7, <2>1, <2>2
  <2>4. az[left + 1] = seg
    BY <1>6, <2>1
  <2> QED BY <2>1, <2>3, <2>4
<1>11. ASSUME NEW j \in left + 2 .. m
       PROVE  list[j] = segs[j - left - 1 + right] /\ j - left - 1 + right \in right + 1 .. n
              /\ j - left - 1 + right \in 1 .. n
  <2>1. /\ j \in 1 .. m /\ ~ (j <= left + 1) /\ j - (left + 1) \in 1 .. n - right
        /\ right + (j - (left + 1)) = j - left - 1 + right
        /\ j - left - 1 + right \in right + 1 .. n /\ j - left - 1 + right \in 1 .. n
    BY <1>1, <1>2, <1>8
  <2>2. list[j] = z[j - (left + 1)]
    BY <1>7, <2>1
  <2>3. z[j - (left + 1)] = segs[right + (j - (left + 1))]
    BY <1>4, <2>1
  <2> QED BY <2>1, <2>2, <2>3
<1>12. \A j \in 1 .. m : j \in 1 .. left \/ j = left + 1 \/ j \in left + 2 .. m
  BY <1>2, <1>8
<1>13. /\ \A j \in 1 .. n : /\ segs[j].offset > low /\ segs[j].data # <<>>
                            /\ SegEnd(segs[j]) <= MaxBytes
       /\ \A j, l \in 1 .. n : j < l => SegEnd(segs[j]) < segs[l].offset
  BY <1>1 DEF Apart
<1>14. ASSUME NEW j \in 1 .. m
       PROVE  list[j].offset > low /\ list[j].data # <<>> /\ SegEnd(list[j]) <= MaxBytes
  BY <1>9, <1>10, <1>11, <1>12, <1>13
<1>15. ASSUME NEW j \in 1 .. m, NEW l \in 1 .. m, j < l
       PROVE  SegEnd(list[j]) < list[l].offset
  <2>0. left \in Int /\ j \in Int /\ l \in Int
    BY <1>2
  <2>1. CASE j \in 1 .. left /\ l \in 1 .. left
    BY <1>9, <1>13, <1>15, <2>1
  <2>2. CASE j \in 1 .. left /\ l = left + 1
    BY <1>9, <1>10, <2>2
  <2>3. CASE j \in 1 .. left /\ l \in left + 2 .. m
    <3>1. l - left - 1 + right \in right + 1 .. n /\ list[l] = segs[l - left - 1 + right]
      BY <1>11, <2>3
    <3>2. j < l - left - 1 + right /\ l - left - 1 + right \in 1 .. n
      BY <1>1, <1>2, <2>3, <3>1
    <3> QED BY <1>9, <1>13, <2>3, <3>1, <3>2
  <2>4. CASE j = left + 1 /\ l \in left + 2 .. m
    <3>1. l - left - 1 + right \in right + 1 .. n /\ list[l] = segs[l - left - 1 + right]
      BY <1>11, <2>4
    <3>2. segs[l - left - 1 + right].offset > SegEnd(seg)
      BY <3>1 DEF n
    <3>3. segs[l - left - 1 + right].offset \in Nat /\ SegEnd(seg) \in Nat
      <4>1. l - left - 1 + right \in 1 .. n
        BY <1>11, <2>4
      <4>2. \A d \in Seq(Nat) : Len(d) \in Nat
        OBVIOUS
      <4>3. seg.offset \in Nat /\ seg.data \in Seq(Nat)
        BY DEF Seg
      <4>4. SegEnd(seg) \in Nat
        BY <4>2, <4>3 DEF SegEnd
      <4>5. \A k \in 1 .. n : segs[k].offset \in Nat
        BY SegType DEF n
      <4> QED BY <4>1, <4>4, <4>5
    <3>4. SegEnd(seg) < segs[l - left - 1 + right].offset
      BY <3>2, <3>3
    <3> QED BY <1>10, <2>4, <3>1, <3>4
  <2>5. CASE j \in left + 2 .. m /\ l \in left + 2 .. m
    <3>1. j - left - 1 + right < l - left - 1 + right
      BY <1>2, <1>15, <2>0
    <3>2. j - left - 1 + right \in 1 .. n /\ l - left - 1 + right \in 1 .. n
      BY <1>11, <2>5
    <3> QED BY <1>11, <1>13, <2>5, <3>1, <3>2
  <2>6. \/ j \in 1 .. left /\ l \in 1 .. left
        \/ j \in 1 .. left /\ l = left + 1
        \/ j \in 1 .. left /\ l \in left + 2 .. m
        \/ j = left + 1 /\ l \in left + 2 .. m
        \/ j \in left + 2 .. m /\ l \in left + 2 .. m
    BY <1>2, <1>8, <1>15
  <2> QED BY <2>1, <2>2, <2>3, <2>4, <2>5, <2>6
<1>16. DOMAIN list = 1 .. m
  <2>1. \A s \in Seq(Seg) : DOMAIN s = 1 .. Len(s)
    OBVIOUS
  <2> QED BY <1>7, <2>1
<1>17. Apart(list, low)
  BY <1>7, <1>14, <1>15, <1>16 DEF Apart
<1> QED BY <1>7, <1>8, <1>9, <1>10, <1>11, <1>17 DEF m, n, Replaced

\* The bytes of the segments that are not merged.
KeptBytes(segs, left, right) == CoveredIn(segs, 1, left) \cup CoveredIn(segs, right + 1, Len(segs))

\* The bytes of such a list are those of the segments it keeps and of the new one.
LEMMA ReplacedBytes ==
  ASSUME NEW segs, NEW low, NEW left, NEW right, NEW seg, Fits(segs, low, left, right, seg),
         NEW list, Apart(list, low), Replaced(segs, left, right, seg, list)
  PROVE  /\ Covered(list) = KeptBytes(segs, left, right) \cup (seg.offset .. SegEnd(seg) - 1)
         /\ Covered(segs) = KeptBytes(segs, left, right) \cup CoveredIn(segs, left + 1, right)
         /\ \A o \in seg.offset .. SegEnd(seg) - 1 :
              SegByte(list, o) = seg.data[o - seg.offset + 1]
         /\ \A o \in KeptBytes(segs, left, right) : SegByte(list, o) = SegByte(segs, o)
<1> SUFFICES ASSUME Apart(segs, low), left \in 0 .. Len(segs), right \in left .. Len(segs)
             PROVE  /\ Covered(list) = KeptBytes(segs, left, right) \cup (seg.offset .. SegEnd(seg) - 1)
                    /\ Covered(segs) = KeptBytes(segs, left, right)
                                         \cup CoveredIn(segs, left + 1, right)
                    /\ \A o \in seg.offset .. SegEnd(seg) - 1 :
                         SegByte(list, o) = seg.data[o - seg.offset + 1]
                    /\ \A o \in KeptBytes(segs, left, right) : SegByte(list, o) = SegByte(segs, o)
  BY DEF Fits
<1> DEFINE n == Len(segs)
           m == Len(list)
           kept == KeptBytes(segs, left, right)
           iv(s) == s.offset .. SegEnd(s) - 1
<1>1. n \in Nat /\ DOMAIN segs = 1 .. n /\ m \in Nat /\ DOMAIN list = 1 .. m
  BY SegType
<1>2. left \in Nat /\ right \in Nat /\ left <= right /\ right <= n
  BY <1>1
<1>3. /\ m = left + 1 + (n - right)
      /\ \A j \in 1 .. left : list[j] = segs[j]
      /\ list[left + 1] = seg
      /\ \A j \in left + 2 .. m : list[j] = segs[j - left - 1 + right]
  BY DEF Replaced
<1> HIDE DEF n, m
<1>4. \A j \in 1 .. left : j \in 1 .. m /\ j \in 1 .. n
  BY <1>1, <1>2, <1>3
<1>5. left + 1 \in 1 .. m
  BY <1>1, <1>2, <1>3
<1>6. \A j \in left + 2 .. m : /\ j \in 1 .. m /\ j - left - 1 + right \in right + 1 .. n
                               /\ j - left - 1 + right \in 1 .. n
  BY <1>1, <1>2, <1>3
<1>7. \A j \in right + 1 .. n : /\ j \in 1 .. n /\ j + left + 1 - right \in left + 2 .. m
                                /\ j + left + 1 - right - left - 1 + right = j
  BY <1>1, <1>2, <1>3
<1>8. \A o : o \in kept <=> \/ \E j \in 1 .. left : o \in iv(segs[j])
                            \/ \E j \in right + 1 .. n : o \in iv(segs[j])
  BY DEF CoveredIn, KeptBytes, n
<1> HIDE DEF kept
<1>9. \A o : o \in Covered(list) <=> \E j \in 1 .. m : o \in iv(list[j])
  BY <1>1 DEF Covered
<1>10. \A o : o \in Covered(segs) <=> \E j \in 1 .. n : o \in iv(segs[j])
  BY <1>1 DEF Covered
<1>11. \A o : o \in CoveredIn(segs, left + 1, right)
                <=> \E j \in left + 1 .. right : o \in iv(segs[j])
  BY DEF CoveredIn
<1>12. \A j \in 1 .. m : \A o \in iv(list[j]) :
         SegByte(list, o) = list[j].data[o - list[j].offset + 1]
  BY SegByteIs DEF m
<1>13. \A j \in 1 .. n : \A o \in iv(segs[j]) :
         SegByte(segs, o) = segs[j].data[o - segs[j].offset + 1]
  BY SegByteIs DEF n
<1> HIDE DEF iv
<1>14. ASSUME NEW o \in kept
       PROVE  o \in Covered(list) /\ o \in Covered(segs) /\ SegByte(list, o) = SegByte(segs, o)
  <2>1. CASE \E j \in 1 .. left : o \in iv(segs[j])
    <3>1. PICK j \in 1 .. left : o \in iv(segs[j])
      BY <2>1
    <3>2. j \in 1 .. m /\ j \in 1 .. n /\ list[j] = segs[j]
      BY <1>3, <1>4
    <3> QED BY <1>9, <1>10, <1>12, <1>13, <3>1, <3>2
  <2>2. CASE \E j \in right + 1 .. n : o \in iv(segs[j])
    <3>1. PICK j \in right + 1 .. n : o \in iv(segs[j])
      BY <2>2
    <3> DEFINE l == j + left + 1 - right
    <3>2. j \in 1 .. n /\ l \in left + 2 .. m /\ l - left - 1 + right = j
      BY <1>7
    <3> HIDE DEF l
    <3>3. l \in 1 .. m /\ list[l] = segs[j]
      BY <1>3, <1>6, <3>2
    <3> QED BY <1>9, <1>10, <1>12, <1>13, <3>1, <3>2, <3>3
  <2> QED BY <1>8, <2>1, <2>2
<1>15. ASSUME NEW o \in iv(seg)
       PROVE  o \in Covered(list) /\ SegByte(list, o) = seg.data[o - seg.offset + 1]
  BY <1>3, <1>5, <1>9, <1>12
<1>16. ASSUME NEW o \in Covered(list) PROVE o \in kept \cup iv(seg)
  <2>1. PICK j \in 1 .. m : o \in iv(list[j])
    BY <1>9
  <2>2. j \in 1 .. left \/ j = left + 1 \/ j \in left + 2 .. m
    BY <1>1, <1>2
  <2>3. CASE j \in 1 .. left
    BY <1>3, <1>8, <2>1, <2>3
  <2>4. CASE j = left + 1
    BY <1>3, <2>1, <2>4
  <2>5. CASE j \in left + 2 .. m
    BY <1>3, <1>6, <1>8, <2>1, <2>5
  <2> QED BY <2>2, <2>3, <2>4, <2>5
<1>17. ASSUME NEW o PROVE o \in Covered(segs) <=> o \in kept \cup CoveredIn(segs, left + 1, right)
  <2>1. ASSUME o \in Covered(segs)
        PROVE  o \in kept \cup CoveredIn(segs, left + 1, right)
    <3>1. PICK j \in 1 .. n : o \in iv(segs[j])
      BY <1>10, <2>1
    <3>2. j \in 1 .. left \/ j \in left + 1 .. right \/ j \in right + 1 .. n
      BY <1>1, <1>2
    <3> QED BY <1>8, <1>11, <3>1, <3>2
  <2>2. ASSUME o \in CoveredIn(segs, left + 1, right) PROVE o \in Covered(segs)
    <3>1. PICK j \in left + 1 .. right : o \in iv(segs[j])
      BY <1>11, <2>2
    <3>2. j \in 1 .. n
      BY <1>1, <1>2
    <3> QED BY <1>10, <3>1, <3>2
  <2> QED BY <1>14, <2>1, <2>2
<1>18. Covered(list) = kept \cup iv(seg)
  BY <1>14, <1>15, <1>16
<1>19. Covered(segs) = kept \cup CoveredIn(segs, left + 1, right)
  BY <1>17
<1>20. \A o \in iv(seg) : SegByte(list, o) = seg.data[o - seg.offset + 1]
  BY <1>15
<1>21. \A o \in kept : SegByte(list, o) = SegByte(segs, o)
  BY <1>14
<1> QED BY <1>18, <1>19, <1>20, <1>21 DEF iv, kept

\* Beyond a bound, and so beyond the offset before it.
LEMMA ApartWeaker ==
  ASSUME NEW segs, NEW low \in Int, Apart(segs, low)
  PROVE  Apart(segs, low - 1)
<1>1. DOMAIN segs = 1 .. Len(segs) /\ \A j \in 1 .. Len(segs) : segs[j].offset \in Nat
  BY SegType
<1>2. \A j \in DOMAIN segs : segs[j].offset > low /\ segs[j].data # <<>>
  BY DEF Apart
<1>3. \A j \in DOMAIN segs : segs[j].offset > low - 1 /\ segs[j].data # <<>>
  BY <1>1, <1>2
<1> QED BY <1>3 DEF Apart

\* A fragment at or beyond the end of the prefix, and within the buffer.
FragmentFits(buf, off, payload) ==
  /\ Counted(buf, buf.contigLen) /\ off \in Nat /\ off >= buf.contigLen
  /\ payload \in Seq(Nat) /\ Len(payload) >= 1 /\ off + Len(payload) <= MaxBytes

\* It is stored: the bytes it covers are the fragment's, the others stay as they were, the
\* count stays exact, and the flag tells whether it touched stored segments.
Taken(buf, r, off, payload) ==
  LET frag == off .. off + Len(payload) - 1
  IN /\ r.err = "stored" /\ Counted(r.buf, r.buf.contigLen)
     /\ Stored(r.buf) = Stored(buf) \cup frag
     /\ \A o \in Stored(r.buf) :
          ByteAt(r.buf, o) = IF o \in frag THEN payload[o - off + 1] ELSE ByteAt(buf, o)
     /\ r.buf.hadOutOfOrder = buf.hadOutOfOrder
     /\ r.buf.hadOverlap <=> \/ buf.hadOverlap
                             \/ \E o \in Covered(buf.segments) :
                                  o >= off - 1 /\ o <= off + Len(payload)

\* insert always stores such a fragment: it never finds the buffer full.
LEMMA InsertIs ==
  ASSUME NEW buf, NEW off, NEW payload, FragmentFits(buf, off, payload),
         NEW r, r = insert(buf, off, payload)
  PROVE  Taken(buf, r, off, payload)
<1> SUFFICES ASSUME Counted(buf, buf.contigLen), off \in Nat, off >= buf.contigLen,
                    payload \in Seq(Nat), Len(payload) >= 1,
                    off + Len(payload) <= MaxBytes,
                    NEW x, x = r.buf, NEW frag, frag = off .. off + Len(payload) - 1
             PROVE  /\ r.err = "stored" /\ Counted(x, x.contigLen)
                    /\ Stored(x) = Stored(buf) \cup frag
                    /\ \A o \in Stored(x) :
                         ByteAt(x, o) = IF o \in frag THEN payload[o - off + 1]
                                        ELSE ByteAt(buf, o)
                    /\ x.hadOutOfOrder = buf.hadOutOfOrder
                    /\ x.hadOverlap <=> \/ buf.hadOverlap
                                        \/ \E o \in Covered(buf.segments) :
                                             o >= off - 1 /\ o <= off + Len(payload)
  BY DEF FragmentFits, Taken
<1> DEFINE segs == buf.segments
           n == Len(segs)
           c == buf.contigLen
           len == Len(payload)
           i == Before(segs, off)
           left == keptLeft(segs, off)
           start == IF left < i /\ segs[i].offset < off THEN segs[i].offset ELSE off
           end0 == IF left < i THEN Later(off + len, SegEnd(segs[i])) ELSE off + len
           right == absorbRight(segs, i, end0)
           end == MergedEnd(segs, i, right, end0)
           old == SubSeq(segs, left + 1, right)
           merged == mergeBytes(old, off, payload, start, end)
           count == buf.totalBytes - LenSum(old) + Len(merged)
           marked == [buf EXCEPT !.hadOverlap = @ \/ right > left]
           seg == [offset |-> start, data |-> merged]
           list == SubSeq(segs, 1, left) \o <<seg>> \o SubSeq(segs, right + 1, n)
           mid == [marked EXCEPT !.segments = list, !.totalBytes = count]
           low == c - 1
           kept == KeptBytes(segs, left, right)
           part == CoveredIn(segs, left + 1, right)
           iv == start .. end - 1
<1>1. /\ buf \in Buf /\ c = Len(buf.contig) /\ c <= MaxBytes /\ Apart(segs, c)
      /\ buf.totalBytes = c + Cardinality(Covered(segs))
  BY DEF Counted
<1>2. c \in Nat /\ len \in Nat /\ len >= 1 /\ off + len <= MaxBytes /\ MaxBytes \in Nat
  BY <1>1, SeqSpaceAssumption, BufferAssumption DEF Buf
<1>3. r = IF count > MaxBytes THEN [buf |-> marked, err |-> "full"]
          ELSE [buf |-> compact(mid), err |-> "stored"]
  BY DEF insert
<1>4. Apart(segs, low)
  BY <1>1, <1>2, ApartWeaker
<1>5. n \in Nat /\ DOMAIN segs = 1 .. n
      /\ \A j \in 1 .. n : /\ segs[j].offset \in Nat /\ SegEnd(segs[j]) \in Nat
                           /\ segs[j].offset < SegEnd(segs[j])
                           /\ segs[j].offset > c
  <2>1. \A j \in DOMAIN segs : segs[j].offset > c
    BY <1>1 DEF Apart
  <2> QED BY <1>1, <2>1, SegType
<1> HIDE DEF segs, c, len, i, left, start, end0, right, end
<1>6. /\ left \in 0 .. n /\ right \in left .. n
      /\ start \in Nat /\ end \in Nat /\ start <= off /\ off + len <= end
      /\ end <= MaxBytes
      /\ start = off \/ \E j \in 1 .. n : start = segs[j].offset
      /\ \A j \in 1 .. left : SegEnd(segs[j]) < start
      /\ \A j \in right + 1 .. n : segs[j].offset > end
      /\ \A j \in left + 1 .. right :
           /\ start <= segs[j].offset /\ SegEnd(segs[j]) <= end
           /\ segs[j].offset <= off + len /\ SegEnd(segs[j]) >= off
      /\ \A o \in start .. end - 1 :
           \/ o \in off .. off + len - 1
           \/ \E j \in left + 1 .. right : o \in segs[j].offset .. SegEnd(segs[j]) - 1
  <2>1. Merging(segs, c, off, len, i, left, start, end0, right, end)
    BY <1>1, <1>2 DEF Merging, i, left, start, end0, right, end
  <2> HIDE DEF n
  <2>2. MergedRange(segs, off, len, left, start, right, end)
    BY <2>1, MergeRange
  <2> QED BY <2>2 DEF MergedRange, n
<1>7. left \in Nat /\ right \in Nat /\ left <= right /\ right <= n
  BY <1>5, <1>6
<1>8. start >= c
  BY SMTT(20), <1>2, <1>5, <1>6 DEF c
<1>9. start < end
  BY <1>2, <1>6
<1>10. Apart(old, low) /\ Covered(old) = part
  <2> DEFINE a == left + 1
  <2>1. a \in 1 .. Len(segs) + 1 /\ right \in a - 1 .. Len(segs)
    BY <1>5, <1>7
  <2>2. old = SubSeq(segs, a, right)
    OBVIOUS
  <2> HIDE DEF old, a
  <2>3. Apart(old, low)
    BY <1>4, <2>1, <2>2, PartApart
  <2>4. Covered(old) = CoveredIn(segs, a, right)
    BY <1>4, <2>1, <2>2, PartApart, ZenonT(40)
  <2> QED BY <2>3, <2>4 DEF a
<1> HIDE DEF old, low, n
<1>11. /\ merged \in Seq(Nat) /\ Len(merged) = end - start
       /\ \A o \in frag : o \in iv => merged[o - start + 1] = payload[o - off + 1]
       /\ \A o \in part : o \in iv /\ o \notin frag => merged[o - start + 1] = SegByte(old, o)
  <2>1. MergeInput(old, low, off, payload, start, end)
    BY <1>6, <1>9, <1>10 DEF MergeInput
  <2>2. MergedBytes(merged, old, off, payload, start, end)
    BY <2>1, MergeBytesIs
  <2> HIDE DEF merged
  <2> QED BY <1>10, <2>2 DEF MergedBytes
<1> HIDE DEF merged
<1>12. /\ seg \in Seg /\ seg.offset = start /\ seg.data = merged /\ seg.offset > low
       /\ seg.data # <<>> /\ SegEnd(seg) = end
  <2>1. seg.offset = start /\ seg.data = merged /\ seg \in Seg
    BY <1>6, <1>11 DEF Seg
  <2> HIDE DEF seg
  <2>2. SegEnd(seg) = end
    <3>1. start \in Nat /\ end \in Nat /\ Len(merged) = end - start
      BY <1>6, <1>11
    <3>2. SegEnd(seg) = start + Len(merged)
      BY <2>1 DEF SegEnd
    <3> QED BY <3>1, <3>2
  <2>3. Len(merged) # 0
    BY <1>6, <1>9, <1>11
  <2>4. merged # <<>>
    BY <2>3
  <2>5. start > low
    BY <1>2, <1>6, <1>8 DEF low
  <2> QED BY <2>1, <2>2, <2>4, <2>5
<1> HIDE DEF seg
<1>13. /\ Fits(segs, low, left, right, seg) /\ Apart(list, low)
       /\ Replaced(segs, left, right, seg, list)
  <2>1. Fits(segs, low, left, right, seg)
    BY <1>4, <1>6, <1>12 DEF Fits, n
  <2>2. list = SubSeq(segs, 1, left) \o <<seg>> \o SubSeq(segs, right + 1, Len(segs))
    BY DEF n
  <2> HIDE DEF list
  <2> QED BY <2>1, <2>2, ReplaceIs
<1> HIDE DEF list
<1>14. /\ Covered(list) = kept \cup iv /\ Covered(segs) = kept \cup part
       /\ \A o \in iv : SegByte(list, o) = merged[o - start + 1]
       /\ \A o \in kept : SegByte(list, o) = SegByte(segs, o)
  <2>1. /\ Covered(list) = kept \cup (seg.offset .. SegEnd(seg) - 1)
        /\ Covered(segs) = kept \cup CoveredIn(segs, left + 1, right)
        /\ \A o \in seg.offset .. SegEnd(seg) - 1 :
              SegByte(list, o) = seg.data[o - seg.offset + 1]
        /\ \A o \in kept : SegByte(list, o) = SegByte(segs, o)
    BY <1>13, ReplacedBytes
  <2> HIDE DEF kept
  <2> QED BY <1>12, <2>1
<1>15. \A o \in kept : o \in Nat /\ (o < start - 1 \/ o > end)
  <2> SUFFICES ASSUME NEW o \in kept PROVE o \in Nat /\ (o < start - 1 \/ o > end)
    OBVIOUS
  <2>1. CASE o \in CoveredIn(segs, 1, left)
    <3>1. PICK j \in 1 .. left : o \in segs[j].offset .. SegEnd(segs[j]) - 1
      BY <2>1 DEF CoveredIn
    <3>2. j \in 1 .. n /\ SegEnd(segs[j]) < start /\ start \in Nat
      BY <1>5, <1>6, <1>7
    <3>3. segs[j].offset \in Nat /\ SegEnd(segs[j]) \in Nat
      BY <1>5, <3>2
    <3> QED BY <3>1, <3>2, <3>3
  <2>2. CASE o \in CoveredIn(segs, right + 1, n)
    <3>1. PICK j \in right + 1 .. n : o \in segs[j].offset .. SegEnd(segs[j]) - 1
      BY <2>2 DEF CoveredIn
    <3>2. j \in 1 .. n /\ segs[j].offset > end /\ end \in Nat
      BY <1>5, <1>6, <1>7
    <3>3. segs[j].offset \in Nat /\ SegEnd(segs[j]) \in Nat
      BY <1>5, <3>2
    <3> QED BY SMTT(20), <3>1, <3>2, <3>3
  <2> QED BY <2>1, <2>2 DEF KeptBytes, n
<1>16. \A o \in part : \E j \in left + 1 .. right :
         j \in 1 .. n /\ o \in segs[j].offset .. SegEnd(segs[j]) - 1
  BY <1>5, <1>7 DEF CoveredIn
<1>17. part \subseteq iv
  <2> SUFFICES ASSUME NEW o \in part PROVE o \in iv
    OBVIOUS
  <2>1. PICK j \in left + 1 .. right : j \in 1 .. n /\ o \in segs[j].offset .. SegEnd(segs[j]) - 1
    BY <1>16
  <2>2. start <= segs[j].offset /\ SegEnd(segs[j]) <= end
    BY <1>6
  <2>3. /\ start \in Nat /\ end \in Nat
        /\ segs[j].offset \in Nat /\ SegEnd(segs[j]) \in Nat
    BY <1>5, <1>6, <2>1
  <2>4. o \in segs[j].offset .. SegEnd(segs[j]) - 1
    BY <2>1
  <2> HIDE DEF segs
  <2> QED BY <2>2, <2>3, <2>4
<1>18. iv = part \cup frag
  <2>1. ASSUME NEW o \in iv PROVE o \in part \cup frag
    <3>1. \/ o \in off .. off + len - 1
          \/ \E j \in left + 1 .. right : o \in segs[j].offset .. SegEnd(segs[j]) - 1
      BY <1>6
    <3> QED BY <3>1 DEF CoveredIn, len
  <2>2. frag \subseteq iv
    BY <1>2, <1>6 DEF len
  <2> QED BY <1>17, <2>1, <2>2
<1>19. kept \cap iv = {} /\ kept \cap part = {}
  <2>1. kept \cap iv = {}
    BY <1>6, <1>15
  <2> QED BY <1>17, <2>1
<1>20. IsFiniteSet(iv) /\ Cardinality(iv) = end - start
  <2>1. \A a, d \in Int : IsFiniteSet(a .. d) /\ Cardinality(a .. d) = IF a > d THEN 0 ELSE d - a + 1
    BY FS_Interval
  <2>2. start \in Int /\ end - 1 \in Int
    BY <1>6
  <2>3. IsFiniteSet(iv) /\ Cardinality(iv) = IF start > end - 1 THEN 0 ELSE end - 1 - start + 1
    BY <2>1, <2>2
  <2> HIDE DEF iv
  <2> QED BY <1>6, <1>9, <2>3
<1>21. /\ IsFiniteSet(Covered(segs)) /\ IsFiniteSet(Covered(list)) /\ IsFiniteSet(part)
       /\ Cardinality(Covered(segs)) \in Nat /\ Cardinality(Covered(list)) \in Nat
       /\ Cardinality(part) \in Nat
  BY <1>4, <1>10, <1>13, CoveredType
<1> HIDE DEF kept, part, iv
<1>22. IsFiniteSet(kept) /\ Cardinality(kept) \in Nat
  <2>1. kept \subseteq Covered(segs)
    BY <1>14
  <2> QED BY <1>21, <2>1, FS_Subset, FS_CardinalityType
<1>23. /\ Cardinality(Covered(segs)) = Cardinality(kept) + Cardinality(part)
       /\ Cardinality(Covered(list)) = Cardinality(kept) + (end - start)
  <2>1. Cardinality({}) = 0
    BY FS_EmptySet
  <2>2. Cardinality(kept \cup part) = Cardinality(kept) + Cardinality(part) - Cardinality({})
    BY <1>19, <1>21, <1>22, FS_Union
  <2>3. Cardinality(kept \cup iv) = Cardinality(kept) + Cardinality(iv) - Cardinality({})
    BY <1>19, <1>20, <1>22, FS_Union
  <2> QED BY <1>6, <1>14, <1>20, <1>21, <1>22, <2>1, <2>2, <2>3
<1>24. LenSum(old) = Cardinality(part)
  BY <1>10, LenSumIs
<1>25. count = c + Cardinality(Covered(list))
  <2>1. buf.totalBytes = c + Cardinality(Covered(segs))
    BY <1>1
  <2> DEFINE cs == Cardinality(Covered(segs))
             cl == Cardinality(Covered(list))
             cp == Cardinality(part)
             ck == Cardinality(kept)
  <2>2. c \in Nat /\ start \in Nat /\ end \in Nat /\ cs \in Nat /\ cl \in Nat /\ cp \in Nat
        /\ ck \in Nat
    BY <1>2, <1>6, <1>21, <1>22
  <2>3. cs = ck + cp /\ cl = ck + (end - start)
    BY <1>23
  <2>4. count = (c + cs) - cp + (end - start)
    BY <1>11, <1>24, <2>1
  <2> HIDE DEF cs, cl, cp, ck, count
  <2>5. count = c + cl
    BY <2>2, <2>3, <2>4
  <2> QED BY <2>5 DEF cl
<1>26. Cardinality(Covered(list)) <= MaxBytes - c
  <2>1. \A o \in Covered(list) : o \in Nat /\ o < MaxBytes
    BY <1>13, CoveredType
  <2>2. \A o \in Covered(list) : o >= c
    <3> SUFFICES ASSUME NEW o \in Covered(list) PROVE o >= c
      OBVIOUS
    <3>1. PICK j \in DOMAIN list : o \in list[j].offset .. SegEnd(list[j]) - 1
      BY DEF Covered
    <3>2. list[j].offset > low
      BY <1>13 DEF Apart
    <3>3. list[j].offset \in Nat /\ SegEnd(list[j]) \in Nat
      BY <1>13, <3>1, SegType
    <3> QED BY <1>2, <3>1, <3>2, <3>3 DEF low
  <2> DEFINE all == c .. MaxBytes - 1
  <2>3. Covered(list) \subseteq all
    BY <1>2, <2>1, <2>2
  <2>4. \A a, d \in Int : IsFiniteSet(a .. d) /\ Cardinality(a .. d) = IF a > d THEN 0 ELSE d - a + 1
    BY FS_Interval
  <2>5. IsFiniteSet(all) /\ Cardinality(all) = IF c > MaxBytes - 1 THEN 0 ELSE MaxBytes - 1 - c + 1
    <3>1. c \in Int /\ MaxBytes - 1 \in Int
      BY <1>2
    <3> QED BY <2>4, <3>1
  <2> HIDE DEF all
  <2>6. Cardinality(Covered(list)) <= Cardinality(all)
    BY <2>3, <2>5, FS_Subset
  <2>7. c <= MaxBytes
    BY <1>1
  <2>8. Cardinality(all) = MaxBytes - c
    BY <1>2, <2>5, <2>7
  <2> QED BY <2>6, <2>8
<1>27. count <= MaxBytes /\ count \in Int
  BY <1>2, <1>21, <1>25, <1>26
<1> HIDE DEF count
<1>28. r.err = "stored" /\ x = compact(mid)
  <2>1. ~ (count > MaxBytes)
    BY <1>2, <1>27
  <2> HIDE DEF mid, marked
  <2> QED BY <1>3, <2>1
<1>29. /\ mid \in Buf /\ mid.contig = buf.contig /\ mid.contigLen = c
       /\ mid.totalBytes = count /\ mid.segments = list
       /\ mid.hadOutOfOrder = buf.hadOutOfOrder
       /\ mid.hadOverlap <=> buf.hadOverlap \/ right > left
  <2>1. list \in Seq(Seg)
    BY <1>13 DEF Apart
  <2> QED BY <1>1, <1>27, <2>1 DEF Buf, c
<1> HIDE DEF mid
<1>30. Counted(mid, mid.contigLen - 1)
  BY <1>1, <1>13, <1>25, <1>29 DEF Counted, low
<1>31. /\ Counted(x, x.contigLen) /\ Stored(x) = Stored(mid)
       /\ \A o \in Stored(mid) : ByteAt(x, o) = ByteAt(mid, o)
       /\ x.hadOutOfOrder = mid.hadOutOfOrder /\ x.hadOverlap = mid.hadOverlap
  BY <1>28, <1>30, CompactIs
<1>32. Stored(mid) = Stored(buf) \cup frag
  BY <1>14, <1>18, <1>29 DEF Stored, c, segs
<1>33. ASSUME NEW o \in Stored(mid)
       PROVE  ByteAt(mid, o) = IF o \in frag THEN payload[o - off + 1] ELSE ByteAt(buf, o)
  <2>1. ByteAt(mid, o) = IF o < c THEN buf.contig[o + 1] ELSE SegByte(list, o)
    BY <1>29 DEF ByteAt
  <2>2. ByteAt(buf, o) = IF o < c THEN buf.contig[o + 1] ELSE SegByte(segs, o)
    BY DEF ByteAt, c, segs
  <2>3. o \in (0 .. c - 1) \cup (kept \cup iv)
    BY <1>14, <1>29 DEF Stored
  <2>4. CASE o \in 0 .. c - 1
    <3>1. o < c /\ o \notin frag
      BY <1>2, <2>4 DEF c
    <3> QED BY <2>1, <2>2, <3>1
  <2>5. CASE o \in kept
    <3>1. o \notin frag
      BY <1>18, <1>19, <2>5
    <3> QED BY <1>14, <2>1, <2>2, <2>5, <3>1
  <2>6. CASE o \in iv
    <3>1. ~ (o < c)
      BY <1>2, <1>6, <1>8, <2>6 DEF iv
    <3>2. SegByte(list, o) = merged[o - start + 1]
      BY <1>14, <2>6
    <3>3. CASE o \in frag
      BY <1>11, <2>1, <2>6, <3>1, <3>2, <3>3
    <3>4. CASE o \notin frag
      <4>1. o \in part
        BY <1>18, <2>6, <3>4
      <4>2. merged[o - start + 1] = SegByte(old, o)
        BY <1>11, <2>6, <3>4, <4>1
      <4>3. SegByte(old, o) = SegByte(segs, o)
        <5> DEFINE a == left + 1
        <5>1. a \in 1 .. Len(segs) + 1 /\ right \in a - 1 .. Len(segs)
          BY <1>5, <1>7 DEF n
        <5>2. old = SubSeq(segs, a, right)
          BY DEF old
        <5>3. PICK j \in left + 1 .. right :
                j \in 1 .. n /\ o \in segs[j].offset .. SegEnd(segs[j]) - 1
          BY <1>16, <4>1
        <5> HIDE DEF a
        <5>4. Len(old) = right - a + 1
          BY <1>4, <5>1, <5>2, PartApart
        <5>5. \A l \in 1 .. right - a + 1 : old[l] = segs[a + l - 1]
          BY <1>4, <5>1, <5>2, PartApart
        <5>6. j - left \in 1 .. Len(old) /\ old[j - left] = segs[j]
          <6>1. j - left \in 1 .. right - a + 1 /\ a + (j - left) - 1 = j
            BY <1>7 DEF a
          <6> QED BY <5>4, <5>5, <6>1
        <5>7. SegByte(segs, o) = segs[j].data[o - segs[j].offset + 1]
          BY <1>4, <5>3, SegByteIs DEF n
        <5>8. SegByte(old, o) = segs[j].data[o - segs[j].offset + 1]
          <6> DEFINE l == j - left
          <6>1. l \in 1 .. Len(old) /\ o \in old[l].offset .. SegEnd(old[l]) - 1
            BY <5>3, <5>6
          <6> HIDE DEF l
          <6>2. SegByte(old, o) = old[l].data[o - old[l].offset + 1]
            BY <1>10, <6>1, SegByteIs
          <6> QED BY <5>6, <6>2 DEF l
        <5> QED BY <5>7, <5>8
      <4> QED BY <2>1, <2>2, <3>1, <3>2, <3>4, <4>2, <4>3
    <3> QED BY <3>3, <3>4
  <2> QED BY <2>3, <2>4, <2>5, <2>6
<1>34. right > left <=> \E o \in Covered(segs) : o >= off - 1 /\ o <= off + len
  <2>1. ASSUME right > left
        PROVE  \E o \in Covered(segs) : o >= off - 1 /\ o <= off + len
    <3> DEFINE j == left + 1
               o == IF segs[j].offset >= off - 1 THEN segs[j].offset ELSE off - 1
    <3>1. j \in left + 1 .. right /\ j \in 1 .. n
      BY <1>5, <1>7, <2>1
    <3>2. /\ segs[j].offset <= off + len /\ SegEnd(segs[j]) >= off
          /\ segs[j].offset \in Nat /\ SegEnd(segs[j]) \in Nat
          /\ segs[j].offset < SegEnd(segs[j])
      BY <1>5, <1>6, <3>1
    <3> HIDE DEF j
    <3>3. o \in segs[j].offset .. SegEnd(segs[j]) - 1 /\ o >= off - 1 /\ o <= off + len
      BY SMTT(20), <1>2, <3>2
    <3> HIDE DEF o
    <3>4. o \in Covered(segs)
      BY <1>5, <3>1, <3>3 DEF Covered
    <3> QED BY <3>3, <3>4
  <2>2. ASSUME NEW o \in Covered(segs), o >= off - 1, o <= off + len
        PROVE  right > left
    <3>1. CASE o \in part
      <4>1. PICK j \in left + 1 .. right : j \in 1 .. n
        BY <1>16, <3>1
      <4> QED BY <1>7, <4>1
    <3>2. CASE o \in kept
      <4>1. o \in Nat /\ (o < start - 1 \/ o > end)
        BY <1>15, <3>2
      <4>2. FALSE
        BY SMTT(20), <1>2, <1>6, <2>2, <4>1
      <4> QED BY <4>2
    <3> QED BY <1>14, <3>1, <3>2
  <2> QED BY <2>1, <2>2
<1>35. \A o \in Stored(x) :
         ByteAt(x, o) = IF o \in frag THEN payload[o - off + 1] ELSE ByteAt(buf, o)
  BY <1>31, <1>33
<1>36. x.hadOverlap <=> \/ buf.hadOverlap
                        \/ \E o \in Covered(segs) : o >= off - 1 /\ o <= off + len
  BY <1>29, <1>31, <1>34
<1> QED BY <1>28, <1>29, <1>31, <1>32, <1>35, <1>36 DEF segs, len

\* The prefix of the buffer is that of the set of its offsets.
LEMMA StoredIs ==
  ASSUME NEW buf, Counted(buf, buf.contigLen)
  PROVE  /\ Stored(buf) \subseteq Nat /\ \A o \in Stored(buf) : o < MaxBytes
         /\ PrefixLen(Stored(buf), MaxBytes) = buf.contigLen
         /\ \A o \in Stored(buf) : o >= buf.contigLen <=> o \in Covered(buf.segments)
         /\ \A o \in Covered(buf.segments) : o \in Nat /\ o > buf.contigLen
<1> DEFINE c == buf.contigLen
           S == Stored(buf)
           C == Covered(buf.segments)
           p == PrefixLen(S, MaxBytes)
<1>1. /\ c \in Nat /\ c <= MaxBytes /\ MaxBytes \in Nat /\ Apart(buf.segments, c)
  BY SeqSpaceAssumption, BufferAssumption DEF Counted, Buf
<1>2. \A o \in C : o \in Nat /\ o < MaxBytes
  BY <1>1, CoveredType
<1>3. \A o \in C : o > c
  <2> SUFFICES ASSUME NEW o \in C PROVE o > c
    OBVIOUS
  <2>1. PICK j \in DOMAIN buf.segments :
          o \in buf.segments[j].offset .. SegEnd(buf.segments[j]) - 1
    BY DEF Covered
  <2>2. buf.segments[j].offset > c
    BY <1>1 DEF Apart
  <2>3. buf.segments[j].offset \in Nat /\ SegEnd(buf.segments[j]) \in Nat
    BY <1>1, <2>1, SegType
  <2> QED BY <1>1, <2>1, <2>2, <2>3
<1>4. S = (0 .. c - 1) \cup C
  BY DEF Stored
<1> HIDE DEF S, C
<1>5. S \in SUBSET Nat /\ \A o \in S : o < MaxBytes
  BY <1>1, <1>2, <1>4
<1>6. p \in 0 .. MaxBytes /\ p \notin S /\ \A l \in 0 .. p - 1 : l \in S
  BY <1>1, <1>5, PrefixLenType
<1> HIDE DEF p
<1>7. p = c
  <2>1. c \notin S /\ \A l \in 0 .. c - 1 : l \in S
    BY <1>1, <1>3, <1>4
  <2>2. ~ (c < p)
    BY <1>1, <1>6, <2>1
  <2>3. ~ (p < c)
    BY <1>1, <1>6, <2>1
  <2> QED BY <1>1, <1>6, <2>2, <2>3
<1>8. \A o \in S : o >= c <=> o \in C
  BY <1>1, <1>3, <1>4
<1> QED BY <1>2, <1>3, <1>5, <1>7, <1>8 DEF S, C, p

\* What Push answers and leaves in terms of the window of bytes.
PushedLike(buf, r, off, payload) ==
  LET S == Stored(buf)
      len == Len(payload)
      x == r.buf
  IN /\ r.err = PushResult(S, MaxBytes, off, len)
     /\ Counted(x, x.contigLen)
     /\ Stored(x) = PushOffsets(S, MaxBytes, off, len)
     /\ \A o \in Stored(x) :
          ByteAt(x, o) = IF /\ r.err = "stored" /\ o >= buf.contigLen
                            /\ o \in off .. off + len - 1
                           THEN payload[o - off + 1] ELSE ByteAt(buf, o)
     /\ x.hadOutOfOrder <=> buf.hadOutOfOrder \/ PushOutOfOrder(S, MaxBytes, off, len)
     /\ x.hadOverlap <=> buf.hadOverlap \/ PushOverlaps(S, MaxBytes, off, len)

\* A fragment beyond the prefix, whichever way Push takes it.
StoreBeyond(buf, off, payload) ==
  IF off = buf.contigLen /\ buf.segments = <<>>
    THEN IF buf.totalBytes + Len(payload) > MaxBytes
           THEN [buf |-> buf, err |-> "full"]
           ELSE [buf |-> [buf EXCEPT !.contig = @ \o payload,
                                     !.contigLen = @ + Len(payload),
                                     !.totalBytes = @ + Len(payload)],
                 err |-> "stored"]
    ELSE insert(buf, off, payload)

\* It is stored like by insert: an empty list has no bytes, and the fragment then
\* extends the prefix.
LEMMA StoreBeyondIs ==
  ASSUME NEW buf, NEW off, NEW payload, FragmentFits(buf, off, payload),
         NEW r, r = StoreBeyond(buf, off, payload)
  PROVE  Taken(buf, r, off, payload)
<1> SUFFICES ASSUME Counted(buf, buf.contigLen), off \in Nat, off >= buf.contigLen,
                    payload \in Seq(Nat), Len(payload) >= 1,
                    off + Len(payload) <= MaxBytes,
                    NEW x, x = r.buf, NEW frag, frag = off .. off + Len(payload) - 1
             PROVE  /\ r.err = "stored" /\ Counted(x, x.contigLen)
                    /\ Stored(x) = Stored(buf) \cup frag
                    /\ \A o \in Stored(x) :
                         ByteAt(x, o) = IF o \in frag THEN payload[o - off + 1]
                                        ELSE ByteAt(buf, o)
                    /\ x.hadOutOfOrder = buf.hadOutOfOrder
                    /\ x.hadOverlap <=> \/ buf.hadOverlap
                                        \/ \E o \in Covered(buf.segments) :
                                             o >= off - 1 /\ o <= off + Len(payload)
  BY DEF FragmentFits, Taken
<1> DEFINE c == buf.contigLen
           len == Len(payload)
<1>1. /\ buf \in Buf /\ c = Len(buf.contig) /\ c <= MaxBytes /\ Apart(buf.segments, c)
      /\ buf.totalBytes = c + Cardinality(Covered(buf.segments))
  BY DEF Counted
<1>2. c \in Nat /\ len \in Nat /\ MaxBytes \in Nat /\ buf.contig \in Seq(Nat)
  BY <1>1, SeqSpaceAssumption, BufferAssumption DEF Buf
<1>3. CASE ~ (off = c /\ buf.segments = <<>>)
  <2>1. Taken(buf, r, off, payload)
    BY <1>3, InsertIs DEF StoreBeyond
  <2> QED BY <2>1 DEF Taken
<1>4. CASE off = c /\ buf.segments = <<>>
  <2>1. Covered(buf.segments) = {}
    BY <1>4 DEF Covered
  <2>2. buf.totalBytes = c
    BY <1>1, <1>2, <2>1, FS_EmptySet
  <2>3. ~ (buf.totalBytes + len > MaxBytes)
    BY <1>2, <1>4, <2>2
  <2> DEFINE cat == buf.contig \o payload
             cl == c + len
             tb == buf.totalBytes + len
  <2>4. r = [buf |-> [buf EXCEPT !.contig = cat, !.contigLen = cl, !.totalBytes = tb],
             err |-> "stored"]
    BY <1>4, <2>3 DEF StoreBeyond
  <2>5. /\ r.err = "stored" /\ x.contig = cat /\ x.contigLen = cl
        /\ x.totalBytes = tb /\ x.segments = buf.segments
        /\ x.hadOutOfOrder = buf.hadOutOfOrder /\ x.hadOverlap = buf.hadOverlap
        /\ x \in [contig : {x.contig}, contigLen : {x.contigLen}, totalBytes : {x.totalBytes},
                  segments : {x.segments}, hadOutOfOrder : {x.hadOutOfOrder},
                  hadOverlap : {x.hadOverlap}]
    <3> HIDE DEF cat, cl, tb, c, len
    <3>1. /\ r.err = "stored"
          /\ x = [buf EXCEPT !.contig = cat, !.contigLen = cl, !.totalBytes = tb]
      BY <2>4
    <3> QED BY <1>1, <3>1 DEF Buf
  <2>6. /\ buf.contig \o payload \in Seq(Nat) /\ Len(buf.contig \o payload) = c + len
        /\ \A k \in 1 .. c + len :
             (buf.contig \o payload)[k] = IF k <= c THEN buf.contig[k] ELSE payload[k - c]
    BY <1>1, <1>2, ConcatProperties
  <2>7. /\ x.contig \in Seq(Nat) /\ Len(x.contig) = c + len
        /\ \A k \in 1 .. c + len :
             x.contig[k] = IF k <= c THEN buf.contig[k] ELSE payload[k - c]
    BY <2>5, <2>6
  <2> HIDE DEF cat
  <2>8. Counted(x, x.contigLen)
    <3>1. x \in Buf
      <4>1. x.contigLen \in Nat /\ x.totalBytes \in Int
        BY <1>2, <2>2, <2>5
      <4>2. x.segments \in Seq(Seg) /\ x.hadOutOfOrder \in BOOLEAN /\ x.hadOverlap \in BOOLEAN
        BY <1>1, <2>5 DEF Buf
      <4> HIDE DEF cl, tb, c, len
      <4> QED BY <2>5, <2>7, <4>1, <4>2 DEF Buf
    <3>2. Apart(x.segments, x.contigLen)
      <4>1. DOMAIN x.segments = {}
        BY <1>4, <2>5
      <4>2. x.segments \in Seq(Seg)
        BY <1>1, <2>5 DEF Apart
      <4> QED BY <4>1, <4>2 DEF Apart
    <3>3. x.totalBytes = x.contigLen + Cardinality(Covered(x.segments))
      <4>1. Cardinality(Covered(x.segments)) = 0
        BY <2>1, <2>5, FS_EmptySet
      <4> QED BY <1>2, <2>2, <2>5, <4>1
    <3>4. x.contigLen = Len(x.contig) /\ x.contigLen <= MaxBytes
      BY <1>4, <2>5, <2>7
    <3> QED BY <3>1, <3>2, <3>3, <3>4 DEF Counted
  <2>9. Stored(x) = 0 .. c + len - 1 /\ Stored(buf) = 0 .. c - 1
    <3>1. Covered(x.segments) = {} /\ x.contigLen = c + len
      BY <2>1, <2>5
    <3>2. Stored(x) = (0 .. c + len - 1) \cup {} /\ Stored(buf) = (0 .. c - 1) \cup {}
      <4>1. Stored(x) = (0 .. x.contigLen - 1) \cup Covered(x.segments)
        BY DEF Stored
      <4>2. Stored(buf) = (0 .. c - 1) \cup Covered(buf.segments)
        BY DEF Stored
      <4>3. c \in Nat /\ len \in Nat
        BY <1>2
      <4> HIDE DEF c, len
      <4> QED BY <2>1, <3>1, <4>1, <4>2, <4>3
    <3> QED BY <3>2
  <2>10. Stored(x) = Stored(buf) \cup frag
    <3>1. frag = c .. c + len - 1 /\ c \in Nat /\ len \in Nat
      BY <1>2, <1>4
    <3> HIDE DEF c, len
    <3> QED BY <2>9, <3>1
  <2>11. ASSUME NEW o \in Stored(x)
         PROVE  ByteAt(x, o) = IF o \in frag THEN payload[o - off + 1] ELSE ByteAt(buf, o)
    <3>1. o \in Int /\ 0 <= o /\ o < c + len /\ o + 1 \in 1 .. c + len
      BY SMTT(20), <1>2, <2>9
    <3>2. ByteAt(x, o) = x.contig[o + 1]
      BY <2>5, <3>1 DEF ByteAt
    <3>3. o \in frag <=> ~ (o < c)
      BY <1>2, <1>4, <3>1
    <3>4. o + 1 <= c <=> o < c
      BY <1>2, <3>1
    <3>5. o < c => ByteAt(buf, o) = buf.contig[o + 1]
      BY DEF ByteAt
    <3>6. o + 1 - c = o - off + 1
      BY <1>2, <1>4, <3>1
    <3>7. x.contig[o + 1] = IF o + 1 <= c THEN buf.contig[o + 1] ELSE payload[o + 1 - c]
      <4> DEFINE k == o + 1
      <4>1. k \in 1 .. c + len /\ c \in Int /\ o \in Int
        BY <1>2, <3>1
      <4> HIDE DEF k, c, len
      <4>2. x.contig[k] = IF k <= c THEN buf.contig[k] ELSE payload[k - c]
        BY <2>7, <4>1
      <4> QED BY <4>1, <4>2 DEF k
    <3> QED BY <3>2, <3>3, <3>4, <3>5, <3>6, <3>7
  <2>12. x.hadOverlap <=> \/ buf.hadOverlap
                          \/ \E o \in Covered(buf.segments) :
                               o >= off - 1 /\ o <= off + Len(payload)
    BY <2>1, <2>5
  <2> QED BY <2>5, <2>8, <2>10, <2>11, <2>12
<1> QED BY <1>3, <1>4

\* The same buffer but for the flags.
SameBytes(x, buf) ==
  /\ x \in Buf /\ x.contig = buf.contig /\ x.contigLen = buf.contigLen
  /\ x.totalBytes = buf.totalBytes /\ x.segments = buf.segments

\* It has the same bytes.
LEMMA SameBytesIs ==
  ASSUME NEW buf, Counted(buf, buf.contigLen), NEW x, SameBytes(x, buf)
  PROVE  /\ Counted(x, x.contigLen) /\ Stored(x) = Stored(buf)
         /\ \A o : ByteAt(x, o) = ByteAt(buf, o)
<1>1. Counted(x, x.contigLen)
  BY DEF Counted, SameBytes
<1>2. Stored(x) = Stored(buf)
  BY DEF Stored, SameBytes
<1>3. ASSUME NEW o PROVE ByteAt(x, o) = ByteAt(buf, o)
  BY DEF ByteAt, SameBytes
<1> QED BY <1>1, <1>2, <1>3

\* A fragment is refused with err, and x is what is left of the buffer.
Refused(buf, x, err, off, payload) ==
  /\ Counted(buf, buf.contigLen) /\ SameBytes(x, buf) /\ err # "stored"
  /\ err = PushResult(Stored(buf), MaxBytes, off, Len(payload))
  /\ x.hadOutOfOrder = buf.hadOutOfOrder
  /\ x.hadOverlap <=> \/ buf.hadOverlap
                      \/ PushOverlaps(Stored(buf), MaxBytes, off, Len(payload))

\* It changes at most the overlap flag.
LEMMA RefusedIs ==
  ASSUME NEW buf, NEW x, NEW err, NEW off, NEW payload,
         Refused(buf, x, err, off, payload), NEW r, r = [buf |-> x, err |-> err]
  PROVE  PushedLike(buf, r, off, payload)
<1> SUFFICES ASSUME Counted(buf, buf.contigLen), SameBytes(x, buf), err # "stored",
                    err = PushResult(Stored(buf), MaxBytes, off, Len(payload)),
                    x.hadOutOfOrder = buf.hadOutOfOrder,
                    x.hadOverlap <=> \/ buf.hadOverlap
                                     \/ PushOverlaps(Stored(buf), MaxBytes, off, Len(payload))
             PROVE  PushedLike(buf, r, off, payload)
  BY DEF Refused
<1> DEFINE S == Stored(buf)
           len == Len(payload)
<1>1. r.err = err /\ r.buf = x
  OBVIOUS
<1>2. Counted(x, x.contigLen) /\ Stored(x) = S /\ \A o : ByteAt(x, o) = ByteAt(buf, o)
  BY SameBytesIs
<1>3. PushOffsets(S, MaxBytes, off, len) = S
  BY DEF PushOffsets
<1>4. ~ PushOutOfOrder(S, MaxBytes, off, len)
  BY DEF PushOutOfOrder
<1>5. /\ x.hadOutOfOrder <=> \/ buf.hadOutOfOrder
                             \/ PushOutOfOrder(S, MaxBytes, off, len)
      /\ x.hadOverlap <=> buf.hadOverlap \/ PushOverlaps(S, MaxBytes, off, len)
  BY <1>4
<1>6. \A o \in Stored(x) :
        ByteAt(x, o) = IF /\ err = "stored" /\ o >= buf.contigLen
                          /\ o \in off .. off + len - 1
                         THEN payload[o - off + 1] ELSE ByteAt(buf, o)
  BY <1>2
<1> HIDE DEF S, len
<1>7. /\ r.err = PushResult(S, MaxBytes, off, len)
      /\ Counted(r.buf, r.buf.contigLen)
      /\ Stored(r.buf) = PushOffsets(S, MaxBytes, off, len)
      /\ \A o \in Stored(r.buf) :
           ByteAt(r.buf, o) = IF /\ r.err = "stored" /\ o >= buf.contigLen
                                 /\ o \in off .. off + len - 1
                                THEN payload[o - off + 1] ELSE ByteAt(buf, o)
      /\ r.buf.hadOutOfOrder <=> \/ buf.hadOutOfOrder
                                 \/ PushOutOfOrder(S, MaxBytes, off, len)
      /\ r.buf.hadOverlap <=> buf.hadOverlap \/ PushOverlaps(S, MaxBytes, off, len)
  BY <1>1, <1>2, <1>3, <1>5, <1>6 DEF S, len
<1> QED BY <1>7 DEF PushedLike, S, len

\* A fragment that does not overflow ends where the sum says.
LEMMA EndIs ==
  ASSUME NEW off \in 0 .. SeqSpace - 1, NEW len \in 1 .. SeqSpace - 1
  PROVE  /\ (off + len) % SeqSpace \in 0 .. SeqSpace - 1
         /\ (off + len) % SeqSpace >= off => (off + len) % SeqSpace = off + len
<1> DEFINE n == off + len
<1>1. n \in Int /\ SeqSpace \in Nat /\ SeqSpace >= 1
  BY SeqSpaceAssumption
<1>2. n % SeqSpace \in 0 .. SeqSpace - 1
  BY <1>1, Remainder, Zenon
<1>3. CASE n < SeqSpace
  <2>1. n \in 0 .. SeqSpace - 1
    BY <1>1, <1>3
  <2>2. n % SeqSpace = n
    BY <1>1, <2>1, ModSmall
  <2> QED BY <1>2, <2>2
<1>4. CASE ~ (n < SeqSpace)
  <2> DEFINE m == n - SeqSpace
  <2>1. m \in 0 .. SeqSpace - 1 /\ n = 1 * SeqSpace + m /\ m < off
    BY <1>1, <1>4
  <2>2. n % SeqSpace = m
    <3> HIDE DEF n, m
    <3> QED BY <1>1, <2>1, RemainderIs
  <2> QED BY <1>1, <1>2, <2>1, <2>2
<1> QED BY <1>3, <1>4

\* Push of any fragment does to the buffer what the window of bytes says.
LEMMA PushIs ==
  ASSUME NEW buf, Counted(buf, buf.contigLen), NEW seq \in 0 .. SeqSpace - 1,
         NEW len \in 1 .. MaxFragment, NEW payload0 \in [1 .. len -> Byte],
         NEW r, r = Push(buf, seq, payload0)
  PROVE  PushedLike(buf, r, (seq - BaseSeq) % SeqSpace, payload0)
<1> DEFINE off == (seq - BaseSeq) % SeqSpace
           n == Len(payload0)
           c == buf.contigLen
           stop == (off + n) % SeqSpace
           S == Stored(buf)
           trims == off < c
           at == IF trims THEN c ELSE off
           data == IF trims THEN SubSeq(payload0, c - off + 1, n) ELSE payload0
           buf1 == [buf EXCEPT !.hadOverlap = @ \/ trims]
           buf2 == markOrder(buf1, at)
<1> SUFFICES PushedLike(buf, r, off, payload0)
  OBVIOUS
<1>1. /\ SeqSpace \in Nat /\ SeqSpace >= 1 /\ MaxBytes \in Nat /\ MaxBytes < SeqSpace
      /\ BaseSeq \in Int /\ MaxFragment \in Nat /\ MaxFragment < SeqSpace /\ Byte \subseteq Nat
  BY SeqSpaceAssumption, BufferAssumption
<1>2. off \in 0 .. SeqSpace - 1
  <2>1. seq - BaseSeq \in Int
    BY <1>1
  <2> QED BY <1>1, <2>1, Remainder, Zenon
<1>3. payload0 \in Seq(Nat) /\ n = len /\ n \in 1 .. SeqSpace - 1
  <2>1. payload0 \in [1 .. len -> Nat] /\ len \in Nat
    <3>1. len \in Nat
      BY <1>1
    <3>2. \A k \in 1 .. len : payload0[k] \in Nat
      BY <1>1
    <3>3. payload0 = [k \in 1 .. len |-> payload0[k]]
      OBVIOUS
    <3> QED BY <3>1, <3>2, <3>3
  <2>2. payload0 \in Seq(Nat) /\ n = len
    BY <2>1
  <2> QED BY <1>1, <2>2
<1>4. /\ buf \in Buf /\ c \in Nat /\ c = Len(buf.contig) /\ c <= MaxBytes
      /\ buf.totalBytes \in Int
  BY DEF Counted, Buf
<1>5. /\ S \subseteq Nat /\ \A o \in S : o < MaxBytes
      /\ PrefixLen(S, MaxBytes) = c
      /\ \A o \in S : o >= c <=> o \in Covered(buf.segments)
      /\ \A o \in Covered(buf.segments) : o \in Nat /\ o > c
  BY StoredIs
<1> DEFINE far == StoreBeyond(buf2, at, data)
<1>6. /\ SameBytes(buf1, buf) /\ buf1.hadOutOfOrder = buf.hadOutOfOrder
      /\ buf1.hadOverlap <=> buf.hadOverlap \/ trims
  <2> HIDE DEF trims
  <2> QED BY <1>4 DEF Buf, SameBytes
<1>7. /\ SameBytes(buf2, buf)
      /\ buf2.hadOutOfOrder <=> buf.hadOutOfOrder \/ at # c
      /\ buf2.hadOverlap <=> buf.hadOverlap \/ trims
  <2>1. buf1 \in Buf /\ buf1.contigLen = c
    BY <1>6 DEF SameBytes
  <2> HIDE DEF buf1, at, trims
  <2>2. /\ buf2 \in Buf /\ buf2.contig = buf1.contig /\ buf2.contigLen = buf1.contigLen
        /\ buf2.totalBytes = buf1.totalBytes /\ buf2.segments = buf1.segments
        /\ buf2.hadOverlap = buf1.hadOverlap
        /\ buf2.hadOutOfOrder <=> buf1.hadOutOfOrder \/ at # c
    BY <2>1 DEF Buf, markOrder
  <2> HIDE DEF buf2
  <2> QED BY <1>6, <2>2 DEF SameBytes
<1>8. r = IF MaxBytes = 0 THEN [buf |-> buf, err |-> "full"]
          ELSE IF off >= MaxBytes THEN [buf |-> buf, err |-> "window"]
          ELSE IF stop < off THEN [buf |-> buf, err |-> "full"]
          ELSE IF stop <= c THEN [buf |-> buf, err |-> "dup"]
          ELSE IF stop > MaxBytes THEN [buf |-> buf1, err |-> "full"]
          ELSE far
  <2>1. /\ buf2.contigLen = c /\ buf2.segments = buf.segments
        /\ buf2.totalBytes = buf.totalBytes
    BY <1>7 DEF SameBytes
  <2>2. far = IF at = c /\ buf.segments = <<>>
                THEN IF buf.totalBytes + Len(data) > MaxBytes
                       THEN [buf |-> buf2, err |-> "full"]
                       ELSE [buf |-> [buf2 EXCEPT !.contig = @ \o data,
                                                  !.contigLen = @ + Len(data),
                                                  !.totalBytes = @ + Len(data)],
                             err |-> "stored"]
                ELSE insert(buf2, at, data)
    <3> HIDE DEF buf2, at, data
    <3> QED BY <2>1 DEF StoreBeyond
  <2> HIDE DEF far
  <2> QED BY <2>2 DEF Push, overflows
<1> HIDE DEF far, buf1, buf2, at, data, off, n, S, stop
<1>9. /\ PushResult(S, MaxBytes, off, n) =
           IF MaxBytes = 0 THEN "full"
           ELSE IF off >= MaxBytes THEN "window"
           ELSE IF stop < off THEN "full"
           ELSE IF off + n <= c THEN "dup"
           ELSE IF off + n > MaxBytes THEN "full"
           ELSE "stored"
      /\ PushOffsets(S, MaxBytes, off, n) =
           IF PushResult(S, MaxBytes, off, n) = "stored"
             THEN S \cup (off .. off + n - 1) ELSE S
      /\ PushOutOfOrder(S, MaxBytes, off, n)
           <=> PushResult(S, MaxBytes, off, n) = "stored" /\ off > c
      /\ PushOverlaps(S, MaxBytes, off, n)
           <=> \/ MaxBytes # 0 /\ off < c /\ stop >= off /\ off + n > c
               \/ /\ PushResult(S, MaxBytes, off, n) = "stored"
                  /\ \E o \in S : o >= c /\ o >= Later(off, c) - 1 /\ o <= off + n
  <2> HIDE DEF c
  <2>1. PrefixLen(S, MaxBytes) = c
    BY <1>5
  <2>2. PushResult(S, MaxBytes, off, n) =
           IF MaxBytes = 0 THEN "full"
           ELSE IF off >= MaxBytes THEN "window"
           ELSE IF stop < off THEN "full"
           ELSE IF off + n <= c THEN "dup"
           ELSE IF off + n > MaxBytes THEN "full"
           ELSE "stored"
    BY <2>1 DEF PushResult, stop
  <2>3. PushOffsets(S, MaxBytes, off, n) =
           IF PushResult(S, MaxBytes, off, n) = "stored"
             THEN S \cup (off .. off + n - 1) ELSE S
    BY DEF PushOffsets
  <2>4. PushOutOfOrder(S, MaxBytes, off, n)
           <=> PushResult(S, MaxBytes, off, n) = "stored" /\ off > c
    BY <2>1 DEF PushOutOfOrder
  <2>5. PushOverlaps(S, MaxBytes, off, n)
           <=> \/ MaxBytes # 0 /\ off < c /\ stop >= off /\ off + n > c
               \/ /\ PushResult(S, MaxBytes, off, n) = "stored"
                  /\ \E o \in S : o >= c /\ o >= Later(off, c) - 1 /\ o <= off + n
    BY <2>1 DEF PushOverlaps, stop
  <2> QED BY <2>2, <2>3, <2>4, <2>5
<1>10. /\ stop \in 0 .. SeqSpace - 1
       /\ stop >= off => stop = off + n
  BY <1>2, <1>3, EndIs DEF stop
<1>11. SameBytes(buf, buf)
  BY <1>4 DEF SameBytes
<1> DEFINE refusal == PushResult(S, MaxBytes, off, n)
<1>13. CASE MaxBytes = 0 \/ off >= MaxBytes \/ stop < off \/ off + n <= c
  <2>1. refusal # "stored"
    BY <1>9, <1>13
  <2>2. ~ PushOverlaps(S, MaxBytes, off, n)
    BY <1>1, <1>2, <1>3, <1>4, <1>9, <1>10, <1>13, <2>1
  <2>3. r = [buf |-> buf, err |-> refusal]
    BY <1>1, <1>2, <1>3, <1>4, <1>8, <1>9, <1>10, <1>13
  <2>4. Refused(buf, buf, refusal, off, payload0)
    BY <1>11, <2>1, <2>2 DEF Refused, S, n
  <2> HIDE DEF refusal
  <2> QED BY <2>3, <2>4, RefusedIs
<1>14. CASE /\ MaxBytes # 0 /\ ~ (off >= MaxBytes) /\ ~ (stop < off) /\ ~ (off + n <= c)
            /\ off + n > MaxBytes
  <2>1. stop = off + n
    BY <1>1, <1>2, <1>10, <1>14
  <2>2. refusal = "full" /\ r = [buf |-> buf1, err |-> "full"]
    BY <1>8, <1>9, <1>14, <2>1
  <2>3. PushOverlaps(S, MaxBytes, off, n) <=> trims
    BY <1>1, <1>2, <1>3, <1>4, <1>9, <1>10, <1>14, <2>2
  <2>4. buf1.hadOverlap <=> buf.hadOverlap \/ PushOverlaps(S, MaxBytes, off, n)
    BY <1>6, <2>3
  <2>5. Refused(buf, buf1, refusal, off, payload0)
    <3> HIDE DEF trims
    <3> QED BY <1>6, <2>2, <2>4 DEF Refused, S, n
  <2> HIDE DEF refusal
  <2> QED BY <2>2, <2>5, RefusedIs
<1>15. CASE /\ MaxBytes # 0 /\ ~ (off >= MaxBytes) /\ ~ (stop < off) /\ ~ (off + n <= c)
            /\ ~ (off + n > MaxBytes)
  <2>1. stop = off + n
    BY <1>1, <1>2, <1>10, <1>15
  <2>2. refusal = "stored" /\ r = far
    BY <1>8, <1>9, <1>15, <2>1
  <2>3. /\ at \in Nat /\ at >= c /\ data \in Seq(Nat) /\ Len(data) = off + n - at
        /\ Len(data) >= 1 /\ at + Len(data) = off + n /\ at + Len(data) <= MaxBytes
        /\ at = Later(off, c)
        /\ \A k \in 1 .. off + n - at : data[k] = payload0[k + at - off]
    <3>1. CASE trims
      <4>1. at = c /\ data = SubSeq(payload0, c - off + 1, n)
        BY <3>1 DEF at, data
      <4>2. c - off + 1 \in 1 .. n + 1 /\ n \in Nat /\ c - off + 1 <= n
        BY <1>2, <1>3, <1>4, <1>15, <3>1
      <4>3. \A k \in c - off + 1 .. n : payload0[k] \in Nat
        <5>1. \A k \in c - off + 1 .. n : k \in 1 .. Len(payload0)
          BY <4>2 DEF n
        <5>2. \A k \in 1 .. Len(payload0) : payload0[k] \in Nat
          BY <1>3
        <5> QED BY <5>1, <5>2
      <4> DEFINE a == c - off + 1
      <4>4. a \in Nat /\ n \in Nat /\ a >= 1 /\ a <= n
        BY <4>2
      <4> HIDE DEF a
      <4>5. /\ SubSeq(payload0, a, n) \in Seq(Nat)
            /\ Len(SubSeq(payload0, a, n)) = n - a + 1
            /\ \A k \in 1 .. n - a + 1 : SubSeq(payload0, a, n)[k] = payload0[a + k - 1]
        BY <4>3, <4>4, SubSeqProperties DEF a
      <4>6. /\ data \in Seq(Nat) /\ Len(data) = n - a + 1
            /\ \A k \in 1 .. n - a + 1 : data[k] = payload0[a + k - 1]
        BY <4>1, <4>5 DEF a
      <4>7. n - a + 1 = off + n - at
        BY <1>2, <1>3, <1>4, <4>1 DEF a
      <4>8. \A k \in 1 .. off + n - at : data[k] = payload0[k + at - off]
        <5> SUFFICES ASSUME NEW k \in 1 .. off + n - at PROVE data[k] = payload0[k + at - off]
          OBVIOUS
        <5>1. a + k - 1 = k + at - off
          BY <1>2, <1>3, <1>4, <4>1 DEF a
        <5> QED BY <4>6, <4>7, <5>1
      <4>9. at \in Nat /\ at >= c /\ at = Later(off, c)
        BY <1>2, <1>4, <3>1, <4>1 DEF Later
      <4>10. Len(data) = off + n - at /\ data \in Seq(Nat)
        BY <4>6, <4>7
      <4>11. Len(data) >= 1 /\ at + Len(data) = off + n
        <5>1. off \in Int /\ n \in Int /\ at \in Int /\ off + n > at
          BY <1>2, <1>3, <1>4, <1>15, <4>1
        <5> QED BY <4>10, <5>1
      <4>12. off + n <= MaxBytes
        BY <1>1, <1>2, <1>3, <1>15
      <4> QED BY <4>8, <4>9, <4>10, <4>11, <4>12
    <3>2. CASE ~ trims
      <4>1. at = off /\ data = payload0
        BY <3>2 DEF at, data
      <4>2. Len(data) = n
        BY <4>1 DEF n
      <4>3. at \in Nat /\ at >= c /\ at = Later(off, c)
        BY <1>2, <1>4, <3>2, <4>1 DEF Later
      <4>4. \A k \in 1 .. off + n - at : data[k] = payload0[k + at - off]
        <5> SUFFICES ASSUME NEW k \in 1 .. off + n - at PROVE data[k] = payload0[k + at - off]
          OBVIOUS
        <5>1. k + at - off = k
          BY <1>2, <1>3, <4>1
        <5> QED BY <4>1, <5>1
      <4>5. Len(data) = off + n - at /\ Len(data) >= 1 /\ at + Len(data) = off + n
        BY <1>2, <1>3, <4>1, <4>2
      <4>6. off + n <= MaxBytes
        BY <1>1, <1>2, <1>3, <1>15
      <4> QED BY <1>3, <4>1, <4>3, <4>4, <4>5, <4>6
    <3> QED BY <3>1, <3>2
  <2> DEFINE x == r.buf
             frag == at .. off + n - 1
  <2>4. /\ Counted(buf2, buf2.contigLen) /\ buf2.contigLen = c
        /\ Stored(buf2) = S /\ \A o : ByteAt(buf2, o) = ByteAt(buf, o)
        /\ Covered(buf2.segments) = Covered(buf.segments)
    <3>1. SameBytes(buf2, buf)
      BY <1>7
    <3> QED BY <3>1, SameBytesIs DEF S, SameBytes
  <2> DEFINE meets == \E o \in Covered(buf2.segments) : o >= at - 1 /\ o <= at + Len(data)
  <2>5. /\ r.err = "stored" /\ Counted(x, x.contigLen)
        /\ Stored(x) = S \cup frag
        /\ \A o \in Stored(x) :
             ByteAt(x, o) = IF o \in frag THEN data[o - at + 1] ELSE ByteAt(buf, o)
        /\ x.hadOutOfOrder = buf2.hadOutOfOrder
        /\ x.hadOverlap <=> buf2.hadOverlap \/ meets
    <3>1. r = StoreBeyond(buf2, at, data)
      BY <2>2 DEF far
    <3>2. at >= buf2.contigLen
      BY <2>3, <2>4
    <3>3. FragmentFits(buf2, at, data)
      BY <2>3, <2>4, <3>2 DEF FragmentFits
    <3>4. Taken(buf2, r, at, data)
      BY <3>1, <3>3, StoreBeyondIs
    <3>5. frag = at .. at + Len(data) - 1
      <4>1. off + n - 1 = at + Len(data) - 1
        <5>1. off \in Int /\ n \in Int /\ at \in Int /\ Len(data) \in Int
          BY <1>2, <1>3, <2>3
        <5>2. off + n = at + Len(data)
          BY <2>3
        <5> QED BY <5>1, <5>2
      <4> QED BY <4>1
    <3> HIDE DEF frag, meets
    <3>6. /\ r.err = "stored" /\ Counted(x, x.contigLen)
          /\ Stored(x) = Stored(buf2) \cup frag
          /\ \A o \in Stored(x) :
               ByteAt(x, o) = IF o \in frag THEN data[o - at + 1] ELSE ByteAt(buf2, o)
          /\ x.hadOutOfOrder = buf2.hadOutOfOrder
          /\ x.hadOverlap <=> buf2.hadOverlap \/ meets
      BY <3>4, <3>5 DEF Taken, meets
    <3> HIDE DEF x
    <3> QED BY <2>4, <3>6
  <2> HIDE DEF x
  <2>13. /\ off \in Nat /\ n \in Nat /\ c \in Nat
        /\ \A o : o \in frag <=> o \in off .. off + n - 1 /\ o >= c
    <3>1. off \in Nat /\ n \in Nat /\ c \in Nat
      BY <1>2, <1>3, <1>4
    <3>2. at = IF off > c THEN off ELSE c
      BY <2>3 DEF Later
    <3> HIDE DEF c
    <3> QED BY <3>1, <3>2
  <2> HIDE DEF frag
  <2>6. Stored(x) = PushOffsets(S, MaxBytes, off, n)
    <3>1. PushOffsets(S, MaxBytes, off, n) = S \cup (off .. off + n - 1)
      BY <1>9, <2>2
    <3>2. 0 .. c - 1 \subseteq S
      BY DEF Stored, S
    <3>3. S \cup frag = S \cup (off .. off + n - 1)
      <4>1. ASSUME NEW o \in off .. off + n - 1, o \notin frag PROVE o \in S
        <5>1. o \in 0 .. c - 1
          BY <2>13, <4>1
        <5> QED BY <3>2, <5>1
      <4> QED BY <2>13, <4>1
    <3> QED BY <2>5, <3>1, <3>3
  <2>7. ASSUME NEW o \in Stored(x)
        PROVE  ByteAt(x, o) = IF /\ r.err = "stored" /\ o >= c /\ o \in off .. off + n - 1
                              THEN payload0[o - off + 1] ELSE ByteAt(buf, o)
    <3>0. o \in Nat
      <4>1. o \in S \/ o \in frag
        BY <2>5
      <4>2. o \in frag => o \in off .. off + n - 1
        BY <2>13
      <4>3. \A d \in off .. off + n - 1 : d \in Nat
        BY <2>13
      <4> QED BY <1>5, <4>1, <4>2, <4>3
    <3>1. o \in frag <=> o >= c /\ o \in off .. off + n - 1
      BY <2>13
    <3>2. ASSUME o \in frag PROVE data[o - at + 1] = payload0[o - off + 1]
      <4> DEFINE k == o - at + 1
      <4>1. k \in 1 .. off + n - at /\ k + at - off = o - off + 1
        <5>1. o \in at .. off + n - 1
          BY <3>2 DEF frag
        <5>2. at \in Nat /\ off \in Nat /\ n \in Nat
          BY <2>3, <2>13
        <5> QED BY <3>0, <5>1, <5>2
      <4> HIDE DEF k
      <4>2. data[k] = payload0[k + at - off]
        BY <2>3, <4>1
      <4> QED BY <4>1, <4>2 DEF k
    <3> HIDE DEF frag
    <3> QED BY <2>5, <3>1, <3>2
  <2>8. x.hadOutOfOrder <=> buf.hadOutOfOrder \/ PushOutOfOrder(S, MaxBytes, off, n)
    <3>1. PushOutOfOrder(S, MaxBytes, off, n) <=> off > c
      BY <1>9, <2>2
    <3>2. at # c <=> off > c
      BY <1>2, <1>4, <2>3 DEF Later
    <3> QED BY <1>7, <2>5, <3>1, <3>2
  <2>9. meets <=> \E o \in S : o >= c /\ o >= Later(off, c) - 1 /\ o <= off + n
    <3>1. ASSUME NEW o \in Covered(buf.segments), o >= at - 1, o <= off + n
          PROVE  o \in S /\ o >= c
      <4>1. o \in S
        BY DEF Stored, S
      <4> QED BY <1>5, <4>1
    <3>2. \A o \in S : o >= c => o \in Covered(buf.segments)
      BY <1>5
    <3>3. at = Later(off, c) /\ at + Len(data) = off + n
      BY <2>3
    <3> QED BY <2>4, <3>1, <3>2, <3>3
  <2>10. PushOverlaps(S, MaxBytes, off, n) <=> trims \/ meets
    <3>1. MaxBytes # 0 /\ stop >= off /\ off + n > c
      BY <1>1, <1>2, <1>3, <1>4, <1>10, <1>15, <2>1
    <3> HIDE DEF meets, refusal
    <3> QED BY <1>9, <2>2, <2>9, <3>1 DEF refusal
  <2>11. x.hadOverlap <=> buf.hadOverlap \/ PushOverlaps(S, MaxBytes, off, n)
    <3> HIDE DEF meets, trims
    <3> QED BY <1>7, <2>5, <2>10
  <2>12. r.err = PushResult(S, MaxBytes, off, n) /\ Counted(x, x.contigLen)
    BY <2>2, <2>5
  <2> HIDE DEF c
  <2> QED BY <2>6, <2>7, <2>8, <2>11, <2>12 DEF PushedLike, x, S, n, c
<1>16. \/ MaxBytes = 0 \/ off >= MaxBytes \/ stop < off \/ off + n <= c
       \/ /\ MaxBytes # 0 /\ ~ (off >= MaxBytes) /\ ~ (stop < off) /\ ~ (off + n <= c)
          /\ off + n > MaxBytes
       \/ /\ MaxBytes # 0 /\ ~ (off >= MaxBytes) /\ ~ (stop < off) /\ ~ (off + n <= c)
          /\ ~ (off + n > MaxBytes)
  OBVIOUS
<1> HIDE DEF refusal
<1> QED BY <1>13, <1>14, <1>15, <1>16

\* The buffer after any calls of Push: its segments have gaps and lie beyond the prefix and
\* within the limit, its bytes are natural numbers, and they are counted exactly.
BufInv == Counted(buffer, buffer.contigLen)

\* New is such a buffer, and has no bytes.
LEMMA NewIs == Counted(New, New.contigLen) /\ Stored(New) = {}
<1>1. /\ New.contig = <<>> /\ New.contigLen = 0 /\ New.totalBytes = 0 /\ New.segments = <<>>
      /\ New \in Buf
  BY DEF New, Buf
<1>2. DOMAIN New.segments = {} /\ New.segments \in Seq(Seg)
  BY <1>1
<1>3. Covered(New.segments) = {}
  BY <1>2 DEF Covered
<1>4. Apart(New.segments, New.contigLen)
  BY <1>2 DEF Apart
<1>5. 0 <= MaxBytes /\ Len(New.contig) = 0
  BY <1>1, SeqSpaceAssumption, BufferAssumption
<1>6. New.totalBytes = New.contigLen + Cardinality(Covered(New.segments))
  <2>1. Cardinality(Covered(New.segments)) = 0
    BY <1>3, FS_EmptySet
  <2> QED BY <1>1, <2>1
<1>7. Counted(New, New.contigLen)
  BY <1>1, <1>4, <1>5, <1>6 DEF Counted
<1>8. Stored(New) = (0 .. 0 - 1) \cup {}
  BY <1>1, <1>3 DEF Stored
<1>9. 0 .. 0 - 1 = {}
  OBVIOUS
<1> QED BY <1>7, <1>8, <1>9

\* Push of any fragment leaves such a buffer, and answers as the window of bytes does.
LEMMA PushFragmentIs ==
  ASSUME BufInv, NEW seq \in 0 .. SeqSpace - 1, NEW len \in 1 .. MaxFragment,
         NEW payload \in [1 .. len -> Byte], PushFragment(seq, payload)
  PROVE  /\ PushedLike(buffer, [buf |-> buffer', err |-> pushErr'],
                       (seq - BaseSeq) % SeqSpace, payload)
         /\ BufInv'
<1> DEFINE r == Push(buffer, seq, payload)
           x == [buf |-> buffer', err |-> pushErr']
<1>1. buffer' = r.buf /\ pushErr' = r.err
  BY DEF PushFragment
<1>2. PushedLike(buffer, r, (seq - BaseSeq) % SeqSpace, payload)
  BY PushIs DEF BufInv
<1> HIDE DEF r
<1>3. x.buf = r.buf /\ x.err = r.err
  BY <1>1
<1> HIDE DEF x
<1>4. PushedLike(buffer, x, (seq - BaseSeq) % SeqSpace, payload)
  BY <1>2, <1>3 DEF PushedLike
<1>5. Counted(r.buf, r.buf.contigLen)
  BY <1>2 DEF PushedLike
<1> QED BY <1>1, <1>4, <1>5 DEF x, BufInv

\* Whatever fragments are pushed, the buffer keeps its invariant.
THEOREM BufInvHolds == BufSpec => []BufInv
<1>1. BufInit => BufInv
  BY NewIs DEF BufInit, BufInv
<1>2. BufInv /\ [BufNext]_bufVars => BufInv'
  <2> SUFFICES ASSUME BufInv, [BufNext]_bufVars PROVE BufInv'
    OBVIOUS
  <2>1. CASE BufNext
    <3>1. PICK seq \in 0 .. SeqSpace - 1, len \in 1 .. MaxFragment :
            \E payload \in [1 .. len -> Byte] : PushFragment(seq, payload)
      BY <2>1 DEF BufNext
    <3>2. PICK payload \in [1 .. len -> Byte] : PushFragment(seq, payload)
      BY <3>1
    <3> QED BY <3>2, PushFragmentIs
  <2>2. CASE UNCHANGED bufVars
    BY <2>2 DEF bufVars, BufInv
  <2> QED BY <2>1, <2>2
<1> QED BY <1>1, <1>2, PTL DEF BufSpec

\* The segment list is at every point what sort.Search and the merge loops assume:
\* sorted, with a gap between any two, non-empty and strictly beyond the prefix.
THEOREM SegmentsSeparatedHolds == BufSpec => []SegmentsSeparated
<1>1. BufInv => SegmentsSeparated
  BY DEF BufInv, Counted, Apart, SegmentsSeparated
<1> QED BY <1>1, BufInvHolds, PTL

\* totalBytes, which the worker's budget is computed from, counts every stored byte once.
THEOREM BytesAccountedHolds == BufSpec => []BytesAccounted
<1>1. BufInv => BytesAccounted
  <2> SUFFICES ASSUME BufInv PROVE BytesAccounted
    OBVIOUS
  <2> DEFINE c == buffer.contigLen
             C == Covered(buffer.segments)
             P == 0 .. c - 1
  <2>1. /\ c \in Nat /\ c = Len(buffer.contig) /\ Apart(buffer.segments, c)
        /\ buffer.totalBytes = c + Cardinality(C)
    BY DEF BufInv, Counted, Buf
  <2>2. LenSum(buffer.segments) = Cardinality(C)
    BY <2>1, LenSumIs
  <2>3. IsFiniteSet(C) /\ Cardinality(C) \in Nat
    BY <2>1, CoveredType
  <2>4. \A o \in C : o \in Nat /\ o > c
    BY StoredIs DEF BufInv
  <2>5. IsFiniteSet(P) /\ Cardinality(P) = c
    <3>1. \A a, d \in Int :
            IsFiniteSet(a .. d) /\ Cardinality(a .. d) = IF a > d THEN 0 ELSE d - a + 1
      BY FS_Interval
    <3>2. 0 \in Int /\ c - 1 \in Int
      BY <2>1
    <3>3. IsFiniteSet(P) /\ Cardinality(P) = IF 0 > c - 1 THEN 0 ELSE c - 1 - 0 + 1
      BY <3>1, <3>2
    <3> HIDE DEF P
    <3> QED BY <2>1, <3>3
  <2>6. P \cap C = {}
    BY <2>1, <2>4
  <2>7. Stored(buffer) = P \cup C
    BY DEF Stored
  <2> HIDE DEF P, C, c
  <2>8. Cardinality(Stored(buffer)) = c + Cardinality(C)
    <3>1. Cardinality(P \cup C) = Cardinality(P) + Cardinality(C) - Cardinality({})
      BY <2>3, <2>5, <2>6, FS_Union
    <3>2. Cardinality({}) = 0
      BY FS_EmptySet
    <3> QED BY <2>1, <2>3, <2>5, <2>7, <3>1, <3>2
  <2> QED BY <2>1, <2>2, <2>8 DEF BytesAccounted, c
<1> QED BY <1>1, BufInvHolds, PTL

\* Every Push is a step of the plain window of bytes, with the answer, the bytes and the two
\* flags that the window has: the segment list is invisible to the worker.
THEOREM ImplementsWindowHolds == BufSpec => ImplementsWindow
<1>1. BufInit => Window!WinInit
  <2> SUFFICES ASSUME BufInit PROVE Window!WinInit
    OBVIOUS
  <2>1. /\ buffer = New /\ pushErr = "none" /\ Stored(buffer) = {}
        /\ ~ buffer.hadOutOfOrder /\ ~ buffer.hadOverlap
    BY NewIs DEF BufInit, New
  <2>2. [o \in Stored(buffer) |-> ByteAt(buffer, o)] = [o \in {} |-> 0]
    BY <2>1
  <2>3. buffer.hadOutOfOrder = FALSE /\ buffer.hadOverlap = FALSE
    BY <2>1 DEF New
  <2> QED BY <2>1, <2>2, <2>3 DEF Window!WinInit
<1>2. BufInv /\ BufInv' /\ [BufNext]_bufVars => [Window!WinNext]_(Window!winVars)
  <2> SUFFICES ASSUME BufInv, BufInv', [BufNext]_bufVars
               PROVE  [Window!WinNext]_(Window!winVars)
    OBVIOUS
  <2>1. CASE UNCHANGED bufVars
    BY <2>1 DEF bufVars, Window!winVars
  <2>2. CASE BufNext
    <3>1. PICK seq \in 0 .. SeqSpace - 1, len \in 1 .. MaxFragment :
            \E payload \in [1 .. len -> Byte] : PushFragment(seq, payload)
      BY <2>2 DEF BufNext
    <3>2. PICK payload \in [1 .. len -> Byte] : PushFragment(seq, payload)
      BY <3>1
    <3> DEFINE off == (seq - BaseSeq) % SeqSpace
               n == Len(payload)
               S == Stored(buffer)
               bytes == [o \in S |-> ByteAt(buffer, o)]
               c == PrefixLen(S, MaxBytes)
    <3>3. PushedLike(buffer, [buf |-> buffer', err |-> pushErr'], off, payload)
      BY <3>2, PushFragmentIs
    <3>4. c = buffer.contigLen
      BY StoredIs DEF BufInv
    <3>5. /\ pushErr' = PushResult(S, MaxBytes, off, n)
          /\ Stored(buffer') = PushOffsets(S, MaxBytes, off, n)
          /\ \A o \in Stored(buffer') :
               ByteAt(buffer', o) = IF /\ pushErr' = "stored" /\ o >= buffer.contigLen
                                       /\ o \in off .. off + n - 1
                                      THEN payload[o - off + 1] ELSE ByteAt(buffer, o)
          /\ buffer'.hadOutOfOrder
               <=> buffer.hadOutOfOrder \/ PushOutOfOrder(S, MaxBytes, off, n)
          /\ buffer'.hadOverlap <=> buffer.hadOverlap \/ PushOverlaps(S, MaxBytes, off, n)
      <4> HIDE DEF off
      <4> QED BY <3>3 DEF PushedLike
    <3>6. DOMAIN bytes = S /\ \A o \in S : bytes[o] = ByteAt(buffer, o)
      OBVIOUS
    <3>7. off \in Nat /\ n \in Nat /\ c \in Nat /\ S \subseteq Nat
      <4>1. SeqSpace \in Nat /\ SeqSpace >= 1 /\ seq - BaseSeq \in Int /\ len \in Nat
        BY SeqSpaceAssumption, BufferAssumption
      <4>2. off \in 0 .. SeqSpace - 1
        BY <4>1, Remainder, Zenon
      <4>3. n = len
        <5>1. payload = [k \in 1 .. len |-> payload[k]]
          OBVIOUS
        <5> QED BY <4>1, <5>1
      <4>4. c \in Nat /\ S \subseteq Nat
        BY <3>4, StoredIs DEF BufInv, Counted, Buf
      <4> HIDE DEF off, n, c, S
      <4> QED BY <4>1, <4>2, <4>3, <4>4
    <3>8. 0 .. c - 1 \subseteq S
      BY <3>4 DEF Stored
    <3>9. Window!Offset(seq) = off
      BY DEF Window!Offset
    <3>10. Window!PrefixLen(S, MaxBytes) = c
      BY DEF Window!PrefixLen, PrefixLen
    <3> HIDE DEF off, n, S, c, bytes
    <3>11. Window!PushResult(S, MaxBytes, off, n) = PushResult(S, MaxBytes, off, n)
      BY <3>10 DEF Window!PushResult, PushResult, c
    <3>12. Window!PushOffsets(S, MaxBytes, off, n) = PushOffsets(S, MaxBytes, off, n)
      BY <3>11 DEF Window!PushOffsets, PushOffsets
    <3>13. Window!PushOutOfOrder(S, MaxBytes, off, n) <=> PushOutOfOrder(S, MaxBytes, off, n)
      BY <3>10, <3>11 DEF Window!PushOutOfOrder, PushOutOfOrder, c
    <3>14. Window!PushOverlaps(S, MaxBytes, off, n) <=> PushOverlaps(S, MaxBytes, off, n)
      BY <3>10, <3>11 DEF Window!PushOverlaps, PushOverlaps, Window!Later, Later, c
    <3> DEFINE newer(o) == o >= c /\ o \in off .. off + n - 1
    <3>15. ASSUME NEW o \in Stored(buffer')
           PROVE  ByteAt(buffer', o) =
                    IF pushErr' = "stored" /\ newer(o) THEN payload[o - off + 1] ELSE bytes[o]
      <4>1. ByteAt(buffer', o) = IF pushErr' = "stored" /\ newer(o) THEN payload[o - off + 1]
                                 ELSE ByteAt(buffer, o)
        BY <3>4, <3>5
      <4>2. o \in S \/ (pushErr' = "stored" /\ newer(o))
        <5>1. o \in S \/ (pushErr' = "stored" /\ o \in off .. off + n - 1)
          BY <3>5 DEF PushOffsets
        <5>2. o \in off .. off + n - 1 /\ ~ (o >= c) => o \in 0 .. c - 1
          BY <3>7
        <5> QED BY <3>8, <5>1, <5>2
      <4> HIDE DEF newer
      <4> QED BY <3>6, <4>1, <4>2
    <3>16. [o \in Stored(buffer') |-> ByteAt(buffer', o)]
             = [o \in Window!PushOffsets(S, MaxBytes, off, n) |->
                  IF pushErr' = "stored" /\ newer(o) THEN payload[o - off + 1] ELSE bytes[o]]
      <4> HIDE DEF newer
      <4> QED BY <3>5, <3>12, <3>15
    <3>17. /\ buffer.hadOutOfOrder \in BOOLEAN /\ buffer.hadOverlap \in BOOLEAN
           /\ buffer'.hadOutOfOrder \in BOOLEAN /\ buffer'.hadOverlap \in BOOLEAN
      BY DEF BufInv, Counted, Buf
    <3>18. buffer'.hadOutOfOrder
             = (buffer.hadOutOfOrder \/ Window!PushOutOfOrder(S, MaxBytes, off, n))
      BY <3>5, <3>13, <3>17
    <3>19. buffer'.hadOverlap
             = (buffer.hadOverlap \/ Window!PushOverlaps(S, MaxBytes, off, n))
      BY <3>5, <3>14, <3>17
    <3>20. pushErr' = Window!PushResult(S, MaxBytes, off, n)
      BY <3>5, <3>11
    <3>21. Window!Accept(seq, payload)
      <4>1. DOMAIN bytes = S /\ bytes = [o \in Stored(buffer) |-> ByteAt(buffer, o)]
        BY <3>6 DEF bytes, S
      <4>2. n = Len(payload)
        BY DEF n
      <4> HIDE DEF newer
      <4> QED BY <3>9, <3>10, <3>16, <3>18, <3>19, <3>20, <4>1, <4>2
              DEF Window!Accept, newer, bytes, S
    <3> QED BY <3>21 DEF Window!WinNext
  <2> QED BY <2>1, <2>2
<1> QED BY <1>1, <1>2, BufInvHolds, PTL DEF BufSpec, ImplementsWindow, Window!WinSpec
=============================================================================
