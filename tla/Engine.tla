--------------------------------- MODULE Engine ---------------------------------
(***************************************************************************)
(* internal/engine/engine.go: Run, its worker goroutines, recvLoop and the *)
(* hand-over of packets between them, from start to the return of Run.     *)
(*                                                                         *)
(* Four kinds of goroutine interleave: recvLoop, one goroutine per worker, *)
(* Run itself, and the callers that cancel the context or deliver packets. *)
(* Each action is one step of one of them between two points at which      *)
(* another may intervene.  A packet is a member of Packets; its place in   *)
(* the program is loc[p].  What a worker decides about a packet is left    *)
(* open here (any subset of the packets it holds may be released together  *)
(* with the one it handles); Worker.tla models the decision.  Channels are *)
(* sets: no property here depends on the order within a queue.             *)
(***************************************************************************)
EXTENDS Integers, FiniteSets

CONSTANTS
  Workers,      \* e.workers
  Packets,      \* the packets captured during one Run
  Shard,        \* Sharder.Index of the packet's flow key
  Class,        \* how recvLoop treats the packet, see below
  QueueSize,    \* cap(w.in)
  FlushMax      \* ShutdownFailOpenMaxPackets

\* "bypass": not IPv4/TCP or not to port 443; "ack": no payload, neither FIN
\* nor RST; "queued": everything else.
Classes == {"bypass", "ack", "queued"}

ASSUME EngineAssumption ==
  /\ IsFiniteSet(Packets)
  /\ Shard \in [Packets -> Workers]
  /\ Class \in [Packets -> Classes]
  /\ QueueSize \in Nat \ {0}
  /\ FlushMax \in Nat \ {0}

VARIABLES
  cancelled,    \* the context of Run is canceled
  loc,          \* where each packet is
  sent,         \* how often the adapter has taken the packet back
  recvPc, recvErr,
  wPc, wErr,    \* per worker goroutine: control and the error of w.run
  flushErr,     \* per worker: the errors joined by shutdownFailOpen
  flushed,      \* per worker: packets reinjected by shutdownFailOpen
  closed,       \* per worker: w.in and w.touch are closed
  workerErrCh,  \* the one-element channel, "none" when empty
  runPc, runErr,
  adapter,      \* "open", "flushed" or "closed"
  stopAsked,    \* history: the caller canceled the context
  trouble       \* history: "io" a Send or Drop failed, "guard" a shutdown
                \* guardrail was hit, "adapter" Flush or Recv failed

vars == <<cancelled, loc, sent, recvPc, recvErr, wPc, wErr, flushErr, flushed,
          closed, workerErrCh, runPc, runErr, adapter, stopAsked, trouble>>

recvVars   == <<recvPc, recvErr>>
workerVars == <<wPc, wErr, flushErr, flushed, workerErrCh>>
runVars    == <<runPc, runErr, closed, adapter>>

Places == {"wire", "adapter", "recv", "queue", "held", "out"}

InQueue(w) == {p \in Packets : loc[p] = "queue" /\ Shard[p] = w}
HeldBy(w)  == {p \in Packets : loc[p] = "held" /\ Shard[p] = w}

\* The packets of S are given back to the kernel.
Release(S) ==
  /\ loc' = [p \in Packets |-> IF p \in S THEN "out" ELSE loc[p]]
  /\ sent' = [p \in Packets |-> IF p \in S THEN sent[p] + 1 ELSE sent[p]]

\* The adapter refuses packet p: nobody tries again.
Lose(p) ==
  /\ loc' = [loc EXCEPT ![p] = "out"]
  /\ trouble' = trouble \cup {"io"}
  /\ UNCHANGED sent

Init ==
  /\ cancelled = FALSE
  /\ loc = [p \in Packets |-> "wire"]
  /\ sent = [p \in Packets |-> 0]
  /\ recvPc = "recv" /\ recvErr = "none"
  /\ wPc = [w \in Workers |-> "run"]
  /\ wErr = [w \in Workers |-> "none"]
  /\ flushErr = [w \in Workers |-> {}]
  /\ flushed = [w \in Workers |-> 0]
  /\ closed = [w \in Workers |-> FALSE]
  /\ workerErrCh = "none"
  /\ runPc = "select" /\ runErr = "none"
  /\ adapter = "open"
  /\ stopAsked = FALSE
  /\ trouble = {}

-----------------------------------------------------------------------------
\* The environment.

\* The kernel delivers a packet to the adapter's receive buffer.
Arrive(p) ==
  /\ adapter = "open"
  /\ loc[p] = "wire"
  /\ loc' = [loc EXCEPT ![p] = "adapter"]
  /\ UNCHANGED <<cancelled, sent, recvVars, workerVars, runVars, stopAsked, trouble>>

\* The caller of Run cancels its context (signal, service stop).
Cancel ==
  /\ ~cancelled
  /\ cancelled' = TRUE
  /\ stopAsked' = TRUE
  /\ UNCHANGED <<loc, sent, recvVars, workerVars, runVars, trouble>>

-----------------------------------------------------------------------------
\* recvLoop.

\* Recv returns a packet.  Its select may do so even when ctx.Done is ready.
RecvPacket(p) ==
  /\ recvPc = "recv"
  /\ loc[p] = "adapter"
  /\ loc' = [loc EXCEPT ![p] = "recv"]
  /\ recvPc' = [bypass |-> "send", ack |-> "touch", queued |-> "enqueue"][Class[p]]
  /\ UNCHANGED <<cancelled, sent, recvErr, workerVars, runVars, stopAsked, trouble>>

\* Recv returns ctx.Err(): recvLoop ends.
RecvCanceled ==
  /\ recvPc = "recv"
  /\ cancelled
  /\ recvPc' = "done" /\ recvErr' = "canceled"
  /\ UNCHANGED <<cancelled, loc, sent, workerVars, runVars, stopAsked, trouble>>

\* Recv returns an error of the adapter: recvLoop ends.
RecvFails ==
  /\ recvPc = "recv"
  /\ recvPc' = "done" /\ recvErr' = "fail"
  /\ trouble' = trouble \cup {"adapter"}
  /\ UNCHANGED <<cancelled, loc, sent, workerVars, runVars, stopAsked>>

\* touchFlow: a send on w.touch that never blocks (dropped when full).
TouchFlow ==
  /\ recvPc = "touch"
  /\ recvPc' = "send"
  /\ UNCHANGED <<cancelled, loc, sent, recvErr, workerVars, runVars, stopAsked, trouble>>

\* recvLoop passes its packet to the adapter itself: off-path traffic, an ACK,
\* or (sendBg) a packet that enqueue refused during shutdown.
DirectSend(p) ==
  /\ recvPc \in {"send", "sendBg"}
  /\ loc[p] = "recv"
  /\ \/ /\ Release({p})
        /\ recvPc' = "recv"
        /\ UNCHANGED <<recvErr, trouble>>
     \/ /\ Lose(p)
        /\ recvPc' = "done" /\ recvErr' = "fail"
  /\ UNCHANGED <<cancelled, workerVars, runVars, stopAsked>>

\* A mutation: the context is not tested before the select.
EnqueueCheck_never ==
  /\ recvPc = "enqueue"
  /\ recvPc' = "select"
  /\ UNCHANGED <<cancelled, loc, sent, recvErr, workerVars, runVars, stopAsked, trouble>>

\* enqueue: the test of ctx.Err() before the select.
EnqueueCheck ==
  /\ recvPc = "enqueue"
  /\ recvPc' = IF cancelled THEN "sendBg" ELSE "select"
  /\ UNCHANGED <<cancelled, loc, sent, recvErr, workerVars, runVars, stopAsked, trouble>>

\* enqueue: the select takes the send case.  It may do so even if the context
\* has been canceled since EnqueueCheck.
EnqueuePut(p) ==
  /\ recvPc = "select"
  /\ loc[p] = "recv"
  /\ Cardinality(InQueue(Shard[p])) < QueueSize
  /\ loc' = [loc EXCEPT ![p] = "queue"]
  /\ recvPc' = "recv"
  /\ UNCHANGED <<cancelled, sent, recvErr, workerVars, runVars, stopAsked, trouble>>

\* A mutation: a plain channel send instead of the select.
EnqueueCanceled_never == FALSE

\* enqueue: the select takes the ctx.Done case.
EnqueueCanceled ==
  /\ recvPc = "select"
  /\ cancelled
  /\ recvPc' = "sendBg"
  /\ UNCHANGED <<cancelled, loc, sent, recvErr, workerVars, runVars, stopAsked, trouble>>

RecvLoop ==
  \/ \E p \in Packets : RecvPacket(p) \/ DirectSend(p) \/ EnqueuePut(p)
  \/ RecvCanceled \/ RecvFails \/ TouchFlow \/ EnqueueCheck \/ EnqueueCanceled

-----------------------------------------------------------------------------
\* The goroutine of worker w: w.run.  Its select may take a queued packet, the
\* GC timer or ctx.Done, whichever is ready; touches change no packet.

\* A mutation: a packet that was released with its flow stays in HeldPackets.
HandlePacket_keepsHeld(w, p) ==
  /\ wPc[w] = "run"
  /\ p \in InQueue(w)
  /\ \/ /\ loc' = [loc EXCEPT ![p] = "held"]
        /\ UNCHANGED sent
     \/ \E R \in SUBSET HeldBy(w) :
          /\ loc' = [loc EXCEPT ![p] = "out"]
          /\ sent' = [q \in Packets |-> IF q \in R \cup {p} THEN sent[q] + 1 ELSE sent[q]]
  /\ UNCHANGED <<cancelled, recvVars, workerVars, runVars, stopAsked, trouble>>

\* handlePacket succeeds: p joins the held packets of its flow, or p and any
\* held packets are given back (passed through, failed open, or replaced by
\* injected segments and dropped).
HandlePacket(w, p) ==
  /\ wPc[w] = "run"
  /\ p \in InQueue(w)
  /\ \/ /\ loc' = [loc EXCEPT ![p] = "held"]
        /\ UNCHANGED sent
     \/ \E R \in SUBSET HeldBy(w) : Release(R \cup {p})
  /\ UNCHANGED <<cancelled, recvVars, workerVars, runVars, stopAsked, trouble>>

\* handlePacket returns an error: the packets in R were released before, those
\* in T were given back but are still in HeldPackets (failOpen and dropHeld
\* stop at the first failing call), and p is either held as well or lost.
HandleFails(w, p) ==
  /\ wPc[w] = "run"
  /\ p \in InQueue(w)
  /\ \E R \in SUBSET HeldBy(w) : \E T \in SUBSET (HeldBy(w) \ R), keep \in BOOLEAN :
       /\ loc' = [q \in Packets |->
                    IF q \in R THEN "out"
                    ELSE IF q = p THEN (IF keep THEN "held" ELSE "out")
                    ELSE loc[q]]
       /\ sent' = [q \in Packets |-> IF q \in R \cup T THEN sent[q] + 1 ELSE sent[q]]
  /\ trouble' = trouble \cup {"io"}
  /\ wErr' = [wErr EXCEPT ![w] = "fail"]
  /\ wPc' = [wPc EXCEPT ![w] = "cancel"]
  /\ UNCHANGED <<cancelled, recvVars, flushErr, flushed, workerErrCh, runVars, stopAsked>>

\* gc evicts idle flows and fails their held packets open.
CollectGarbage(w) ==
  /\ wPc[w] = "run"
  /\ \E R \in SUBSET HeldBy(w) : R # {} /\ Release(R)
  /\ UNCHANGED <<cancelled, recvVars, workerVars, runVars, stopAsked, trouble>>

\* gc returns the first error, after it has tried every idle flow.
GarbageFails(w) ==
  /\ wPc[w] = "run"
  /\ HeldBy(w) # {}
  /\ \E R \in SUBSET HeldBy(w) : \E T \in SUBSET (HeldBy(w) \ R) :
       /\ R # HeldBy(w)
       /\ loc' = [q \in Packets |-> IF q \in R THEN "out" ELSE loc[q]]
       /\ sent' = [q \in Packets |-> IF q \in R \cup T THEN sent[q] + 1 ELSE sent[q]]
  /\ trouble' = trouble \cup {"io"}
  /\ wErr' = [wErr EXCEPT ![w] = "fail"]
  /\ wPc' = [wPc EXCEPT ![w] = "cancel"]
  /\ UNCHANGED <<cancelled, recvVars, flushErr, flushed, workerErrCh, runVars, stopAsked>>

\* w.run returns ctx.Err().
ExitCanceled(w) ==
  /\ wPc[w] = "run"
  /\ cancelled
  /\ wErr' = [wErr EXCEPT ![w] = "canceled"]
  /\ wPc' = [wPc EXCEPT ![w] = "held"]
  /\ UNCHANGED <<cancelled, loc, sent, recvVars, flushErr, flushed, workerErrCh,
                 runVars, stopAsked, trouble>>

\* w.run finds w.in closed and empty, and returns nil.
ExitClosed(w) ==
  /\ wPc[w] = "run"
  /\ closed[w] /\ InQueue(w) = {}
  /\ wErr' = [wErr EXCEPT ![w] = "nil"]
  /\ wPc' = [wPc EXCEPT ![w] = "held"]
  /\ UNCHANGED <<cancelled, loc, sent, recvVars, flushErr, flushed, workerErrCh,
                 runVars, stopAsked, trouble>>

\* The worker goroutine cancels the engine before it flushes.
CancelOnError(w) ==
  /\ wPc[w] = "cancel"
  /\ cancelled' = TRUE
  /\ wPc' = [wPc EXCEPT ![w] = "held"]
  /\ UNCHANGED <<loc, sent, recvVars, wErr, flushErr, flushed, workerErrCh, runVars,
                 stopAsked, trouble>>

\* shutdownFailOpen reinjects one packet: first the held ones, then the queue.
Reinject(w, p) ==
  /\ flushed[w] < FlushMax
  /\ \/ wPc[w] = "held" /\ p \in HeldBy(w)
     \/ wPc[w] = "drain" /\ p \in InQueue(w)
  /\ \/ /\ Release({p})
        /\ flushed' = [flushed EXCEPT ![w] = @ + 1]
        /\ UNCHANGED <<flushErr, trouble>>
     \/ /\ Lose(p)
        /\ flushErr' = [flushErr EXCEPT ![w] = @ \cup {"fail"}]
        /\ UNCHANGED flushed
  /\ UNCHANGED <<cancelled, recvVars, wPc, wErr, workerErrCh, runVars, stopAsked>>

\* A mutation: only the queue is flushed.
HeldDone_skips(w) ==
  /\ wPc[w] = "held"
  /\ wPc' = [wPc EXCEPT ![w] = "drain"]
  /\ UNCHANGED <<cancelled, loc, sent, recvVars, wErr, flushErr, flushed, workerErrCh,
                 runVars, stopAsked, trouble>>

\* All held packets are out: go on with the queue.
HeldDone(w) ==
  /\ wPc[w] = "held" /\ HeldBy(w) = {}
  /\ wPc' = [wPc EXCEPT ![w] = "drain"]
  /\ UNCHANGED <<cancelled, loc, sent, recvVars, wErr, flushErr, flushed, workerErrCh,
                 runVars, stopAsked, trouble>>

\* The queue is empty (closed or not): shutdownFailOpen returns.
DrainDone(w) ==
  /\ wPc[w] = "drain" /\ InQueue(w) = {} /\ flushed[w] < FlushMax
  /\ wPc' = [wPc EXCEPT ![w] = "finish"]
  /\ UNCHANGED <<cancelled, loc, sent, recvVars, wErr, flushErr, flushed, workerErrCh,
                 runVars, stopAsked, trouble>>

\* The deadline of the flush has passed, or FlushMax packets were reinjected:
\* shutdownFailOpen gives up.  Both tests come before the queue is looked at.
GuardrailHit(w) ==
  /\ \/ wPc[w] = "held" /\ HeldBy(w) # {}
     \/ wPc[w] = "drain"
  /\ flushErr' = [flushErr EXCEPT ![w] = @ \cup {"guard"}]
  /\ wPc' = [wPc EXCEPT ![w] = "finish"]
  /\ trouble' = trouble \cup {"guard"}
  /\ UNCHANGED <<cancelled, loc, sent, recvVars, wErr, flushed, workerErrCh, runVars, stopAsked>>

\* The flush errors that remain after a normal stop forgives the guardrails.
Unforgiven(w) ==
  IF wErr[w] = "canceled" /\ "guard" \in flushErr[w] THEN {} ELSE flushErr[w]

\* The error the worker goroutine ends with.
FinalErr(w) ==
  IF wErr[w] = "fail" \/ "fail" \in Unforgiven(w) THEN "fail"
  ELSE IF "guard" \in Unforgiven(w) THEN "guard"
  ELSE wErr[w]

\* The worker goroutine posts its error, if the channel has room, and ends.
Finish(w) ==
  /\ wPc[w] = "finish"
  /\ cancelled' = (cancelled \/ Unforgiven(w) # {})
  /\ workerErrCh' = IF FinalErr(w) \in {"fail", "guard"} /\ workerErrCh = "none"
                      THEN FinalErr(w) ELSE workerErrCh
  /\ wPc' = [wPc EXCEPT ![w] = "done"]
  /\ UNCHANGED <<loc, sent, recvVars, wErr, flushErr, flushed, runVars, stopAsked, trouble>>

WorkerGo(w) ==
  \/ \E p \in Packets : HandlePacket(w, p) \/ HandleFails(w, p) \/ Reinject(w, p)
  \/ CollectGarbage(w) \/ GarbageFails(w)
  \/ ExitCanceled(w) \/ ExitClosed(w) \/ CancelOnError(w)
  \/ HeldDone(w) \/ DrainDone(w) \/ GuardrailHit(w) \/ Finish(w)

-----------------------------------------------------------------------------
\* Run.

\* A mutation: Run does not wait for recvLoop after a worker error.
RunWorkerErr_noWait ==
  /\ runPc = "select"
  /\ workerErrCh # "none"
  /\ runErr' = workerErrCh /\ workerErrCh' = "none"
  /\ cancelled' = TRUE
  /\ runPc' = "closing"
  /\ UNCHANGED <<loc, sent, recvVars, wPc, wErr, flushErr, flushed, closed, adapter,
                 stopAsked, trouble>>

\* The select of Run: a worker error.
RunWorkerErr ==
  /\ runPc = "select"
  /\ workerErrCh # "none"
  /\ runErr' = workerErrCh /\ workerErrCh' = "none"
  /\ cancelled' = TRUE
  /\ runPc' = "drainRecv"
  /\ UNCHANGED <<loc, sent, recvVars, wPc, wErr, flushErr, flushed, closed, adapter,
                 stopAsked, trouble>>

\* The select of Run: recvLoop has ended.
RunRecvErr ==
  /\ runPc = "select"
  /\ recvPc = "done"
  /\ runErr' = recvErr
  /\ cancelled' = TRUE
  /\ runPc' = "closing"
  /\ UNCHANGED <<loc, sent, recvVars, workerVars, closed, adapter, stopAsked, trouble>>

\* After a worker error: wait until recvLoop has stopped sending to the queues.
RunDrainRecv ==
  /\ runPc = "drainRecv"
  /\ recvPc = "done"
  /\ runPc' = "closing"
  /\ UNCHANGED <<cancelled, loc, sent, recvVars, workerVars, runErr, closed, adapter,
                 stopAsked, trouble>>

\* w.close(), for each worker in turn.
RunClose(w) ==
  /\ runPc = "closing"
  /\ ~closed[w]
  /\ closed' = [closed EXCEPT ![w] = TRUE]
  /\ runPc' = IF \A v \in Workers : closed'[v] THEN "wait" ELSE "closing"
  /\ UNCHANGED <<cancelled, loc, sent, recvVars, workerVars, runErr, adapter, stopAsked, trouble>>

\* A mutation: the adapter is flushed and closed without waiting for the workers.
RunWait_none ==
  /\ runPc = "wait"
  /\ runPc' = "flush"
  /\ UNCHANGED <<cancelled, loc, sent, recvVars, workerVars, runErr, closed, adapter,
                 stopAsked, trouble>>

\* wg.Wait()
RunWait ==
  /\ runPc = "wait"
  /\ \A w \in Workers : wPc[w] = "done"
  /\ runPc' = "flush"
  /\ UNCHANGED <<cancelled, loc, sent, recvVars, workerVars, runErr, closed, adapter,
                 stopAsked, trouble>>

Buffered == {p \in Packets : loc[p] = "adapter"}

\* A mutation: Run closes the adapter without flushing it.
RunFlush_skipped ==
  /\ runPc = "flush"
  /\ adapter' = "flushed"
  /\ runPc' = "close"
  /\ UNCHANGED <<cancelled, loc, sent, runErr, recvVars, workerVars, closed, stopAsked, trouble>>

\* adapter.Flush gives back what is buffered, or fails after a part of it; a
\* deadline is forgiven when the stop was a normal one.
RunFlush ==
  /\ runPc = "flush"
  /\ \/ /\ Release(Buffered)
        /\ UNCHANGED <<runErr, trouble>>
     \/ \E S \in SUBSET Buffered, e \in {"guard", "fail"} :
          /\ Release(S)
          /\ trouble' = trouble \cup {"adapter"}
          /\ runErr' = IF runErr = "canceled" /\ e = "fail" THEN "fail" ELSE runErr
  /\ adapter' = "flushed"
  /\ runPc' = "close"
  /\ UNCHANGED <<cancelled, recvVars, workerVars, closed, stopAsked>>

RunCloseAdapter ==
  /\ runPc = "close"
  /\ adapter' = "closed"
  /\ runPc' = "return"
  /\ UNCHANGED <<cancelled, loc, sent, recvVars, workerVars, runErr, closed, stopAsked, trouble>>

\* A mutation: a worker error is not looked for after a normal stop.
RunReturn_ignoresWorkers ==
  /\ runPc = "return"
  /\ runPc' = "returned"
  /\ runErr' = IF runErr = "canceled" THEN "nil" ELSE runErr
  /\ UNCHANGED <<cancelled, loc, sent, recvVars, workerVars, closed, adapter, stopAsked, trouble>>

\* Run prefers a worker error to a plain cancellation, turns a cancellation
\* into nil, and returns.  (recvLoop has always ended by now: the wait for it
\* below adapter.Close is never needed.)
RunReturn ==
  /\ runPc = "return"
  /\ runPc' = "returned"
  /\ runErr' = IF runErr # "canceled" THEN runErr
               ELSE IF workerErrCh # "none" THEN workerErrCh ELSE "nil"
  /\ workerErrCh' = IF runErr = "canceled" THEN "none" ELSE workerErrCh
  /\ UNCHANGED <<cancelled, loc, sent, recvVars, wPc, wErr, flushErr, flushed, closed,
                 adapter, stopAsked, trouble>>

RunGo ==
  \/ RunWorkerErr \/ RunRecvErr \/ RunDrainRecv
  \/ \E w \in Workers : RunClose(w)
  \/ RunWait \/ RunFlush \/ RunCloseAdapter \/ RunReturn

-----------------------------------------------------------------------------
Environment == Cancel \/ \E p \in Packets : Arrive(p)

Next ==
  \/ Environment
  \/ RecvLoop
  \/ \E w \in Workers : WorkerGo(w)
  \/ RunGo

Spec == Init /\ [][Next]_vars

\* Every goroutine that can take a step eventually does; the environment owes
\* nothing.
FairSpec ==
  /\ Spec
  /\ WF_vars(RecvLoop)
  /\ \A w \in Workers : WF_vars(WorkerGo(w))
  /\ WF_vars(RunGo)

-----------------------------------------------------------------------------
TypeOK ==
  /\ cancelled \in BOOLEAN /\ stopAsked \in BOOLEAN
  /\ loc \in [Packets -> Places]
  /\ sent \in [Packets -> Nat]
  /\ recvPc \in {"recv", "touch", "send", "enqueue", "select", "sendBg", "done"}
  /\ recvErr \in {"none", "canceled", "fail"}
  /\ wPc \in [Workers -> {"run", "cancel", "held", "drain", "finish", "done"}]
  /\ wErr \in [Workers -> {"none", "nil", "canceled", "fail"}]
  /\ flushErr \in [Workers -> SUBSET {"fail", "guard"}]
  /\ flushed \in [Workers -> 0 .. FlushMax]
  /\ closed \in [Workers -> BOOLEAN]
  /\ workerErrCh \in {"none", "fail", "guard"}
  /\ runPc \in {"select", "drainRecv", "closing", "wait", "flush", "close", "return", "returned"}
  /\ runErr \in {"none", "nil", "canceled", "fail", "guard"}
  /\ adapter \in {"open", "flushed", "closed"}
  /\ trouble \subseteq {"io", "guard", "adapter"}

\* recvLoop never meets a closed worker channel (a send on it would panic the
\* process with packets held): Run closes w.in and w.touch only after recvLoop
\* has ended, whichever way the shutdown began.
NoSendOnClosedQueue ==
  (\E w \in Workers : closed[w]) => recvPc = "done"

\* Nobody is left who could call Send or Drop once Run flushes the adapter.
AdapterOutlivesSenders ==
  adapter # "open" => recvPc = "done" /\ \A w \in Workers : wPc[w] = "done"

\* Fail-open at shutdown: if no adapter call failed and no guardrail was hit,
\* then when Run returns every captured packet has been given back, except for
\* at most one that enqueue put into a queue its worker had already drained.
AtMostOneStranded ==
  runPc = "returned" /\ trouble = {} =>
    /\ \A p \in Packets : loc[p] \in {"wire", "out", "queue"}
    /\ \A p, q \in Packets : loc[p] = "queue" /\ loc[q] = "queue" => p = q

\* A packet is given back twice only if an adapter call failed before: otherwise
\* no path (pass-through, fail-open, flush, adapter flush) overlaps another.
TwiceOnlyAfterFailure ==
  \A p \in Packets : sent[p] > 1 => "io" \in trouble

\* Run does not report success if a worker has failed, even when the failure
\* came while the engine was being stopped.
WorkerFailureReported ==
  runPc = "returned" /\ (\E w \in Workers : wErr[w] = "fail") => runErr # "nil"

\* Shutdown ends: after a cancellation or an error of any goroutine Run returns,
\* also if recvLoop waits for room in the queue of a worker that has ended.
ShutdownEnds ==
  (cancelled \/ recvErr = "fail" \/ \E w \in Workers : wErr[w] = "fail")
    ~> (runPc = "returned")

\* internal/engine/worker.go:64, enqueue: "Once canceled, never enqueue more packets.
\* This avoids leaving captured packets stuck in the queue while workers are
\* shutting down."
NoneStuckInQueue ==
  runPc = "returned" /\ trouble = {} => \A p \in Packets : loc[p] # "queue"

\* internal/engine/engine.go:83, Run: "Do not fail the overall stop just because
\* we hit the guardrails during a normal shutdown."
GuardrailsForgiven ==
  runPc = "returned" /\ stopAsked /\ trouble \subseteq {"guard"} => runErr = "nil"

-----------------------------------------------------------------------------
Ledger == INSTANCE FailOpen WITH
            status <- [p \in Packets |-> IF loc[p] = "wire" THEN "outside"
                                         ELSE IF loc[p] = "out" THEN "settled"
                                         ELSE "inside"],
            stopped <- (runPc = "returned"),
            excused <- (trouble # {})

\* The engine keeps the ledger of FailOpen.tla.
KeepsLedger == Ledger!LedgerSpec
=============================================================================
