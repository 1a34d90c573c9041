--------------------------------- MODULE Worker ---------------------------------
(***************************************************************************)
(* internal/engine/worker.go: what one worker does with the packets of the *)
(* flows sharded to it, until w.run returns.                               *)
(*                                                                         *)
(* A worker is sequential, but handlePacket, trySplitTLSHello and          *)
(* injectWindow each load the configuration, which Engine.Reload replaces  *)
(* concurrently: they are separate actions.  Every call of the adapter may *)
(* fail.  Time is two flags of a flow: expired (CollectTimeout has passed  *)
(* since CollectStart) and idle (FlowIdleTimeout since LastActive).        *)
(*                                                                         *)
(* A packet is [seq, len, flag, id]: len payload bytes at sequence number  *)
(* seq of its flow's stream, whose bytes are fixed (a retransmission       *)
(* repeats them).  What leaves through the adapter is recorded per flow in *)
(* wire, with id 0 for an injected segment.                                *)
(***************************************************************************)
EXTENDS WindowOps, SegmentOps, FiniteSets

CONSTANTS
  Keys,          \* flow keys sharded to this worker
  Scenarios,     \* what may happen to the worker, see below
  Hello,         \* per key, the TLS record header the stream begins with
  Configs,       \* the configurations Reload may install
  HeaderLen,     \* IP and TCP header bytes of a packet
  IPMax,         \* maxIPv4TotalLen
  MaxCalls       \* bound: adapter calls of one handler that may fail

\* A scenario is a first configuration (config), the packets that arrive for every
\* key, in order (script), whether ACK-only packets come as well (acks, without a
\* bound), and the bounds of a behaviour: how many adapter calls fail (fails), and
\* how often Reload is called (reloads).

\* The configurations that are accepted: at least one packet may be held.
Config == [mode : {"tls-hello", "immediate"}, splitChunk : Nat, maxBuffer : Nat,
           maxHeldPackets : Nat \ {0}, maxSegment : Nat, maxFlows : Nat,
           maxReassembly : Nat, maxHeldBytes : Nat]

\* A captured packet.  Those without payload that reach a worker end the flow:
\* recvLoop passes the others through itself.
Packet == [seq : 0 .. SeqSpace - 1, len : Nat, flag : {"none", "SYN", "FIN", "RST"},
           id : Nat]

ASSUME WorkerAssumption ==
  /\ HeaderLen \in Nat \ {0} /\ IPMax \in Nat
  /\ Hello \in [Keys -> [contentType : Nat, version : Nat, handshake : Nat, recordLen : Nat]]
  /\ Configs \subseteq Config
  /\ \A s \in Scenarios :
       /\ s.config \in Configs
       /\ {s.fails, s.reloads} \subseteq Nat /\ s.acks \in BOOLEAN
       /\ \A k \in Keys :
            /\ s.script[k] \in Seq(Packet)
            /\ \A i \in DOMAIN s.script[k] :
                 /\ s.script[k][i].id = i
                 /\ s.script[k][i].len = 0 => s.script[k][i].flag \in {"FIN", "RST"}

VARIABLES
  scenario,         \* the scenario this behaviour belongs to
  pos,              \* per key: how many of its packets were handled
  cfg,              \* w.cfg
  flows,            \* w.flows: a function on the keys in the table
  heldBytes, reassemblyBytes,
  pc,               \* "idle", "split", "inject", "gc", "gcErr", "failed": the function
                    \* called; in "gcErr" gc has an error to return, in "failed" run has
  sweep,            \* the idle flows that gc has yet to visit
  cur, windowLen,   \* the flow being split and the window injectWindow is given
  wire, dropped,    \* per key: what was sent, and the packets dropped
  burst,            \* history: the segments of the last injection
  beyond,           \* history, per key: bytes held beyond a gap when it was split
  fails, reloads

vars == <<scenario, pos, cfg, flows, heldBytes, reassemblyBytes, pc, sweep, cur, windowLen,
          wire, dropped, burst, beyond, fails, reloads>>

script == scenario.script

-----------------------------------------------------------------------------
\* The worker's data and the adapter, as one record that the operators below
\* pass on: n counts the adapter calls of the handler, bad is the set of those
\* that fail; next and win say which function is called next and with which
\* window, and next is "failed" when there is an error to return.
Machine(bad) ==
  [flows |-> flows, heldBytes |-> heldBytes, reassemblyBytes |-> reassemblyBytes,
   wire |-> wire, dropped |-> dropped, n |-> 0, bad |-> bad, next |-> "idle", win |-> 0]

NoPacket == [seq |-> 0, len |-> 0, flag |-> "none", id |-> 0]

\* How many of the next count calls of the adapter succeed before one fails.
Successes(m, count) ==
  Cardinality({i \in 1 .. count : \A j \in 1 .. i : m.n + j - 1 \notin m.bad})

\* The next count calls, up to the first that fails.
Calls(m, count) ==
  LET done == Successes(m, count)
  IN IF done = count THEN [m EXCEPT !.n = @ + count]
     ELSE [m EXCEPT !.n = @ + done + 1, !.next = "failed"]

\* adapter.Send of packets or segments of flow k, one after the other.
SendAll(m, k, items) ==
  IF m.next = "failed" THEN m
  ELSE [Calls(m, Len(items)) EXCEPT
          !.wire[k] = @ \o SubSeq(items, 1, Successes(m, Len(items)))]

Send(m, k, item) == SendAll(m, k, <<item>>)

\* adapter.Drop of the captured packets that flow k holds.
dropHeld(m, k) ==
  LET held == m.flows[k].held
  IN IF m.next = "failed" THEN m
     ELSE [Calls(m, Len(held)) EXCEPT
             !.dropped[k] = @ \cup {held[i].id : i \in 1 .. Successes(m, Len(held))}]

Wire(pkt) == [from |-> pkt.seq, len |-> pkt.len, id |-> pkt.id]

\* The disjoint union of the sets f[x].
Tagged(f) == UNION {{x} \X f[x] : x \in DOMAIN f}

DataLen(pkt) == HeaderLen + pkt.len
HeldData(st) == Tagged([i \in DOMAIN st.held |-> 1 .. DataLen(st.held[i])])
HeldSize(st) == Cardinality(HeldData(st))

NonNegative(n) == IF n < 0 THEN 0 ELSE n

clearCollectingState(m, k) ==
  LET st == m.flows[k]
  IN [m EXCEPT !.heldBytes = NonNegative(@ - HeldSize(st)),
               !.reassemblyBytes = NonNegative(@ - Cardinality(st.buf)),
               !.flows[k].held = <<>>, !.flows[k].tpl = NoPacket, !.flows[k].buf = {}]

\* The held packets, oldest first, as adapter.Send is given them.
HeldOut(st) == [i \in DOMAIN st.held |-> Wire(st.held[i])]

\* A mutation: after an error the budget is given back, but the packets are kept.
failOpen_refunds(m, k) ==
  LET x == SendAll(m, k, HeldOut(m.flows[k]))
  IN IF x.next = "failed" THEN [x EXCEPT !.heldBytes = NonNegative(@ - HeldSize(m.flows[k]))]
     ELSE clearCollectingState([x EXCEPT !.flows[k].state = "pass"], k)

\* Give back the held packets; after an error the flow keeps them all.
failOpen(m, k) ==
  LET x == SendAll(m, k, HeldOut(m.flows[k]))
  IN IF x.next = "failed" THEN x
     ELSE clearCollectingState([x EXCEPT !.flows[k].state = "pass"], k)

\* Table.Delete, unless the handler has returned an error before.
Delete(m, k) ==
  IF m.next = "failed" THEN m
  ELSE [m EXCEPT !.flows = [j \in DOMAIN m.flows \ {k} |-> m.flows[j]]]

\* Table.GetOrCreate of a flow that is not in the table, as it is first filled.
Create(m, k, st) ==
  [m EXCEPT !.flows = [j \in DOMAIN m.flows \cup {k} |-> IF j = k THEN st ELSE m.flows[j]]]

\* flow.FlowState as handlePacket first fills it (the StateNew branch; a flow is
\* never seen in StateNew otherwise).
NewFlow(c, pkt) ==
  [state |-> "collecting", base |-> pkt.seq, max |-> c.maxBuffer, first |-> pkt.len,
   tpl |-> pkt, held |-> <<>>, buf |-> {}, ooo |-> FALSE, ovl |-> FALSE,
   expired |-> FALSE, idle |-> FALSE]

ContigLen(st) == PrefixLen(st.buf, st.max)

\* The offset of a packet in its flow's stream.
Offset(st, pkt) == (pkt.seq - st.base) % SeqSpace

\* Reassembler.Push of a packet, by WindowOps.
push(st, pkt) ==
  LET off == Offset(st, pkt)
  IN [st EXCEPT !.buf = PushOffsets(@, st.max, off, pkt.len),
                !.ooo = @ \/ PushOutOfOrder(st.buf, st.max, off, pkt.len),
                !.ovl = @ \/ PushOverlaps(st.buf, st.max, off, pkt.len)]

pushFails(st, pkt) ==
  PushResult(st.buf, st.max, Offset(st, pkt), pkt.len) \in {"full", "window"}

\* A limit of 0 means no limit.
Exceeds(n, limit) == limit > 0 /\ n > limit

\* From the append to HeldPackets to the end of handlePacket, for a flow that
\* is collecting.
collect(m0, c, k, pkt) ==
  LET m  == [m0 EXCEPT !.flows[k].held = Append(@, pkt), !.heldBytes = @ + DataLen(pkt)]
      st == m.flows[k]
      new == push(st, pkt)
      x  == [m EXCEPT !.flows[k] = new,
                      !.reassemblyBytes =
                         NonNegative(@ + Cardinality(new.buf) - Cardinality(st.buf))]
  IN IF Len(st.held) >= c.maxHeldPackets \/ st.expired THEN failOpen(m, k)
     ELSE IF pushFails(st, pkt) \/ Exceeds(x.reassemblyBytes, c.maxReassembly)
       THEN failOpen(x, k)
     ELSE IF pkt.flag = "SYN" THEN failOpen(x, k)
     ELSE IF pkt.flag \in {"RST", "FIN"} THEN Delete(failOpen(x, k), k)
     ELSE IF c.mode = "tls-hello" THEN [x EXCEPT !.next = "split"]
     ELSE IF ContigLen(new) >= new.first                     \* trySplitImmediate
       THEN [x EXCEPT !.next = "inject", !.win = new.first]
     ELSE x

\* A mutation: a packet over the held budget is sent before the ones held.
handleKnown_overtakes(m0, c, k, pkt) ==
  LET m == [m0 EXCEPT !.flows[k].idle = FALSE]
      st == m.flows[k]
  IN IF pkt.len = 0 /\ pkt.flag \in {"RST", "FIN"}
       THEN Delete(Send(IF st.state = "collecting" THEN failOpen(m, k) ELSE m,
                        k, Wire(pkt)), k)
     ELSE IF st.state # "collecting" \/ pkt.len = 0 THEN Send(m, k, Wire(pkt))
     ELSE IF Exceeds(m.heldBytes + DataLen(pkt), c.maxHeldBytes)
       THEN failOpen(Send(m, k, Wire(pkt)), k)
     ELSE collect([m EXCEPT !.flows[k].tpl = pkt], c, k, pkt)

\* handlePacket for a flow in the table.
handleKnown(m0, c, k, pkt) ==
  LET m == [m0 EXCEPT !.flows[k].idle = FALSE]
      st == m.flows[k]
  IN IF pkt.len = 0 /\ pkt.flag \in {"RST", "FIN"}
       THEN Delete(Send(IF st.state = "collecting" THEN failOpen(m, k) ELSE m,
                        k, Wire(pkt)), k)
     ELSE IF st.state # "collecting" \/ pkt.len = 0 THEN Send(m, k, Wire(pkt))
     ELSE IF Exceeds(m.heldBytes + DataLen(pkt), c.maxHeldBytes)
       THEN Send(failOpen([m EXCEPT !.flows[k].tpl = pkt], k), k, Wire(pkt))
     ELSE collect([m EXCEPT !.flows[k].tpl = pkt], c, k, pkt)

\* A mutation: the flow limit is compared with > instead of >=.
handleUnknown_offByOne(m, c, k, pkt) ==
  IF \/ pkt.len = 0
     \/ c.maxFlows > 0 /\ Cardinality(DOMAIN m.flows) > c.maxFlows
     \/ Exceeds(m.heldBytes + DataLen(pkt), c.maxHeldBytes)
     \/ Exceeds(m.reassemblyBytes + pkt.len, c.maxReassembly)
    THEN Send(m, k, Wire(pkt))
    ELSE collect(Create(m, k, NewFlow(c, pkt)), c, k, pkt)

\* handlePacket for a flow not in the table: four reasons to pass the packet
\* through and create no state.
handleUnknown(m, c, k, pkt) ==
  IF \/ pkt.len = 0
     \/ c.maxFlows > 0 /\ Cardinality(DOMAIN m.flows) >= c.maxFlows
     \/ Exceeds(m.heldBytes + DataLen(pkt), c.maxHeldBytes)
     \/ Exceeds(m.reassemblyBytes + pkt.len, c.maxReassembly)
    THEN Send(m, k, Wire(pkt))
    ELSE collect(Create(m, k, NewFlow(c, pkt)), c, k, pkt)

handlePacket(m, c, k, pkt) ==
  IF k \in DOMAIN m.flows THEN handleKnown(m, c, k, pkt) ELSE handleUnknown(m, c, k, pkt)

-----------------------------------------------------------------------------
\* tls.DetectClientHelloRecord on the first n bytes of a record with header h.
DetectClientHelloRecord(n, h) ==
  IF n < 6 THEN "needMore"
  ELSE IF \/ h.contentType # 22
          \/ h.version < 769 \/ h.version > 772
          \/ h.handshake # 1
          \/ h.recordLen = 0
    THEN "mismatch" ELSE "match"

\* The bytes a flow's buffer begins with: the record header if the first packet
\* captured is the first of the stream, something else otherwise.
HeaderAt(k, base) == IF base = 0 THEN Hello[k] ELSE [Hello[k] EXCEPT !.contentType = 23]

trySplitTLSHello(m, c, k) ==
  LET st == m.flows[k]
      n  == ContigLen(st)
      h  == HeaderAt(k, st.base)
      need == 5 + h.recordLen
  IN CASE DetectClientHelloRecord(n, h) = "needMore" -> m
       [] DetectClientHelloRecord(n, h) = "mismatch" -> failOpen(m, k)
       [] OTHER -> IF need > c.maxBuffer THEN failOpen(m, k)
                   ELSE IF n < need THEN m
                   ELSE [m EXCEPT !.next = "inject", !.win = need]

\* Segments of the stream, from offset off of the flow on, as they are sent.
OnWire(st, segs, off) ==
  [i \in DOMAIN segs |-> [from |-> (st.base + off + segs[i].from) % SeqSpace,
                          len |-> segs[i].len, id |-> 0]]

\* The elements of a sequence at the indices in I, in order.
Select(seq, I) ==
  [j \in 1 .. Cardinality(I) |->
     seq[CHOOSE i \in I : Cardinality({h \in I : h <= i}) = j]]

\* The held packets that reach beyond the window.
Beyond(st, win) ==
  Select(st.held, {i \in DOMAIN st.held : Offset(st, st.held[i]) + st.held[i].len > win})

\* A mutation: a packet that reaches into the window is sent as a whole.
reinjectTrimmed_untrimmed(st, win) ==
  [i \in DOMAIN Beyond(st, win) |-> [Wire(Beyond(st, win)[i]) EXCEPT !.id = 0]]

\* reinjectTrimmed: the part of every held packet that lies after the window.
reinjectTrimmed(st, win) ==
  LET trim(pkt) == NonNegative(win - Offset(st, pkt))
      part(pkt) == [from |-> (pkt.seq + trim(pkt)) % SeqSpace,
                    len |-> pkt.len - trim(pkt), id |-> 0]
  IN [i \in DOMAIN Beyond(st, win) |-> part(Beyond(st, win)[i])]

\* What injectWindow sends in place of the held packets; <<>> if it gives up.
InjectPlan(st, c, win) ==
  LET maxPayload == clampSegmentPayload(st.tpl.len, HeaderLen, c.maxSegment, IPMax)
      split == SplitFirst(win, c.splitChunk, maxPayload)
      rest  == ContigLen(st) - win
  IN IF win < 1 \/ maxPayload < 1 \/ Len(split) < 2 THEN <<>>
     ELSE OnWire(st, split, 0) \o
          IF rest = 0 THEN <<>>
          ELSE IF ~st.ooo /\ ~st.ovl THEN reinjectTrimmed(st, win)
          ELSE OnWire(st, ChunkPayload(0, rest, maxPayload), win)

\* A mutation: the held packets are dropped before the segments are sent.
injectWindow_dropsFirst(m, k, win, plan) ==
  LET drop == dropHeld(m, k)
      sent == SendAll(drop, k, plan)
  IN IF ContigLen(m.flows[k]) < win THEN m
     ELSE IF plan = <<>> THEN failOpen(m, k)
     ELSE IF drop.next = "failed" THEN drop
     ELSE IF sent.next = "failed" THEN failOpen([sent EXCEPT !.next = "idle"], k)
     ELSE clearCollectingState([sent EXCEPT !.flows[k].state = "injected"], k)

\* A mutation: the error of a segment that cannot be sent is ignored.
injectWindow_ignoresError(m, k, win, plan) ==
  LET sent == [SendAll(m, k, plan) EXCEPT !.next = "idle"]
      drop == dropHeld(sent, k)
  IN IF ContigLen(m.flows[k]) < win THEN m
     ELSE IF plan = <<>> THEN failOpen(m, k)
     ELSE IF drop.next = "failed" THEN drop
     ELSE clearCollectingState([drop EXCEPT !.flows[k].state = "injected"], k)

\* injectWindow with its plan: send the segments, drop the held packets.  If a segment
\* cannot be sent the flow fails open (the error is not returned); if a packet cannot
\* be dropped the error is returned and the flow stays as it is.
injectWindow(m, k, win, plan) ==
  LET sent == SendAll(m, k, plan)
      drop == dropHeld(sent, k)
  IN IF ContigLen(m.flows[k]) < win THEN m
     ELSE IF plan = <<>> THEN failOpen(m, k)
     ELSE IF sent.next = "failed" THEN failOpen([sent EXCEPT !.next = "idle"], k)
     ELSE IF drop.next = "failed" THEN drop
     ELSE clearCollectingState([drop EXCEPT !.flows[k].state = "injected"], k)

\* A mutation: a flow that collects is not evicted.
evict_skipsCollecting(m, k) == IF m.flows[k].state = "collecting" THEN m ELSE Delete(m, k)

\* gc for one idle flow: it is evicted, or kept if it cannot fail open.
evict(m, k) ==
  LET st == m.flows[k]
      open == IF st.state = "collecting" /\ st.held # <<>> THEN failOpen(m, k) ELSE m
  IN Delete(open, k)

-----------------------------------------------------------------------------
Init ==
  /\ scenario \in Scenarios
  /\ pos = [k \in Keys |-> 0]
  /\ cfg = scenario.config
  /\ flows = [k \in {} |-> NoPacket]
  /\ heldBytes = 0 /\ reassemblyBytes = 0
  /\ pc = "idle" /\ sweep = {} /\ cur = "none" /\ windowLen = 0
  /\ wire = [k \in Keys |-> <<>>]
  /\ dropped = [k \in Keys |-> {}]
  /\ burst = [base |-> 0, contig |-> 0, segs |-> <<>>]
  /\ beyond = [k \in Keys |-> {}]
  /\ fails = 0 /\ reloads = 0

\* The calls that fail in one handler.
Failures == {bad \in SUBSET (0 .. MaxCalls - 1) : Cardinality(bad) <= scenario.fails - fails}

\* What a handler has done.
Commit(m) ==
  /\ m.bad \subseteq 0 .. m.n - 1
  /\ flows' = m.flows
  /\ heldBytes' = m.heldBytes
  /\ reassemblyBytes' = m.reassemblyBytes
  /\ wire' = m.wire
  /\ dropped' = m.dropped
  /\ fails' = fails + Cardinality(m.bad)

\* The handler is over, or has called the next function, for flow k.
Continue(m, k) ==
  /\ Commit(m)
  /\ pc' = m.next
  /\ cur' = IF m.next \in {"split", "inject"} THEN k ELSE "none"
  /\ windowLen' = m.win
  /\ UNCHANGED sweep

\* The select of run takes the next packet of flow k.
HandlePacket(k) ==
  /\ pc = "idle"
  /\ pos[k] < Len(script[k])
  /\ \E m \in {handlePacket(Machine(bad), cfg, k, script[k][pos[k] + 1]) :
                bad \in Failures} : Continue(m, k)
  /\ pos' = [pos EXCEPT ![k] = @ + 1]
  /\ UNCHANGED <<scenario, cfg, burst, beyond, reloads>>

TrySplitTLSHello ==
  /\ pc = "split"
  /\ \E m \in {trySplitTLSHello(Machine(bad), cfg, cur) : bad \in Failures} : Continue(m, cur)
  /\ UNCHANGED <<scenario, pos, cfg, burst, beyond, reloads>>

\* The stream positions of the offsets in S.
Positions(st, S) == {(st.base + o) % SeqSpace : o \in S}

InjectWindow ==
  /\ pc = "inject"
  /\ LET st == flows[cur]
         done == cur \in DOMAIN flows' /\ flows'[cur].state = "injected"
     IN /\ \E plan \in {InjectPlan(st, cfg, windowLen)} :
             /\ \E m \in {injectWindow(Machine(bad), cur, windowLen, plan) :
                           bad \in Failures} : Continue(m, cur)
             /\ burst' = IF done
                          THEN [base |-> st.base, contig |-> ContigLen(st), segs |-> plan]
                          ELSE burst
        /\ beyond' = IF done
                       THEN [beyond EXCEPT ![cur] =
                               @ \cup Positions(st, {o \in st.buf : o > ContigLen(st)})]
                       ELSE beyond
  /\ UNCHANGED <<scenario, pos, cfg, reloads>>

\* The GC timer fires (when no flow is idle gc changes nothing).
Tick ==
  /\ pc = "idle"
  /\ sweep' = {k \in DOMAIN flows : flows[k].idle}
  /\ sweep' # {}
  /\ pc' = "gc"
  /\ UNCHANGED <<scenario, pos, cfg, flows, heldBytes, reassemblyBytes, cur, windowLen,
                 wire, dropped, burst, beyond, fails, reloads>>

\* gc visits the table, in no particular order; an error does not stop it and is
\* returned at the end.
CollectGarbage(k) ==
  /\ pc \in {"gc", "gcErr"} /\ k \in sweep
  /\ sweep' = sweep \ {k}
  /\ \E m \in {evict(Machine(bad), k) : bad \in Failures} :
       LET err == pc = "gcErr" \/ m.next = "failed"
       IN /\ Commit(m)
          /\ pc' = CASE sweep' # {} /\ ~err -> "gc"
                     [] sweep' # {} /\ err  -> "gcErr"
                     [] sweep' = {} /\ ~err -> "idle"
                     [] sweep' = {} /\ err  -> "failed"
  /\ UNCHANGED <<scenario, pos, cfg, cur, windowLen, burst, beyond, reloads>>

\* An ACK-only packet of flow k, passed through by recvLoop, keeps it alive.
Touch(k) ==
  /\ pc = "idle"
  /\ k \in DOMAIN flows
  /\ scenario.acks
  /\ flows' = [flows EXCEPT ![k].idle = FALSE]
  /\ UNCHANGED <<scenario, pos, cfg, heldBytes, reassemblyBytes, pc, sweep, cur, windowLen,
                 wire, dropped, burst, beyond, fails, reloads>>

\* CollectTimeout passes for a flow.
Expire(k) ==
  /\ pc = "idle"
  /\ k \in DOMAIN flows /\ flows[k].state = "collecting" /\ ~flows[k].expired
  /\ flows' = [flows EXCEPT ![k].expired = TRUE]
  /\ UNCHANGED <<scenario, pos, cfg, heldBytes, reassemblyBytes, pc, sweep, cur, windowLen,
                 wire, dropped, burst, beyond, fails, reloads>>

\* FlowIdleTimeout passes for a flow.  It need not be longer than CollectTimeout.
GoIdle(k) ==
  /\ pc = "idle"
  /\ k \in DOMAIN flows /\ ~flows[k].idle
  /\ flows' = [flows EXCEPT ![k].idle = TRUE]
  /\ UNCHANGED <<scenario, pos, cfg, heldBytes, reassemblyBytes, pc, sweep, cur, windowLen,
                 wire, dropped, burst, beyond, fails, reloads>>

\* Engine.Reload calls setConfig while the worker runs.  (A configuration that
\* changes the number of workers or their queues is refused and changes nothing.)
Reload(c) ==
  /\ reloads < scenario.reloads
  /\ c # cfg
  /\ cfg' = c
  /\ reloads' = reloads + 1
  /\ UNCHANGED <<scenario, pos, flows, heldBytes, reassemblyBytes, pc, sweep, cur, windowLen,
                 wire, dropped, burst, beyond, fails>>

Next ==
  \/ \E k \in Keys : HandlePacket(k) \/ Touch(k) \/ Expire(k) \/ GoIdle(k)
  \/ TrySplitTLSHello \/ InjectWindow
  \/ Tick \/ \E k \in Keys : CollectGarbage(k)
  \/ \E c \in Configs : Reload(c)

Spec == Init /\ [][Next]_vars

\* The worker leaves a function it has called, or gc goes on to the next flow.
Proceed ==
  /\ pc \in {"split", "inject", "gc", "gcErr"}
  /\ pc' \in {"inject", "gc", "gcErr", "idle", "failed"}
  /\ sweep' \in SUBSET sweep

\* The worker goes on once it has begun with a packet or with gc, its timer fires,
\* and time passes.  That packets, ACKs or reloads come is not assumed.
FairSpec ==
  /\ Spec
  /\ WF_<<pc, sweep>>(Proceed)
  /\ WF_vars(Tick)
  /\ \A k \in Keys : WF_vars(Expire(k)) /\ WF_vars(GoIdle(k))

-----------------------------------------------------------------------------
Bytes(from, len) == {(from + i) % SeqSpace : i \in 0 .. len - 1}
Handled(k) == UNION {Bytes(script[k][i].seq, script[k][i].len) : i \in 1 .. pos[k]}
SentBytes(k) == UNION {Bytes(wire[k][i].from, wire[k][i].len) : i \in DOMAIN wire[k]}
HeldPackets(k) == IF k \in DOMAIN flows THEN flows[k].held ELSE <<>>
HeldStream(k) == UNION {Bytes(HeldPackets(k)[i].seq, HeldPackets(k)[i].len) :
                          i \in DOMAIN HeldPackets(k)}
Collecting(k) == k \in DOMAIN flows /\ flows[k].state = "collecting"

\* No handler has ended with an error.
Intact == pc \notin {"gcErr", "failed"}

\* The two counters that the per-worker budgets are checked against are exactly
\* the bytes the flow table holds, on every path including the error paths: they
\* never drift, and the clamps to zero in clearCollectingState never act.
BudgetsExact ==
  /\ heldBytes = Cardinality(Tagged([k \in DOMAIN flows |-> HeldData(flows[k])]))
  /\ reassemblyBytes = Cardinality(Tagged([k \in DOMAIN flows |-> flows[k].buf]))

\* Under one configuration the worker stays within its limits: tracked flows,
\* held and reassembly bytes, and held packets of a flow.
WithinLimits ==
  reloads = 0 /\ Intact =>
    /\ ~Exceeds(Cardinality(DOMAIN flows), cfg.maxFlows)
    /\ ~Exceeds(heldBytes, cfg.maxHeldBytes)
    /\ ~Exceeds(reassemblyBytes, cfg.maxReassembly)
    /\ \A k \in DOMAIN flows : Len(flows[k].held) < cfg.maxHeldPackets

\* Every captured packet that the worker has handled is in exactly one place: held
\* by its flow, accepted once, or dropped once.  This also holds after a segment
\* could not be sent and the flow failed open instead.
OneVerdictEach ==
  Intact =>
    \A k \in Keys : \A i \in 1 .. pos[k] :
      1 = Cardinality({j \in DOMAIN wire[k] : wire[k][j].id = i})
          + Cardinality({j \in DOMAIN HeldPackets(k) : HeldPackets(k)[j].id = i})
          + (IF i \in dropped[k] THEN 1 ELSE 0)

\* Captured packets of a flow leave in the order in which they came, whether they
\* were held, passed through, or released by a limit, a timeout, FIN or gc.
InOrder ==
  Intact =>
    \A k \in Keys : \A i, j \in DOMAIN wire[k] :
      i < j /\ wire[k][i].id # 0 /\ wire[k][j].id # 0 => wire[k][i].id < wire[k][j].id

\* No byte is lost, except those that were held beyond a gap in the stream when
\* the flow was split: those are dropped with the held packets and not injected.
OnlyGapBytesLost ==
  Intact =>
    \A k \in Keys : Handled(k) \subseteq SentBytes(k) \cup HeldStream(k) \cup beyond[k]

\* Under one configuration an injection sends the contiguous prefix exactly once
\* and in order, whether the remainder is rebuilt from the held packets or cut
\* into chunks.
BurstTiles ==
  reloads = 0 =>
    LET segs == burst.segs
        end(i) == (segs[i].from + segs[i].len) % SeqSpace
    IN segs # <<>> =>
         /\ segs[1].from = burst.base
         /\ \A i \in 1 .. Len(segs) - 1 : segs[i + 1].from = end(i)
         /\ end(Len(segs)) = (burst.base + burst.contig) % SeqSpace

\* No packet is held for ever: a flow that collects is split, fails open or is
\* evicted, unless ACKs keep it alive again and again.
HeldLeaves ==
  \A k \in Keys :
    (Collecting(k) ~> (~Collecting(k) \/ pc = "failed")) \/ []<><<Touch(k)>>_vars
=============================================================================
