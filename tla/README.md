# gov-pass: verification project

gov-pass splits the first TLS record of outgoing HTTPS connections into several
TCP segments. It takes packets out of the kernel (NFQUEUE on Linux, WinDivert on
Windows, divert sockets on FreeBSD), holds the first packets of each flow until
the ClientHello is complete, injects the record in smaller segments and drops the
originals. Whatever else happens, it must *fail open*: a packet that was taken
from the kernel has to be given back.

This directory holds TLA+ models of the parts that carry this promise, the TLC
configurations that check them on small instances, and TLAPS proofs for
instances of any size. `PROJECT.json` maps every definition to the lines it
models, and lists runs, mutants, hazards, findings and theorems.

## 1. Inventory

| Part | State | Operations | Interacts with |
|---|---|---|---|
| Engine (`internal/engine/engine.go`) | context, workers, `workerErrCh`, `recvErrCh`, `wg`, adapter | `Run`, `recvLoop`, `Reload` | starts a goroutine per worker and one for `recvLoop`; calls the adapter |
| Worker (`internal/engine/worker.go`) | flow table, `heldBytes`, `reassemblyBytes`, configuration pointer, channels `in` and `touch` | `enqueue`, `touchFlow`, `run`, `handlePacket`, `trySplit…`, `injectWindow`, `failOpen`, `gc`, `shutdownFailOpen`, `setConfig` | fed by `recvLoop`; sends and drops through the adapter; reconfigured by `Reload` |
| Reassembly (`internal/reassembly`) | contiguous prefix, sorted segments, byte count, two flags | `Push`, `compact` | called by the worker for each held packet |
| TLS (`internal/tls`) | none | `DetectClientHelloRecord` | called by the worker on the prefix |
| Flow table, sharder (`internal/flow`) | map of `FlowState` | `GetOrCreate`, `Delete`, `Index` | owned by one worker; `recvLoop` shards |
| Configuration (`internal/engine/config.go`) | limits, split mode | parsing, defaults, validation | read by worker and engine |
| Packet codec (`internal/packet`) | none | decode and build IPv4/TCP, checksums | `recvLoop`, `sendSegments` |
| NFQUEUE adapter | `recv` and `errs` channels, `flushing`, `inFlight`, context, queue | `onPacket`, `onError`, `Recv`, `Send`, `Drop`, `Flush`, `Close` | callback goroutine of go-nfqueue against the engine |
| WinDivert adapter | `recv`, `errs`, `done` channels, context, handle | receive goroutine, `Recv`, `Send`, `Drop`, `Flush`, `Close` | driver against the engine |
| FreeBSD adapter | divert socket | polling `Recv`, `Send`, `Flush`, `Close` | kernel against the engine |
| Driver installer (`internal/driver`) | Windows driver service, driver files | `Ensure` and its clean-up function, download | Windows splitter; `sc.exe` |
| Linux splitter (`cmd/splitter`) | flags, firewall rules, offload settings | start-up, `Run`, undo | engine, adapter, nft, iptables, ethtool |
| Windows splitter and service (`cmd/splitter`) | flags, `config.json`, current configuration, `reloadCh`, `errCh`, context, state at the SCM | `Execute`, `runWindows`, `runWindowsService`, `effectiveWindowsConfig`, `ensureWinDivertFiles` | SCM, engine, adapter, driver installer |
| Tray (`cmd/gov-pass-tray`) | menu, last service state shown | polling, elevated helpers that start, stop, restart and reload | the service, through the SCM (Linux: systemctl) |
| MSI helper, scripts, packaging | none of their own | installer calls | - |

What is hard in this code:

* **Shutdown.** Cancellation, a worker error and a receive error race each other
  and the packets in flight. Channels are closed, the adapter is flushed and then
  closed; each of these is only safe after somebody else has stopped.
* **Selects.** Go picks any ready case. A test of `ctx.Err()` before a select
  does not keep the select from sending after a cancellation.
* **Partial failure.** Each adapter call may fail in the middle of a burst of
  sends, or of a loop that releases or drops held packets.
* **Budgets.** Two byte counters are changed on a dozen paths. A counter that
  drifts makes the worker refuse every later flow.
* **Streams.** Fragments come in any order, overlap, repeat, and wrap.
* **Time.** Collect timeout and idle timeout are looked at only when something
  else happens.
* **Reload** replaces the configuration between two functions handling the same
  packet.
* **What survives the process.** Firewall rules, offload settings, driver files,
  the driver service and `config.json` are changed step by step; a run may fail or
  be killed between any two, and the next one starts from what is left.
* **The service.** Controls of the SCM, the runner, the engine and a changing file
  race each other; the tray acts on a state it has read earlier.

The full list, by line, is under `hazards` in `PROJECT.json`.

What makes each part correct: the engine gives every packet back once, stops, and
reports failures; the worker stays within its limits, keeps order, loses no byte
and holds nothing for ever; the buffer is a window of bytes with exact counts; a
split covers its payload; an adapter leaves nothing in its buffer after a flush,
and tells the engine when the kernel side has died; a set-up is undone by those who
did it and blocks nobody later; the service applies every reload that was asked
for and stops when told to; the tray shows the state of the service.

## 2. Modules

```
FailOpen          abstract ledger of captured packets
  ^ implemented by
Engine            Run, recvLoop, worker goroutines, shutdown   <- EngineProofs, MCEngine

StreamWindow      abstract window of stream bytes (uses WindowOps)
  ^ implemented by
Reassembly        Buffer.Push and compact                       <- EngineProofs, MCParts

WindowOps         the window as a set of offsets   \
SegmentOps        splitFirst, chunkPayload results  > Worker <- WorkerProofs, MCWorker
SplitPlan         the loops that compute them       (SegmentOps; <- WorkerProofs, MCParts)

NFQueueAdapter    callback goroutine, Recv, Flush, Close   <- NFQueueProofs, MCParts
WinDivertAdapter  receive goroutine, Recv, Flush, Close    <- WinDivertProofs, MCWindows
DivertAdapter     Recv, Flush, Close on a divert socket    <- DivertProofs, MCParts

LinuxSetup        rules and offloads, over several runs    <- LinuxSetupProofs, MCParts
WindowsSetup      config.json, driver files and driver
                  service, over several runs               <- WindowsSetupProofs

WindowsService    control handler, runner with reload, engine goroutine
  ^ extended by
Tray              polling, menu, helpers that control the service
                                                           <- WindowsServiceProofs, MCWindows
```

The composition is by interface. `Engine` leaves open what a worker decides about
a packet (any subset of the held packets may leave with it) and `Worker` models
the decision. `Worker` uses the window operators that `Reassembly` is shown to
implement (`ImplementsWindow`, proved) and the closed forms that the loops of `SplitPlan`
are shown to compute (`MatchesClosedForm`, proved). In `Engine` the adapter is a buffer
with a `Flush` that may fail; the adapter modules model that flush. `Tray` composes
with `WindowsService` through the SCM; what `WindowsService` does in one step to
set up the driver is the subject of `WindowsSetup`.

**Engine.** `loc[p]` says where a packet is: on the wire, in the adapter's
buffer, in the hands of `recvLoop`, in a worker queue, held, or out. `sent[p]`
counts how often it was given back. Each goroutine has a program counter; an
action is the code between two points where another goroutine may intervene
(channel operations, adapter calls, context tests). `enqueue` is two actions, the
test of the context and the select. `shutdownFailOpen` reinjects one packet per
action, first held, then queued, up to `FlushMax` or until its deadline, which
may pass at any time. Queues are sets, since no property of the engine depends on
their order. Errors are `"fail"` (I/O), `"guard"` (a shutdown limit) and
`"canceled"`. `stopAsked` and `trouble` are history variables.

**Worker.** One handler is one action, except that `handlePacket`,
`trySplitTLSHello` and `injectWindow` each load the configuration and are
separate, so that a reload may come between them. The functions are operators on
a record of the worker's data; each adapter call in them is numbered and the
action chooses which calls fail; a run of calls ends with the first that fails, so
that what it has sent or dropped is a prefix, given in closed form (`Calls`). `gc`
visits one idle flow per action: `sweep` holds those it has yet to visit, in any order,
as in a Go map. What may happen (the packets of each flow, the
configuration, how many calls fail, how many reloads, whether ACKs come) is a scenario, chosen in the
initial state. A packet is a range of its flow's stream plus a
TCP flag; `wire` records what leaves, with `id` 0 for an injected segment. Time is
two flags per flow, `expired` and `idle`. `burst` and `beyond` are history
variables.

**Reassembly.** The Go `Buffer` with its bytes; `Push` is a function from buffer,
sequence number and payload to buffer and answer. `sort.Search` is a count of the
segments that begin earlier. The two loops, over `right` and in `compact`, are given
by the point at which they stop: every segment before it satisfies the condition of
the loop with what the earlier ones have made of `newEnd` or `contigLen`, and the
next one does not. Sequence arithmetic is modulo `SeqSpace` (2^32 in the code).

**SplitPlan** has one action per loop iteration of `splitFirst`/`chunkPayload`.

**Adapters.** The callback (or receive) goroutine is split at each atomic or
channel operation and runs against `Recv`, `Flush` and `Close` of the engine,
which calls `Flush` only after it has stopped receiving (`AdapterOutlivesSenders`
in `Engine`). go-nfqueue and WinDivert are external: they are modelled by what
the adapters rely on. go-nfqueue notices a canceled context only between batches,
so callbacks may still come after `stop()`; WinDivertRecv returns a waiting
packet even after a shutdown of the receive side. `DivertAdapter` has no goroutine
of its own: the engine's `recvLoop` and `Run` are against the kernel. It counts
packets and does not name them, so that the traffic may be endless in a finite
model.

**LinuxSetup.** A run of the Linux program is a list of commands to do; the
deferred functions are the list that undoes them. Each command may fail, the
process may be killed between two of them, and the next run starts from what the
kernel has kept: the rules in our chain, the iptables jumps, the offload state.
nft and iptables differ in their lists. Deleting nft rules and iptables jumps
takes a step for each.

**WindowsSetup.** `pc` names the next step of a run: reading or creating
`config.json`, the steps of a download, each command of `sc.exe`, opening the
adapter, the engine, the commands of the clean-up. A step succeeds, fails, or the
process is killed; the context may be canceled at any time, after which no command
of `sc.exe` starts and one that is under way is killed with or without effect.
Files and the driver service stay from run to run; a file may get lost between two
runs, and the driver service may exist before the first, running or not, with a
binary that is there or not. The flags are the same in every run.

**WindowsService** has one group of actions per goroutine: `Execute`, the runner
(`runWindowsService`) and the engine. `reloadCh` has one place. A reload is three
steps, the reading of the file, the queue parameters of the driver and
`Engine.Reload`, so that the file may change, the engine end, or a stop come in
between. `seen`, `seenVersion`, `asked` and `clean` are history variables.
**Tray** adds `pollStatus`, which paints only changes, and helpers: a click starts
one, which acts when the user has confirmed the elevation, with the action chosen
at the click.

Definitions named `X_something` are mutations of `X`: plausible bugs that the
named property has to detect (`mutants` in `PROJECT.json`). No specification uses
them.

## 3. Runs

`tlc -config <cfg> <module>` in this directory.

| Run | Module, cfg | Result |
|---|---|---|
| `parts` | MCParts, MCParts.cfg | pass |
| `reassembly_earliest` | Reassembly, ReassemblyEarliest.cfg | `EarliestBytesKept` violated |
| `divert_stop` | DivertAdapter, DivertStop.cfg | `StopNeverHangs` violated |
| `engine` | MCEngine, MCEngine.cfg | pass |
| `engine_queues` | MCEngine, MCEngineQueues.cfg | pass |
| `engine_enqueue` | MCEngine, MCEngineEnqueue.cfg | `NoneStuckInQueue` violated |
| `engine_guardrails` | MCEngine, MCEngineGuardrails.cfg | `GuardrailsForgiven` violated |
| `worker` | MCWorker, MCWorker.cfg | pass |
| `windows_setup` | WindowsSetup, WindowsSetup.cfg | pass |
| `windows_driver_left` | WindowsSetup, WindowsDriverLeft.cfg | `UninstalledOnExit` violated |
| `windows_fallback` | WindowsSetup, WindowsFallback.cfg | `FallsBackToData` violated |
| `windows` | MCWindows, MCWindows.cfg | pass |

`parts` and `windows` check modules that share no state side by side: the variable
`part`, chosen in the initial state, says which module takes steps in a behaviour,
and the others rest where they begin. The states of the modules add up (173,352 in
`parts`) and do not multiply. No fair action of a resting module is enabled, except
the poll of the tray, which is allowed, and the actions of the WinDivert adapter,
whose fairness is asked for in its own behaviours only. So the liveness properties are
not made true by fairness that nobody can meet. The modules are described one by one.

**parts, Reassembly**: sequence space 7, window 5, two byte values, fragments up to 3
bytes at any sequence number. Base 5 makes the stream wrap inside the window, and
fragments near the end of the space overflow `offset + len`. Window 5 has room
for a prefix, a gap, a segment, a gap and a segment, which is every shape the
merge distinguishes: one on each side, touching, overlapping or enclosed. The
segment list stays sorted and separated (`SegmentsSeparated`), the byte counts
are exact (`BytesAccounted`), and the buffer implements the window
(`ImplementsWindow`): the prefix is never rewritten, and a flag is up when anything
is stored beyond it.

**parts, SplitPlan**: every payload length, first length and limit up to 7, which
includes 0, 1, equal values, and up to seven iterations.

**parts, NFQueueAdapter**: a buffer of one packet, so that three packets reach
"full", "one waits" and "one in hand" at once; deadlines and verdict failures may
happen at any time. The fourth packet has no payload attribute. `FlushedStaysEmpty`
and `StuckIsExcused` say what a flush leaves behind, `ErrorEndsRecv` and `FlushEnds`
that nobody waits for ever.

**parts, DivertAdapter**: a socket for three packets, without a bound on the traffic; two
interrupted and two failing system calls. `FlushDrains`: a `Flush` without error has
given back all that was waiting when it began. `ShutdownUnlessBusy`: `Flush` ends
under any load, and a canceled `recvLoop` ends unless packets keep coming.

**parts, LinuxSetup**: all flags that pass validation, both tools, four runs, of which
two may be killed, and three failing commands. A counterexample to a property here
needs at most a run that leaves something, a run that is confused by it, and two
failures; the fourth run and the third failure are a margin. `BypassBeforeQueue`:
while the engine runs, the queue rule is preceded by the bypass rules, whatever
earlier runs left. `RulesRemoved`: a run that ends by itself leaves no queue rule
in force, also on the error paths that clean up twice or not at all.
`OffloadRestored`: the offload settings are the original ones unless a command
failed or a run was killed.

**engine**: two workers, two data packets and an ACK, queue size 1, flush limit
2. Both packets belong to one worker, so that the first is handled while the second
waits for room, also when the worker has ended; the two of them reach the flush
limit. The other worker has no packets and can fail only by its deadline. Who stops
before whom, the ledger and termination are checked together. Deadlock is not an error
here: `Run` returns and nothing is left to do (the same holds of the other runs: a
script ends, an adapter is closed).

**engine_queues**: three data packets, two for one worker and one for the other, room
for two in each queue, flush limit 3, no fairness: 2,901,134 distinct states. Without
the test of the context in `enqueue`, two packets are left behind in one queue, or one in each of two
(that is a mutant); `AtMostOneStranded` shows that with it one is the most. Both
workers may fail, with packets or by a guardrail, one before the other or before `Run`
looks (`WorkerFailureReported`), and packets may be with `recvLoop`, in both queues and
held at once (`TwiceOnlyAfterFailure`).

**worker**: three flows with room for two, every script of three packets out of
seven for one of them (in order, repeated, overlapping, beyond a gap and beyond
the buffer, mid-stream, FIN with data, SYN), with limits that these scripts can
meet; and scenarios of two flows and four kinds of packet (a FIN without data
among them, though never first) with one failing call at any place, one reload to any
of the other configurations at any time, and any number of ACKs, in which the limit of
three held packets is reached: 569,259 distinct states. With fairness, a flow that
collects is split, fails open or is evicted, unless ACKs come again and again
(`HeldLeaves`). The collect and the idle timeout pass in either order, since they are
validated separately (main_linux.go:86, config_windows.go:313).

**windows_setup**: all flags, with and without the rights of an administrator and
write access to the directory of the program, any files and any driver service
before the first of three runs; two failures and two kills. A counterexample needs
at most a run that is killed or fails, one that goes on from what it left, and one
that finds both. `FilesWhole`: files that the next run accepts because they exist
are complete and verified. `DriverUndone`: a run that fails after `Ensure` undoes
what it did to the driver. `DriverStaysUp`: a driver that was there before, or that a
service run has brought up, is left alone. `ComesUpAgain`: what earlier runs left
behind does not keep a run without failures from reaching the engine.

**windows, WinDivertAdapter**: as for NFQUEUE, a buffer of one packet and three
packets. A flush that returns nil leaves nothing behind (`FlushLeavesNothing`), and
every flush ends (`FlushEnds`), though the goroutine may block in WinDivertRecv.

**windows, WindowsService and Tray**: one helper at a time and three clicks (start,
reload, stop, or restarts in between), two changes of the file among three contents (one invalid,
one with a queue parameter at 0 and another number of workers), two controls under
way, one failure of any kind (opening, an update of the driver, the engine, a kill),
one failed query. `ReloadExact`, `ReloadHeard` and `StopEnds` are about the service,
`TrayFollows` about the menu. The second change comes during a reload of the first;
the third click and the failure make the cases of a stop in each phase.

### What the violations show

* `UninstalledOnExit` (PACKAGING.md:42, README.md:54 of the repository). The
  clean-up function of `Ensure` runs `sc.exe` with the context of the run, and the
  usual end of a console run is Ctrl-C, which cancels it. `sc stop` is not started,
  and the driver service that the run created stays, running. If the run ends for
  another reason the clean-up works (`DriverUndone`).
* `GuardrailsForgiven` (engine.go:83). The guardrail errors are forgiven only if
  `w.run` returned `context.Canceled`. If the worker saw its closed queue first it
  returned nil, and a normal stop ends with the guardrail error.
* `NoneStuckInQueue` (worker.go:64). `enqueue` tests the context and then selects
  between the send and `ctx.Done()`. With the cancellation in between the send may be
  taken, after the worker has drained its queue, and the packet is never given back,
  though nothing has failed. `AtMostOneStranded` (proved) bounds the loss to one packet.
* `EarliestBytesKept` (DESIGN_LINUX.md:75). Beyond the prefix the newest fragment is
  copied over the stored bytes (reassembly.go:148; `mergeBytes`); within the prefix the
  earliest are kept. `ImplementsWindow` says exactly that, and holds: what the buffer
  promises is that the prefix never changes.
* `StopNeverHangs` (DESIGN_BSD.md:73). On FreeBSD, `Recv` looks at its context only
  after 200 ms without a packet, and a canceled `recvLoop` passes each packet on and
  calls it again: while traffic goes on, `Run` waits for it, and the draining that the
  document bounds is not reached. That is the only way (`ShutdownUnlessBusy`).
* `FallsBackToData` (PACKAGING.md:51). `os.IsPermission` does not look into wrapped
  errors, and the first error in a directory that is not writable, that of the
  temporary file, is wrapped (windivert_download_windows.go:70): the run ends there.
  Only errors of `extractZipFile` lead to the fallback (`FallBack`), which is why
  `ComesUpAgain` excuses this case.

The violation runs are as small as the cases need: one to three packets (the buffer of
`reassembly_earliest` is that of `parts`), a socket for one packet, one run of the
Windows program without failures.

Noted without a run of their own:

* DESIGN.md:98 says that a flow fails open when the collect timeout expires. It is
  tested when the next data packet of the flow comes. If none comes the flow waits for
  `gc`, and ACKs refresh the idle time: with ACKs again and again the held packets
  stay. `HeldLeaves` names this as its only excuse.
* windivert_windows.go:343 says that a packet is not enqueued after a cancellation. As
  in `enqueue`, the select may still take the send. No harm comes of it, since `Flush`
  waits for the goroutine before it drains (`FlushLeavesNothing`).
* A first service run that is killed between the creation of `config.json` and its
  writing leaves an empty file, which every later start refuses. `ComesUpAgain`
  excuses this case.
* If the driver service was created and cannot be started, `Ensure` returns without
  clean-up, and later runs take the service for somebody else's.
* After a failed query the Windows tray shows an unknown state, with reload and
  restart disabled, until the service changes its state (main_windows.go:222); the
  Linux tray forgets the last state and paints it again (main_linux.go:141).
* Bytes held beyond a gap are dropped when the flow is split: the "split segments
  instead" of DESIGN.md:69 do not include them. `OnlyGapBytesLost` shows that
  nothing else is lost; the sender has to retransmit them.
* A Linux run that is killed while the offloads are off leaves them off, and the
  next run reads "off" as the original setting (main_linux.go:200), although
  DESIGN_LINUX.md:92 speaks of restoring the original settings. `OffloadRestored`
  names this as its only excuse besides failing commands.
* A Send error that `shutdownFailOpen` joins with a guardrail error is forgiven
  with it (engine.go:85; `Unforgiven` in `Engine`).

### Fairness

* Engine: weak fairness for each goroutine as a whole (the Go scheduler runs a
  goroutine that can run). None for the environment: packets, cancellation and
  failures need never come. The number of packets is finite, so `recvLoop`
  cannot receive for ever, which is what the code would do if it were canceled and
  its select preferred packets without end.
* Worker: it leaves a function it has called, `gc` goes on to the next idle flow, its
  timer fires, and time passes. Packets, ACKs and reloads owe nothing.
* Adapters: the goroutine goes on unless it waits for the kernel or the driver,
  `Recv` is called again and again, and so is `Flush`'s loop; on FreeBSD `Run` calls
  `Flush` once `recvLoop` has ended. No deadline need
  pass: `FlushEnds` holds without one. For the divert socket time passes: its
  `Flush` relies on its deadline.
* Windows service and tray: `Execute`, the runner and a helper go on when they can,
  a canceled engine ends (`ShutdownEnds`), and the ticker of the tray ticks. No
  click, change of the file or failure is owed.

## 4. Proofs

`tlapm M.tla` for each module `M` below checks its proofs. A module defines an
inductive invariant `IInv` as a conjunction of named parts; TLC has checked each
`IInv` on the instance of the run that checks its module. There is a lemma for every action,
or for actions that leave the same part alone, and in each theorem the last step is
`IInv => property`. The bounds of the runs (how many packets, runs, kills, failures,
clicks) are constants in the theorems, so that the results hold for all of them. The
assumptions are the `ASSUME`s of the modules: sets of packets are finite, buffers
have a place, bounds are natural numbers, the contents of a configuration have their
types.

| Module | Properties of the runs that are proved |
|---|---|
| EngineProofs | `NoSendOnClosedQueue`, `AdapterOutlivesSenders`, `AtMostOneStranded`, `TwiceOnlyAfterFailure`, `WorkerFailureReported`, `KeepsLedger`; of Reassembly `SegmentsSeparated`, `BytesAccounted`, `ImplementsWindow` |
| WorkerProofs | `BudgetsExact`, `WithinLimits`, `InOrder`, `OneVerdictEach`, `OnlyGapBytesLost`, `BurstTiles`; of SplitPlan `SegmentsTile`, `SegmentsFit`, `CutsWholePayload`, `MatchesClosedForm` |
| NFQueueProofs | `FlushedStaysEmpty`, `StuckIsExcused` |
| WinDivertProofs | `FlushLeavesNothing` |
| DivertProofs | `FlushDrains` |
| LinuxSetupProofs | `BypassBeforeQueue`, `RulesRemoved`, `OffloadRestored` |
| WindowsSetupProofs | `FilesWhole`, `DriverUndone`, `DriverStaysUp`, `ComesUpAgain` |
| WindowsServiceProofs | `ReloadExact` (and the safety part of `ReloadHeard`) |

**EngineProofs** assumes `EngineAssumption`: finitely many packets, a shard and a
class for each, queue size and flush limit positive. The set of workers is
arbitrary. The inductive invariant `IInv` is the conjunction of

* `TypeOK`;
* `RecvInv`: `recvLoop` has at most one packet in its hands, none between two
  rounds, and it has an error exactly when it has ended;
* `RunInv`: how far the others are when `Run` has reached a point. The adapter and
  channel theorems are consequences of it;
* `WorkerInv`: a worker flushes only in a canceled engine and has no held packet
  when it goes on to its queue, unless a guardrail stopped it;
* `StrandInv`: a packet in a queue that will not be read again is the only one,
  and `recvLoop` is no longer in its select. This is the core: such a packet needs
  a select entered before the cancellation. The worker that has ended implies the
  cancellation (`WorkerInv`), and after it `EnqueueCheck` does not lead to the
  select any more;
* `SentInv`: without a failed call, `sent` is 1 at most, and 0 for a packet that
  is not out;
* `ErrInv`: the error of a failed worker that has ended is in `workerErrCh`, or is
  `Run`'s. The channel has one place, so a second error may be lost, but not the
  fact of failure.

There is one lemma per action, with a step for each part of the invariant. From
`IInv`: `TypeCorrect`, `QueueCloseSafe`, `AdapterLast`, `FailsOpen`,
`OnceUnlessFailure`, `FailureReported`. `EngineKeepsLedger` shows the refinement:
`Forward` collects what every step other than `Arrive` and the return of `Run`
does to the packets, which is a `Settle` or a stutter of the ledger; `Arrive` is
`Capture`, and the return is `Stop`, whose guard is `FailsOpen`.

**EngineProofs**, second part, about `Reassembly`: for any sequence space, limit, first
sequence number, bytes and longest fragment. `BufInv` is `Counted`: the segments are
`Apart` (typed, not empty, beyond the prefix, a gap between any two, within `MaxBytes`),
`contigLen` is the length of `contig`, and `totalBytes` counts the prefix and the
offsets that the segments cover. The limit belongs to it although no run names it: it
is why no fragment that passed the tests at the top of `Push` is refused later. The
argument follows the code: `BeforeIs` for the search; `AbsorbIs` and `MergeRange` for
the merge, whose range has no gap because each absorbed segment begins at most where
the range ended before; `MergeBytesIs` for the bytes; `ReplaceIs` and `ReplacedBytes`
for the new list; `CompactIs`, by which the loop takes at most one segment; `InsertIs`
for the whole. `InsertIs` also says that the last `ErrBufferFull` of `Push`
(reassembly.go:140) is never returned: the merged bytes lie within the limit, and each
is counted once. `PushIs` compares the answer, the offsets, the bytes and the flags
with the operators of `WindowOps`, case by case, and so `ImplementsWindowHolds`: each
`Push` is a step of `StreamWindow`, and the segment list is invisible to the worker.

**WorkerProofs**, first part, about `SplitPlan`: for every length, first length and
limit, the segments cover the payload in order (`SplitTiles`), fit the limit and are not
empty (`SplitFits`), are all of it (`SplitCutsWhole`), and are those of the closed forms
that `Worker` uses (`SplitIsClosedForm`). The strengthening `LoopInv` says where the
offset stands at each control point. For the closed form, `FormInv` says that the chunks
cut so far are its first ones and that the last of them began before the end of the
payload; when the loop ends, that fixes their number to the quotient in `Chunks`
(`QuotientIs`). The loop supplies the induction that the closed form would need.

**WorkerProofs**, second part, about `Worker`: for any keys, packets, limits, failing
calls, reloads and ACKs. `WorkerAssumption` asks of packets what `recvLoop` lets through
(engine.go:196-217: one without payload comes only with FIN or RST) and of
configurations what validation accepts (at least one held packet: main_linux.go:77,
main_freebsd.go:52, config_windows.go:304). `IInv` is the conjunction of

* `ControlInv`: the flow being split is in the table, and what `gc` has yet to visit too;
* `TableInv`: `Sound`, that both counters are the sizes of disjoint unions of what the
  flows hold, all finite, that a flow that does not collect holds nothing, and that one
  that holds nothing has an empty buffer. A counter is never clamped because what is
  subtracted is a part of the union (`TaggedDrop`, `TaggedPut`);
* `PlaceInv`: `Placed`, that each packet that has come is in one place, and that those
  held are later than all that were sent. `InOrder` and `OneVerdictEach` are not
  inductive without each other: a flow that fails open keeps the order only because
  what it holds is the latest;
* `LimitInv`: the limits under one configuration. A handler holds the packet first and
  looks at the limits afterwards, so the lemmas pass on `WithinBut`, the limits of all
  but the flow in hand.

`Sound`, `Placed` and `Within` are about a machine record, not about the variables, so
that there is one lemma per operator (`failOpen`, `collect`, `dropHeld`, ...) and the
lemmas are put together as the operators are.

**WorkerProofs**, third part, about the bytes. `OnlyGapBytesLost` and `BurstTiles` say
nothing of the buffer, from which `injectWindow` makes what it sends. The inductive
invariant is `LossInv`, relative to `IInv`, with two parts more:

* `DataInv`, of every flow: the buffer stores exactly the bytes of the packets held
  (`Whole`), and unless packets came out of order or overlapped it has no gap
  (`Straight`). So a byte that is held and not in the prefix that is sent lies beyond a
  gap, and the fast path, which sends the held packets trimmed, has no gap to skip;
* `WaitInv`: under one configuration a collecting flow has less than it waits for
  (`Aim`: the length of its first packet, the record that a ClientHello fills, or six
  bytes), except the flow being split, for which only the packet held last reaches
  beyond the window (`Ready`). It is needed for packets that repeat bytes of the prefix:
  `Push` raises no flag for them (reassembly.go:62), so that `reinjectTrimmed` would
  send their bytes again if they lay beyond the window. They do not, as long as
  collecting ends as soon as the window is filled; a reload that shortens the window
  can break this, which is why `BurstTiles` is stated for one configuration.
  `OnlyGapBytesLost` needs `DataInv` only and holds for any number of reloads.

`Tiles` and `Covers` are what the slices of `SplitFirst` and `ChunkPayload` satisfy for
all lengths; `WireTiles` and `WireCovers` say the same of what is sent, with positions
modulo `SeqSpace`, and `PlanTiles` and `PlanCovers` of a whole burst, whether what
follows the window is trimmed packets or chunks. `Turn` is what each operator of a
handler does: it leaves the other flows alone, keeps in `Reach` (sent or held) what was
there, adds the packet in hand, and leaves its flow as the next function expects it.

**NFQueueProofs**, for any packets and any size of the buffer. `FlushedStaysEmpty`
alone is not inductive: a callback may be between the test of `flushing` and the
select. `CallbackInv` ties `inFlight` to the position of the callback, and `FlushInv`
says that once `Flush` has seen 0 no callback is at the select, and one that is under
way began later and will find the flag set. The same part gives `StuckIsExcused`:
when the queue is closed, the packet in a callback is in `late`.

**WinDivertProofs**: `FlushInv` says that `Flush` drains after the goroutine has ended
unless the deadline is what it will return; `HandInv` that the goroutine has exactly
one packet between WinDivertRecv and the end of its handling, and none otherwise, so
that it does not end with one; `ChanInv` and `LostInv` say where the others are.

**DivertProofs**: the packets that waited when `Flush` began are a part of those in
the socket until `Flush` has read them, because `recvLoop` has ended, and the only
way out without an error is an empty socket. Traffic and interruptions are unbounded.

**LinuxSetupProofs**, for all flags, both tools, and any number of runs, kills and
failing commands. The state of a set-up is a list of commands, so that the proof needs
to know the command at its head and what it implies: `Succ` names the command that
follows each one, `Linked` says that a list follows it, and `PlanLinked` shows
that for the concatenations of `SetupPlan`. `ChainInv` then says which rules are in the
chain at each command, whatever was there before `clear`. Of a list that undoes, only
what is still in it matters: `DivertInv` says that rules in force will be cleared or
were in force when the run began, `OffloadInv` that the original offload state is in
force, or saved and to be restored.

**WindowsSetupProofs**, for all flags, any state of the host before, and any number of
runs, kills and failing steps. A step relies on a test that was made some steps
earlier, whose result is not kept. The parts of the invariant say what is still known
at the steps in between: `ConfigInv` and `UnpackInv` of the files, `BinaryInv` that the
binary is there when the service is started (which is why no run is stuck after an
earlier one used another directory), `ServiceInv` in which state each command finds
the driver service, `OwnInv` that what the clean-up stops or deletes was made by this
run and that the driver was not up before.

**WindowsServiceProofs** is about the service as the tray and its helpers control it,
for any configurations, edits, clicks and failures. `KnownInv`: between two reloads
`curCfg` and `curWc` are what the engine and the driver really use, also after an
update that failed, which is why the next reload repeats it; `ExactInv` says which part
of a reload is already exact. `RequestNeverDropped` is the safety part of
`ReloadHeard`: while the service runs, a request made after the file was last read is
still waiting as a control, in `reloadCh`, or the runner is about to read the file. That
the one place of `reloadCh` may be taken when `Execute` tries to fill it does no harm,
because what is there is read later.

Only model-checked:

* Liveness: `ShutdownEnds`, `HeldLeaves`, `ErrorEndsRecv`, `FlushEnds`,
  `ShutdownUnlessBusy`, `ReloadHeard`, `StopEnds`, `TrayFollows`. The prover has no
  rules for fairness.

## 5. Not modelled

* Packet codec: header fields and checksums. `recvLoop`'s use of it is the
  constant `Class`. IP fragments reach `recvLoop` as packets that do not decode.
* The hash of the sharder (constant `Shard`), defaults and text forms of the
  configuration, `MaxBufferBytes` beyond 2^32.
* Raw-socket injection of the NFQUEUE adapter (a Send of the worker), the use of a
  closed WinDivert handle after a flush that timed out, the codec of divert
  addresses.
* The unsynchronised read of `e.cfg` at the end of `Run`, which affects a timeout
  only.
* Linux: installing missing tools is a step that succeeds or fails; parsing of
  command output is left out; the interface is the same in every run.
* Windows: ACLs (setting them may fail, no more), the text of configuration files,
  a driver file with another name, the log file, temporary files that a killed run
  leaves behind, the output of `sc.exe`.
* FreeBSD splitter: flags and start-up only; the engine and the adapter it runs are
  modelled.
* Linux tray: the same polling and the same actions through systemctl, without
  helpers of its own; start at login of both trays.
* User interface, MSI helper, scripts, packaging, vendored files: no state or
  protocol of their own.

## 6. Plan

Done: the engine, the worker and what it is built from, the three adapters, the
set-up on Linux and Windows, the Windows service and tray; proofs of every safety
property of these, and of both refinements. What is left of the code is
data (codecs, configuration text, icons) or has no state of its own.

Next: facts of the tray that hold without fairness.
