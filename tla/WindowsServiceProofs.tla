-------------------------- MODULE WindowsServiceProofs --------------------------
(***************************************************************************)
(* Reloading the configuration of the Windows service, proved for any      *)
(* configurations, queue parameters, edits, clicks and failures: what a    *)
(* reload applies is what the file said, and no reload request is dropped. *)
(* The service is the one that the tray and its helpers control.           *)
(***************************************************************************)
EXTENDS Tray, SequenceTheorems, TLAPS

Serving == {"loop", "read", "queue", "engine"}

TypeOK ==
  /\ file \in Configs /\ new \in Configs
  /\ version \in Nat /\ seenVersion \in Nat /\ asked \in Nat
  /\ controls \in Seq({"stop", "paramChange"})
  /\ reloadCh \in {0, 1}

\* The runner applies the configuration it has read, and knows what the engine and
\* the driver use: also if an update failed, because curWc then keeps the old value.
KnownInv ==
  /\ new = seen
  /\ run \in Serving => engineCfg = curCfg /\ driver = curWc

QueueExact == \A p \in Params : seen.queue[p] # 0 => driver[p] = seen.queue[p]

\* What is exact already at each point of a reload.
ExactInv ==
  /\ run \in {"loop", "read"} /\ clean => engineCfg.chunk = seen.chunk /\ QueueExact
  /\ run = "engine" /\ clean => QueueExact

\* What is requested is of the past, and a service that is running is not canceled
\* and has a runner.
StateInv ==
  /\ asked <= version /\ seenVersion <= version
  /\ ctxDone => scm # "running"
  /\ exec = "start" => ~ctxDone /\ scm # "running"
  /\ scm = "running" => exec = "loop" /\ run # "none"

InControls(code) == \E i \in 1 .. Len(controls) : controls[i] = code

\* A reload that was requested after the file was last read is still to come: the
\* request waits in r, or in reloadCh, or the runner is about to read the file.
RequestKept ==
  scm = "running" /\ asked > seenVersion =>
    InControls("paramChange") \/ reloadCh = 1 \/ run \in {"config", "read"}

IInv == TypeOK /\ KnownInv /\ ExactInv /\ StateInv /\ RequestKept

-----------------------------------------------------------------------------
\* The service is stopped and nothing was read or requested.
LEMMA InitIInv == Init => IInv
<1> SUFFICES ASSUME Init PROVE IInv
  OBVIOUS
<1> USE DEF Init, ServiceInit
<1>1. TypeOK
  BY WindowsServiceAssumption, EmptySeq DEF TypeOK
<1>2. KnownInv /\ ExactInv
  BY DEF KnownInv, ExactInv, Serving
<1>3. StateInv /\ RequestKept
  BY DEF StateInv, RequestKept
<1> QED
  BY <1>1, <1>2, <1>3 DEF IInv

\* To the service a step of the tray or a helper is a start, a control code, or none.
ClientStep == StartService \/ ControlService("stop") \/ ControlService("paramChange")

\* (See ClientStep: none of them touches the runner.)
LEMMA TrayIsClient ==
  ASSUME TrayNext
  PROVE  ClientStep \/ UNCHANGED serviceVars
<1>1. CASE Poll \/ PollFails
  BY <1>1 DEF Poll, PollFails
<1>2. CASE \E h \in Helpers : ClickToggle(h) \/ ClickOther(h) \/ ClickToggleBlind(h)
  BY <1>2 DEF ClickToggle, ClickOther, ClickToggleBlind, Click
<1>3. ASSUME NEW h \in Helpers, Helper(h)
      PROVE  ClientStep \/ UNCHANGED serviceVars
  <2>1. CASE HelperStarts(h)
    BY <2>1 DEF HelperStarts, ClientStep
  <2>2. CASE HelperControls(h)
    BY <2>2 DEF HelperControls, ClientStep
  <2>3. CASE HelperRestarts(h)
    BY <2>3 DEF HelperRestarts, ClientStep
  <2>4. CASE HelperWaits(h)
    BY <2>4 DEF HelperWaits
  <2> QED
    BY <1>3, <2>1, <2>2, <2>3, <2>4 DEF Helper
<1> QED
  BY <1>1, <1>2, <1>3 DEF TrayNext
-----------------------------------------------------------------------------
\* What the runner applies.

\* A step that leaves the runner's variables alone keeps what is known of them.
LEMMA RunnerFrame ==
  ASSUME KnownInv, ExactInv,
         UNCHANGED <<new, curCfg, curWc, engineCfg, driver, seen, clean>>,
         run' = run \/ run' \notin Serving \/ (run = "loop" /\ run' = "read")
  PROVE  KnownInv' /\ ExactInv'
BY DEF KnownInv, ExactInv, QueueExact, Serving

\* A new runner has not got anywhere.
LEMMA StartRunner ==
  ASSUME KnownInv, StartService
  PROVE  KnownInv' /\ ExactInv'
BY DEF KnownInv, ExactInv, StartService, Serving

\* The file is read: what was applied before is compared with it later, unless it is
\* not valid, and then seen is still what was applied.
LEMMA ReadAgainExact ==
  ASSUME KnownInv, ExactInv, ReadAgain
  PROVE  KnownInv' /\ ExactInv'
<1> USE DEF ReadAgain, Read
<1>1. CASE file.ok
  BY <1>1 DEF KnownInv, ExactInv, Serving
<1>2. CASE ~file.ok
  BY <1>2 DEF KnownInv, ExactInv, QueueExact, Serving
<1> QED
  BY <1>1, <1>2

\* Reading it at the start.
LEMMA ReadConfigExact ==
  ASSUME KnownInv, ReadConfig
  PROVE  KnownInv' /\ ExactInv'
BY DEF KnownInv, ExactInv, ReadConfig, Read, Serving

\* The engine and the driver are opened with the configuration.
LEMMA OpenEngineExact ==
  ASSUME KnownInv, OpenEngine
  PROVE  KnownInv' /\ ExactInv'
BY DEF KnownInv, ExactInv, QueueExact, OpenEngine, EngineSettings, Serving

\* If no update of the driver fails every parameter has the new value, or had it, or
\* the new value is 0.
LEMMA UpdateQueueExact ==
  ASSUME TypeOK, KnownInv, UpdateQueue
  PROVE  KnownInv' /\ ExactInv'
<1>1. PICK F \in Failing :
        /\ driver' = [p \in Params |-> IF p \in Changed \ F THEN new.queue[p] ELSE driver[p]]
        /\ curWc' = [p \in Params |-> IF p \in Changed \ F THEN new.queue[p] ELSE curWc[p]]
        /\ clean' = (F = {})
  BY DEF UpdateQueue
<1>2. /\ run = "queue" /\ run' = "engine"
      /\ new' = new /\ seen' = seen /\ engineCfg' = engineCfg /\ curCfg' = curCfg
  BY DEF UpdateQueue
<1>3. driver = curWc /\ new = seen /\ engineCfg = curCfg
  BY <1>2 DEF KnownInv, Serving
<1>4. KnownInv'
  BY <1>1, <1>2, <1>3 DEF KnownInv
<1>5. ASSUME clean' PROVE QueueExact'
  <2>1. F = {}
    BY <1>1, <1>5
  <2>2. ASSUME NEW p \in Params, seen.queue[p] # 0
        PROVE  driver'[p] = seen.queue[p]
    <3>1. CASE p \in Changed
      BY <1>1, <1>3, <2>1, <3>1
    <3>2. CASE p \notin Changed
      BY <1>1, <1>3, <2>1, <2>2, <3>2 DEF Changed
    <3> QED
      BY <3>1, <3>2
  <2> QED
    BY <1>2, <2>2 DEF QueueExact
<1> QED
  BY <1>2, <1>4, <1>5 DEF ExactInv

\* Engine.Reload is never refused, because applyCfg keeps the number of workers.
LEMMA ReloadEngineExact ==
  ASSUME KnownInv, ExactInv, ReloadEngine
  PROVE  KnownInv' /\ ExactInv'
<1>1. engineCfg = curCfg /\ new = seen
  BY DEF KnownInv, ReloadEngine, Serving
<1>2. applyCfg.workers = engineCfg.workers /\ applyCfg.chunk = seen.chunk
  BY <1>1 DEF applyCfg, EngineSettings
<1>3. engineCfg' = applyCfg /\ curCfg' = applyCfg
  BY <1>2 DEF ReloadEngine
<1> QED
  BY <1>1, <1>2, <1>3 DEF KnownInv, ExactInv, QueueExact, ReloadEngine, Serving

-----------------------------------------------------------------------------
\* Where a request is.

\* A request that is sent waits in r.
LEMMA ControlKept ==
  ASSUME TypeOK, StateInv, RequestKept,
         NEW code \in {"stop", "paramChange"}, ControlService(code)
  PROVE  TypeOK' /\ StateInv' /\ RequestKept'
<1> USE DEF ControlService, runVars
<1>1. /\ controls' \in Seq({"stop", "paramChange"})
      /\ Len(controls') = Len(controls) + 1
      /\ controls'[Len(controls) + 1] = code
      /\ \A i \in 1 .. Len(controls) : controls'[i] = controls[i]
  BY AppendProperties DEF TypeOK
<1>2. Len(controls) \in Nat
  BY LenProperties DEF TypeOK
<1>3. TypeOK'
  BY <1>1 DEF TypeOK
<1>4. StateInv'
  BY DEF StateInv, TypeOK
<1>5. RequestKept'
  <2>1. CASE code = "paramChange"
    BY <1>1, <1>2, <2>1 DEF RequestKept, InControls
  <2>2. CASE code # "paramChange"
    BY <1>1, <1>2, <2>2 DEF RequestKept, InControls
  <2> QED
    BY <2>1, <2>2
<1> QED
  BY <1>3, <1>4, <1>5

\* Execute receives the oldest control; the others stay.
LEMMA ReceiveControl ==
  ASSUME TypeOK, controls # <<>>, controls' = Tail(controls)
  PROVE  /\ controls' \in Seq({"stop", "paramChange"})
         /\ Head(controls) # "paramChange" =>
              (InControls("paramChange") => InControls("paramChange")')
<1>1. /\ controls' \in Seq({"stop", "paramChange"})
      /\ Len(controls') = Len(controls) - 1
      /\ \A i \in 1 .. Len(controls') : controls'[i] = controls[i + 1]
      /\ Head(controls) = controls[1]
  BY HeadTailProperties DEF TypeOK
<1>2. Len(controls) \in Nat
  BY LenProperties DEF TypeOK
<1>3. ASSUME Head(controls) # "paramChange", InControls("paramChange")
      PROVE  InControls("paramChange")'
  <2>1. PICK i \in 1 .. Len(controls) : controls[i] = "paramChange"
    BY <1>3 DEF InControls
  <2>2. i # 1
    BY <1>1, <1>3, <2>1
  <2>3. i - 1 \in 1 .. Len(controls') /\ controls'[i - 1] = "paramChange"
    BY <1>1, <1>2, <2>1, <2>2
  <2> QED
    BY <2>3 DEF InControls
<1> QED
  BY <1>1, <1>3
\* A step of any goroutine that neither receives nor sends a control.
LEMMA RequestFrame ==
  ASSUME TypeOK, StateInv, RequestKept,
         controls' = controls, reloadCh' = reloadCh, asked' = asked,
         seenVersion' = seenVersion, version' = version, file' = file,
         new' = new, scm' = scm, exec' = exec, ctxDone' = ctxDone,
         (run \notin {"none", "config", "read"} /\ run' # "none") \/ run' = run
  PROVE  TypeOK' /\ StateInv' /\ RequestKept'
<1>1. TypeOK'
  BY DEF TypeOK
<1>2. StateInv'
  BY DEF StateInv
<1>3. RequestKept'
  BY DEF RequestKept, InControls
<1> QED
  BY <1>1, <1>2, <1>3

\* A service that is not running keeps no request; the next start reads the file.
LEMMA NotRunning ==
  ASSUME TypeOK, StateInv, scm' # "running", exec' # "start" \/ ~ctxDone',
         controls' \in Seq({"stop", "paramChange"}), reloadCh' \in {0, 1},
         UNCHANGED <<file, version, new, seenVersion, asked>>
  PROVE  TypeOK' /\ StateInv' /\ RequestKept'
<1>1. TypeOK'
  BY DEF TypeOK
<1>2. StateInv'
  BY DEF StateInv
<1>3. RequestKept'
  BY DEF RequestKept
<1> QED
  BY <1>1, <1>2, <1>3

\* The file is read as it is now, whoever asked for that before.
LEMMA ReadServes ==
  ASSUME TypeOK, StateInv, run # "none", NEW good, NEW bad, good # "none", bad # "none",
         Read(good, bad), UNCHANGED <<file, version, scmVars, asked>>
  PROVE  TypeOK' /\ StateInv' /\ RequestKept'
<1> USE DEF Read, scmVars
<1>1. TypeOK'
  BY DEF TypeOK
<1>2. StateInv'
  BY DEF StateInv, TypeOK
<1>3. RequestKept'
  BY DEF RequestKept, StateInv, TypeOK
<1> QED
  BY <1>1, <1>2, <1>3

-----------------------------------------------------------------------------
\* The steps of the system.

\* Starts and controls.
LEMMA ClientKeeps ==
  ASSUME IInv, ClientStep
  PROVE  IInv'
<1> USE DEF IInv
<1>1. CASE StartService
  <2>1. KnownInv' /\ ExactInv'
    BY <1>1, StartRunner
  <2>2. TypeOK' /\ StateInv' /\ RequestKept'
    BY <1>1, NotRunning, EmptySeq DEF StartService
  <2> QED
    BY <2>1, <2>2
<1>2. ASSUME NEW code \in {"stop", "paramChange"}, ControlService(code)
      PROVE  IInv'
  <2>1. KnownInv' /\ ExactInv'
    BY <1>2, RunnerFrame DEF ControlService, runVars
  <2>2. TypeOK' /\ StateInv' /\ RequestKept'
    BY <1>2, ControlKept
  <2> QED
    BY <2>1, <2>2
<1> QED
  BY <1>1, <1>2 DEF ClientStep

\* The goroutine that talks to the SCM.
LEMMA ExecuteKeeps ==
  ASSUME IInv, Execute
  PROVE  IInv'
<1> USE DEF IInv
<1>1. CASE ReportRunning
  <2>1. KnownInv' /\ ExactInv'
    BY <1>1, RunnerFrame DEF ReportRunning, Serving
  <2>2. TypeOK'
    BY <1>1 DEF ReportRunning, TypeOK
  <2>3. StateInv'
    BY <1>1 DEF ReportRunning, StateInv
  <2>4. RequestKept'
    BY <1>1 DEF ReportRunning, RequestKept
  <2> QED
    BY <2>1, <2>2, <2>3, <2>4
<1>2. CASE ParamChange
  <2>1. KnownInv' /\ ExactInv'
    BY <1>2, RunnerFrame DEF ParamChange, runVars
  <2>2. TypeOK'
    BY <1>2, ReceiveControl DEF ParamChange, runVars, TypeOK
  <2>3. StateInv'
    BY <1>2 DEF ParamChange, runVars, StateInv
  <2>4. RequestKept'
    BY <1>2 DEF ParamChange, RequestKept
  <2> QED
    BY <2>1, <2>2, <2>3, <2>4
<1>3. CASE Stop
  <2>1. KnownInv' /\ ExactInv'
    BY <1>3, RunnerFrame DEF Stop, runVars
  <2>2. controls' \in Seq({"stop", "paramChange"})
    BY <1>3, ReceiveControl DEF Stop
  <2>3. TypeOK' /\ StateInv' /\ RequestKept'
    BY <1>3, <2>2, NotRunning DEF Stop, runVars, TypeOK
  <2> QED
    BY <2>1, <2>3
<1>4. CASE ReportStopped
  <2>1. KnownInv' /\ ExactInv'
    BY <1>4, RunnerFrame DEF ReportStopped, Serving
  <2>2. TypeOK' /\ StateInv' /\ RequestKept'
    BY <1>4, NotRunning, EmptySeq DEF ReportStopped, TypeOK
  <2> QED
    BY <2>1, <2>2
<1> QED
  BY <1>1, <1>2, <1>3, <1>4 DEF Execute

\* The goroutine that runs and reloads the engine.
LEMMA RunnerKeeps ==
  ASSUME IInv, Runner
  PROVE  IInv'
<1> USE DEF IInv
<1>1. CASE ReadConfig
  <2>1. TypeOK' /\ StateInv' /\ RequestKept'
    BY <1>1, ReadServes DEF ReadConfig
  <2> QED
    BY <1>1, <2>1, ReadConfigExact
<1>2. CASE OpenEngine
  <2>1. TypeOK' /\ StateInv' /\ RequestKept'
    BY <1>2, RequestFrame DEF OpenEngine, scmVars
  <2> QED
    BY <1>2, <2>1, OpenEngineExact
<1>3. CASE OpenFails \/ EngineGone \/ Drain
  <2>1. KnownInv' /\ ExactInv'
    BY <1>3, RunnerFrame DEF OpenFails, EngineGone, Drain, Serving
  <2>2. TypeOK' /\ StateInv' /\ RequestKept'
    BY <1>3, RequestFrame DEF OpenFails, EngineGone, Drain, scmVars
  <2> QED
    BY <2>1, <2>2
<1>4. CASE TakeReload
  <2>1. KnownInv' /\ ExactInv'
    BY <1>4, RunnerFrame DEF TakeReload
  <2>2. TypeOK'
    BY <1>4 DEF TakeReload, TypeOK
  <2>3. StateInv'
    BY <1>4 DEF TakeReload, StateInv
  <2>4. RequestKept'
    BY <1>4 DEF TakeReload, RequestKept
  <2> QED
    BY <2>1, <2>2, <2>3, <2>4
<1>5. CASE ReadAgain
  <2>1. TypeOK' /\ StateInv' /\ RequestKept'
    BY <1>5, ReadServes DEF ReadAgain
  <2> QED
    BY <1>5, <2>1, ReadAgainExact
<1>6. CASE UpdateQueue
  <2>1. TypeOK' /\ StateInv' /\ RequestKept'
    BY <1>6, RequestFrame DEF UpdateQueue, scmVars
  <2> QED
    BY <1>6, <2>1, UpdateQueueExact
<1>7. CASE ReloadEngine
  <2>1. TypeOK' /\ StateInv' /\ RequestKept'
    BY <1>7, RequestFrame DEF ReloadEngine, scmVars
  <2> QED
    BY <1>7, <2>1, ReloadEngineExact
<1> QED
  BY <1>1, <1>2, <1>3, <1>4, <1>5, <1>6, <1>7 DEF Runner

\* All of the service, with its engine, the file and a kill.
LEMMA ServiceKeeps ==
  ASSUME IInv, ServiceNext
  PROVE  IInv'
<1> USE DEF IInv
<1>1. CASE EngineStops \/ EngineFails
  <2>1. KnownInv' /\ ExactInv'
    BY <1>1, RunnerFrame DEF EngineStops, EngineFails
  <2>2. TypeOK' /\ StateInv' /\ RequestKept'
    BY <1>1, RequestFrame DEF EngineStops, EngineFails, scmVars
  <2> QED
    BY <2>1, <2>2
<1>2. CASE Crash
  <2>1. KnownInv' /\ ExactInv'
    BY <1>2, RunnerFrame DEF Crash, Serving
  <2>2. TypeOK' /\ StateInv' /\ RequestKept'
    BY <1>2, NotRunning, EmptySeq DEF Crash, TypeOK
  <2> QED
    BY <2>1, <2>2
<1>3. ASSUME NEW c \in Configs, EditFile(c)
      PROVE  IInv'
  <2>1. KnownInv' /\ ExactInv'
    BY <1>3, RunnerFrame DEF EditFile, runVars
  <2>2. TypeOK'
    BY <1>3 DEF EditFile, scmVars, runVars, TypeOK
  <2>3. StateInv'
    BY <1>3 DEF EditFile, scmVars, runVars, TypeOK, StateInv
  <2>4. RequestKept'
    BY <1>3 DEF EditFile, scmVars, runVars, RequestKept, InControls
  <2> QED
    BY <2>1, <2>2, <2>3, <2>4
<1> QED
  BY <1>1, <1>2, <1>3, ExecuteKeeps, RunnerKeeps DEF ServiceNext

\* A step of the tray that is none of the service.
LEMMA StutterKeeps ==
  ASSUME IInv, UNCHANGED serviceVars
  PROVE  IInv'
<1> USE DEF IInv, serviceVars, scmVars, runVars
<1>1. KnownInv' /\ ExactInv'
  BY RunnerFrame
<1>2. TypeOK' /\ StateInv' /\ RequestKept'
  BY RequestFrame
<1> QED
  BY <1>1, <1>2

\* Every step, or none, keeps the invariant.
LEMMA NextIInv == IInv /\ [Next]_vars => IInv'
BY TrayIsClient, ClientKeeps, ServiceKeeps, StutterKeeps DEF Next, vars

\* IInv is an invariant of the service and its clients.
THEOREM Invariance == Spec => []IInv
<1>1. Init => IInv
  BY InitIInv
<1>2. IInv /\ [Next]_vars => IInv'
  BY NextIInv
<1> QED
  BY <1>1, <1>2, PTL DEF Spec

\* After a reload in which no update of the driver failed, the engine and the driver
\* use what config.json said, whatever happened in earlier reloads.
THEOREM ReloadAlwaysExact == Spec => []ReloadExact
<1>1. IInv => ReloadExact
  BY DEF IInv, ExactInv, QueueExact, ReloadExact
<1> QED
  BY Invariance, <1>1, PTL

\* A reload request that a running service accepted is not dropped by the full
\* reloadCh, nor by a reload that is under way: it waits, or is about to be served.
THEOREM RequestNeverDropped == Spec => []RequestKept
<1>1. IInv => RequestKept
  BY DEF IInv
<1> QED
  BY Invariance, <1>1, PTL
=============================================================================
