----------------------------- MODULE WindowsService -----------------------------
(***************************************************************************)
(* The Windows service: splitterService.Execute (cmd/splitter/             *)
(* service_windows.go), which talks to the service control manager, and    *)
(* runWindowsService (main_windows.go), which runs the engine and applies  *)
(* a changed config.json to it, each in a goroutine of its own.            *)
(*                                                                         *)
(* The two are joined by ctx, by reloadCh and by errCh; the engine is a    *)
(* third goroutine.  Of a configuration the model keeps what reload treats *)
(* in different ways: chunk stands for all settings of the engine that are *)
(* changed in place, workers for those that are not, queue for the         *)
(* parameters of the driver (0: its default).  Setting up the files and    *)
(* the driver, which WindowsSetup.tla details, is one step here.           *)
(***************************************************************************)
EXTENDS Integers, Sequences

CONSTANTS
  Params,        \* the queue parameters of the driver
  Configs,       \* what config.json may hold: [ok, chunk, workers, queue]
  FirstFile,     \*   and holds at first
  MaxEdits,      \* bound: how often it is changed
  MaxControls,   \* bound: controls the SCM has delivered and Execute not received
  MaxFails       \* bound: steps of the service that fail

ASSUME WindowsServiceAssumption ==
  /\ FirstFile \in Configs
  /\ \A c \in Configs : c.ok \in BOOLEAN /\ c.chunk \in Nat /\ c.workers \in Nat
                        /\ c.queue \in [Params -> Nat]
  /\ {MaxEdits, MaxFails} \subseteq Nat /\ MaxControls \in Nat \ {0}

VARIABLES
  file, version,     \* config.json, and how often it was changed
  scm,               \* the state of the service as the SCM knows it
  controls,          \* r: the controls that Execute has not received
  exec,              \* Execute: "none", "start", "loop", "wait" (for errCh)
  ctxDone,           \* cancel was called
  reloadCh,          \* how many elements are in it: 0 or 1
  run,               \* runWindowsService: "none", "config", "open", "loop",
                     \*   "read", "queue", "engine", "drain", "ended"
  engine,            \* eng.Run: "none", "up", or "ended" (its errCh is full)
  new,               \* newCfg and newWc
  curCfg, curWc,     \* chunk and workers; the queue parameters
  engineCfg, driver, \* what the engine and the driver really use
  seen, seenVersion, \* history: the valid configuration last read; the version
                     \*   of the file last read
  asked,             \* history: the version of the file at the last reload request
  clean,             \* history: no queue parameter failed in the last reload
  fails

scmVars == <<scm, controls, exec, ctxDone, reloadCh>>
runVars == <<run, engine, new, curCfg, curWc, engineCfg, driver, seen, seenVersion, clean>>
serviceVars == <<file, version, scmVars, runVars, asked, fails>>

EngineSettings(c) == [chunk |-> c.chunk, workers |-> c.workers]

ServiceInit ==
  /\ file = FirstFile /\ version = 0
  /\ scm = "stopped" /\ controls = <<>> /\ exec = "none" /\ ctxDone = FALSE /\ reloadCh = 0
  /\ run = "none" /\ engine = "none" /\ new = FirstFile
  /\ curCfg = EngineSettings(FirstFile) /\ curWc = FirstFile.queue
  /\ engineCfg = EngineSettings(FirstFile) /\ driver = [p \in Params |-> 0]
  /\ seen = FirstFile /\ seenVersion = 0 /\ asked = 0 /\ clean = TRUE
  /\ fails = 0

-----------------------------------------------------------------------------
\* The SCM and the administrator.

\* StartService: a new process, with a channel of capacity 1 for reloads.
StartService ==
  /\ scm = "stopped"
  /\ scm' = "startPending" /\ controls' = <<>>
  /\ exec' = "start" /\ ctxDone' = FALSE /\ reloadCh' = 0
  /\ run' = "none" /\ engine' = "none"
  /\ driver' = [p \in Params |-> 0] /\ clean' = TRUE
  /\ UNCHANGED <<file, version, new, curCfg, curWc, engineCfg, seen, seenVersion, asked, fails>>

\* ControlService: only a running service accepts the codes.
ControlService(code) ==
  /\ scm = "running" /\ Len(controls) < MaxControls
  /\ controls' = Append(controls, code)
  /\ asked' = IF code = "paramChange" THEN version ELSE asked
  /\ UNCHANGED <<file, version, scm, exec, ctxDone, reloadCh, runVars, fails>>

EditFile(c) ==
  /\ version < MaxEdits /\ c # file
  /\ file' = c /\ version' = version + 1
  /\ UNCHANGED <<scmVars, runVars, asked, fails>>

\* The process is killed, and the SCM notices.
Crash ==
  /\ exec # "none" /\ fails < MaxFails
  /\ fails' = fails + 1
  /\ scm' = "stopped" /\ controls' = <<>> /\ exec' = "none"
  /\ run' = "none" /\ engine' = "none"
  /\ UNCHANGED <<file, version, ctxDone, reloadCh, new, curCfg, curWc, engineCfg, driver,
                 seen, seenVersion, asked, clean>>

-----------------------------------------------------------------------------
\* Execute.

\* The runner is started and Running is reported at once.
ReportRunning ==
  /\ exec = "start"
  /\ exec' = "loop" /\ scm' = "running"
  /\ run' = "config"
  /\ UNCHANGED <<file, version, controls, ctxDone, reloadCh, engine, new, curCfg, curWc,
                 engineCfg, driver, seen, seenVersion, asked, clean, fails>>

\* A mutation: the channel has no room, the runner must be waiting.
ParamChange_unbuffered ==
  /\ exec = "loop" /\ controls # <<>> /\ Head(controls) = "paramChange"
  /\ controls' = Tail(controls)
  /\ run' = IF run = "loop" THEN "read" ELSE run
  /\ UNCHANGED <<file, version, scm, exec, ctxDone, reloadCh, engine, new, curCfg, curWc,
                 engineCfg, driver, seen, seenVersion, asked, clean, fails>>

\* A request for which there is no room is the one that waits there already.
ParamChange ==
  /\ exec = "loop" /\ controls # <<>> /\ Head(controls) = "paramChange"
  /\ controls' = Tail(controls)
  /\ reloadCh' = 1
  /\ UNCHANGED <<file, version, scm, exec, ctxDone, runVars, asked, fails>>

\* A mutation: the context is not canceled.
Stop_waitsOnly ==
  /\ exec = "loop" /\ controls # <<>> /\ Head(controls) = "stop"
  /\ controls' = Tail(controls)
  /\ scm' = "stopPending" /\ exec' = "wait"
  /\ UNCHANGED <<file, version, ctxDone, reloadCh, runVars, asked, fails>>

\* Stop and Shutdown.
Stop ==
  /\ exec = "loop" /\ controls # <<>> /\ Head(controls) = "stop"
  /\ controls' = Tail(controls)
  /\ scm' = "stopPending" /\ exec' = "wait" /\ ctxDone' = TRUE
  /\ UNCHANGED <<file, version, reloadCh, runVars, asked, fails>>

\* errCh delivers the result of the runner, which the service waited for or not.
ReportStopped ==
  /\ exec \in {"loop", "wait"} /\ run = "ended"
  /\ scm' = "stopped" /\ controls' = <<>> /\ exec' = "none" /\ ctxDone' = TRUE
  /\ run' = "none" /\ engine' = "none"
  /\ UNCHANGED <<file, version, reloadCh, new, curCfg, curWc, engineCfg, driver, seen,
                 seenVersion, asked, clean, fails>>

-----------------------------------------------------------------------------
\* runWindowsService.

\* effectiveWindowsConfig reads and validates the file, at the start and for a reload.
Read(good, bad) ==
  /\ run' = IF file.ok THEN good ELSE bad
  /\ new' = IF file.ok THEN file ELSE new
  /\ seen' = IF file.ok THEN file ELSE seen
  /\ seenVersion' = version

ReadConfig ==
  /\ run = "config"
  /\ Read("open", "ended")
  /\ UNCHANGED <<file, version, scmVars, engine, curCfg, curWc, engineCfg, driver, asked,
                 clean, fails>>

\* ensureWinDivertFiles, Ensure, NewWinDivert, engine.New, and eng.Run is started.
OpenEngine ==
  /\ run = "open"
  /\ run' = "loop" /\ engine' = "up"
  /\ curCfg' = EngineSettings(new) /\ engineCfg' = EngineSettings(new)
  /\ curWc' = new.queue /\ driver' = new.queue
  /\ UNCHANGED <<file, version, scmVars, new, seen, seenVersion, asked, clean, fails>>

\* One of them fails, or is canceled.
OpenFails ==
  /\ run = "open" /\ (ctxDone \/ fails < MaxFails)
  /\ fails' = IF ctxDone THEN fails ELSE fails + 1
  /\ run' = "ended"
  /\ UNCHANGED <<file, version, scmVars, engine, new, curCfg, curWc, engineCfg, driver,
                 seen, seenVersion, asked, clean>>

\* The select receives from reload.
TakeReload ==
  /\ run = "loop" /\ reloadCh = 1
  /\ run' = "read" /\ reloadCh' = 0
  /\ UNCHANGED <<file, version, scm, controls, exec, ctxDone, engine, new, curCfg, curWc,
                 engineCfg, driver, seen, seenVersion, asked, clean, fails>>

ReadAgain ==
  /\ run = "read"
  /\ Read("queue", "loop")
  /\ UNCHANGED <<file, version, scmVars, engine, curCfg, curWc, engineCfg, driver, asked,
                 clean, fails>>

\* The parameters to update: those that differ; 0 cannot be set.
Changed == {p \in Params : new.queue[p] # curWc[p] /\ new.queue[p] # 0}

\* Of those, the ones for which UpdateOptions fails; all do when the engine has
\* closed the handle.
Failing ==
  IF engine # "up" THEN {Changed} ELSE {F \in SUBSET Changed : F = {} \/ fails < MaxFails}

\* A mutation: curWc is replaced by newWc whatever UpdateOptions returned.
UpdateQueue_forgetsErrors ==
  /\ run = "queue"
  /\ \E F \in Failing :
       /\ driver' = [p \in Params |-> IF p \in Changed \ F THEN new.queue[p] ELSE driver[p]]
       /\ curWc' = [p \in Params |-> IF p \in Changed THEN new.queue[p] ELSE curWc[p]]
       /\ clean' = (F = {})
       /\ fails' = IF F = {} \/ engine # "up" THEN fails ELSE fails + 1
  /\ run' = "engine"
  /\ UNCHANGED <<file, version, scmVars, engine, new, curCfg, engineCfg, seen, seenVersion, asked>>

\* UpdateOptions for every parameter that has changed; curWc keeps the old value
\* of one that could not be set, so that the next reload tries it again.
UpdateQueue ==
  /\ run = "queue"
  /\ \E F \in Failing :
       LET set(old) == [p \in Params |-> IF p \in Changed \ F THEN new.queue[p] ELSE old[p]]
       IN /\ driver' = set(driver)
          /\ curWc' = set(curWc)
          /\ clean' = (F = {})
          /\ fails' = IF F = {} \/ engine # "up" THEN fails ELSE fails + 1
  /\ run' = "engine"
  /\ UNCHANGED <<file, version, scmVars, engine, new, curCfg, engineCfg, seen, seenVersion, asked>>

\* applyCfg: the settings that need a restart keep their values.
applyCfg == [EngineSettings(new) EXCEPT !.workers = curCfg.workers]

\* Engine.Reload refuses another number of workers; then nothing is changed.
ReloadEngine ==
  /\ run = "engine"
  /\ LET ok == applyCfg.workers = engineCfg.workers
     IN /\ engineCfg' = IF ok THEN applyCfg ELSE engineCfg
        /\ curCfg' = IF ok THEN applyCfg ELSE curCfg
  /\ run' = "loop"
  /\ UNCHANGED <<file, version, scmVars, engine, new, curWc, driver, seen, seenVersion,
                 asked, clean, fails>>

\* The select receives from errCh, or sees that ctx is done and waits for errCh.
EngineGone ==
  /\ run \in {"loop", "drain"} /\ engine = "ended"
  /\ run' = "ended"
  /\ UNCHANGED <<file, version, scmVars, engine, new, curCfg, curWc, engineCfg, driver,
                 seen, seenVersion, asked, clean, fails>>

Drain ==
  /\ run = "loop" /\ ctxDone
  /\ run' = "drain"
  /\ UNCHANGED <<file, version, scmVars, engine, new, curCfg, curWc, engineCfg, driver,
                 seen, seenVersion, asked, clean, fails>>

\* eng.Run returns, after the cancellation or with an error of its own.
EngineStops ==
  /\ engine = "up" /\ ctxDone
  /\ engine' = "ended"
  /\ UNCHANGED <<file, version, scmVars, run, new, curCfg, curWc, engineCfg, driver, seen,
                 seenVersion, asked, clean, fails>>

EngineFails ==
  /\ engine = "up" /\ fails < MaxFails
  /\ engine' = "ended" /\ fails' = fails + 1
  /\ UNCHANGED <<file, version, scmVars, run, new, curCfg, curWc, engineCfg, driver, seen,
                 seenVersion, asked, clean>>

-----------------------------------------------------------------------------
Execute == ReportRunning \/ ParamChange \/ Stop \/ ReportStopped

Runner ==
  \/ ReadConfig \/ OpenEngine \/ OpenFails \/ TakeReload \/ ReadAgain
  \/ UpdateQueue \/ ReloadEngine \/ Drain \/ EngineGone

ServiceNext ==
  \/ Execute \/ Runner \/ EngineStops \/ EngineFails \/ Crash
  \/ \E c \in Configs : EditFile(c)

\* The goroutines of the service run on: each takes a step, any that it can, when
\* there is one.  A canceled engine ends (see ShutdownEnds of Engine.tla).
ServiceFairness ==
  /\ WF_serviceVars(Execute)
  /\ WF_serviceVars(Runner)
  /\ WF_serviceVars(EngineStops)

-----------------------------------------------------------------------------
\* After a reload in which every update of the driver succeeded, the engine and the
\* driver use what the file says, also if an update in an earlier reload failed or
\* was not possible (queue parameters set to 0, another number of workers).
ReloadExact ==
  run = "loop" /\ clean =>
    /\ engineCfg.chunk = seen.chunk
    /\ \A p \in Params : seen.queue[p] # 0 => driver[p] = seen.queue[p]

\* No reload request is lost: the file is read again as it is then, or later,
\* unless the service stops - also if the request comes while the service starts,
\* during a reload, or when another one is waiting.
ReloadHeard ==
  \A v \in 1 .. MaxEdits :
    (asked >= v /\ scm = "running") ~> (seenVersion >= v \/ scm # "running")

\* A service that is told to stop, or whose engine has ended, is reported as
\* stopped, wherever its start or a reload has got to.
StopEnds ==
  (scm = "stopPending" \/ run = "ended" \/ engine = "ended") ~> (scm = "stopped")
=============================================================================
