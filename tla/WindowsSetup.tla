------------------------------ MODULE WindowsSetup ------------------------------
(***************************************************************************)
(* cmd/splitter on Windows and internal/driver: what a run changes on the  *)
(* host around the engine - the default configuration file, the WinDivert  *)
(* files and the driver service - and what it undoes, over any number of   *)
(* runs of the program on the same host, as a service or from a console.   *)
(*                                                                         *)
(* Files and the driver service survive the process.  It may be killed     *)
(* between any two steps, any step may fail, and its context may be        *)
(* canceled at any time (Ctrl-C, or the SCM stops the service): from then  *)
(* on no sc.exe command is started, and one that is under way is killed.   *)
(* Left out: a sys file with another name, and temporary files that a      *)
(* killed run leaves behind under names nobody looks for.                  *)
(***************************************************************************)
EXTENDS Integers, FiniteSets

CONSTANTS MaxFails,     \* bound: steps that fail
          MaxCrashes,   \* bound: runs that are killed
          MaxRuns       \* bound: runs of the program

ASSUME WindowsSetupAssumption == {MaxFails, MaxCrashes, MaxRuns} \subseteq Nat

Dirs == {"exe", "data"}         \* the chosen directory, and ProgramData\gov-pass\windivert
Need == {"dll", "sys"}          \* the files DownloadWinDivertX64 extracts

VARIABLES
  opts,               \* the flags, the same in every run
  admin, writable,    \* isAdmin; whether files can be created in "exe"
  config,             \* the file config.json: "none", "empty", "default" or "user"
  files,              \* files[d][f]: "none", "whole", "partial" or "bad"
  svc, binPath,       \* the driver service: "none", "stopped" or "running", and
                      \*   the directory of its binary ("other": not one of ours,
                      \*   "gone": one that does not exist any more)
  pc,                 \* what the process is about to do; "down": there is none
  canceled,           \* ctx
  dir,                \* driverDir
  zip, found,         \* the zip file: "none", "whole" or "bad"; the files extracted
  created, started,   \* Ensure
  foreign,            \* history: the driver service before the first run
  badStep, badUndo,   \* history: a step of this run, of its clean-up, has failed
  ensured,            \* history: Ensure has returned without error in this run
  everEnsured         \* history: or in an earlier one

VARIABLES fails, crashes, runs

hostVars == <<config, files, svc, binPath>>
runVars  == <<dir, zip, found, created, started>>
fixed    == <<opts, admin, writable, foreign>>
history  == <<badStep, badUndo, ensured, everEnsured>>
bounds   == <<fails, crashes, runs>>
vars     == <<fixed, hostVars, pc, canceled, runVars, history, bounds>>

Options == [service : BOOLEAN, install : BOOLEAN, uninstall : BOOLEAN,
            download : BOOLEAN, requested : BOOLEAN]

\* effectiveWindowsConfig: in service mode the driver is never uninstalled.
AutoUninstall == opts.uninstall /\ ~opts.service

\* The argument of Ensure in runWindows and runWindowsService.
AutoStop == ~opts.service

\* HasWinDivertFiles: a file counts if it exists.
HasWinDivertFiles(d) == \A f \in Need : files[d][f] # "none"

NoFiles == [f \in Need |-> "none"]

Init ==
  /\ opts \in Options /\ admin \in BOOLEAN /\ writable \in BOOLEAN
  /\ config \in {"none", "user"}
  /\ \E exe \in [Need -> {"none", "whole"}] :
       files = [d \in Dirs |-> IF d = "exe" THEN exe ELSE NoFiles]
  /\ svc \in {"none", "stopped", "running"} /\ binPath \in {"other", "gone"}
  /\ pc = "down" /\ canceled = FALSE
  /\ dir = "exe" /\ zip = "none" /\ found = {} /\ created = FALSE /\ started = FALSE
  /\ foreign = svc /\ badStep = FALSE /\ badUndo = FALSE
  /\ ensured = FALSE /\ everEnsured = FALSE
  /\ fails = 0 /\ crashes = 0 /\ runs = 0

-----------------------------------------------------------------------------
\* The life of a run.

Start ==
  /\ pc = "down" /\ runs < MaxRuns
  /\ runs' = runs + 1
  /\ pc' = "config" /\ canceled' = FALSE
  /\ dir' = "exe" /\ zip' = "none" /\ found' = {} /\ created' = FALSE /\ started' = FALSE
  /\ badStep' = FALSE /\ badUndo' = FALSE /\ ensured' = FALSE
  /\ UNCHANGED <<fixed, hostVars, everEnsured, fails, crashes>>

\* The process is killed; nothing deferred runs.
Crash ==
  /\ pc # "down" /\ crashes < MaxCrashes
  /\ crashes' = crashes + 1
  /\ pc' = "down"
  /\ UNCHANGED <<fixed, hostVars, canceled, runVars, history, fails, runs>>

Cancel ==
  /\ pc # "down" /\ ~canceled
  /\ canceled' = TRUE
  /\ UNCHANGED <<fixed, hostVars, pc, runVars, history, bounds>>

\* An administrator writes the configuration file (not in the moment between its
\* creation and the writing of the defaults; when a run returns nobody reads it).
WriteConfig ==
  /\ config # "user" /\ pc \notin {"template", "return"}
  /\ config' = "user"
  /\ UNCHANGED <<fixed, files, svc, binPath, pc, canceled, runVars, history, bounds>>

\* A file is deleted while the program is not running.
LoseFile(f) ==
  /\ pc = "down" /\ files["exe"][f] # "none"
  /\ files' = [files EXCEPT !["exe"][f] = "none"]
  /\ UNCHANGED <<fixed, config, svc, binPath, pc, canceled, runVars, history, bounds>>

\* The run goes on with the step p.
Goto(p) ==
  /\ pc' = p
  /\ UNCHANGED <<fixed, canceled, history, bounds>>

\* The process ends by itself.
Return ==
  /\ pc = "return"
  /\ pc' = "down"
  /\ UNCHANGED <<fixed, hostVars, canceled, runVars, history, bounds>>

\* A step fails, and the run goes on with p.
FailTo(p) ==
  /\ fails < MaxFails
  /\ fails' = fails + 1
  /\ badStep' = TRUE /\ badUndo' = (badUndo \/ pc \in {"sc stop", "sc delete"})
  /\ pc' = p
  /\ UNCHANGED <<fixed, canceled, ensured, everEnsured, crashes, runs>>

-----------------------------------------------------------------------------
\* effectiveWindowsConfig.

\* The file is read, or none is used.  An empty one is an error.
ReadConfig ==
  /\ pc = "config"
  /\ ~opts.service \/ config # "none"
  /\ Goto(IF opts.service /\ config = "empty" THEN "return" ELSE "files")
  /\ UNCHANGED <<hostVars, runVars>>

NoConfig ==
  /\ pc = "config"
  /\ opts.service /\ config = "none"
  /\ Goto("create")
  /\ UNCHANGED <<hostVars, runVars>>

\* writeWindowsJSONConfigIfMissing: O_EXCL leaves a file alone that has come into
\* being since, and the run goes on with the defaults.
CreateConfig ==
  /\ pc = "create"
  /\ config' = IF config = "none" THEN "empty" ELSE config
  /\ Goto(IF config = "none" THEN "template" ELSE "files")
  /\ UNCHANGED <<files, svc, binPath, runVars>>

WriteTemplate ==
  /\ pc = "template"
  /\ config' = "default"
  /\ Goto("files")
  /\ UNCHANGED <<files, svc, binPath, runVars>>

\* Securing the directory or the file, reading, creating or writing it fails.
ConfigFails ==
  /\ pc \in {"config", "create", "template"}
  /\ FailTo("return")
  /\ config' \in IF pc = "template" THEN {config, "default"} ELSE {config}
  /\ UNCHANGED <<files, svc, binPath, runVars>>

-----------------------------------------------------------------------------
\* ensureWinDivertFiles and DownloadWinDivertX64.

CheckFiles ==
  /\ pc = "files"
  /\ Goto(IF HasWinDivertFiles(dir) THEN "query"
          ELSE IF opts.download THEN "temp" ELSE "return")
  /\ UNCHANGED <<hostVars, runVars>>

\* The destination directory and the temporary file for the zip.  Their errors are
\* wrapped, os.IsPermission does not see through that, and there is no fallback.
CreateTemp ==
  /\ pc = "temp"
  /\ Goto(IF dir = "exe" /\ ~writable THEN "return" ELSE "get")
  /\ UNCHANGED <<hostVars, runVars>>

\* The GET and the copy: what arrives may not be the pinned file.  A canceled
\* context ends it.
Get ==
  /\ pc = "get"
  /\ \/ ~canceled /\ zip' \in {"whole", "bad"} /\ Goto("verify")
     \/ canceled /\ zip' = zip /\ Goto("return")
  /\ UNCHANGED <<hostVars, dir, found, created, started>>

\* The SHA256 of the zip is the pinned one, or not.
Verify ==
  /\ pc = "verify"
  /\ Goto(IF zip = "whole" THEN "extract" ELSE "return")
  /\ UNCHANGED <<hostVars, runVars>>

Extracted == IF zip = "whole" THEN "whole" ELSE "bad"

\* A mutation: the file is written under its own name.
Unpack_inPlace(f) ==
  /\ pc = "extract" /\ f \notin found
  /\ files' = [files EXCEPT ![dir][f] = "partial"]
  /\ Goto(f)
  /\ UNCHANGED <<config, svc, binPath, runVars>>

\* extractZipFile writes a temporary file and removes the old file.
Unpack(f) ==
  /\ pc = "extract" /\ f \notin found
  /\ files' = [files EXCEPT ![dir][f] = "none"]
  /\ Goto(f)
  /\ UNCHANGED <<config, svc, binPath, runVars>>

\* It renames the temporary file.
Rename(f) ==
  /\ pc = f
  /\ files' = [files EXCEPT ![dir][f] = Extracted]
  /\ found' = found \cup {f}
  /\ Goto(IF found' = Need THEN "query" ELSE "extract")
  /\ UNCHANGED <<config, svc, binPath, dir, zip, created, started>>

\* A step of the download fails with an error that is not a bare permission error.
DownloadFails ==
  /\ pc \in {"temp", "get", "verify", "extract"} \cup Need
  /\ FailTo("return")
  /\ UNCHANGED <<hostVars, runVars>>

\* The new file may not be created or put in place: this error is not wrapped, and
\* without a requested directory the download starts again in ProgramData.
FallBack ==
  /\ pc \in {"extract"} \cup Need
  /\ dir = "exe" /\ ~opts.requested
  /\ FailTo("temp")
  /\ dir' = "data" /\ found' = {}
  /\ UNCHANGED <<hostVars, zip, created, started>>

-----------------------------------------------------------------------------
\* driver.Ensure.  A command is one of sc.exe; its effect and what follows.

SysFound(d) == files[d]["sys"] # "none"
BinFound == binPath = "other" \/ (binPath \in Dirs /\ SysFound(binPath))

IfAdmin(cmd) == IF admin THEN cmd ELSE "return"

\* Ensure from the test of running on.
EnsureRunning == IF svc = "running" THEN "open" ELSE IfAdmin("sc start")

\* resolveSysPath and queryService.
Query ==
  /\ pc = "query" /\ (opts.install => ~canceled)
  /\ Goto(IF ~opts.install THEN "open"
          ELSE IF ~SysFound(dir) THEN "return"
          ELSE IF svc = "none" THEN IfAdmin("sc create") ELSE "qc")
  /\ UNCHANGED <<hostVars, runVars>>

\* A mutation: the binary of an existing service is not looked for.
QueryBinPath_trusts ==
  /\ pc = "qc"
  /\ Goto(EnsureRunning)
  /\ UNCHANGED <<hostVars, runVars>>

\* queryServiceBinPath, and the test whether the binary of the service is there.
QueryBinPath ==
  /\ pc = "qc" /\ ~canceled
  /\ Goto(IF BinFound THEN EnsureRunning ELSE IfAdmin("sc config"))
  /\ UNCHANGED <<hostVars, runVars>>

\* Its error is ignored.
QueryBinPathFails ==
  /\ pc = "qc"
  /\ IF canceled THEN Goto(EnsureRunning) ELSE FailTo(EnsureRunning)
  /\ UNCHANGED <<hostVars, runVars>>

\* A mutation: the driver is stopped also if this run has not started it.
Cleanup_forgetsStarted ==
  IF ~opts.install THEN "return"
  ELSE IF created /\ AutoUninstall THEN "sc stop"
  ELSE IF AutoStop THEN "sc stop"
  ELSE "return"

\* What the clean-up function, deferred when Ensure has returned, begins with.
Cleanup ==
  IF ~opts.install THEN "return"
  ELSE IF created /\ AutoUninstall THEN "sc stop"
  ELSE IF started /\ AutoStop THEN "sc stop"
  ELSE "return"

\* What is next after a command that succeeded.
After(cmd) ==
  CASE cmd = "sc create" -> "sc start"
    [] cmd = "sc config" -> EnsureRunning
    [] cmd = "sc start"  -> "open"
    [] cmd = "sc stop"   -> IF created /\ AutoUninstall THEN "sc delete" ELSE "return"
    [] cmd = "sc delete" -> "return"

ScCommands == {"sc create", "sc config", "sc start", "sc stop", "sc delete"}

\* What a command does.  A service can only be started if its binary is there.
Effect(cmd) ==
  /\ cmd = "sc start" => BinFound
  /\ svc' = CASE cmd = "sc create" -> "stopped"
              [] cmd = "sc start"  -> "running"
              [] cmd = "sc stop"   -> "stopped"
              [] cmd = "sc delete" -> "none"
              [] OTHER -> svc
  /\ binPath' = IF cmd \in {"sc create", "sc config"} THEN dir ELSE binPath
  /\ UNCHANGED <<config, files>>

Sc ==
  /\ pc \in ScCommands /\ ~canceled
  /\ Effect(pc)
  /\ created' = (created \/ pc = "sc create")
  /\ started' = (started \/ pc = "sc start")
  /\ Goto(After(pc))
  /\ UNCHANGED <<dir, zip, found>>

\* A command is not started any more, because the context is canceled.
ScCanceled ==
  /\ (pc = "query" /\ opts.install) \/ pc \in ScCommands
  /\ canceled
  /\ Goto("return")
  /\ UNCHANGED <<hostVars, runVars>>

\* The context is canceled while a command is under way: it is killed, and an
\* error, but what it asked for may have been done.
ScKilled ==
  /\ pc \in ScCommands /\ ~canceled
  /\ Effect(pc)
  /\ canceled' = TRUE
  /\ pc' = "return"
  /\ UNCHANGED <<fixed, runVars, history, bounds>>

\* A command fails (or PATH could not be set).  A service without binary cannot be
\* started.
ScFails ==
  /\ pc \in {"query"} \cup ScCommands
  /\ IF pc = "sc start" /\ ~BinFound THEN Goto("return") ELSE FailTo("return")
  /\ UNCHANGED <<hostVars, runVars>>

-----------------------------------------------------------------------------
\* NewWinDivert, engine.Run and the deferred clean-up.

Open ==
  /\ pc = "open"
  /\ pc' = "engine"
  /\ ensured' = opts.install /\ everEnsured' = (everEnsured \/ opts.install)
  /\ UNCHANGED <<fixed, hostVars, canceled, runVars, badStep, badUndo, bounds>>

\* A mutation: the clean-up is deferred after NewWinDivert.
OpenFails_noCleanup ==
  /\ pc = "open" /\ fails < MaxFails
  /\ fails' = fails + 1 /\ badStep' = TRUE
  /\ ensured' = opts.install /\ everEnsured' = (everEnsured \/ opts.install)
  /\ pc' = "return"
  /\ UNCHANGED <<fixed, hostVars, canceled, runVars, badUndo, crashes, runs>>

OpenFails ==
  /\ pc = "open" /\ fails < MaxFails
  /\ fails' = fails + 1 /\ badStep' = TRUE
  /\ ensured' = opts.install /\ everEnsured' = (everEnsured \/ opts.install)
  /\ pc' = Cleanup
  /\ UNCHANGED <<fixed, hostVars, canceled, runVars, badUndo, crashes, runs>>

\* The engine stops because it is told to or because it failed.
EngineReturns ==
  /\ pc = "engine"
  /\ \/ canceled /\ Goto(Cleanup)
     \/ FailTo(Cleanup)
  /\ UNCHANGED <<hostVars, runVars>>

Configure == ReadConfig \/ NoConfig \/ CreateConfig \/ WriteTemplate \/ ConfigFails

Download ==
  \/ CheckFiles \/ CreateTemp \/ Get \/ Verify \/ DownloadFails \/ FallBack
  \/ \E f \in Need : Unpack(f) \/ Rename(f)

EnsureDriver ==
  Query \/ QueryBinPath \/ QueryBinPathFails \/ Sc \/ ScCanceled \/ ScKilled \/ ScFails

Next ==
  \/ Start \/ Crash \/ Cancel \/ Return
  \/ WriteConfig \/ \E f \in Need : LoseFile(f)
  \/ Configure \/ Download \/ EnsureDriver
  \/ Open \/ OpenFails \/ EngineReturns

Spec == Init /\ [][Next]_vars

-----------------------------------------------------------------------------
\* Files that HasWinDivertFiles accepts, in this run or a later one, are complete
\* and come from the pinned zip: whatever the network delivers, wherever the
\* process is killed, and if the download starts again in another directory.
FilesWhole ==
  \A d \in Dirs : HasWinDivertFiles(d) => \A f \in Need : files[d][f] = "whole"

\* A console run whose engine or adapter fails after Ensure deletes the driver
\* service if it has created it, and stops it if it has only started it.  (If the
\* run was canceled the commands of the clean-up are not even started.)
DriverUndone ==
  pc = "return" /\ ensured /\ ~canceled /\ ~badUndo =>
    /\ created /\ AutoUninstall => svc = "none"
    /\ started /\ AutoStop => svc # "running"

\* A driver that others use is left alone: if it was running before the first run
\* it runs for ever, if it existed it still does, and once a service run has
\* brought it up it stays up, over later runs, failures and crashes.
DriverStaysUp ==
  /\ foreign = "running" \/ (opts.service /\ everEnsured) => svc = "running"
  /\ foreign = "stopped" => svc # "none"

\* What an earlier run left behind, killed at any point, does not keep a later one
\* from coming up, except an empty config.json: a run in which no step fails
\* reaches the engine if it has the rights, the files or their download.  (Where
\* the directory of the program is not writable the download may not happen.)
ComesUpAgain ==
  pc = "return" /\ ~badStep /\ ~canceled =>
    \/ ~admin
    \/ ~opts.download
    \/ ~writable
    \/ zip = "bad"
    \/ opts.service /\ config = "empty" /\ crashes + fails > 0

\* docs/PACKAGING.md: "By default the app will auto-install/start the driver if
\* needed and uninstall it on exit if it created the service."
UninstalledOnExit ==
  pc = "return" /\ ensured /\ created /\ AutoUninstall /\ ~badUndo =>
    svc = "none"

\* docs/PACKAGING.md:51: "if the exe directory is not writable, the downloader falls
\* back to `C:\ProgramData\gov-pass\windivert`": a run that has to download, with no
\* directory asked for, has turned to ProgramData before it ends.
FallsBackToData ==
  LET downloads == opts.download /\ ~HasWinDivertFiles("exe")
  IN pc = "return" /\ downloads /\ ~opts.requested /\ ~writable /\ ~badStep /\ ~canceled =>
       dir = "data"
=============================================================================
