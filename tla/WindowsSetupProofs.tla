--------------------------- MODULE WindowsSetupProofs ---------------------------
(***************************************************************************)
(* What a run of the Windows splitter leaves on the host, proved for any   *)
(* number of runs, kills and failing steps: IInv is inductive, and implies *)
(* the four safety properties of WindowsSetup.tla.                         *)
(*                                                                         *)
(* The argument follows pc.  What a step relies on was established some    *)
(* steps before, by a test whose result is not kept; so each part of the   *)
(* invariant says what is known at the steps in between.                   *)
(***************************************************************************)
EXTENDS WindowsSetup, TLAPS

Steps == {"down", "config", "create", "template", "files", "temp", "get", "verify",
          "extract", "dll", "sys", "query", "qc", "sc create", "sc config", "sc start",
          "open", "engine", "sc stop", "sc delete", "return"}

StateOK ==
  /\ foreign \in {"none", "stopped", "running"}
  /\ config \in {"none", "empty", "default", "user"}
  /\ files \in [Dirs -> [Need -> {"none", "whole"}]]
  /\ svc \in {"none", "stopped", "running"}
  /\ pc \in Steps
  /\ dir \in Dirs /\ zip \in {"none", "whole", "bad"} /\ found \in SUBSET Need

BooleansOK ==
  /\ opts \in Options
  /\ admin \in BOOLEAN /\ writable \in BOOLEAN /\ canceled \in BOOLEAN
  /\ created \in BOOLEAN /\ started \in BOOLEAN
  /\ badStep \in BOOLEAN /\ badUndo \in BOOLEAN
  /\ ensured \in BOOLEAN /\ everEnsured \in BOOLEAN

CountsOK == fails \in Nat /\ crashes \in Nat /\ runs \in Nat

TypeOK == StateOK /\ BooleansOK /\ CountsOK

\* The file is empty between its creation and the writing of the defaults, and for
\* good if that was cut off.
ConfigInv ==
  /\ config = "empty" => pc = "template" \/ crashes + fails > 0
  /\ pc = "template" => config = "empty"

\* What is unpacked is the pinned zip, and the files already in place stay.
UnpackInv ==
  /\ pc \in {"config", "create", "template", "files", "temp", "get", "verify"} => found = {}
  /\ pc = "verify" => zip # "none"
  /\ pc \in {"extract"} \cup Need =>
       zip = "whole" /\ \A f \in found : files[dir][f] # "none"
  /\ \A f \in Need : pc = f => f \notin found

\* From the test for the files on they are there, and the binary of the service too
\* before it is started.
BinaryInv ==
  /\ pc = "query" => HasWinDivertFiles(dir)
  /\ pc \in {"qc", "sc create", "sc config"} => SysFound(dir)
  /\ pc = "sc start" => BinFound \/ badStep \/ canceled

\* The state in which each command finds the driver service.
ServiceInv ==
  /\ pc = "sc create" => svc = "none"
  /\ pc \in {"qc", "sc config"} => svc # "none"
  /\ pc = "sc start" => svc = "stopped"
  /\ pc = "open" /\ opts.install => svc = "running"

\* What the clean-up may stop and delete is what this run has made.
OwnInv ==
  /\ created => foreign = "none"
  /\ started => foreign # "running"
  /\ pc = "sc stop" => (created /\ AutoUninstall) \/ (started /\ AutoStop)
  /\ pc = "sc delete" => created /\ AutoUninstall /\ svc # "running"
  /\ pc \in {"sc stop", "sc delete"} => badStep \/ canceled
  /\ ensured => opts.install /\ pc \in {"engine", "sc stop", "sc delete", "return", "down"}

IInv ==
  /\ TypeOK /\ ConfigInv /\ UnpackInv /\ BinaryInv /\ ServiceInv /\ OwnInv
  /\ DriverUndone /\ DriverStaysUp /\ ComesUpAgain

-----------------------------------------------------------------------------
\* What the shared parts of the actions do.

\* The five commands: what each needs, what it does, and what follows.
CommandOf(cmd, service, path, make, begin) ==
  /\ pc = cmd /\ ~canceled
  /\ svc' = service /\ binPath' = path
  /\ (created' <=> make) /\ (started' <=> begin)
  /\ config' = config /\ files' = files /\ dir' = dir /\ zip' = zip /\ found' = found
  /\ opts' = opts /\ admin' = admin /\ writable' = writable /\ foreign' = foreign
  /\ (badStep' <=> badStep) /\ (badUndo' <=> badUndo)
  /\ (ensured' <=> ensured) /\ (everEnsured' <=> everEnsured)
  /\ fails' = fails /\ crashes' = crashes /\ runs' = runs

\* Each command that succeeds, with the step after it.
LEMMA ScDoes ==
  ASSUME TypeOK, Sc
  PROVE  /\ canceled' = canceled
         /\ \/ /\ CommandOf("sc create", "stopped", dir, TRUE, started)
               /\ pc' = "sc start"
            \/ /\ CommandOf("sc config", svc, dir, created, started)
               /\ pc' = EnsureRunning
            \/ /\ CommandOf("sc start", "running", binPath, created, TRUE)
               /\ BinFound /\ pc' = "open"
            \/ /\ CommandOf("sc stop", "stopped", binPath, created, started)
               /\ pc' = IF created /\ AutoUninstall THEN "sc delete" ELSE "return"
            \/ /\ CommandOf("sc delete", "none", binPath, created, started)
               /\ pc' = "return"
<1> USE DEF CommandOf, fixed, history, bounds, TypeOK, StateOK, BooleansOK
<1>1. canceled' = canceled /\ pc \in ScCommands
  BY DEF Sc, Goto
<1>2. CASE pc = "sc create"
  BY <1>2 DEF Sc, Goto, Effect, After
<1>3. CASE pc = "sc config"
  BY <1>3 DEF Sc, Goto, Effect, After
<1>4. CASE pc = "sc start"
  BY <1>4 DEF Sc, Goto, Effect, After
<1>5. CASE pc = "sc stop"
  BY <1>5 DEF Sc, Goto, Effect, After
<1>6. CASE pc = "sc delete"
  BY <1>6 DEF Sc, Goto, Effect, After
<1> QED
  BY <1>1, <1>2, <1>3, <1>4, <1>5, <1>6 DEF ScCommands

\* A command that is killed has its effect, and the run returns canceled.
LEMMA ScKilledDoes ==
  ASSUME TypeOK, ScKilled
  PROVE  /\ canceled' = TRUE /\ pc' = "return"
         /\ \/ CommandOf("sc create", "stopped", dir, created, started)
            \/ CommandOf("sc config", svc, dir, created, started)
            \/ CommandOf("sc start", "running", binPath, created, started)
            \/ CommandOf("sc stop", "stopped", binPath, created, started)
            \/ CommandOf("sc delete", "none", binPath, created, started)
<1> USE DEF CommandOf, fixed, runVars, history, bounds, TypeOK, StateOK, BooleansOK
<1>1. canceled' = TRUE /\ pc' = "return" /\ pc \in ScCommands
  BY DEF ScKilled
<1>2. CASE pc = "sc create"
  BY <1>2 DEF ScKilled, Effect
<1>3. CASE pc = "sc config"
  BY <1>3 DEF ScKilled, Effect
<1>4. CASE pc = "sc start"
  BY <1>4 DEF ScKilled, Effect
<1>5. CASE pc = "sc stop"
  BY <1>5 DEF ScKilled, Effect
<1>6. CASE pc = "sc delete"
  BY <1>6 DEF ScKilled, Effect
<1> QED
  BY <1>1, <1>2, <1>3, <1>4, <1>5, <1>6 DEF ScCommands

-----------------------------------------------------------------------------
\* Every part of the invariant is kept by every action.

\* What precedes the driver leaves the service alone.
LEMMA SetUpFrame ==
  ASSUME Configure \/ Download
  PROVE  /\ pc \in {"config", "create", "template", "files", "temp", "get", "verify",
                    "extract", "dll", "sys"}
         /\ pc' \in {"create", "template", "files", "temp", "get", "verify", "extract",
                     "dll", "sys", "query", "return"}
         /\ opts' = opts /\ foreign' = foreign /\ svc' = svc /\ binPath' = binPath
         /\ (created' <=> created) /\ (started' <=> started) /\ (canceled' <=> canceled)
         /\ (ensured' <=> ensured) /\ (everEnsured' <=> everEnsured)
<1> USE DEF fixed, hostVars, runVars, history, bounds, Need
<1>1. CASE ReadConfig  BY <1>1 DEF ReadConfig, Goto
<1>2. CASE NoConfig  BY <1>2 DEF NoConfig, Goto
<1>3. CASE CreateConfig  BY <1>3 DEF CreateConfig, Goto
<1>4. CASE WriteTemplate  BY <1>4 DEF WriteTemplate, Goto
<1>5. CASE ConfigFails  BY <1>5 DEF ConfigFails, FailTo
<1>6. CASE CheckFiles  BY <1>6 DEF CheckFiles, Goto
<1>7. CASE CreateTemp  BY <1>7 DEF CreateTemp, Goto
<1>8. CASE Get  BY <1>8 DEF Get, Goto
<1>9. CASE Verify  BY <1>9 DEF Verify, Goto
<1>10. CASE \E f \in Need : Unpack(f)  BY <1>10 DEF Unpack, Goto
<1>11. CASE \E f \in Need : Rename(f)  BY <1>11 DEF Rename, Goto
<1>12. CASE DownloadFails  BY <1>12 DEF DownloadFails, FailTo
<1>13. CASE FallBack  BY <1>13 DEF FallBack, FailTo
<1> QED
  BY <1>1, <1>2, <1>3, <1>4, <1>5, <1>6, <1>7, <1>8, <1>9, <1>10, <1>11, <1>12, <1>13
     DEF Configure, Download

\* Every step keeps the types: in particular no file is ever partial or bad, because
\* only a whole zip is unpacked, and a file appears by a rename.
LEMMA StateStep ==
  ASSUME TypeOK, UnpackInv, Next
  PROVE  StateOK'
<1> USE DEF fixed, hostVars, runVars, history, bounds
<1> USE DEF StateOK, TypeOK, UnpackInv, Steps, Need, Dirs, CommandOf,
      EnsureRunning, IfAdmin
<1>1. CASE Start  BY <1>1 DEF Start
<1>2. CASE Crash  BY <1>2 DEF Crash
<1>3. CASE Cancel
  <2>1. pc' = pc /\ foreign' = foreign /\ config' = config /\ files' = files /\ svc' = svc
        /\ dir' = dir /\ zip' = zip /\ found' = found
   BY <1>3 DEF Cancel
  <2> HIDE DEF Steps, Need, Dirs, UnpackInv
  <2> QED
   BY <2>1
<1>4. CASE Return  BY <1>4 DEF Return, Goto
<1>5. CASE WriteConfig  BY ZenonT(40), <1>5 DEF WriteConfig
<1>6. CASE \E f \in Need : LoseFile(f)  BY <1>6 DEF LoseFile
<1>7. CASE ReadConfig  BY <1>7 DEF ReadConfig, Goto
<1>8. CASE NoConfig  BY <1>8 DEF NoConfig, Goto
<1>9. CASE CreateConfig  BY <1>9 DEF CreateConfig, Goto
<1>10. CASE WriteTemplate  BY <1>10 DEF WriteTemplate, Goto
<1>11. CASE ConfigFails  BY <1>11 DEF ConfigFails, FailTo
<1>12. CASE CheckFiles  BY <1>12 DEF CheckFiles, Goto
<1>13. CASE CreateTemp  BY <1>13 DEF CreateTemp, Goto
<1>14. CASE Get  BY <1>14 DEF Get, Goto
<1>15. CASE Verify  BY <1>15 DEF Verify, Goto
<1>16. CASE \E f \in Need : Unpack(f)
  <2>1. PICK f \in Need : Unpack(f)
   BY <1>16
  <2>2. files' \in [Dirs -> [Need -> {"none", "whole"}]]
   BY <2>1 DEF Unpack, Goto
  <2> QED
   BY <2>1, <2>2 DEF Unpack, Goto
<1>17. CASE \E f \in Need : Rename(f)
  <2>1. PICK f \in Need : Rename(f)
   BY <1>17
  <2>2. files' \in [Dirs -> [Need -> {"none", "whole"}]]
   BY <2>1 DEF Rename, Goto, Extracted
  <2> QED
   BY <2>1, <2>2 DEF Rename, Goto
<1>18. CASE DownloadFails  BY <1>18 DEF DownloadFails, FailTo
<1>19. CASE FallBack  BY <1>19 DEF FallBack, FailTo
<1>20. CASE Query  BY <1>20 DEF Query, Goto, IfAdmin
<1>21. CASE QueryBinPath  BY <1>21 DEF QueryBinPath, Goto, EnsureRunning, IfAdmin
<1>22. CASE QueryBinPathFails
  BY <1>22 DEF QueryBinPathFails, FailTo, Goto, EnsureRunning
<1>23. CASE Sc  BY ZenonT(40), <1>23, ScDoes
<1>24. CASE ScCanceled  BY <1>24 DEF ScCanceled, Goto, ScCommands
<1>25. CASE ScKilled  BY ZenonT(40), <1>25, ScKilledDoes
<1>26. CASE ScFails  BY ZenonT(40), <1>26 DEF ScFails, FailTo, Goto, ScCommands
<1>27. CASE Open  BY <1>27 DEF Open
<1>28. CASE OpenFails  BY <1>28 DEF OpenFails, Cleanup
<1>29. CASE EngineReturns  BY <1>29 DEF EngineReturns, FailTo, Goto, Cleanup
<1> QED
  BY <1>1, <1>2, <1>3, <1>4, <1>5, <1>6, <1>7, <1>8, <1>9, <1>10, <1>11, <1>12,
  <1>13, <1>14, <1>15, <1>16, <1>17, <1>18, <1>19, <1>20, <1>21, <1>22, <1>23, <1>24,
  <1>25, <1>26, <1>27, <1>28, <1>29
     DEF Next, Configure, Download, EnsureDriver

\* And the flags are flags.
LEMMA BooleanStep ==
  ASSUME TypeOK, Next
  PROVE  BooleansOK'
<1>a. ASSUME NEW p, Goto(p), UNCHANGED runVars
      PROVE  BooleansOK'
  <2>1. /\ opts' = opts /\ admin' = admin /\ writable' = writable /\ canceled' = canceled
        /\ created' = created /\ started' = started
        /\ badStep' = badStep /\ badUndo' = badUndo
        /\ ensured' = ensured /\ everEnsured' = everEnsured
    BY <1>a DEF Goto, fixed, runVars, history
  <2> QED BY <2>1, Zenon DEF TypeOK, BooleansOK
<1>b. ASSUME NEW p, FailTo(p), UNCHANGED runVars
      PROVE  BooleansOK'
  <2>1. /\ opts' = opts /\ admin' = admin /\ writable' = writable /\ canceled' = canceled
        /\ created' = created /\ started' = started
        /\ ensured' = ensured /\ everEnsured' = everEnsured
    BY <1>b DEF FailTo, fixed, runVars
  <2>2. badStep' \in BOOLEAN /\ badUndo' \in BOOLEAN
    BY <1>b DEF FailTo, TypeOK, BooleansOK
  <2> QED BY <2>1, <2>2, Zenon DEF TypeOK, BooleansOK
<1>20. CASE Query  BY <1>20, <1>a DEF Query
<1>21. CASE QueryBinPath  BY <1>21, <1>a DEF QueryBinPath
<1>22. CASE QueryBinPathFails  BY <1>22, <1>a, <1>b DEF QueryBinPathFails
<1>24. CASE ScCanceled  BY <1>24, <1>a DEF ScCanceled
<1> USE DEF fixed, hostVars, runVars, history, bounds
<1> USE DEF BooleansOK, TypeOK, Options
<1>1. CASE Start  BY <1>1 DEF Start
<1>2. CASE Crash  BY <1>2 DEF Crash
<1>3. CASE Cancel  BY <1>3 DEF Cancel
<1>4. CASE Return  BY <1>4 DEF Return, Goto
<1>5. CASE WriteConfig  BY <1>5 DEF WriteConfig
<1>6. CASE \E f \in Need : LoseFile(f)  BY <1>6 DEF LoseFile
<1>7. CASE ReadConfig  BY <1>7 DEF ReadConfig, Goto
<1>8. CASE NoConfig  BY <1>8 DEF NoConfig, Goto
<1>9. CASE CreateConfig  BY <1>9 DEF CreateConfig, Goto
<1>10. CASE WriteTemplate  BY <1>10 DEF WriteTemplate, Goto
<1>11. CASE ConfigFails  BY ZenonT(40), <1>11 DEF ConfigFails, FailTo
<1>12. CASE CheckFiles  BY <1>12 DEF CheckFiles, Goto
<1>13. CASE CreateTemp  BY <1>13 DEF CreateTemp, Goto
<1>14. CASE Get  BY <1>14 DEF Get, Goto
<1>15. CASE Verify  BY <1>15 DEF Verify, Goto
<1>16. CASE \E f \in Need : Unpack(f)  BY <1>16 DEF Unpack, Goto
<1>17. CASE \E f \in Need : Rename(f)  BY <1>17 DEF Rename, Goto, Extracted
<1>18. CASE DownloadFails  BY ZenonT(40), <1>18 DEF DownloadFails, FailTo
<1>19. CASE FallBack  BY <1>19 DEF FallBack, FailTo
<1>23. CASE Sc
  BY <1>23 DEF Sc, Goto
<1>25. CASE ScKilled
  BY <1>25 DEF ScKilled
<1>26. CASE ScFails  BY <1>26 DEF ScFails, FailTo, Goto, ScCommands
<1>27. CASE Open  BY <1>27 DEF Open
<1>28. CASE OpenFails  BY <1>28 DEF OpenFails, Cleanup
<1>29. CASE EngineReturns  BY <1>29 DEF EngineReturns, FailTo, Goto, Cleanup
<1> QED
  BY <1>1, <1>2, <1>3, <1>4, <1>5, <1>6, <1>7, <1>8, <1>9, <1>10, <1>11, <1>12,
  <1>13, <1>14, <1>15, <1>16, <1>17, <1>18, <1>19, <1>20, <1>21, <1>22, <1>23, <1>24,
  <1>25, <1>26, <1>27, <1>28, <1>29
     DEF Next, Configure, Download, EnsureDriver

\* An empty file is left behind only by a run that was killed or failed.
LEMMA ConfigStep ==
  ASSUME TypeOK, ConfigInv, Next
  PROVE  ConfigInv'
<1> USE DEF fixed, hostVars, runVars, history, bounds
<1> USE DEF ConfigInv, Need, CommandOf, EnsureRunning, IfAdmin
<1>a. fails \in Nat /\ crashes \in Nat
  BY DEF TypeOK, StateOK, CountsOK, BooleansOK
<1>b. ASSUME fails' = fails + 1, crashes' = crashes
      PROVE  crashes' + fails' > 0
  BY <1>a, <1>b
<1>1. CASE Start  BY <1>1, <1>a DEF Start
<1>2. CASE Crash  BY <1>2, <1>a DEF Crash
<1>3. CASE Cancel  BY <1>3, <1>a DEF Cancel
<1>4. CASE Return  BY <1>4, <1>a DEF Return, Goto
<1>5. CASE WriteConfig  BY <1>5, <1>a DEF WriteConfig
<1>6. CASE \E f \in Need : LoseFile(f)  BY <1>6, <1>a DEF LoseFile
<1>7. CASE ReadConfig  BY <1>7, <1>a DEF ReadConfig, Goto
<1>8. CASE NoConfig  BY <1>8, <1>a DEF NoConfig, Goto
<1>9. CASE CreateConfig  BY <1>9, <1>a DEF CreateConfig, Goto
<1>10. CASE WriteTemplate  BY <1>10, <1>a DEF WriteTemplate, Goto
<1>11. CASE ConfigFails  BY <1>11, <1>b DEF ConfigFails, FailTo
<1>12. CASE CheckFiles  BY <1>12, <1>a DEF CheckFiles, Goto
<1>13. CASE CreateTemp  BY <1>13, <1>a DEF CreateTemp, Goto
<1>14. CASE Get  BY <1>14, <1>a DEF Get, Goto
<1>15. CASE Verify  BY <1>15, <1>a DEF Verify, Goto
<1>16. CASE \E f \in Need : Unpack(f)  BY <1>16, <1>a DEF Unpack, Goto
<1>17. CASE \E f \in Need : Rename(f)  BY <1>17, <1>a DEF Rename, Goto, Extracted
<1>18. CASE DownloadFails  BY <1>18, <1>b DEF DownloadFails, FailTo
<1>19. CASE FallBack  BY <1>19, <1>b DEF FallBack, FailTo
<1>20. CASE Query  BY <1>20, <1>a DEF Query, Goto, IfAdmin
<1>21. CASE QueryBinPath
  BY <1>21, <1>a DEF QueryBinPath, Goto, EnsureRunning, IfAdmin
<1>22. CASE QueryBinPathFails
  BY <1>22, <1>b DEF QueryBinPathFails, FailTo, Goto, EnsureRunning
<1>23. CASE Sc  BY <1>23, ScDoes, <1>a
<1>24. CASE ScCanceled  BY <1>24, <1>a DEF ScCanceled, Goto, ScCommands
<1>25. CASE ScKilled  BY <1>25, ScKilledDoes, <1>a
<1>26. CASE ScFails  BY <1>26, <1>b DEF ScFails, FailTo, Goto, ScCommands
<1>27. CASE Open  BY <1>27, <1>a DEF Open
<1>28. CASE OpenFails  BY <1>28, <1>b DEF OpenFails, Cleanup
<1>29. CASE EngineReturns  BY <1>29, <1>b DEF EngineReturns, FailTo, Goto, Cleanup
<1> QED
  BY <1>1, <1>2, <1>3, <1>4, <1>5, <1>6, <1>7, <1>8, <1>9, <1>10, <1>11, <1>12,
  <1>13, <1>14, <1>15, <1>16, <1>17, <1>18, <1>19, <1>20, <1>21, <1>22, <1>23, <1>24,
  <1>25, <1>26, <1>27, <1>28, <1>29
     DEF Next, Configure, Download, EnsureDriver

\* The zip that is unpacked is the pinned one.
LEMMA UnpackStep ==
  ASSUME TypeOK, UnpackInv, Next
  PROVE  UnpackInv'
<1> USE DEF fixed, hostVars, runVars, history, bounds
<1> USE DEF UnpackInv, Need, Dirs, CommandOf, EnsureRunning, IfAdmin
<1>a. /\ files \in [Dirs -> [Need -> {"none", "whole"}]] /\ dir \in Dirs
      /\ zip \in {"none", "whole", "bad"}
  BY DEF TypeOK, StateOK, CountsOK, BooleansOK
<1>1. CASE Start  BY <1>1, <1>a DEF Start
<1>2. CASE Crash  BY <1>2, <1>a DEF Crash
<1>3. CASE Cancel  BY <1>3, <1>a DEF Cancel
<1>4. CASE Return  BY <1>4, <1>a DEF Return, Goto
<1>5. CASE WriteConfig  BY <1>5, <1>a DEF WriteConfig
<1>6. CASE \E f \in Need : LoseFile(f)  BY <1>6, <1>a DEF LoseFile
<1>7. CASE ReadConfig  BY <1>7, <1>a DEF ReadConfig, Goto
<1>8. CASE NoConfig  BY <1>8, <1>a DEF NoConfig, Goto
<1>9. CASE CreateConfig  BY <1>9, <1>a DEF CreateConfig, Goto
<1>10. CASE WriteTemplate  BY <1>10, <1>a DEF WriteTemplate, Goto
<1>11. CASE ConfigFails  BY <1>11, <1>a DEF ConfigFails, FailTo
<1>12. CASE CheckFiles  BY <1>12, <1>a DEF CheckFiles, Goto
<1>13. CASE CreateTemp  BY <1>13, <1>a DEF CreateTemp, Goto
<1>14. CASE Get  BY <1>14, <1>a DEF Get, Goto
<1>15. CASE Verify  BY <1>15, <1>a DEF Verify, Goto
<1>16. CASE \E f \in Need : Unpack(f)  BY <1>16, <1>a DEF Unpack, Goto
<1>17. CASE \E f \in Need : Rename(f)  BY <1>17, <1>a DEF Rename, Goto, Extracted
<1>18. CASE DownloadFails  BY <1>18, <1>a DEF DownloadFails, FailTo
<1>19. CASE FallBack  BY <1>19, <1>a DEF FallBack, FailTo
<1>20. CASE Query  BY <1>20, <1>a DEF Query, Goto, IfAdmin
<1>21. CASE QueryBinPath
  BY <1>21, <1>a DEF QueryBinPath, Goto, EnsureRunning, IfAdmin
<1>22. CASE QueryBinPathFails
  BY <1>22, <1>a DEF QueryBinPathFails, FailTo, Goto, EnsureRunning
<1>23. CASE Sc  BY <1>23, ScDoes, <1>a
<1>24. CASE ScCanceled  BY <1>24, <1>a DEF ScCanceled, Goto, ScCommands
<1>25. CASE ScKilled  BY <1>25, ScKilledDoes, <1>a
<1>26. CASE ScFails  BY <1>26, <1>a DEF ScFails, FailTo, Goto, ScCommands
<1>27. CASE Open  BY <1>27, <1>a DEF Open
<1>28. CASE OpenFails  BY <1>28, <1>a DEF OpenFails, Cleanup
<1>29. CASE EngineReturns  BY <1>29, <1>a DEF EngineReturns, FailTo, Goto, Cleanup
<1> QED
  BY <1>1, <1>2, <1>3, <1>4, <1>5, <1>6, <1>7, <1>8, <1>9, <1>10, <1>11, <1>12,
  <1>13, <1>14, <1>15, <1>16, <1>17, <1>18, <1>19, <1>20, <1>21, <1>22, <1>23, <1>24,
  <1>25, <1>26, <1>27, <1>28, <1>29
     DEF Next, Configure, Download, EnsureDriver

\* The files are there when the driver is set up: nothing is deleted while the program
\* runs, and what a service is given as its binary has been looked for.
LEMMA BinaryStep ==
  ASSUME TypeOK, UnpackInv, BinaryInv, Next
  PROVE  BinaryInv'
<1> USE DEF fixed, hostVars, runVars, history, bounds
<1> USE DEF UnpackInv, BinaryInv, Need, Dirs, HasWinDivertFiles, SysFound,
      BinFound, CommandOf, EnsureRunning, IfAdmin
<1>a. files \in [Dirs -> [Need -> {"none", "whole"}]] /\ dir \in Dirs
  BY DEF TypeOK, StateOK, CountsOK, BooleansOK
<1>1. CASE Start  BY <1>1, <1>a DEF Start
<1>2. CASE Crash  BY <1>2, <1>a DEF Crash
<1>3. CASE Cancel  BY <1>3, <1>a DEF Cancel
<1>4. CASE Return  BY <1>4, <1>a DEF Return, Goto
<1>5. CASE WriteConfig  BY <1>5, <1>a DEF WriteConfig
<1>6. CASE \E f \in Need : LoseFile(f)  BY <1>6, <1>a DEF LoseFile
<1>7. CASE ReadConfig  BY <1>7, <1>a DEF ReadConfig, Goto
<1>8. CASE NoConfig  BY <1>8, <1>a DEF NoConfig, Goto
<1>9. CASE CreateConfig  BY <1>9, <1>a DEF CreateConfig, Goto
<1>10. CASE WriteTemplate  BY <1>10, <1>a DEF WriteTemplate, Goto
<1>11. CASE ConfigFails  BY <1>11, <1>a DEF ConfigFails, FailTo
<1>12. CASE CheckFiles  BY <1>12, <1>a DEF CheckFiles, Goto
<1>13. CASE CreateTemp  BY <1>13, <1>a DEF CreateTemp, Goto
<1>14. CASE Get  BY <1>14, <1>a DEF Get, Goto
<1>15. CASE Verify  BY <1>15, <1>a DEF Verify, Goto
<1>16. CASE \E f \in Need : Unpack(f)  BY <1>16, <1>a DEF Unpack, Goto
<1>17. CASE \E f \in Need : Rename(f)
  <2>1. PICK f \in Need : Rename(f)
   BY <1>17
  <2>2. files' \in [Dirs -> [Need -> {"none", "whole"}]]
   BY <2>1, <1>a DEF Rename, Goto, Extracted, StateOK, TypeOK, UnpackInv
  <2>3. pc' = "query" => \A g \in Need : files'[dir][g] # "none"
   BY <2>1, <1>a DEF Rename, Goto, Extracted
  <2> QED
   BY <2>1, <2>3, <1>a DEF Rename, Goto
<1>18. CASE DownloadFails  BY <1>18, <1>a DEF DownloadFails, FailTo
<1>19. CASE FallBack  BY <1>19, <1>a DEF FallBack, FailTo
<1>20. CASE Query  BY <1>20, <1>a DEF Query, Goto, IfAdmin
<1>21. CASE QueryBinPath
  BY <1>21, <1>a DEF QueryBinPath, Goto, EnsureRunning, IfAdmin
<1>22. CASE QueryBinPathFails
  BY <1>22, <1>a DEF QueryBinPathFails, FailTo, Goto, EnsureRunning
<1>23. CASE Sc  BY <1>23, ScDoes, <1>a
<1>24. CASE ScCanceled  BY <1>24, <1>a DEF ScCanceled, Goto, ScCommands
<1>25. CASE ScKilled  BY <1>25, ScKilledDoes, <1>a
<1>26. CASE ScFails  BY <1>26, <1>a DEF ScFails, FailTo, Goto, ScCommands
<1>27. CASE Open  BY <1>27, <1>a DEF Open
<1>28. CASE OpenFails  BY <1>28, <1>a DEF OpenFails, Cleanup
<1>29. CASE EngineReturns  BY <1>29, <1>a DEF EngineReturns, FailTo, Goto, Cleanup
<1> QED
  BY <1>1, <1>2, <1>3, <1>4, <1>5, <1>6, <1>7, <1>8, <1>9, <1>10, <1>11, <1>12,
  <1>13, <1>14, <1>15, <1>16, <1>17, <1>18, <1>19, <1>20, <1>21, <1>22, <1>23, <1>24,
  <1>25, <1>26, <1>27, <1>28, <1>29
     DEF Next, Configure, Download, EnsureDriver

\* Nothing changes the driver service between the query and the commands it leads to.
LEMMA ServiceStep ==
  ASSUME TypeOK, ServiceInv, Next
  PROVE  ServiceInv'
<1> USE DEF fixed, hostVars, runVars, history, bounds
<1> USE DEF ServiceInv, Need, CommandOf, EnsureRunning, IfAdmin
<1>a. svc \in {"none", "stopped", "running"}
  BY DEF TypeOK, StateOK, CountsOK, BooleansOK
<1>1. CASE Start  BY <1>1, <1>a DEF Start
<1>2. CASE Crash  BY <1>2, <1>a DEF Crash
<1>3. CASE Cancel  BY <1>3, <1>a DEF Cancel
<1>4. CASE Return  BY <1>4, <1>a DEF Return, Goto
<1>5. CASE WriteConfig  BY <1>5, <1>a DEF WriteConfig
<1>6. CASE \E f \in Need : LoseFile(f)  BY <1>6, <1>a DEF LoseFile
<1>7. CASE Configure \/ Download  BY <1>7, SetUpFrame, <1>a
<1>8. CASE Query  BY <1>8, <1>a DEF Query, Goto, IfAdmin
<1>9. CASE QueryBinPath  BY <1>9, <1>a DEF QueryBinPath, Goto, EnsureRunning, IfAdmin
<1>10. CASE QueryBinPathFails
  BY <1>10, <1>a DEF QueryBinPathFails, FailTo, Goto, EnsureRunning
<1>11. CASE Sc  BY <1>11, ScDoes, <1>a
<1>12. CASE ScCanceled  BY <1>12, <1>a DEF ScCanceled, Goto, ScCommands
<1>13. CASE ScKilled  BY <1>13, ScKilledDoes, <1>a
<1>14. CASE ScFails  BY <1>14, <1>a DEF ScFails, FailTo, Goto, ScCommands
<1>15. CASE Open  BY <1>15, <1>a DEF Open
<1>16. CASE OpenFails  BY <1>16, <1>a DEF OpenFails, Cleanup
<1>17. CASE EngineReturns  BY <1>17, <1>a DEF EngineReturns, FailTo, Goto, Cleanup
<1> QED
  BY <1>1, <1>2, <1>3, <1>4, <1>5, <1>6, <1>7, <1>8, <1>9, <1>10, <1>11, <1>12,
  <1>13, <1>14, <1>15, <1>16, <1>17
     DEF Next, EnsureDriver

\* The clean-up is about what this run has created or started, and that is never the
\* driver of somebody else.
LEMMA OwnStep ==
  ASSUME TypeOK, ServiceInv, OwnInv, DriverStaysUp, Next
  PROVE  OwnInv'
<1> USE DEF fixed, hostVars, runVars, history, bounds
<1> USE DEF ServiceInv, OwnInv, DriverStaysUp, Need, AutoStop, AutoUninstall,
      CommandOf, EnsureRunning, IfAdmin
<1>a. svc \in {"none", "stopped", "running"} /\ foreign \in {"none", "stopped", "running"}
  BY DEF TypeOK, StateOK, CountsOK, BooleansOK
<1>1. CASE Start  BY <1>1, <1>a DEF Start
<1>2. CASE Crash  BY <1>2, <1>a DEF Crash
<1>3. CASE Cancel  BY <1>3, <1>a DEF Cancel
<1>4. CASE Return  BY <1>4, <1>a DEF Return, Goto
<1>5. CASE WriteConfig  BY <1>5, <1>a DEF WriteConfig
<1>6. CASE \E f \in Need : LoseFile(f)  BY <1>6, <1>a DEF LoseFile
<1>7. CASE Configure \/ Download  BY <1>7, SetUpFrame, <1>a
<1>8. CASE Query  BY <1>8, <1>a DEF Query, Goto, IfAdmin
<1>9. CASE QueryBinPath  BY <1>9, <1>a DEF QueryBinPath, Goto, EnsureRunning, IfAdmin
<1>10. CASE QueryBinPathFails
  BY <1>10, <1>a DEF QueryBinPathFails, FailTo, Goto, EnsureRunning
<1>11. CASE Sc
  <2>1. CASE pc = "sc create"  BY <2>1, <1>11, ScDoes, <1>a
  <2>2. CASE pc = "sc config"  BY <2>2, <1>11, ScDoes, <1>a
  <2>3. CASE pc = "sc start"  BY <2>3, <1>11, ScDoes, <1>a
  <2>4. CASE pc = "sc stop"  BY <2>4, <1>11, ScDoes, <1>a
  <2>5. CASE pc = "sc delete"  BY <2>5, <1>11, ScDoes, <1>a
  <2>6. pc \in ScCommands
   BY <1>11 DEF Sc
  <2> QED
   BY <2>1, <2>2, <2>3, <2>4, <2>5, <2>6 DEF ScCommands
<1>12. CASE ScCanceled  BY <1>12, <1>a DEF ScCanceled, Goto, ScCommands
<1>13. CASE ScKilled
  <2>1. CASE pc = "sc create"  BY <2>1, <1>13, ScKilledDoes, <1>a
  <2>2. CASE pc = "sc config"  BY <2>2, <1>13, ScKilledDoes, <1>a
  <2>3. CASE pc = "sc start"  BY <2>3, <1>13, ScKilledDoes, <1>a
  <2>4. CASE pc = "sc stop"  BY <2>4, <1>13, ScKilledDoes, <1>a
  <2>5. CASE pc = "sc delete"  BY <2>5, <1>13, ScKilledDoes, <1>a
  <2>6. pc \in ScCommands
   BY <1>13 DEF ScKilled
  <2> QED
   BY <2>1, <2>2, <2>3, <2>4, <2>5, <2>6 DEF ScCommands
<1>14. CASE ScFails  BY <1>14, <1>a DEF ScFails, FailTo, Goto, ScCommands
<1>15. CASE Open  BY <1>15, <1>a DEF Open
<1>16. CASE OpenFails  BY <1>16, <1>a DEF OpenFails, Cleanup
<1>17. CASE EngineReturns
  <2>1. CASE canceled /\ Goto(Cleanup)
   BY <2>1, <1>17 DEF EngineReturns, Goto, Cleanup
  <2>2. CASE FailTo(Cleanup)
   BY <2>2, <1>17 DEF EngineReturns, FailTo, Cleanup
  <2> QED
   BY <1>17, <2>1, <2>2 DEF EngineReturns
<1> QED
  BY <1>1, <1>2, <1>3, <1>4, <1>5, <1>6, <1>7, <1>8, <1>9, <1>10, <1>11, <1>12,
  <1>13, <1>14, <1>15, <1>16, <1>17
     DEF Next, EnsureDriver

\* Only the commands of the clean-up lead back from the engine to "return".
LEMMA UndoneStep ==
  ASSUME TypeOK, OwnInv, DriverUndone, Next
  PROVE  DriverUndone'
<1> USE DEF fixed, hostVars, runVars, history, bounds
<1> USE DEF OwnInv, DriverUndone, Need, AutoStop, AutoUninstall, CommandOf,
      EnsureRunning, IfAdmin
<1>1. CASE Start  BY <1>1 DEF Start
<1>2. CASE Crash  BY <1>2 DEF Crash
<1>3. CASE Cancel  BY <1>3 DEF Cancel
<1>4. CASE Return  BY <1>4 DEF Return, Goto
<1>5. CASE WriteConfig  BY <1>5 DEF WriteConfig
<1>6. CASE \E f \in Need : LoseFile(f)  BY <1>6 DEF LoseFile
<1>7. CASE Configure \/ Download  BY <1>7, SetUpFrame
<1>8. CASE Query  BY <1>8 DEF Query, Goto, IfAdmin
<1>9. CASE QueryBinPath  BY <1>9 DEF QueryBinPath, Goto, EnsureRunning, IfAdmin
<1>10. CASE QueryBinPathFails
  BY <1>10 DEF QueryBinPathFails, FailTo, Goto, EnsureRunning
<1>11. CASE Sc  BY <1>11, ScDoes
<1>12. CASE ScCanceled  BY <1>12 DEF ScCanceled, Goto, ScCommands
<1>13. CASE ScKilled  BY <1>13, ScKilledDoes
<1>14. CASE ScFails  BY <1>14 DEF ScFails, FailTo, Goto, ScCommands
<1>15. CASE Open  BY <1>15 DEF Open
<1>16. CASE OpenFails  BY <1>16 DEF OpenFails, Cleanup
<1>17. CASE EngineReturns
  <2>1. CASE canceled /\ Goto(Cleanup)
   BY <2>1, <1>17 DEF EngineReturns, Goto, Cleanup
  <2>2. CASE FailTo(Cleanup)
   BY <2>2, <1>17 DEF EngineReturns, FailTo, Cleanup
  <2> QED
   BY <1>17, <2>1, <2>2 DEF EngineReturns
<1> QED
  BY <1>1, <1>2, <1>3, <1>4, <1>5, <1>6, <1>7, <1>8, <1>9, <1>10, <1>11, <1>12,
  <1>13, <1>14, <1>15, <1>16, <1>17
     DEF Next, EnsureDriver

\* A service run has no clean-up, a console run only one for its own driver.
LEMMA StaysUpStep ==
  ASSUME TypeOK, ServiceInv, OwnInv, DriverStaysUp, Next
  PROVE  DriverStaysUp'
<1> USE DEF fixed, hostVars, runVars, history, bounds
<1> USE DEF ServiceInv, OwnInv, DriverStaysUp, Need, AutoStop, AutoUninstall,
      CommandOf, EnsureRunning, IfAdmin
<1>1. CASE Start  BY <1>1 DEF Start
<1>2. CASE Crash  BY <1>2 DEF Crash
<1>3. CASE Cancel  BY <1>3 DEF Cancel
<1>4. CASE Return  BY <1>4 DEF Return, Goto
<1>5. CASE WriteConfig  BY <1>5 DEF WriteConfig
<1>6. CASE \E f \in Need : LoseFile(f)  BY <1>6 DEF LoseFile
<1>7. CASE Configure \/ Download  BY <1>7, SetUpFrame
<1>8. CASE Query  BY <1>8 DEF Query, Goto, IfAdmin
<1>9. CASE QueryBinPath  BY <1>9 DEF QueryBinPath, Goto, EnsureRunning, IfAdmin
<1>10. CASE QueryBinPathFails
  BY <1>10 DEF QueryBinPathFails, FailTo, Goto, EnsureRunning
<1>11. CASE Sc
  <2>1. CASE pc = "sc create"  BY <2>1, <1>11, ScDoes
  <2>2. CASE pc = "sc config"  BY <2>2, <1>11, ScDoes
  <2>3. CASE pc = "sc start"  BY <2>3, <1>11, ScDoes
  <2>4. CASE pc = "sc stop"  BY <2>4, <1>11, ScDoes
  <2>5. CASE pc = "sc delete"  BY <2>5, <1>11, ScDoes
  <2>6. pc \in ScCommands
   BY <1>11 DEF Sc
  <2> QED
   BY <2>1, <2>2, <2>3, <2>4, <2>5, <2>6 DEF ScCommands
<1>12. CASE ScCanceled  BY <1>12 DEF ScCanceled, Goto, ScCommands
<1>13. CASE ScKilled
  <2>1. CASE pc = "sc create"  BY <2>1, <1>13, ScKilledDoes
  <2>2. CASE pc = "sc config"  BY <2>2, <1>13, ScKilledDoes
  <2>3. CASE pc = "sc start"  BY <2>3, <1>13, ScKilledDoes
  <2>4. CASE pc = "sc stop"  BY <2>4, <1>13, ScKilledDoes
  <2>5. CASE pc = "sc delete"  BY <2>5, <1>13, ScKilledDoes
  <2>6. pc \in ScCommands
   BY <1>13 DEF ScKilled
  <2> QED
   BY <2>1, <2>2, <2>3, <2>4, <2>5, <2>6 DEF ScCommands
<1>14. CASE ScFails  BY <1>14 DEF ScFails, FailTo, Goto, ScCommands
<1>15. CASE Open  BY <1>15 DEF Open
<1>16. CASE OpenFails  BY <1>16 DEF OpenFails, Cleanup
<1>17. CASE EngineReturns
  <2>1. CASE canceled /\ Goto(Cleanup)
   BY <2>1, <1>17 DEF EngineReturns, Goto, Cleanup
  <2>2. CASE FailTo(Cleanup)
   BY <2>2, <1>17 DEF EngineReturns, FailTo, Cleanup
  <2> QED
   BY <1>17, <2>1, <2>2 DEF EngineReturns
<1> QED
  BY <1>1, <1>2, <1>3, <1>4, <1>5, <1>6, <1>7, <1>8, <1>9, <1>10, <1>11, <1>12,
  <1>13, <1>14, <1>15, <1>16, <1>17
     DEF Next, EnsureDriver

\* Each way to "return" that needs neither a failure nor a cancellation.
LEMMA ComesUpStep ==
  ASSUME TypeOK, ConfigInv, UnpackInv, BinaryInv, OwnInv, ComesUpAgain, Next
  PROVE  ComesUpAgain'
<1> USE DEF fixed, hostVars, runVars, history, bounds
<1> USE DEF ConfigInv, UnpackInv, BinaryInv, OwnInv, ComesUpAgain, Need, Dirs,
      CommandOf, EnsureRunning, IfAdmin
<1>a. fails \in Nat /\ crashes \in Nat /\ dir \in Dirs /\ zip \in {"none", "whole", "bad"}
  BY DEF TypeOK, StateOK, CountsOK, BooleansOK
<1>1. CASE Start  BY <1>1, <1>a DEF Start
<1>2. CASE Crash  BY <1>2, <1>a DEF Crash
<1>3. CASE Cancel  BY <1>3, <1>a DEF Cancel
<1>4. CASE Return  BY <1>4, <1>a DEF Return, Goto
<1>5. CASE WriteConfig  BY <1>5, <1>a DEF WriteConfig
<1>6. CASE \E f \in Need : LoseFile(f)  BY <1>6, <1>a DEF LoseFile
<1>7. CASE ReadConfig  BY <1>7, <1>a DEF ReadConfig, Goto
<1>8. CASE NoConfig  BY <1>8, <1>a DEF NoConfig, Goto
<1>9. CASE CreateConfig  BY <1>9, <1>a DEF CreateConfig, Goto
<1>10. CASE WriteTemplate  BY <1>10, <1>a DEF WriteTemplate, Goto
<1>11. CASE ConfigFails  BY <1>11, <1>a DEF ConfigFails, FailTo
<1>12. CASE CheckFiles  BY <1>12, <1>a DEF CheckFiles, Goto
<1>13. CASE CreateTemp  BY <1>13, <1>a DEF CreateTemp, Goto
<1>14. CASE Get  BY <1>14, <1>a DEF Get, Goto
<1>15. CASE Verify  BY <1>15, <1>a DEF Verify, Goto
<1>16. CASE \E f \in Need : Unpack(f)  BY <1>16, <1>a DEF Unpack, Goto
<1>17. CASE \E f \in Need : Rename(f)  BY <1>17, <1>a DEF Rename, Goto, Extracted
<1>18. CASE DownloadFails  BY <1>18, <1>a DEF DownloadFails, FailTo
<1>19. CASE FallBack  BY <1>19, <1>a DEF FallBack, FailTo
<1>20. CASE Query
  BY <1>20, <1>a DEF Query, Goto, IfAdmin, HasWinDivertFiles, SysFound
<1>21. CASE QueryBinPath
  BY <1>21, <1>a DEF QueryBinPath, Goto, EnsureRunning, IfAdmin
<1>22. CASE QueryBinPathFails
  BY <1>22, <1>a DEF QueryBinPathFails, FailTo, Goto, EnsureRunning
<1>23. CASE Sc  BY <1>23, ScDoes, <1>a
<1>24. CASE ScCanceled  BY <1>24, <1>a DEF ScCanceled, Goto, ScCommands
<1>25. CASE ScKilled  BY <1>25, ScKilledDoes, <1>a
<1>26. CASE ScFails  BY <1>26, <1>a DEF ScFails, FailTo, Goto, ScCommands
<1>27. CASE Open  BY <1>27, <1>a DEF Open
<1>28. CASE OpenFails  BY <1>28, <1>a DEF OpenFails, Cleanup
<1>29. CASE EngineReturns  BY <1>29, <1>a DEF EngineReturns, FailTo, Goto, Cleanup
<1> QED
  BY <1>1, <1>2, <1>3, <1>4, <1>5, <1>6, <1>7, <1>8, <1>9, <1>10, <1>11, <1>12,
  <1>13, <1>14, <1>15, <1>16, <1>17, <1>18, <1>19, <1>20, <1>21, <1>22, <1>23, <1>24,
  <1>25, <1>26, <1>27, <1>28, <1>29
     DEF Next, Configure, Download, EnsureDriver

-----------------------------------------------------------------------------
\* At first the host is as it was found, and there is no run.
LEMMA InitIInv == Init => IInv
<1> SUFFICES ASSUME Init PROVE IInv
  OBVIOUS
<1>1. StateOK
  <2>1. files \in [Dirs -> [Need -> {"none", "whole"}]]
    BY DEF Init, Dirs, Need, NoFiles
  <2> QED
    BY <2>1 DEF Init, StateOK, Steps, Dirs
<1>2. BooleansOK /\ CountsOK
  BY DEF Init, BooleansOK, CountsOK
<1>3. ConfigInv /\ UnpackInv /\ BinaryInv /\ ServiceInv
  BY DEF Init, ConfigInv, UnpackInv, BinaryInv, ServiceInv, Need
<1>4. OwnInv
  BY DEF Init, OwnInv
<1>5. DriverUndone /\ ComesUpAgain
  BY DEF Init, DriverUndone, ComesUpAgain
<1>6. DriverStaysUp
  BY DEF Init, DriverStaysUp
<1> QED
  BY <1>1, <1>2, <1>3, <1>4, <1>5, <1>6 DEF IInv, TypeOK

\* Failures, kills and runs are counted.
LEMMA CountStep ==
  ASSUME TypeOK, Next
  PROVE  CountsOK'
<1> USE DEF fixed, bounds
<1>1. CASE Start \/ Crash
  BY <1>1 DEF Start, Crash, TypeOK, CountsOK
<1>2. ASSUME UNCHANGED bounds \/ (fails' = fails + 1 /\ crashes' = crashes /\ runs' = runs)
      PROVE  CountsOK'
  BY <1>2 DEF TypeOK, CountsOK
<1>3. CASE Cancel \/ Return \/ WriteConfig \/ \E f \in Need : LoseFile(f)
  BY <1>2, <1>3 DEF Cancel, Return, WriteConfig, LoseFile
<1>4. CASE ReadConfig \/ NoConfig \/ CreateConfig \/ WriteTemplate
  BY <1>2, <1>4 DEF ReadConfig, NoConfig, CreateConfig, WriteTemplate, Goto
<1>5. CASE CheckFiles \/ CreateTemp \/ Get \/ Verify \/ \E f \in Need : Unpack(f) \/ Rename(f)
  BY <1>2, <1>5 DEF CheckFiles, CreateTemp, Get, Verify, Unpack, Rename, Goto
<1>6. CASE ConfigFails \/ DownloadFails \/ FallBack
  BY <1>2, <1>6 DEF ConfigFails, DownloadFails, FallBack, FailTo
<1>7. CASE Query \/ QueryBinPath \/ Sc \/ ScCanceled \/ ScKilled
  BY <1>2, <1>7 DEF Query, QueryBinPath, Sc, ScCanceled, ScKilled, Goto
<1>8. CASE QueryBinPathFails \/ ScFails
  BY <1>2, <1>8 DEF QueryBinPathFails, ScFails, Goto, FailTo
<1>9. CASE Open \/ OpenFails \/ EngineReturns
  BY <1>2, <1>9 DEF Open, OpenFails, EngineReturns, Goto, FailTo
<1> QED
  BY <1>1, <1>3, <1>4, <1>5, <1>6, <1>7, <1>8, <1>9
     DEF Next, Configure, Download, EnsureDriver

\* Every step, or none, keeps the invariant.
LEMMA NextIInv == IInv /\ [Next]_vars => IInv'
<1> SUFFICES ASSUME IInv, [Next]_vars PROVE IInv'
  OBVIOUS
<1> USE DEF IInv
<1>1. CASE Next
  <2>1. TypeOK'
    BY <1>1, StateStep, BooleanStep, CountStep DEF TypeOK
  <2>2. ConfigInv' /\ UnpackInv' /\ BinaryInv' /\ ServiceInv' /\ OwnInv'
    BY <1>1, ConfigStep, UnpackStep, BinaryStep, ServiceStep, OwnStep
  <2>3. DriverUndone' /\ DriverStaysUp' /\ ComesUpAgain'
    BY <1>1, UndoneStep, StaysUpStep, ComesUpStep
  <2> QED
    BY <2>1, <2>2, <2>3
<1>2. CASE UNCHANGED vars
  <2> USE <1>2 DEF vars, fixed, hostVars, runVars, history, bounds
  <2>1. TypeOK'
    BY DEF TypeOK, StateOK, BooleansOK, CountsOK
  <2>2. ConfigInv' /\ UnpackInv'
    BY DEF ConfigInv, UnpackInv
  <2>3. BinaryInv' /\ ServiceInv'
    BY DEF BinaryInv, ServiceInv, HasWinDivertFiles, SysFound, BinFound
  <2>4. OwnInv'
    BY DEF OwnInv, AutoUninstall, AutoStop
  <2>5. DriverUndone' /\ DriverStaysUp' /\ ComesUpAgain'
    BY DEF DriverUndone, DriverStaysUp, ComesUpAgain, AutoUninstall, AutoStop
  <2> QED
    BY <2>1, <2>2, <2>3, <2>4, <2>5
<1> QED
  BY <1>1, <1>2

\* IInv is an invariant of the program on its host.
THEOREM Invariance == Spec => []IInv
<1>1. Init => IInv
  BY InitIInv
<1>2. IInv /\ [Next]_vars => IInv'
  BY NextIInv
<1> QED
  BY <1>1, <1>2, PTL DEF Spec

\* Whatever the network delivers and wherever runs of DownloadWinDivertX64 are killed,
\* files that HasWinDivertFiles accepts are whole ones from the pinned zip.
THEOREM FilesAlwaysWhole == Spec => []FilesWhole
<1>1. IInv => FilesWhole
  BY DEF IInv, TypeOK, StateOK, FilesWhole, HasWinDivertFiles
<1> QED
  BY Invariance, <1>1, PTL

\* The clean-up of Ensure deletes what a failed console run created, and stops what it
\* started.
THEOREM DriverAlwaysUndone == Spec => []DriverUndone
<1>1. IInv => DriverUndone
  BY DEF IInv
<1> QED
  BY Invariance, <1>1, PTL

\* A driver that was there before, or that a service run brought up, stays up.
THEOREM DriverNeverTaken == Spec => []DriverStaysUp
<1>1. IInv => DriverStaysUp
  BY DEF IInv
<1> QED
  BY Invariance, <1>1, PTL

\* What killed runs left behind keeps no later run from reaching the engine, but for
\* an empty config.json.
THEOREM AlwaysComesUpAgain == Spec => []ComesUpAgain
<1>1. IInv => ComesUpAgain
  BY DEF IInv
<1> QED
  BY Invariance, <1>1, PTL
=============================================================================
