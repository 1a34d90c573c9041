------------------------------- MODULE LinuxSetup -------------------------------
(***************************************************************************)
(* cmd/splitter/main_linux.go: what run changes on the host around the     *)
(* engine - the queue rules and the offload settings - and how it undoes   *)
(* it, over any number of runs of the program on the same host.            *)
(*                                                                         *)
(* Every change is an external command (nft, iptables, ethtool).  Each one *)
(* may fail, and the process may be killed between any two of them; what   *)
(* the kernel has been told stays.  A run is a list of commands to do      *)
(* (todo); the deferred functions are the list that undoes them.  Flags    *)
(* are those of a service unit: the same in every run.                     *)
(***************************************************************************)
EXTENDS Integers, Sequences, SequencesExt

CONSTANTS MaxFails,      \* bound: commands that fail
          MaxCrashes,    \* bound: runs that are killed
          MaxRuns        \* bound: runs of the program

ASSUME SetupAssumption == {MaxFails, MaxCrashes, MaxRuns} \subseteq Nat

VARIABLES
  opts, backend,      \* the flags, and the tool lookPath finds
  chain, chainState,  \* the rules in our chain; "none", "table" (nft) or "ready"
  jumps,              \* iptables: jumps from OUTPUT to our chain
  offload,            \* GRO/GSO/TSO of the interface: "on" at first
  pc,                 \* "down", "setup", "engine" or "undo"
  todo,               \* the commands still to come
  cleanup, saved,     \* rulesCleanup # nil; the offload state read, or "none"
  exit,               \* history: how the last run ended
  leftover,           \* history: packets were diverted when the run began
  badUndo,            \* history: a command that undoes failed in this run
  lostOffload,        \* history: the original offload state was not kept
  fails, crashes, runs

hostVars == <<chain, chainState, jumps, offload>>
runVars  == <<pc, todo, cleanup, saved>>
history  == <<exit, leftover, badUndo, lostOffload>>
bounds   == <<fails, crashes, runs>>
setupVars == <<opts, backend, hostVars, runVars, history, bounds>>

\* The flags that pass the tests at the start of run.
Options == {o \in [autoRules : BOOLEAN, autoOffload : BOOLEAN, restore : BOOLEAN,
                   mark : BOOLEAN, lo : BOOLEAN] : o.autoRules => o.mark}

If(cond, s) == IF cond THEN s ELSE <<>>

\* A mutation: the queue rule is added before the rules that bypass it.
RuleList_queueFirst ==
  <<"queue">> \o If(opts.mark, <<"mark">>) \o If(opts.lo, <<"lo">>)

\* The rules of the chain, in the order in which they are appended.
RuleList == If(opts.mark, <<"mark">>) \o If(opts.lo, <<"lo">>) \o <<"queue">>

\* A mutation: the rules of an earlier run are not deleted.
InstallPlan_keepsOld ==
  (IF backend = "nft" THEN <<"addTable", "addChain">> ELSE <<"newChain", "jump">>) \o RuleList

\* installRules
InstallPlan ==
  (IF backend = "nft" THEN <<"addTable", "addChain", "clear">>
                      ELSE <<"newChain", "clear", "jump">>) \o RuleList

\* A mutation: the state is read when the offloads are off already.
OffloadPlan_readsLate == <<"iface", "disable">> \o If(opts.restore, <<"read">>)

\* The part of run under autoOffload.
OffloadPlan == <<"iface">> \o If(opts.restore, <<"read">>) \o <<"disable">>

\* run, up to engine.Run.
SetupPlan ==
  If(opts.autoRules \/ opts.autoOffload, <<"tools">>)
    \o If(opts.autoRules, InstallPlan)
    \o If(opts.autoOffload, OffloadPlan)
    \o <<"open">>

\* rulesCleanup
CleanupPlan ==
  If(cleanup, IF backend = "nft" THEN <<"clear">> ELSE <<"unjump", "clear", "dropChain">>)

\* The deferred functions, last one first.
Deferred == If(saved # "none", <<"restore">>) \o CleanupPlan

\* The queue rule is in force.
Diverts == Contains(chain, "queue") /\ (backend = "iptables" => jumps > 0)

SetupInit ==
  /\ opts \in Options /\ backend \in {"nft", "iptables"}
  /\ chain = <<>> /\ chainState = "none" /\ jumps = 0 /\ offload = "on"
  /\ pc = "down" /\ todo = <<>> /\ cleanup = FALSE /\ saved = "none"
  /\ exit = "none" /\ leftover = FALSE /\ badUndo = FALSE /\ lostOffload = FALSE
  /\ fails = 0 /\ crashes = 0 /\ runs = 0

-----------------------------------------------------------------------------
\* The life of a run.

Start ==
  /\ pc = "down" /\ runs < MaxRuns
  /\ runs' = runs + 1
  /\ pc' = "setup" /\ todo' = SetupPlan
  /\ cleanup' = FALSE /\ saved' = "none"
  /\ exit' = "none" /\ badUndo' = FALSE /\ leftover' = Diverts
  /\ UNCHANGED <<opts, backend, hostVars, lostOffload, fails, crashes>>

\* The process is killed; nothing deferred runs.
Crash ==
  /\ pc # "down" /\ crashes < MaxCrashes
  /\ crashes' = crashes + 1
  /\ pc' = "down" /\ todo' = <<>>
  /\ exit' = "crash"
  /\ lostOffload' = (lostOffload \/ offload = "off")
  /\ UNCHANGED <<opts, backend, hostVars, cleanup, saved, leftover, badUndo, fails, runs>>

\* engine.Run is called, and returns, with or without an error.
RunEngine ==
  /\ pc = "setup" /\ todo = <<>>
  /\ pc' = "engine"
  /\ UNCHANGED <<opts, backend, hostVars, todo, cleanup, saved, history, bounds>>

EngineReturns ==
  /\ pc = "engine"
  /\ pc' = "undo" /\ todo' = Deferred
  /\ UNCHANGED <<opts, backend, hostVars, cleanup, saved, history, bounds>>

\* The process ends by itself.
Exit ==
  /\ pc = "undo" /\ todo = <<>>
  /\ pc' = "down" /\ exit' = "returned"
  /\ UNCHANGED <<opts, backend, hostVars, todo, cleanup, saved, leftover, badUndo,
                 lostOffload, bounds>>

-----------------------------------------------------------------------------
\* Commands.

AtCommand(phases, cmds) == pc \in phases /\ todo # <<>> /\ Head(todo) \in cmds

\* The command has succeeded: go on with the next one.
Ok ==
  /\ todo' = Tail(todo)
  /\ UNCHANGED <<opts, backend, pc, exit, leftover, bounds>>

\* ensureLinuxExternalTools, detectEgressInterface and NewNFQueue: nothing that
\* has to be undone.
Look ==
  /\ AtCommand({"setup"}, {"tools", "iface", "open"})
  /\ Ok
  /\ UNCHANGED <<hostVars, cleanup, saved, badUndo, lostOffload>>

\* The nft table and chain, or the iptables chain, unless they exist.
AddChain ==
  /\ AtCommand({"setup"}, {"addTable", "addChain", "newChain"})
  /\ chainState' = IF chainState = "none" /\ Head(todo) = "addTable" THEN "table"
                   ELSE IF Head(todo) = "addTable" THEN chainState ELSE "ready"
  /\ Ok
  /\ UNCHANGED <<chain, jumps, offload, cleanup, saved, badUndo, lostOffload>>

\* deleteTaggedNftRules deletes the next rule of ours.
DeleteRule ==
  /\ AtCommand({"setup", "undo"}, {"clear"}) /\ backend = "nft" /\ chain # <<>>
  /\ chain' = Tail(chain)
  /\ UNCHANGED <<opts, backend, chainState, jumps, offload, runVars, history, bounds>>

\* It has deleted them all; or iptables -F.
ClearDone ==
  /\ AtCommand({"setup", "undo"}, {"clear"}) /\ (backend = "nft" => chain = <<>>)
  /\ chain' = <<>>
  /\ Ok
  /\ UNCHANGED <<chainState, jumps, offload, cleanup, saved, badUndo, lostOffload>>

\* ensureIptablesRule: -C says whether there is a jump.
AddJump ==
  /\ AtCommand({"setup"}, {"jump"})
  /\ jumps' = IF jumps = 0 THEN 1 ELSE jumps
  /\ Ok
  /\ UNCHANGED <<chain, chainState, offload, cleanup, saved, badUndo, lostOffload>>

\* -C fails for another reason: a second jump is added.
AddJumpAgain ==
  /\ AtCommand({"setup"}, {"jump"}) /\ jumps > 0 /\ fails < MaxFails
  /\ jumps' = jumps + 1
  /\ fails' = fails + 1
  /\ todo' = Tail(todo)
  /\ UNCHANGED <<opts, backend, chain, chainState, offload, pc, cleanup, saved, history,
                 crashes, runs>>

\* A rule is appended.  With the last one installRules returns the clean-up.
AddRule ==
  /\ AtCommand({"setup"}, {"mark", "lo", "queue"})
  /\ chain' = Append(chain, Head(todo))
  /\ cleanup' = (Head(todo) = Last(RuleList))
  /\ Ok
  /\ UNCHANGED <<chainState, jumps, offload, saved, badUndo, lostOffload>>

\* readOffloadState; the deferred function that restores it is registered.
ReadOffload ==
  /\ AtCommand({"setup"}, {"read"})
  /\ saved' = offload
  /\ Ok
  /\ UNCHANGED <<hostVars, cleanup, badUndo, lostOffload>>

\* It fails: restore is disabled, and run goes on.
ReadOffloadFails ==
  /\ AtCommand({"setup"}, {"read"}) /\ fails < MaxFails
  /\ fails' = fails + 1
  /\ lostOffload' = TRUE
  /\ todo' = Tail(todo)
  /\ UNCHANGED <<opts, backend, hostVars, pc, cleanup, saved, exit, leftover, badUndo,
                 crashes, runs>>

\* disableOffload, or applyOffloadState with what was read.
SetOffload ==
  /\ AtCommand({"setup", "undo"}, {"disable", "restore"})
  /\ offload' = IF Head(todo) = "disable" THEN "off" ELSE saved
  /\ Ok
  /\ UNCHANGED <<chain, chainState, jumps, cleanup, saved, badUndo, lostOffload>>

\* uninstallIptablesRules removes a jump, until there is none.
DeleteJump ==
  /\ AtCommand({"undo"}, {"unjump"}) /\ jumps > 0
  /\ jumps' = jumps - 1
  /\ UNCHANGED <<opts, backend, chain, chainState, offload, runVars, history, bounds>>

DeleteJumpDone ==
  /\ AtCommand({"undo"}, {"unjump"}) /\ jumps = 0
  /\ Ok
  /\ UNCHANGED <<hostVars, cleanup, saved, badUndo, lostOffload>>

\* iptables -X, which refuses a chain that is used or not empty.
DropChain ==
  /\ AtCommand({"undo"}, {"dropChain"})
  /\ chainState' = IF jumps = 0 /\ chain = <<>> THEN "none" ELSE chainState
  /\ Ok
  /\ UNCHANGED <<chain, jumps, offload, cleanup, saved, badUndo, lostOffload>>

\* What run still does when a command of the set-up has failed: for the interface
\* and the offloads it cleans the rules up itself, before the deferred functions.
AfterFailure == If(Head(todo) \in {"iface", "disable"}, CleanupPlan) \o Deferred

\* A command of the set-up fails: run returns.  ethtool may have changed a part of
\* the settings.
SetupFails ==
  /\ pc = "setup" /\ todo # <<>> /\ Head(todo) # "read" /\ fails < MaxFails
  /\ fails' = fails + 1
  /\ pc' = "undo" /\ todo' = AfterFailure
  /\ offload' \in IF Head(todo) = "disable" THEN {offload, "off"} ELSE {offload}
  /\ UNCHANGED <<opts, backend, chain, chainState, jumps, cleanup, saved, history, crashes, runs>>

\* A command that undoes fails: it is logged or ignored, and the next one follows.
UndoFails ==
  /\ pc = "undo" /\ todo # <<>> /\ fails < MaxFails
  /\ fails' = fails + 1
  /\ badUndo' = TRUE
  /\ lostOffload' = (lostOffload \/ Head(todo) = "restore")
  /\ todo' = Tail(todo)
  /\ UNCHANGED <<opts, backend, hostVars, pc, cleanup, saved, exit, leftover, crashes, runs>>

Command ==
  \/ Look \/ AddChain \/ DeleteRule \/ ClearDone \/ AddJump \/ AddJumpAgain \/ AddRule
  \/ ReadOffload \/ ReadOffloadFails \/ SetOffload
  \/ DeleteJump \/ DeleteJumpDone \/ DropChain
  \/ SetupFails \/ UndoFails

SetupNext == Start \/ Crash \/ RunEngine \/ EngineReturns \/ Exit \/ Command

SetupSpec == SetupInit /\ [][SetupNext]_setupVars

-----------------------------------------------------------------------------
\* While the engine runs with rules of its own, no packet reaches the queue rule
\* without having passed the mark rule (a reinjected packet would come back to the
\* queue without end), nor, if asked for, the loopback rule; also if earlier runs
\* were killed or could delete only some of their rules.
BypassBeforeQueue ==
  pc = "engine" /\ opts.autoRules =>
    /\ Diverts
    /\ \A i \in DOMAIN chain : chain[i] = "queue" =>
         /\ \E j \in 1 .. i - 1 : chain[j] = "mark"
         /\ opts.lo => \E j \in 1 .. i - 1 : chain[j] = "lo"

\* A run that ends by itself diverts no packet any more, on the error paths of the
\* set-up and after earlier crashes too, unless a command of the clean-up failed,
\* or it failed to install rules and found some in force.
RulesRemoved ==
  pc = "down" /\ exit = "returned" /\ ~badUndo => ~Diverts \/ (leftover /\ ~cleanup)

\* The offload settings are the original ones after a run that ends by itself,
\* unless they could not be read or set, or an earlier run was killed while they
\* were off: then the next run takes "off" for the original.
OffloadRestored ==
  pc = "down" /\ exit = "returned" /\ opts.restore => offload = "on" \/ lostOffload
=============================================================================
