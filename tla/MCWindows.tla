------------------------------ MODULE MCWindows -------------------------------
(***************************************************************************)
(* Small instances of the two Windows parts that share no state: the       *)
(* WinDivert adapter, and the service with its tray.  A behaviour is one   *)
(* of a single part.  The other rests in its initial state, except that    *)
(* the tray polls the service, which stays down.                           *)
(*                                                                         *)
(* The service has two queue parameters and three contents of config.json: *)
(* two valid ones that differ in everything, one of them with a parameter  *)
(* at 0, and an invalid one.                                               *)
(***************************************************************************)
EXTENDS WinDivertAdapter, Tray

CONSTANTS p1, p2, p3

MCParams == {"len", "time"}

File(ok, chunk, workers, len, time) ==
  [ok |-> ok, chunk |-> chunk, workers |-> workers,
   queue |-> [p \in MCParams |-> IF p = "len" THEN len ELSE time]]

First == File(TRUE, 1, 1, 1, 1)

MCConfigs == {First, File(TRUE, 2, 2, 0, 2), File(FALSE, 1, 1, 1, 1)}

VARIABLE part

windowsVars == <<part, winVars, vars>>

WindowsInit ==
  /\ part \in {"windivert", "service"}
  /\ WinInit /\ Init

WindowsNext ==
  /\ UNCHANGED part
  /\ \/ part = "windivert" /\ WinNext /\ UNCHANGED vars
     \/ part = "windivert" /\ Poll /\ UNCHANGED winVars
     \/ part = "service" /\ Next /\ UNCHANGED winVars

\* Of the service, see Tray.tla; at rest nothing but the poll is asked for.  Of the
\* adapter: the goroutine goes on unless it waits for the driver, Recv is called
\* again and again, and so is Flush's loop.  No packet need come, no error happen,
\* and no deadline pass.
WindowsSpec ==
  /\ WindowsInit /\ [][WindowsNext]_windowsVars
  /\ Fairness
  /\ WF_winVars(part = "windivert" /\ Loop)
  /\ WF_winVars(part = "windivert" /\ (Recv \/ RecvError))
  /\ WF_winVars(part = "windivert" /\ Flush)
=============================================================================
