---------------------------------- MODULE Tray ----------------------------------
(***************************************************************************)
(* cmd/gov-pass-tray/main_windows.go, together with the service it         *)
(* controls: the goroutine that polls the state of the service and paints  *)
(* the menu, and the elevated copies of the program (helpers) that the     *)
(* menu starts, one for every click, each with one action to do.           *)
(***************************************************************************)
EXTENDS WindowsService

CONSTANTS
  Helpers,       \* elevated processes
  MaxClicks,     \* bound: clicks
  MaxPollErrors  \* bound: failed queries of the state

ASSUME TrayAssumption == {MaxClicks, MaxPollErrors} \subseteq Nat

VARIABLES
  status,        \* what the menu shows: "checking", "unknown" or a state
  enabled,       \* the menu items that are enabled
  last, lastErr, \* lastState ("none" if not haveLast) and lastErr of pollStatus
  helper,        \* per helper: "idle", or the action it is about to do
  clicks, pollErrors

trayVars == <<status, enabled, last, lastErr, helper, clicks, pollErrors>>
vars == <<serviceVars, trayVars>>

\* onReady
Init ==
  /\ ServiceInit
  /\ status = "checking" /\ enabled = {"toggle", "restart"}
  /\ last = "none" /\ lastErr = FALSE
  /\ helper = [h \in Helpers |-> "idle"]
  /\ clicks = 0 /\ pollErrors = 0

Pending == {"startPending", "stopPending"}

\* A mutation: the toggle is not enabled again.
ItemsFor_toggleStays(s) ==
  IF s = "running" THEN (enabled \cap {"toggle"}) \cup {"reload", "restart"}
  ELSE IF s = "stopped" THEN (enabled \cap {"toggle"}) \cup {"restart"}
  ELSE {}

\* The items that are enabled when state s is painted.
ItemsFor(s) ==
  CASE s = "running" -> {"toggle", "reload", "restart"}
    [] s = "stopped" -> {"toggle", "restart"}
    [] s \in Pending -> {}

\* pollStatus, after a query that succeeded: paint only what has changed.
Poll ==
  /\ IF last # scm
       THEN last' = scm /\ status' = scm /\ enabled' = ItemsFor(scm)
       ELSE UNCHANGED <<last, status, enabled>>
  /\ lastErr' = FALSE
  /\ UNCHANGED <<serviceVars, helper, clicks, pollErrors>>

\* After one that failed: paint that once, and keep lastState.
PollFails ==
  /\ pollErrors < MaxPollErrors
  /\ pollErrors' = pollErrors + 1
  /\ IF lastErr THEN UNCHANGED <<status, enabled>>
     ELSE status' = "unknown" /\ enabled' = enabled \ {"reload", "restart"}
  /\ lastErr' = TRUE
  /\ UNCHANGED <<serviceVars, last, helper, clicks>>

\* A click starts a helper with its action.
Click(h, action) ==
  /\ helper[h] = "idle" /\ clicks < MaxClicks
  /\ clicks' = clicks + 1
  /\ helper' = [helper EXCEPT ![h] = action]
  /\ UNCHANGED <<serviceVars, status, enabled, last, lastErr, pollErrors>>

\* elevateToggle, from the menu or from the dashboard, which offers it in any state:
\* the state is queried now, the action follows later.
ClickToggle(h) == Click(h, IF scm = "running" THEN "stop" ELSE "start")

ClickOther(h) == \E a \in enabled \ {"toggle"} : Click(h, a)

\* The query fails: start.
ClickToggleBlind(h) ==
  /\ pollErrors < MaxPollErrors
  /\ helper[h] = "idle" /\ clicks < MaxClicks
  /\ clicks' = clicks + 1 /\ pollErrors' = pollErrors + 1
  /\ helper' = [helper EXCEPT ![h] = "start"]
  /\ UNCHANGED <<serviceVars, status, enabled, last, lastErr>>

\* controlService.  The control code is sent, or refused; the wait for the state
\* that follows changes nothing, except in a restart.
HelperNext(h, next) ==
  /\ helper' = [helper EXCEPT ![h] = next]
  /\ UNCHANGED <<status, enabled, last, lastErr, clicks, pollErrors>>

HelperStarts(h) ==
  /\ helper[h] \in {"start", "started again"}
  /\ IF scm = "stopped" THEN StartService ELSE UNCHANGED serviceVars
  /\ HelperNext(h, "idle")

HelperControls(h) ==
  /\ helper[h] \in {"stop", "reload"}
  /\ IF scm = "running"
       THEN ControlService(IF helper[h] = "stop" THEN "stop" ELSE "paramChange")
       ELSE UNCHANGED serviceVars
  /\ HelperNext(h, "idle")

\* A restart stops first, if it can, and waits for at most 30 seconds: it goes on
\* when the service has stopped, and also when it has not.
HelperRestarts(h) ==
  /\ helper[h] = "restart"
  /\ IF scm = "running" THEN ControlService("stop") ELSE UNCHANGED serviceVars
  /\ HelperNext(h, "wait")

HelperWaits(h) ==
  /\ helper[h] = "wait"
  /\ HelperNext(h, "started again")
  /\ UNCHANGED serviceVars

Helper(h) == HelperStarts(h) \/ HelperControls(h) \/ HelperRestarts(h) \/ HelperWaits(h)

TrayNext ==
  \/ Poll \/ PollFails
  \/ \E h \in Helpers : ClickToggle(h) \/ ClickOther(h) \/ ClickToggleBlind(h) \/ Helper(h)

Next == TrayNext \/ (ServiceNext /\ UNCHANGED trayVars)

Spec == Init /\ [][Next]_vars

\* The ticker of pollStatus keeps ticking.  Clicks are never assumed.
Fairness ==
  /\ ServiceFairness
  /\ WF_vars(Poll)
  /\ \A h \in Helpers : WF_vars(Helper(h))

-----------------------------------------------------------------------------
\* The menu follows the service: again and again it shows the state the service is
\* in (or "unknown", see below), and a toggle that was disabled in a pending state
\* comes back - also if a query fails in between, which forgets neither.  (After
\* such a failure the menu may show "unknown" for as long as the service keeps its
\* state.)
TrayFollows ==
  /\ []<>(status \in {scm, "unknown"})
  /\ "toggle" \notin enabled ~> "toggle" \in enabled
=============================================================================
