-------------------------------- MODULE FailOpen --------------------------------
(***************************************************************************)
(* What the engine promises of the packets it takes from the kernel: each  *)
(* one is settled (given back by Send or Drop) and stays settled, and when *)
(* Run returns at most one captured packet is still unsettled - none was   *)
(* ever promised to be settled if an adapter call failed or a shutdown     *)
(* guardrail was hit ("excused").                                          *)
(***************************************************************************)
CONSTANT Packets

VARIABLES status,     \* "outside", "inside" or "settled", per packet
          stopped,    \* Run has returned
          excused     \* an I/O failure or a guardrail has intervened

ledger == <<status, stopped, excused>>

Inside == {p \in Packets : status[p] = "inside"}

LedgerInit ==
  /\ status = [p \in Packets |-> "outside"]
  /\ stopped = FALSE
  /\ excused = FALSE

\* The adapter hands packet p to the program.
Capture(p) ==
  /\ ~stopped
  /\ status[p] = "outside"
  /\ status' = [status EXCEPT ![p] = "inside"]
  /\ UNCHANGED <<stopped, excused>>

\* Any number of packets are given back; the call may also have failed.
Settle(S) ==
  /\ ~stopped
  /\ S \subseteq Inside
  /\ status' = [p \in Packets |-> IF p \in S THEN "settled" ELSE status[p]]
  /\ excused' \in BOOLEAN /\ (excused => excused')
  /\ UNCHANGED stopped

\* Run returns.
Stop ==
  /\ ~stopped
  /\ excused \/ \A p, q \in Inside : p = q
  /\ stopped' = TRUE
  /\ UNCHANGED <<status, excused>>

LedgerNext ==
  \/ \E p \in Packets : Capture(p)
  \/ \E S \in SUBSET Packets : Settle(S)
  \/ Stop

LedgerSpec == LedgerInit /\ [][LedgerNext]_ledger
=============================================================================
