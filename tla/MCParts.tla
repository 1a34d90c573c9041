------------------------------- MODULE MCParts --------------------------------
(***************************************************************************)
(* Small instances of five parts of the program that share no state.  A    *)
(* behaviour is one of a single part, and the others rest in an initial    *)
(* state, so that the states of the parts add up and do not multiply.      *)
(***************************************************************************)
EXTENDS Reassembly, SplitPlan, NFQueueAdapter, LinuxSetup, DivertAdapter

CONSTANTS p1, p2, p3, bare

VARIABLE part

partsVars == <<part, bufVars, splitVars, vars, setupVars, divertVars>>

\* One initial state of SplitPlan is enough for the others.
SplitRests == kind = "chunkPayload" /\ total = 0 /\ firstLen = 0 /\ maxPayload = 0

\* One of LinuxSetup, likewise.
SetupRests == backend = "nft" /\ \A f \in DOMAIN opts : ~opts[f]

PartsInit ==
  /\ part \in {"reassembly", "split", "nfqueue", "setup", "divert"}
  /\ BufInit /\ Init /\ DivertInit
  /\ SplitInit /\ (part # "split" => SplitRests)
  /\ SetupInit /\ (part # "setup" => SetupRests)

PartsNext ==
  /\ UNCHANGED part
  /\ \/ part = "reassembly" /\ BufNext
        /\ UNCHANGED <<splitVars, vars, setupVars, divertVars>>
     \/ part = "split" /\ SplitNext
        /\ UNCHANGED <<bufVars, vars, setupVars, divertVars>>
     \/ part = "nfqueue" /\ Next
        /\ UNCHANGED <<bufVars, splitVars, setupVars, divertVars>>
     \/ part = "setup" /\ SetupNext
        /\ UNCHANGED <<bufVars, splitVars, vars, divertVars>>
     \/ part = "divert" /\ DivertNext
        /\ UNCHANGED <<bufVars, splitVars, vars, setupVars>>

\* A part that rests has no step that its fairness asks for.
PartsSpec == PartsInit /\ [][PartsNext]_partsVars /\ Fairness /\ DivertFairness
=============================================================================
