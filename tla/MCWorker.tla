-------------------------------- MODULE MCWorker --------------------------------
(***************************************************************************)
(* A small instance of the worker, with two kinds of scenarios: every      *)
(* script of three packets out of seven for one of three flows,            *)
(* undisturbed; and every script of three packets out of four, the first   *)
(* with data, for one of two flows, with one failing adapter call, one     *)
(* reload and any number of ACKs.  A ClientHello record is 9 bytes, the    *)
(* window injectWindow is asked for.                                       *)
(***************************************************************************)
EXTENDS Worker, TLC

Pkt(seq, len, flag) == [seq |-> seq, len |-> len, flag |-> flag]

\* In order, repeated, overlapping, beyond the buffer, mid-stream, and packets that
\* end a flow.
ManyPackets == {Pkt(0, 6, "none"), Pkt(0, 11, "none"), Pkt(6, 5, "none"),
               Pkt(4, 4, "none"), Pkt(13, 3, "none"), Pkt(6, 3, "FIN"), Pkt(0, 3, "SYN")}

\* In order, beyond a gap, and a FIN without data.
FewPackets == {Pkt(0, 6, "none"), Pkt(6, 5, "none"), Pkt(12, 2, "none"), Pkt(0, 0, "FIN")}

Numbered(s) == [i \in DOMAIN s |-> s[i] @@ ("id" :> i)]

Base == [mode |-> "tls-hello", splitChunk |-> 2, maxBuffer |-> 15, maxHeldPackets |-> 4,
         maxSegment |-> 4, maxFlows |-> 2, maxReassembly |-> 18, maxHeldBytes |-> 19]

Immediate == [Base EXCEPT !.mode = "immediate"]

Tight == [Base EXCEPT !.maxBuffer = 8, !.maxFlows = 1, !.maxHeldBytes = 8,
                      !.maxReassembly = 0]

\* The third packet of a flow reaches the limit of held packets.
FewHeld == [Base EXCEPT !.maxHeldPackets = 3]

MCConfigs == {Base, Immediate, Tight, FewHeld}

MCKeys == {"a", "b", "c"}

\* The scripts of flow "a" with its packets out of P; "b" and "c" send theirs once.
ScriptsOf(P, b, c) ==
  {[k \in MCKeys |-> Numbered(CASE k = "a" -> s [] k = "b" -> b [] k = "c" -> c)] :
     s \in [1 .. 3 -> P]}

Undisturbed ==
  {[script |-> s, config |-> Base, acks |-> FALSE, fails |-> 0, reloads |-> 0] :
     s \in ScriptsOf(ManyPackets, <<Pkt(0, 6, "none")>>, <<Pkt(0, 2, "none")>>)}

Disturbed ==
  {[script |-> s, config |-> FewHeld, acks |-> TRUE, fails |-> 1, reloads |-> 1] :
     s \in {t \in ScriptsOf(FewPackets, <<Pkt(0, 6, "none")>>, <<>>) : t["a"][1].len > 0}}

MCScenarios == Undisturbed \cup Disturbed

MCHello == [k \in MCKeys |-> [contentType |-> 22, version |-> 769, handshake |-> 1,
                              recordLen |-> 4]]
=============================================================================
