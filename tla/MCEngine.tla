-------------------------------- MODULE MCEngine --------------------------------
\* A small instance of the engine: two workers, packets of every class.
EXTENDS Engine

CONSTANTS w1, w2, p1, p2, p3, ack, off

MCShard == [p \in Packets |-> IF p = p3 THEN w2 ELSE w1]
MCClass == [p \in Packets |-> IF p = ack THEN "ack"
                              ELSE IF p = off THEN "bypass" ELSE "queued"]
=============================================================================
