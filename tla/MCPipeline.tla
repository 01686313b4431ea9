----------------------------- MODULE MCPipeline -----------------------------
(* TLC instance of Pipeline: channels of one slot, so that both fill up, two *)
(* workers, three packets of which one is an impostor, and two calls of      *)
(* Close at any moment, against Start, against each other and against a      *)
(* worker that blocks on the full sendCh.                                    *)
EXTENDS Pipeline

CONSTANTS p1, p2, p3, w1, w2, c1, c2

MCPackets == {p1, p2, p3}
MCImpostors == {p3}
MCWorkers == {w1, w2}
MCClosers == {c1, c2}

=============================================================================
