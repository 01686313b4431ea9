------------------------------- MODULE MCLogger -------------------------------
(* TLC instance of Logger: a channel of two entries, a ring of two.          *)
EXTENDS Logger

CONSTANTS e1, e2, e3, s1

MCThree == {e1, e2, e3}
MCSubs == {s1}

=============================================================================
