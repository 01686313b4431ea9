-------------------------------- MODULE MCLive --------------------------------
(* TLC instance of Live: two blocked addresses, a log of two lines.          *)
EXTENDS Live, TLC

CONSTANTS ip1, ip2

MCIPs == {ip1, ip2}
MCSymmetry == Permutations(MCIPs)

\* Protocols the filter knows by name, and one it does not.
MCKnown == {"TCP"}
MCOther == {"TCP", "?"}

=============================================================================
