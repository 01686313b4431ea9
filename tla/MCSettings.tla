------------------------------ MODULE MCSettings ------------------------------
(* TLC instance of Settings.                                                 *)
EXTENDS Settings

CONSTANTS A, B, C, dns, hash

MCNames == {A, B, C}
MCSources == <<[name |-> A, enabled |-> TRUE], [name |-> B, enabled |-> FALSE]>>
MCLanguages == {"pl", "en"}

=============================================================================
