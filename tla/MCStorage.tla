------------------------------- MODULE MCStorage -------------------------------
(* TLC instance of Storage: two lists, restarts in between.                  *)
EXTENDS Storage

CONSTANTS L1, L2

MCLists == <<L1, L2>>

=============================================================================
