-------------------------- MODULE MCBlockDecision --------------------------
(* TLC instance of BlockDecision: two workers, two reloaders, the address 1 *)
(* that lists gain and lose, and the address 0 that no list holds (it is    *)
(* also the destination of packets whose header does not parse).            *)
EXTENDS BlockDecision, TLC

CONSTANTS w1, w2, r1, r2

MCIPs == {0, 1}
MCThreads == {w1, w2}
MCReloaders == {r1, r2}
MCDatabases == {{}, {1}}
MCAllowSets == {{}, {1}}
Symmetry == Permutations(MCThreads) \cup Permutations(MCReloaders)

=============================================================================
