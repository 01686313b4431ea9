--------------------------- MODULE MCDecisionCache ---------------------------
(* TLC instance of DecisionCache: a ring of two slots shared by two threads, *)
(* with one address more than the ring holds besides the address 0.          *)
EXTENDS DecisionCache, TLC

CONSTANTS t1, t2

MCIPs == 0 .. 3
MCThreads == {t1, t2}
Symmetry == Permutations(MCThreads)

\* The header comment of cache.go calls the cache LRU, and
\* TestCache_LRUEviction expects the oldest entry to go: a Set deletes no
\* entry that was stored more recently than one it keeps (key 0 aside).
EvictsOldest ==
  [][\A ip, jp \in Keys \ {0} :
       ip \notin Keys' /\ jp \in Keys' => entries[ip].age >= entries[jp].age]_cacheVars

=============================================================================
