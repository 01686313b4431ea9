---------------------------- MODULE BlockDecision ----------------------------
(***************************************************************************)
(* filter/pipeline.go shouldBlock, run by several workers at once, against *)
(* the two callers that replace the database (the updater's onReload and   *)
(* SaveConfig's rebuildDB, app.go) and the refresh of the allowlist.       *)
(*                                                                         *)
(* The allowlist is looked at before the cache, the cache before the       *)
(* database.  The pieces are guarded separately (the allowlist by its      *)
(* RWMutex, the cache by its own, the database pointer is atomic), so a    *)
(* decision is a sequence of steps between which anything may happen.      *)
(* A reload is two steps, Clear and then Store.  A database is the set of  *)
(* addresses it contains; RangeDatabase justifies that view.               *)
(***************************************************************************)
EXTENDS DecisionCache

CONSTANTS
  Databases,  \* the databases that reloads may install
  AllowSets,  \* the sets of addresses an allowlist refresh may produce
  Reloaders   \* the goroutines that reload: the updater, a SaveConfig call

ASSUME BlockAssumption ==
  /\ Databases \subseteq SUBSET IPs
  /\ AllowSets \subseteq SUBSET IPs

VARIABLES
  db,        \* atomic.Pointer[core.IPDatabase], shared by App and Pipeline
  allow,     \* Allowlist.ranges
  reload,    \* reload[r]: {d} when r is about to Store d, else {}
  work,      \* work[w]: the decision worker w is making
  published  \* history: every database there has been

vars == <<cacheVars, db, allow, reload, work, published>>

PCs == {"idle", "picked", "lookup", "getting", "missed", "loaded", "setting", "verdict"}

\* via is how the verdict was reached.  listed is a history field: the
\* destination has been on the allowlist ever since the packet was taken.
Work == [pc : PCs, ip : IPs, blocked : BOOLEAN,
         via : {"allowlist", "cache", "database"}, listed : BOOLEAN]

IdleWork == [pc |-> "idle", ip |-> 0, blocked |-> FALSE, via |-> "database", listed |-> FALSE]

\* startup stores an empty database before protection can be started.
Init ==
  /\ CacheInit
  /\ db = {}
  /\ allow \in AllowSets
  /\ reload = [r \in Reloaders |-> {}]
  /\ work = [w \in Threads |-> IdleWork]
  /\ published = {{}}

-----------------------------------------------------------------------------
\* The steps of a worker.

GoTo(w, pc) == work' = [work EXCEPT ![w].pc = pc]

Decide(w, blocked, via) ==
  work' = [work EXCEPT ![w].pc = "verdict", ![w].blocked = blocked, ![w].via = via]

UnchangedWorld == UNCHANGED <<db, allow, reload, published>>

\* The worker takes a packet for ip out of packetCh.
Pick(w, ip) ==
  /\ work[w].pc = "idle"
  /\ work' = [work EXCEPT ![w] = [IdleWork EXCEPT !.pc = "picked", !.ip = ip,
                                                  !.listed = ip \in allow]]
  /\ UNCHANGED cacheVars /\ UnchangedWorld

\* allowlist.Contains, under the allowlist's read lock.
OnAllowlistAfterCache(ip) == ip \in allow /\ ~Fresh(entries[ip], version)  \* mutant
OnAllowlistUpTo(ip) == \E a \in allow : ip <= a   \* mutant: no lower bound
OnAllowlist(ip) == ip \in allow

CheckAllowlist(w) ==
  /\ work[w].pc = "picked"
  /\ \/ OnAllowlist(work[w].ip) /\ Decide(w, FALSE, "allowlist")
     \/ ~OnAllowlist(work[w].ip) /\ GoTo(w, "lookup")
  /\ UNCHANGED cacheVars /\ UnchangedWorld

StartGet(w) ==
  /\ work[w].pc = "lookup"
  /\ GoTo(w, "getting")
  /\ BeginGet(w, work[w].ip)
  /\ UnchangedWorld

\* The decision Get returns on a hit.
HitFlag(w) == TRUE                      \* mutant: the two results are swapped
HitDecision(w) == entries[work[w].ip].blocked

FinishGet(w) ==
  /\ work[w].pc = "getting"
  /\ \/ Hit(w) /\ Decide(w, HitDecision(w), "cache")
     \/ ~Hit(w) /\ GoTo(w, "missed")
  /\ EndGet(w)
  /\ UnchangedWorld

\* db.Load, and Contains on the immutable snapshot it returns.
LoadDatabase(w) ==
  /\ work[w].pc = "missed"
  /\ work' = [work EXCEPT ![w].pc = "loaded", ![w].blocked = work[w].ip \in db]
  /\ UNCHANGED cacheVars /\ UnchangedWorld

StartSet(w) ==
  /\ work[w].pc = "loaded"
  /\ GoTo(w, "setting")
  /\ BeginSet(w, work[w].ip, work[w].blocked)
  /\ UnchangedWorld

FinishSet(w) ==
  /\ work[w].pc = "setting"
  /\ Decide(w, work[w].blocked, "database")
  /\ EndSet(w)
  /\ UnchangedWorld

\* The caller drops or forwards the packet and is ready for the next.
Return(w) ==
  /\ work[w].pc = "verdict"
  /\ work' = [work EXCEPT ![w] = IdleWork]
  /\ UNCHANGED cacheVars /\ UnchangedWorld

Decision(w) ==
  \/ CheckAllowlist(w) \/ StartGet(w) \/ FinishGet(w) \/ LoadDatabase(w)
  \/ StartSet(w) \/ FinishSet(w) \/ Return(w)

-----------------------------------------------------------------------------
\* The rest of the program.

\* A reload, first half: the new database is built, the cache invalidated.
ClearCache(r, d) ==
  /\ reload[r] = {}
  /\ Clear
  /\ reload' = [reload EXCEPT ![r] = {d}]
  /\ UNCHANGED <<db, allow, work, published>>

\* A reload, second half.
StoreDatabase(r) ==
  /\ \E d \in reload[r] : db' = d /\ published' = published \cup {d}
  /\ reload' = [reload EXCEPT ![r] = {}]
  /\ UNCHANGED <<cacheVars, allow, work>>

\* ResolveAndRefresh replaces the ranges under the write lock.
RefreshAllowlist(s) ==
  /\ s # allow
  /\ allow' = s
  /\ work' = [w \in Threads |-> [work[w] EXCEPT !.listed = @ /\ work[w].ip \in s]]
  /\ UNCHANGED <<cacheVars, db, reload, published>>

TimePasses == Tick /\ UNCHANGED <<work>> /\ UnchangedWorld

Next ==
  \/ \E w \in Threads, ip \in IPs : Pick(w, ip)
  \/ \E w \in Threads : Decision(w)
  \/ \E r \in Reloaders, d \in Databases : ClearCache(r, d)
  \/ \E r \in Reloaders : StoreDatabase(r)
  \/ \E s \in AllowSets : RefreshAllowlist(s)
  \/ TimePasses

Spec == Init /\ [][Next]_vars

\* Runnable goroutines run, Clear is followed by Store, the clock advances.
\* Nothing obliges packets to arrive, reloads to begin or DNS to change.
Fairness ==
  /\ \A w \in Threads : WF_vars(Decision(w))
  /\ \A r \in Reloaders : WF_vars(StoreDatabase(r))
  /\ WF_vars(TimePasses)

FairSpec == Spec /\ Fairness

-----------------------------------------------------------------------------

\* Type invariant.
BlockTypeOK ==
  /\ CacheTypeOK
  /\ db \in SUBSET IPs
  /\ allow \in SUBSET IPs
  /\ reload \in [Reloaders -> SUBSET (SUBSET IPs)]
  /\ work \in [Threads -> Work]
  /\ published \in SUBSET (SUBSET IPs)

\* b is what some database that was ever installed says about ip.
Published(ip, b) == \E d \in published : b = (ip \in d)

\* Whatever the interleaving of workers, reloads and evictions, a verdict or
\* cached decision is the answer of a database that was really installed,
\* for that very address: no decision is invented or mixed up.
NoInventedDecision ==
  /\ \A ip \in Keys : Published(ip, entries[ip].blocked)
  /\ \A w \in Threads :
       \/ work[w].pc \in {"loaded", "setting"}
       \/ work[w].pc = "verdict" /\ work[w].via # "allowlist"
       => Published(work[w].ip, work[w].blocked)

\* "IP ranges that should never be blocked" (core/allowlist.go): a packet
\* whose destination is on the allowlist all the time its worker handles it
\* is let through, even when a block of that address is still cached.
AllowlistWins ==
  \A w \in Threads : work[w].pc = "verdict" /\ work[w].listed => ~work[w].blocked

\* No reload is between its Clear and its Store.
NoReloadInProgress == \A r \in Reloaders : reload[r] = {}

\* CHANGELOG 0.2.0 on the version counter of the cache: "This eliminates the
\* race condition where a worker could cache a decision from the old DB after
\* `Clear()` but before `Store()`."  With no reload in progress, every
\* decision the cache would serve is the database's.
CacheAgreesWithDatabase ==
  NoReloadInProgress =>
    \A ip \in Keys : Fresh(entries[ip], version) => entries[ip].blocked = (ip \in db)

\* What the code does guarantee instead: a stale decision dies with its ttl,
\* so once the reloads have stopped (they do: MaxClears) the verdicts given
\* by the cache and the database are the current database's for good.
StaleDecisionsHeal ==
  <>[](\A w \in Threads : work[w].pc = "verdict" /\ work[w].via # "allowlist" =>
         work[w].blocked = (work[w].ip \in db))

-----------------------------------------------------------------------------
\* The work k of a worker as module Filter sees it: a packet and its stage.
Stage(k) ==
  CASE k.pc = "picked" -> "taken"
    [] k.pc = "verdict" -> IF k.blocked THEN "blocked" ELSE "passed"
    [] OTHER -> "suspect"

PacketOf(k) == IF k.pc = "idle" THEN Idle ELSE [ip |-> k.ip, stage |-> Stage(k)]

Packets == [w \in Threads |-> PacketOf(work[w])]

F == INSTANCE Filter
  WITH Addresses <- IPs, Workers <- Threads, NoPacket <- Idle,
       lists <- published, allowed <- allow, packet <- Packets

\* With all its steps shouldBlock (filter/pipeline.go) does what Filter says:
\* whatever cache, reloads and other workers do in between, a packet meets
\* the allowlist once, is judged once, by one installed list and for its own
\* destination, and keeps its verdict until the worker is done with it.
ImplementsFilter == F!FilterSpec

=============================================================================
