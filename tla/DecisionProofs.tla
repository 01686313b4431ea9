---------------------------- MODULE DecisionProofs ----------------------------
(***************************************************************************)
(* Proofs about the decision on a packet: the cache (DecisionCache), the   *)
(* blocking decision over it (BlockDecision) and the list of ranges and    *)
(* its search (RangeDatabase), which stands on its own.                    *)
(***************************************************************************)
EXTENDS BlockDecision, RangeDatabase, FiniteSetTheorems, TLAPS

-----------------------------------------------------------------------------
(***************************************************************************)
(* The decision cache, for every set of addresses, ring size, ttl and set  *)
(* of threads.  CacheInv is inductive: the type invariant, TagsCountClears *)
(* (which makes ClearInvalidates inductive) and the agreement of the map   *)
(* with the ring (which bounds the map).                                   *)
(***************************************************************************)

CacheInv == CacheTypeOK /\ TagsCountClears /\ KeysInRing

\* The initial cache satisfies the invariant.
LEMMA InitInv == CacheInit => CacheInv
<1> SUFFICES ASSUME CacheInit PROVE CacheInv
  OBVIOUS
<1>1. Keys = {}
  BY CacheAssumption DEF CacheInit, Keys
<1>2. CacheTypeOK
  BY CacheAssumption DEF CacheInit, CacheTypeOK, Slots
<1>3. TagsCountClears
  BY <1>1, CacheAssumption DEF CacheInit, TagsCountClears
<1>4. KeysInRing
  BY <1>1 DEF KeysInRing
<1> QED
  BY <1>2, <1>3, <1>4 DEF CacheInv

\* Beginning a call touches neither the map nor the ring.
LEMMA BeginInv ==
  ASSUME CacheInv, NEW t \in Threads, NEW op \in {"Get", "Set"}, NEW a \in IPs,
         NEW b \in BOOLEAN, Begin(t, op, a, b)
  PROVE  CacheInv'
<1> DEFINE c == [op |-> op, ip |-> a, blocked |-> b, ver |-> version, since |-> clears]
<1> USE DEF CacheInv, CacheTypeOK
<1>1. c \in Call
  BY DEF Call
<1>2. call' = [call EXCEPT ![t] = c] /\ UNCHANGED <<entries, lru, pos, version, clears>>
  BY DEF Begin
<1>3. CacheTypeOK'
  BY <1>1, <1>2
<1>4. Keys' = Keys
  BY <1>2 DEF Keys
<1>5. TagsCountClears'
  BY <1>1, <1>2, <1>4 DEF TagsCountClears
<1>6. KeysInRing'
  BY <1>2, <1>4 DEF KeysInRing
<1> QED
  BY <1>3, <1>5, <1>6

\* Get only ends its call.
LEMMA EndGetInv ==
  ASSUME CacheInv, NEW t \in Threads, EndGet(t)
  PROVE  CacheInv'
<1> USE DEF CacheInv, CacheTypeOK
<1>1. call' = [call EXCEPT ![t] = Idle] /\ UNCHANGED <<entries, lru, pos, version, clears>>
  BY DEF EndGet
<1>2. CacheTypeOK'
  BY <1>1
<1>3. Keys' = Keys
  BY <1>1 DEF Keys
<1>4. TagsCountClears'
  BY <1>1, <1>3 DEF TagsCountClears
<1>5. KeysInRing'
  BY <1>1, <1>3 DEF KeysInRing
<1> QED
  BY <1>2, <1>4, <1>5

\* What Set leaves in the map: the new entry, and older ones unchanged.
LEMMA EndSetKeys ==
  ASSUME CacheTypeOK, NEW t \in Threads, EndSet(t), NEW a \in Keys'
  PROVE  \/ a = call[t].ip /\ entries'[a].blocked = call[t].blocked
         \/ a \in Keys /\ entries'[a] = entries[a]
<1> USE DEF CacheTypeOK
<1>1. call[t] \in Call /\ call[t].ip \in IPs
  BY DEF EndSet, InSet, Call
<1>2. Evicted \in [IPs -> Entry \cup {NoEntry}]
  BY DEF Evicted
<1>3. entries' = [Evicted EXCEPT ![call[t].ip] =
                    [blocked |-> call[t].blocked, age |-> 0,
                     version |-> Tag(call[t]), since |-> call[t].since]]
  BY DEF EndSet
<1>4. CASE a = call[t].ip
  BY <1>1, <1>2, <1>3, <1>4
<1>5. CASE a # call[t].ip
  <2>1. a \in IPs /\ entries'[a] = Evicted[a] /\ entries'[a] # NoEntry
    BY <1>2, <1>3, <1>5 DEF Keys
  <2> QED
    BY <2>1 DEF Evicted, Keys
<1> QED
  BY <1>4, <1>5

\* The clock keeps the keys and what was decided for them.
LEMMA TickKeys ==
  ASSUME CacheTypeOK, Tick
  PROVE  Keys' = Keys /\ \A a \in Keys : entries'[a].blocked = entries[a].blocked
<1> USE DEF CacheTypeOK
<1>1. \A d \in Entry : Older(d) # NoEntry /\ Older(d).blocked = d.blocked
  BY CacheAssumption DEF Older, Entry
<1>2. \A a \in IPs : entries[a] # NoEntry => entries[a] \in Entry
  OBVIOUS
<1>3. \A a \in IPs : entries'[a] = IF entries[a] = NoEntry THEN NoEntry ELSE Older(entries[a])
  BY DEF Tick
<1> QED
  BY <1>1, <1>2, <1>3 DEF Keys

\* Set keeps the map inside the ring: the key whose slot is recycled is
\* deleted, and the key that is stored takes the slot.
LEMMA EndSetInv ==
  ASSUME CacheInv, NEW t \in Threads, EndSet(t)
  PROVE  CacheInv'
<1> DEFINE c == call[t]
           e == [blocked |-> c.blocked, age |-> 0, version |-> c.ver, since |-> c.since]
<1> USE DEF CacheInv, CacheTypeOK
<1>1. c \in Call /\ c # Idle /\ c.ver = c.since
  BY DEF EndSet, InSet, TagsCountClears
<1>2. e \in Entry /\ e # NoEntry
  BY <1>1, CacheAssumption DEF Call, Entry
<1>3. /\ entries' = [Evicted EXCEPT ![c.ip] = e]
      /\ lru' = [lru EXCEPT ![pos] = c.ip]
      /\ pos' = NextSlot
      /\ call' = [call EXCEPT ![t] = Idle]
      /\ version' = version /\ clears' = clears
  BY DEF EndSet, Tag
<1>4. c.ip \in IPs
  BY <1>1 DEF Call
<1>5. pos \in Slots /\ pos' \in Slots
  BY <1>3, CacheAssumption DEF NextSlot, Slots
<1>6. Evicted \in [IPs -> Entry \cup {NoEntry}]
  BY DEF Evicted
<1>7. CacheTypeOK'
  BY <1>2, <1>3, <1>4, <1>5, <1>6
<1>8. \A a \in IPs : entries'[a] = IF a = c.ip THEN e ELSE Evicted[a]
  BY <1>3, <1>4, <1>6
<1>9. \A a \in Keys' : a = c.ip \/ (a \in Keys /\ a # c.ip /\ entries'[a] = entries[a]
                                        /\ ~(a = lru[pos] /\ a # 0))
  BY <1>8 DEF Keys, Evicted, Victim
<1>10. TagsCountClears'
  BY <1>1, <1>2, <1>3, <1>4, <1>8, <1>9 DEF TagsCountClears
<1>11. KeysInRing'
  <2> SUFFICES ASSUME NEW a \in Keys' \ {0}
               PROVE  \E i \in Slots : lru'[i] = a
    BY DEF KeysInRing
  <2>1. CASE a = c.ip
    BY <1>3, <1>5, <2>1
  <2>2. CASE a # c.ip
    <3>1. a \in Keys \ {0} /\ a # lru[pos]
      BY <1>9, <2>2
    <3>2. PICK i \in Slots : lru[i] = a
      BY <3>1 DEF KeysInRing
    <3>3. i # pos
      BY <3>1, <3>2
    <3> QED
      BY <1>3, <3>2, <3>3
  <2> QED
    BY <2>1, <2>2
<1> QED
  BY <1>7, <1>10, <1>11

\* Clear moves version and clears together.
LEMMA ClearInv == ASSUME CacheInv, Clear PROVE CacheInv'
<1> USE DEF CacheInv, CacheTypeOK
<1>1. Keys' = Keys
  BY DEF Clear, Keys
<1>2. CacheTypeOK'
  BY DEF Clear
<1>3. TagsCountClears'
  BY <1>1 DEF Clear, TagsCountClears
<1>4. KeysInRing'
  BY <1>1 DEF Clear, KeysInRing
<1> QED
  BY <1>2, <1>3, <1>4

\* Time changes nothing but the ages.
LEMMA TickInv == ASSUME CacheInv, Tick PROVE CacheInv'
<1> USE DEF CacheInv, CacheTypeOK
<1>1. \A d \in Entry : /\ Older(d) \in Entry /\ Older(d) # NoEntry
                       /\ Older(d).version = d.version /\ Older(d).since = d.since
  BY CacheAssumption DEF Older, Entry
<1>2. \A a \in IPs : entries[a] # NoEntry => entries[a] \in Entry
  OBVIOUS
<1>3. \A a \in IPs : entries'[a] = IF entries[a] = NoEntry THEN NoEntry ELSE Older(entries[a])
  BY DEF Tick
<1>4. Keys' = Keys
  BY <1>1, <1>2, <1>3 DEF Keys
<1>5. CacheTypeOK'
  BY <1>1, <1>2, <1>3 DEF Tick
<1>6. \A a \in Keys : entries'[a].version = entries[a].version /\ entries'[a].since = entries[a].since
  BY <1>1, <1>2, <1>3 DEF Keys
<1>7. TagsCountClears'
  BY <1>4, <1>6 DEF Tick, TagsCountClears
<1>8. KeysInRing'
  BY <1>4 DEF Tick, KeysInRing
<1> QED
  BY <1>5, <1>7, <1>8

\* A step that changes none of the variables keeps the invariant.
LEMMA CacheStutterInv == ASSUME CacheInv, UNCHANGED cacheVars PROVE CacheInv'
  BY DEF CacheInv, CacheTypeOK, TagsCountClears, KeysInRing, Keys, cacheVars

\* The invariant holds in every reachable state.
THEOREM CacheInvariance == CacheSpec => []CacheInv
<1>1. CacheInv /\ [CacheNext]_cacheVars => CacheInv'
  <2> SUFFICES ASSUME CacheInv, [CacheNext]_cacheVars PROVE CacheInv'
    OBVIOUS
  <2>1. CASE \E t \in Threads, a \in IPs : BeginGet(t, a)
    BY <2>1, BeginInv DEF BeginGet
  <2>2. CASE \E t \in Threads, a \in IPs, b \in BOOLEAN : BeginSet(t, a, b)
    BY <2>2, BeginInv DEF BeginSet
  <2>3. CASE \E t \in Threads : EndGet(t) \/ EndSet(t)
    BY <2>3, EndGetInv, EndSetInv
  <2>4. CASE Clear
    BY <2>4, ClearInv
  <2>5. CASE Tick
    BY <2>5, TickInv
  <2>6. CASE UNCHANGED cacheVars
    BY <2>6, CacheStutterInv
  <2> QED
    BY <2>1, <2>2, <2>3, <2>4, <2>5, <2>6 DEF CacheNext
<1> QED
  BY <1>1, InitInv, PTL DEF CacheSpec

-----------------------------------------------------------------------------

\* Type correctness of the cache.
THEOREM CacheTypeCorrect == CacheSpec => []CacheTypeOK
<1>1. CacheInv => CacheTypeOK
  BY DEF CacheInv
<1> QED
  BY <1>1, CacheInvariance, PTL

\* Every key but 0 stays in the ring, so it is going to be evicted.
THEOREM KeysStayInRing == CacheSpec => []KeysInRing
<1>1. CacheInv => KeysInRing
  BY DEF CacheInv
<1> QED
  BY <1>1, CacheInvariance, PTL

\* A Get that begins after a Clear returned never hits a decision whose Set
\* began before that Clear: tags and loaded versions both count the Clears.
THEOREM ClearedDecisionsNeverServed == CacheSpec => []ClearInvalidates
<1>1. CacheInv => ClearInvalidates
  <2> SUFFICES ASSUME CacheInv, NEW t \in Threads, InGet(t), Hit(t)
               PROVE  entries[call[t].ip].since >= call[t].since
    BY DEF ClearInvalidates
  <2>1. call[t] \in Call /\ call[t].ver = call[t].since
    BY DEF CacheInv, CacheTypeOK, InGet, TagsCountClears
  <2>2. call[t].ip \in Keys
    BY <2>1 DEF Hit, Fresh, Keys, Call
  <2>3. entries[call[t].ip].since = call[t].since
    BY <2>1, <2>2 DEF CacheInv, TagsCountClears, Hit, Fresh
  <2> QED
    BY <2>1, <2>3 DEF Call
<1> QED
  BY <1>1, CacheInvariance, PTL

\* A map whose keys lie in a ring of MaxSize slots, 0 aside, has at most
\* MaxSize + 1 keys: choosing a slot for each key is an injection.
LEMMA RingBoundsKeys == CacheTypeOK /\ KeysInRing => LenBounded
<1> SUFFICES ASSUME CacheTypeOK, KeysInRing PROVE LenBounded
  OBVIOUS
<1> DEFINE K == Keys \ {0}
           slot == [a \in K |-> CHOOSE i \in Slots : lru[i] = a]
<1>1. \A a \in K : slot[a] \in Slots /\ lru[slot[a]] = a
  BY DEF KeysInRing
<1>2. slot \in Injection(K, Slots)
  BY <1>1 DEF Injection, IsInjective
<1>3. IsFiniteSet(Slots) /\ Cardinality(Slots) = MaxSize
  BY FS_Interval, CacheAssumption DEF Slots
<1>4. IsFiniteSet(K) /\ Cardinality(K) <= MaxSize
  BY <1>2, <1>3, FS_Injection
<1>5. IsFiniteSet(K \cup {0}) /\ Cardinality(K \cup {0}) <= MaxSize + 1
  <2>1. Cardinality(K) \in Nat
    BY <1>4, FS_CardinalityType
  <2>2. /\ IsFiniteSet(K \cup {0})
        /\ Cardinality(K \cup {0}) = IF 0 \in K THEN Cardinality(K) ELSE Cardinality(K) + 1
    BY <1>4, FS_AddElement
  <2> QED
    BY <1>4, <2>1, <2>2, CacheAssumption
<1>6. Keys \in SUBSET (K \cup {0})
  OBVIOUS
<1>7. Cardinality(Keys) <= Cardinality(K \cup {0}) /\ Cardinality(Keys) \in Nat
  BY <1>5, <1>6, FS_Subset, FS_CardinalityType
<1> QED
  BY <1>5, <1>7, FS_CardinalityType, CacheAssumption DEF LenBounded

\* However many decisions are stored, the cache holds at most MaxSize + 1.
THEOREM CacheIsBounded == CacheSpec => []LenBounded
  BY CacheTypeCorrect, KeysStayInRing, RingBoundsKeys, PTL

-----------------------------------------------------------------------------
(***************************************************************************)
(* shouldBlock, for any number of workers, reloads, databases and          *)
(* allowlists.  BlockInv is inductive: CacheInv of the cache, the types of *)
(* the rest, the agreement of each worker with its cache call, and what is *)
(* known about a decision at each step on the way.  With the same          *)
(* invariant, Filter is implemented.                                       *)
(***************************************************************************)

WorldTypeOK ==
  /\ db \in SUBSET IPs
  /\ allow \in SUBSET IPs
  /\ reload \in [Reloaders -> SUBSET (SUBSET IPs)]
  /\ work \in [Threads -> Work]
  /\ published \in SUBSET (SUBSET IPs)

\* A worker inside Get or Set is there for its own packet and decision.
CallsFollowWork ==
  \A w \in Threads :
    /\ work[w].pc = "getting" => InGet(w) /\ call[w].ip = work[w].ip
    /\ work[w].pc = "setting" => /\ InSet(w)
                                 /\ call[w].ip = work[w].ip
                                 /\ call[w].blocked = work[w].blocked

\* A listed packet is on the allowlist now; past the check, only a packet
\* that the allowlist let through can still be listed.
ListedLetThrough ==
  \A w \in Threads :
    /\ work[w].listed => work[w].ip \in allow
    /\ work[w].pc \in {"lookup", "getting", "missed", "loaded", "setting"} => ~work[w].listed
    /\ work[w].pc = "verdict" /\ work[w].via # "allowlist" => ~work[w].listed
    /\ work[w].pc = "verdict" /\ work[w].via = "allowlist" => ~work[w].blocked

DecisionsPublished == db \in published /\ NoInventedDecision

BlockInv ==
  CacheInv /\ WorldTypeOK /\ CallsFollowWork /\ ListedLetThrough /\ DecisionsPublished

\* startup establishes the invariant.
LEMMA BlockInitInv == Init => BlockInv
<1> SUFFICES ASSUME Init PROVE BlockInv
  OBVIOUS
<1>1. CacheInv
  BY InitInv DEF Init
<1>2. IdleWork \in Work
  BY CacheAssumption DEF IdleWork, Work, PCs
<1>3. WorldTypeOK
  BY <1>2, BlockAssumption DEF Init, WorldTypeOK
<1>4. \A w \in Threads : work[w].pc = "idle" /\ ~work[w].listed
  BY DEF Init, IdleWork
<1>5. CallsFollowWork /\ ListedLetThrough
  BY <1>4 DEF CallsFollowWork, ListedLetThrough
<1>6. Keys = {}
  BY DEF Init, CacheInit, Keys
<1>7. DecisionsPublished
  BY <1>4, <1>6 DEF DecisionsPublished, NoInventedDecision, Init
<1> QED
  BY <1>1, <1>3, <1>5, <1>7 DEF BlockInv

\* A step that leaves the cache alone leaves its invariant alone.
LEMMA CacheUntouched ==
  ASSUME CacheInv, UNCHANGED cacheVars
  PROVE  CacheInv' /\ Keys' = Keys /\ entries' = entries /\ call' = call
  BY CacheStutterInv DEF cacheVars, Keys

\* A worker changes only its own record, to v.
MovesTo(w, v) == work' = [work EXCEPT ![w] = v]

\* A worker's step that does not touch the cache keeps the invariant if its
\* new record has the properties the invariant asks of it.
LEMMA WorkerStepInv ==
  ASSUME BlockInv, NEW w \in Threads, NEW v \in Work, MovesTo(w, v),
         UNCHANGED cacheVars, UnchangedWorld,
         v.pc \notin {"getting", "setting"},
         v.listed => v.ip \in allow,
         v.pc \in {"lookup", "missed", "loaded"} => ~v.listed,
         v.pc = "verdict" /\ v.via # "allowlist" => ~v.listed,
         v.pc = "verdict" /\ v.via = "allowlist" => ~v.blocked,
         v.pc = "loaded" \/ (v.pc = "verdict" /\ v.via # "allowlist") => Published(v.ip, v.blocked)
  PROVE  BlockInv'
<1> USE DEF BlockInv, UnchangedWorld
<1>1. CacheInv' /\ Keys' = Keys /\ entries' = entries /\ call' = call
  BY CacheUntouched
<1>2. \A u \in Threads : work'[u] = IF u = w THEN v ELSE work[u]
  BY DEF MovesTo, WorldTypeOK
<1>3. WorldTypeOK'
  BY DEF WorldTypeOK, MovesTo
<1>4. CallsFollowWork'
  BY <1>1, <1>2 DEF CallsFollowWork, InGet, InSet
<1>5. ListedLetThrough'
  BY <1>2 DEF ListedLetThrough
<1>6. DecisionsPublished'
  BY <1>1, <1>2 DEF DecisionsPublished, NoInventedDecision, Published
<1> QED
  BY <1>1, <1>3, <1>4, <1>5, <1>6

\* A picked packet is listed only if its destination is.
LEMMA PickInv ==
  ASSUME BlockInv, NEW w \in Threads, NEW a \in IPs, Pick(w, a)
  PROVE  BlockInv'
<1> DEFINE b == a \in allow
           v == [IdleWork EXCEPT !.pc = "picked", !.ip = a, !.listed = b]
<1>1. b \in BOOLEAN /\ (b => a \in allow)
  OBVIOUS
<1>2. MovesTo(w, v) /\ UNCHANGED cacheVars /\ UnchangedWorld
  BY DEF Pick, MovesTo
<1> HIDE DEF b
<1>3. /\ v \in Work /\ v.pc = "picked" /\ v.ip = a /\ v.listed = b
  BY <1>1, CacheAssumption DEF IdleWork, Work, PCs
<1> HIDE DEF v
<1> QED
  BY <1>1, <1>2, <1>3, WorkerStepInv

\* The check lets a listed packet through and sends only others on.
LEMMA CheckAllowlistInv ==
  ASSUME BlockInv, NEW w \in Threads, CheckAllowlist(w)
  PROVE  BlockInv'
<1>1. work \in [Threads -> Work] /\ work[w].pc = "picked"
      /\ (work[w].listed => work[w].ip \in allow)
  BY DEF BlockInv, WorldTypeOK, CheckAllowlist, ListedLetThrough
<1>2. CASE OnAllowlist(work[w].ip) /\ Decide(w, FALSE, "allowlist")
  <2> DEFINE v == [work[w] EXCEPT !.pc = "verdict", !.blocked = FALSE, !.via = "allowlist"]
  <2>1. /\ v \in Work /\ v.pc = "verdict" /\ v.ip = work[w].ip /\ v.listed = work[w].listed
        /\ ~v.blocked /\ v.via = "allowlist"
    BY <1>1 DEF Work, PCs
  <2>2. MovesTo(w, v) /\ UNCHANGED cacheVars /\ UnchangedWorld
    BY <1>1, <1>2 DEF CheckAllowlist, MovesTo, Decide
  <2> HIDE DEF v
  <2> QED
    BY <1>1, <2>1, <2>2, WorkerStepInv
<1>3. CASE ~OnAllowlist(work[w].ip) /\ GoTo(w, "lookup")
  <2> DEFINE v == [work[w] EXCEPT !.pc = "lookup"]
  <2>1. /\ v \in Work /\ v.pc = "lookup" /\ v.ip = work[w].ip /\ v.listed = work[w].listed
    BY <1>1 DEF Work, PCs
  <2>2. MovesTo(w, v) /\ UNCHANGED cacheVars /\ UnchangedWorld
    BY <1>1, <1>3 DEF CheckAllowlist, MovesTo, GoTo
  <2>3. ~v.listed
    BY <1>1, <1>3, <2>1 DEF OnAllowlist
  <2> HIDE DEF v
  <2> QED
    BY <1>1, <2>1, <2>2, <2>3, WorkerStepInv
<1> QED
  BY <1>2, <1>3 DEF CheckAllowlist

\* What Contains answers is the answer of an installed database.
LEMMA LoadDatabaseInv ==
  ASSUME BlockInv, NEW w \in Threads, LoadDatabase(w)
  PROVE  BlockInv'
<1> DEFINE b == work[w].ip \in db
           v == [work[w] EXCEPT !.pc = "loaded", !.blocked = b]
<1>1. /\ work \in [Threads -> Work] /\ work[w].pc = "missed" /\ ~work[w].listed
      /\ db \in published
  BY DEF BlockInv, WorldTypeOK, LoadDatabase, ListedLetThrough, DecisionsPublished
<1>2. MovesTo(w, v) /\ UNCHANGED cacheVars /\ UnchangedWorld
  BY <1>1 DEF LoadDatabase, MovesTo
<1>3. b \in BOOLEAN /\ Published(work[w].ip, b)
  BY <1>1 DEF Published
<1> HIDE DEF b
<1>4. /\ v \in Work /\ v.pc = "loaded" /\ ~v.listed /\ v.ip = work[w].ip /\ v.blocked = b
  BY <1>1, <1>3 DEF Work, PCs
<1> HIDE DEF v
<1> QED
  BY <1>2, <1>3, <1>4, WorkerStepInv

\* An idle worker decides nothing.
LEMMA ReturnInv ==
  ASSUME BlockInv, NEW w \in Threads, Return(w)
  PROVE  BlockInv'
<1>1. IdleWork \in Work /\ IdleWork.pc = "idle" /\ ~IdleWork.listed
  BY CacheAssumption DEF IdleWork, Work, PCs
<1>2. MovesTo(w, IdleWork) /\ UNCHANGED cacheVars /\ UnchangedWorld
  BY DEF Return, MovesTo
<1> QED
  BY <1>1, <1>2, WorkerStepInv

\* The worker enters Get or Set: the cache takes the step BeginInv is about.
LEMMA StartGetInv ==
  ASSUME BlockInv, NEW w \in Threads, StartGet(w)
  PROVE  BlockInv'
<1> USE DEF BlockInv
<1>1. /\ work \in [Threads -> Work] /\ work[w].ip \in IPs /\ work[w].pc = "lookup"
      /\ work' = [work EXCEPT ![w].pc = "getting"]
      /\ ~work[w].listed
  BY DEF WorldTypeOK, Work, StartGet, GoTo, ListedLetThrough
<1>2. CacheInv'
  BY <1>1, BeginInv DEF StartGet, BeginGet
<1>3. /\ call \in [Threads -> Call \cup {Idle}]
      /\ call' = [call EXCEPT ![w] = [op |-> "Get", ip |-> work[w].ip, blocked |-> FALSE,
                                      ver |-> version, since |-> clears]]
      /\ entries' = entries /\ Keys' = Keys
  BY DEF StartGet, BeginGet, Begin, CacheInv, CacheTypeOK, Keys
<1>4. call'[w] \in Call /\ call'[w] # Idle
  <2>1. \A b \in BOOLEAN : [op |-> "Get", ip |-> work[w].ip, blocked |-> b,
                            ver |-> version, since |-> clears] \in Call
    BY <1>1 DEF Call, CacheInv, CacheTypeOK
  <2> QED
    BY <1>3, <2>1, CacheAssumption
<1>5. WorldTypeOK'
  BY <1>1 DEF StartGet, UnchangedWorld, WorldTypeOK, Work, PCs
<1>6. CallsFollowWork'
  BY <1>1, <1>3, <1>4 DEF CallsFollowWork, InGet, InSet, WorldTypeOK, Work
<1>7. ListedLetThrough'
  BY <1>1 DEF ListedLetThrough, StartGet, UnchangedWorld
<1>8. DecisionsPublished'
  BY <1>1, <1>3 DEF DecisionsPublished, NoInventedDecision, Published, StartGet, UnchangedWorld
<1> QED
  BY <1>2, <1>5, <1>6, <1>7, <1>8

\* The same for Set, which takes the worker's own decision along.
LEMMA StartSetInv ==
  ASSUME BlockInv, NEW w \in Threads, StartSet(w)
  PROVE  BlockInv'
<1> USE DEF BlockInv
<1>1. /\ work \in [Threads -> Work] /\ work[w].ip \in IPs /\ work[w].pc = "loaded"
      /\ work' = [work EXCEPT ![w].pc = "setting"]
      /\ ~work[w].listed /\ work[w].blocked \in BOOLEAN
  BY DEF WorldTypeOK, Work, StartSet, GoTo, ListedLetThrough
<1>2. CacheInv'
  BY <1>1, BeginInv DEF StartSet, BeginSet
<1>3. /\ call \in [Threads -> Call \cup {Idle}]
      /\ call' = [call EXCEPT ![w] = [op |-> "Set", ip |-> work[w].ip, blocked |-> work[w].blocked,
                                      ver |-> version, since |-> clears]]
      /\ entries' = entries /\ Keys' = Keys
  BY DEF StartSet, BeginSet, Begin, CacheInv, CacheTypeOK, Keys
<1>4. call'[w] \in Call /\ call'[w] # Idle
  BY <1>1, <1>3, CacheAssumption DEF Call, CacheInv, CacheTypeOK
<1>5. WorldTypeOK'
  BY <1>1 DEF StartSet, UnchangedWorld, WorldTypeOK, Work, PCs
<1>6. CallsFollowWork'
  BY <1>1, <1>3, <1>4 DEF CallsFollowWork, InGet, InSet, WorldTypeOK, Work
<1>7. ListedLetThrough'
  BY <1>1 DEF ListedLetThrough, StartSet, UnchangedWorld
<1>8. DecisionsPublished'
  BY <1>1, <1>3 DEF DecisionsPublished, NoInventedDecision, Published, StartSet, UnchangedWorld
<1> QED
  BY <1>2, <1>5, <1>6, <1>7, <1>8

\* A hit returns the cached decision for the worker's own address.
LEMMA FinishGetInv ==
  ASSUME BlockInv, NEW w \in Threads, FinishGet(w)
  PROVE  BlockInv'
<1> USE DEF BlockInv
<1>1. /\ work \in [Threads -> Work] /\ work[w] \in Work /\ work[w].pc = "getting" /\ ~work[w].listed
      /\ call[w].ip = work[w].ip /\ UnchangedWorld
  BY DEF WorldTypeOK, FinishGet, ListedLetThrough, CallsFollowWork
<1>2. CacheInv'
  BY EndGetInv DEF FinishGet
<1>3. /\ call' = [call EXCEPT ![w] = Idle] /\ call \in [Threads -> Call \cup {Idle}]
      /\ entries' = entries /\ Keys' = Keys
  BY DEF FinishGet, EndGet, Keys, CacheInv, CacheTypeOK
<1>4. \E v \in Work : /\ work' = [work EXCEPT ![w] = v] /\ v.listed = work[w].listed
                      /\ v.pc \in {"missed", "verdict"}
                      /\ v.pc = "verdict" => v.via = "cache" /\ Published(v.ip, v.blocked)
  <2>1. CASE Hit(w) /\ Decide(w, HitDecision(w), "cache")
    <3> DEFINE b == HitDecision(w)
               v == [work[w] EXCEPT !.pc = "verdict", !.blocked = b, !.via = "cache"]
    <3>1. work[w].ip \in Keys /\ entries[work[w].ip] \in Entry
      BY <1>1, <2>1 DEF Hit, Fresh, Keys, Work, CacheInv, CacheTypeOK
    <3>2. b \in BOOLEAN /\ Published(work[w].ip, b)
      BY <3>1 DEF HitDecision, Entry, DecisionsPublished, NoInventedDecision
    <3>3. work' = [work EXCEPT ![w] = v]
      BY <1>1, <2>1 DEF Decide
    <3> HIDE DEF b
    <3>4. v \in Work /\ v.listed = work[w].listed /\ v.pc = "verdict" /\ v.via = "cache"
          /\ v.ip = work[w].ip /\ v.blocked = b
      BY <1>1, <3>2 DEF Work, PCs
    <3> HIDE DEF v
    <3> QED
      BY <3>2, <3>3, <3>4
  <2>2. CASE ~Hit(w) /\ GoTo(w, "missed")
    <3> DEFINE v == [work[w] EXCEPT !.pc = "missed"]
    <3>1. v \in Work /\ v.listed = work[w].listed /\ v.pc = "missed"
      BY <1>1 DEF Work, PCs
    <3>2. work' = [work EXCEPT ![w] = v]
      BY <1>1, <2>2 DEF GoTo
    <3> QED
      BY <3>1, <3>2
  <2> QED
    BY <2>1, <2>2 DEF FinishGet
<1>5. PICK v \in Work : /\ work' = [work EXCEPT ![w] = v] /\ v.listed = work[w].listed
                        /\ v.pc \in {"missed", "verdict"}
                        /\ v.pc = "verdict" => v.via = "cache" /\ Published(v.ip, v.blocked)
  BY <1>4
<1>6. \A u \in Threads : work'[u] = IF u = w THEN v ELSE work[u]
  BY <1>1, <1>5
<1>7. WorldTypeOK'
  BY <1>1, <1>5 DEF UnchangedWorld, WorldTypeOK
<1>8. CallsFollowWork'
  BY <1>3, <1>5, <1>6 DEF CallsFollowWork, InGet, InSet
<1>9. ListedLetThrough'
  BY <1>1, <1>5, <1>6 DEF ListedLetThrough, UnchangedWorld
<1>10. DecisionsPublished'
  BY <1>1, <1>3, <1>5, <1>6 DEF DecisionsPublished, NoInventedDecision, Published, UnchangedWorld
<1> QED
  BY <1>2, <1>7, <1>8, <1>9, <1>10

\* Set stores the worker's own decision, which comes from a database.
LEMMA FinishSetInv ==
  ASSUME BlockInv, NEW w \in Threads, FinishSet(w)
  PROVE  BlockInv'
<1> USE DEF BlockInv
<1> DEFINE v == [work[w] EXCEPT !.pc = "verdict", !.via = "database"]
<1>1. /\ work \in [Threads -> Work] /\ work[w] \in Work /\ work[w].pc = "setting" /\ ~work[w].listed
      /\ call[w].ip = work[w].ip /\ call[w].blocked = work[w].blocked /\ UnchangedWorld
      /\ work[w].blocked \in BOOLEAN
  BY DEF WorldTypeOK, FinishSet, ListedLetThrough, CallsFollowWork, Work
<1>2. CacheInv'
  BY EndSetInv DEF FinishSet
<1>3. call' = [call EXCEPT ![w] = Idle] /\ call \in [Threads -> Call \cup {Idle}]
  BY DEF FinishSet, EndSet, CacheInv, CacheTypeOK
<1>4. work' = [work EXCEPT ![w] = v]
  BY <1>1 DEF FinishSet, Decide
<1>5. v \in Work /\ v.pc = "verdict" /\ v.via = "database" /\ v.listed = work[w].listed
      /\ v.ip = work[w].ip /\ v.blocked = work[w].blocked
  BY <1>1 DEF Work, PCs
<1> HIDE DEF v
<1>6. \A u \in Threads : work'[u] = IF u = w THEN v ELSE work[u]
  BY <1>1, <1>4
<1>7. Published(work[w].ip, work[w].blocked)
  BY <1>1 DEF DecisionsPublished, NoInventedDecision
<1>8. WorldTypeOK'
  BY <1>1, <1>4, <1>5 DEF UnchangedWorld, WorldTypeOK
<1>9. CallsFollowWork'
  BY <1>3, <1>5, <1>6 DEF CallsFollowWork, InGet, InSet
<1>10. ListedLetThrough'
  BY <1>1, <1>5, <1>6 DEF ListedLetThrough, UnchangedWorld
<1>11. \A a \in Keys' : Published(a, entries'[a].blocked)
  BY <1>1, <1>7, EndSetKeys DEF FinishSet, CacheInv, DecisionsPublished, NoInventedDecision
<1>12. DecisionsPublished'
  BY <1>1, <1>5, <1>6, <1>7, <1>11 DEF DecisionsPublished, NoInventedDecision, Published, UnchangedWorld
<1> QED
  BY <1>2, <1>8, <1>9, <1>10, <1>12

-----------------------------------------------------------------------------
\* The rest of the program.

\* The first half of a reload changes no decision.
LEMMA ClearCacheInv ==
  ASSUME BlockInv, NEW r \in Reloaders, NEW d \in Databases, ClearCache(r, d)
  PROVE  BlockInv'
<1> USE DEF BlockInv
<1>1. CacheInv'
  BY ClearInv DEF ClearCache
<1>2. UNCHANGED <<entries, call, db, allow, work, published>> /\ Keys' = Keys
  BY DEF ClearCache, Clear, Keys
<1>3. WorldTypeOK'
  BY <1>2, BlockAssumption DEF WorldTypeOK, ClearCache
<1>4. CallsFollowWork'
  BY <1>2 DEF CallsFollowWork, InGet, InSet
<1>5. ListedLetThrough'
  BY <1>2 DEF ListedLetThrough
<1>6. DecisionsPublished'
  BY <1>2 DEF DecisionsPublished, NoInventedDecision, Published
<1> QED
  BY <1>1, <1>3, <1>4, <1>5, <1>6

\* A published database stays published.
LEMMA StoreDatabaseInv ==
  ASSUME BlockInv, NEW r \in Reloaders, StoreDatabase(r)
  PROVE  BlockInv'
<1> USE DEF BlockInv
<1>1. PICK d \in reload[r] : db' = d /\ published' = published \cup {d}
  BY DEF StoreDatabase
<1>2. CacheInv' /\ Keys' = Keys /\ entries' = entries /\ call' = call
  BY CacheUntouched DEF StoreDatabase
<1>3. UNCHANGED <<allow, work>>
  BY DEF StoreDatabase
<1>4. WorldTypeOK'
  BY <1>1, <1>3 DEF WorldTypeOK, StoreDatabase
<1>5. CallsFollowWork'
  BY <1>2, <1>3 DEF CallsFollowWork, InGet, InSet
<1>6. ListedLetThrough'
  BY <1>3 DEF ListedLetThrough
<1>7. \A a, b : Published(a, b) => Published(a, b)'
  BY <1>1 DEF Published
<1>8. DecisionsPublished'
  BY <1>1, <1>2, <1>3, <1>7 DEF DecisionsPublished, NoInventedDecision
<1> QED
  BY <1>2, <1>4, <1>5, <1>6, <1>8

\* A refresh unlists the packets whose destination it drops.
LEMMA RefreshAllowlistInv ==
  ASSUME BlockInv, NEW s \in AllowSets, RefreshAllowlist(s)
  PROVE  BlockInv'
<1> USE DEF BlockInv
<1>1. CacheInv' /\ Keys' = Keys /\ entries' = entries /\ call' = call
  BY CacheUntouched DEF RefreshAllowlist
<1>2. UNCHANGED <<db, reload, published>> /\ allow' = s /\ s \in SUBSET IPs
  BY BlockAssumption DEF RefreshAllowlist
<1>3. \A w \in Threads : /\ work'[w] \in Work
                         /\ work'[w].pc = work[w].pc /\ work'[w].ip = work[w].ip
                         /\ work'[w].blocked = work[w].blocked /\ work'[w].via = work[w].via
                         /\ work'[w].listed => work[w].listed /\ work[w].ip \in s
  <2> SUFFICES ASSUME NEW w \in Threads
               PROVE  /\ work'[w] \in Work
                      /\ work'[w].pc = work[w].pc /\ work'[w].ip = work[w].ip
                      /\ work'[w].blocked = work[w].blocked /\ work'[w].via = work[w].via
                      /\ work'[w].listed => work[w].listed /\ work[w].ip \in s
    OBVIOUS
  <2> DEFINE b == work[w].listed /\ work[w].ip \in s
  <2>1. work[w] \in Work /\ work'[w] = [work[w] EXCEPT !.listed = b]
    BY DEF WorldTypeOK, RefreshAllowlist
  <2>2. b \in BOOLEAN /\ (b => work[w].listed /\ work[w].ip \in s)
    OBVIOUS
  <2> HIDE DEF b
  <2> QED
    BY <2>1, <2>2 DEF Work
<1>4. WorldTypeOK'
  BY <1>2, <1>3 DEF WorldTypeOK, RefreshAllowlist
<1>5. CallsFollowWork'
  BY <1>1, <1>3 DEF CallsFollowWork, InGet, InSet
<1>6. ListedLetThrough'
  BY <1>2, <1>3 DEF ListedLetThrough
<1>7. DecisionsPublished'
  BY <1>1, <1>2, <1>3 DEF DecisionsPublished, NoInventedDecision, Published
<1> QED
  BY <1>1, <1>4, <1>5, <1>6, <1>7

\* Time changes no decision.
LEMMA TimePassesInv == ASSUME BlockInv, TimePasses PROVE BlockInv'
<1> USE DEF BlockInv
<1>1. CacheInv' /\ Keys' = Keys /\ \A a \in Keys : entries'[a].blocked = entries[a].blocked
  BY TickInv, TickKeys DEF TimePasses, CacheInv
<1>2. UNCHANGED <<call, work, db, allow, reload, published>>
  BY DEF TimePasses, Tick, UnchangedWorld
<1>3. WorldTypeOK' /\ CallsFollowWork' /\ ListedLetThrough'
  BY <1>2 DEF WorldTypeOK, CallsFollowWork, InGet, InSet, ListedLetThrough
<1>4. DecisionsPublished'
  BY <1>1, <1>2 DEF DecisionsPublished, NoInventedDecision, Published
<1> QED
  BY <1>1, <1>3, <1>4

\* Stuttering.
LEMMA BlockStutterInv == ASSUME BlockInv, UNCHANGED vars PROVE BlockInv'
<1> USE DEF BlockInv
<1>1. CacheInv' /\ Keys' = Keys /\ entries' = entries /\ call' = call
  BY CacheUntouched DEF vars
<1>2. UNCHANGED <<work, db, allow, reload, published>>
  BY DEF vars
<1> QED
  BY <1>1, <1>2 DEF WorldTypeOK, CallsFollowWork, InGet, InSet, ListedLetThrough,
                    DecisionsPublished, NoInventedDecision, Published

-----------------------------------------------------------------------------

\* The invariant holds in every reachable state.
THEOREM BlockInvariance == Spec => []BlockInv
<1>1. BlockInv /\ [Next]_vars => BlockInv'
  <2> SUFFICES ASSUME BlockInv, [Next]_vars PROVE BlockInv'
    OBVIOUS
  <2>1. CASE \E w \in Threads, a \in IPs : Pick(w, a)
    BY <2>1, PickInv
  <2>2. CASE \E w \in Threads : Decision(w)
    BY <2>2, CheckAllowlistInv, StartGetInv, FinishGetInv, LoadDatabaseInv, StartSetInv,
       FinishSetInv, ReturnInv DEF Decision
  <2>3. CASE \E r \in Reloaders, d \in Databases : ClearCache(r, d)
    BY <2>3, ClearCacheInv
  <2>4. CASE \E r \in Reloaders : StoreDatabase(r)
    BY <2>4, StoreDatabaseInv
  <2>5. CASE \E s \in AllowSets : RefreshAllowlist(s)
    BY <2>5, RefreshAllowlistInv
  <2>6. CASE TimePasses
    BY <2>6, TimePassesInv
  <2>7. CASE UNCHANGED vars
    BY <2>7, BlockStutterInv
  <2> QED
    BY <2>1, <2>2, <2>3, <2>4, <2>5, <2>6, <2>7 DEF Next
<1> QED
  BY <1>1, BlockInitInv, PTL DEF Spec

\* Type correctness of the workers, the reloads and the cache between them.
THEOREM BlockTypeCorrect == Spec => []BlockTypeOK
<1>1. BlockInv => BlockTypeOK
  BY DEF BlockInv, CacheInv, WorldTypeOK, BlockTypeOK
<1> QED
  BY <1>1, BlockInvariance, PTL

\* Every decision taken or cached is some installed database's answer for
\* the address it is used for, whatever workers and reloads interleave.
THEOREM DecisionsAreNotInvented == Spec => []NoInventedDecision
<1>1. BlockInv => NoInventedDecision
  BY DEF BlockInv, DecisionsPublished
<1> QED
  BY <1>1, BlockInvariance, PTL

\* A destination that stays on the allowlist is never blocked, not even by a
\* decision cached before it was listed.
THEOREM AllowlistAlwaysWins == Spec => []AllowlistWins
<1>1. BlockInv => AllowlistWins
  BY DEF BlockInv, ListedLetThrough, AllowlistWins
<1> QED
  BY <1>1, BlockInvariance, PTL

-----------------------------------------------------------------------------
\* BlockDecision implements Filter.

\* startup gives Filter its initial state.
LEMMA FilterInitially == Init => F!FilterInit
<1> SUFFICES ASSUME Init PROVE F!FilterInit
  OBVIOUS
<1>1. published = {{}} /\ allow \in SUBSET IPs
  BY BlockAssumption DEF Init
<1>2. Packets = [w \in Threads |-> Idle]
  BY DEF Init, IdleWork, Packets, PacketOf
<1> QED
  BY <1>1, <1>2 DEF F!FilterInit

\* A worker that changes its own record moves its own packet.
LEMMA PacketMoves ==
  ASSUME WorldTypeOK, NEW w \in Threads, NEW v, MovesTo(w, v)
  PROVE  /\ Packets[w] = PacketOf(work[w])
         /\ Packets' = [Packets EXCEPT ![w] = PacketOf(v)]
  BY DEF WorldTypeOK, MovesTo, Packets

\* Filter sees nothing of a step between the allowlist and the verdict.
LEMMA OutOfSight ==
  ASSUME WorldTypeOK, NEW w \in Threads, NEW v, MovesTo(w, v),
         PacketOf(v) = PacketOf(work[w]), UnchangedWorld
  PROVE  UNCHANGED F!filterVars
<1>1. Packets' = Packets
  BY DEF WorldTypeOK, MovesTo, Packets
<1> QED
  BY <1>1 DEF F!filterVars, UnchangedWorld

\* Pick is Take.
LEMMA PickTakes ==
  ASSUME BlockInv, NEW w \in Threads, NEW a \in IPs, Pick(w, a)
  PROVE  F!Take(w, a)
<1> DEFINE b == a \in allow
           v == [IdleWork EXCEPT !.pc = "picked", !.ip = a, !.listed = b]
<1>1. WorldTypeOK /\ MovesTo(w, v) /\ work[w].pc = "idle" /\ UnchangedWorld
  BY DEF BlockInv, Pick, MovesTo
<1>2. PacketOf(v) = F!At(a, "taken") /\ PacketOf(work[w]) = Idle
  BY <1>1 DEF IdleWork, PacketOf, Stage, F!At
<1> HIDE DEF v
<1> QED
  BY <1>1, <1>2, PacketMoves DEF F!Take, UnchangedWorld

\* The check of the allowlist spares the packet or makes it a suspect.
LEMMA CheckSorts ==
  ASSUME BlockInv, NEW w \in Threads, CheckAllowlist(w)
  PROVE  F!Spare(w) \/ F!Suspect(w)
<1> DEFINE k == work[w]
<1>1. /\ WorldTypeOK /\ k \in Work /\ k.ip \in IPs /\ k.pc = "picked" /\ UnchangedWorld
      /\ work \in [Threads -> Work]
  BY DEF BlockInv, WorldTypeOK, CheckAllowlist, Work
<1>2. PacketOf(k) = F!At(k.ip, "taken")
  BY <1>1 DEF PacketOf, Stage, F!At
<1>3. CASE OnAllowlist(k.ip) /\ Decide(w, FALSE, "allowlist")
  <2> DEFINE v == [k EXCEPT !.pc = "verdict", !.blocked = FALSE, !.via = "allowlist"]
  <2>1. MovesTo(w, v)
    BY <1>1, <1>3 DEF MovesTo, Decide
  <2>2. PacketOf(v) = F!At(k.ip, "passed")
    BY <1>1 DEF PacketOf, Stage, F!At, Work
  <2> HIDE DEF v
  <2>3. F!Advance(w, k.ip, "taken", "passed")
    BY <1>1, <1>2, <2>1, <2>2, PacketMoves DEF F!Advance
  <2> QED
    BY <1>1, <1>3, <2>3 DEF OnAllowlist, F!Spare, UnchangedWorld
<1>4. CASE ~OnAllowlist(k.ip) /\ GoTo(w, "lookup")
  <2> DEFINE v == [k EXCEPT !.pc = "lookup"]
  <2>1. MovesTo(w, v)
    BY <1>1, <1>4 DEF MovesTo, GoTo
  <2>2. PacketOf(v) = F!At(k.ip, "suspect")
    BY <1>1 DEF PacketOf, Stage, F!At, Work
  <2> HIDE DEF v
  <2>3. F!Advance(w, k.ip, "taken", "suspect")
    BY <1>1, <1>2, <2>1, <2>2, PacketMoves DEF F!Advance
  <2> QED
    BY <1>1, <1>4, <2>3 DEF OnAllowlist, F!Suspect, UnchangedWorld
<1> QED
  BY <1>3, <1>4 DEF CheckAllowlist

\* A verdict that agrees with an installed database is a judgement.
LEMMA VerdictJudges ==
  ASSUME BlockInv, NEW w \in Threads, NEW b \in BOOLEAN, NEW via,
         work[w].pc \in {"getting", "setting"}, Decide(w, b, via),
         Published(work[w].ip, b), UnchangedWorld
  PROVE  F!Judge(w)
<1> DEFINE k == work[w]
           v == [k EXCEPT !.pc = "verdict", !.blocked = b, !.via = via]
<1>1. WorldTypeOK /\ k \in Work /\ k.ip \in IPs /\ MovesTo(w, v)
  BY DEF BlockInv, WorldTypeOK, Work, MovesTo, Decide
<1>2. PICK d \in published : b = (k.ip \in d)
  BY DEF Published
<1>3. PacketOf(k) = F!At(k.ip, "suspect")
  BY DEF PacketOf, Stage, F!At
<1>4. v.pc = "verdict" /\ v.ip = k.ip /\ v.blocked = b
  BY <1>1 DEF Work
<1> HIDE DEF v
<1>5. PacketOf(v) = F!At(k.ip, IF k.ip \in d THEN "blocked" ELSE "passed")
  BY <1>2, <1>4 DEF PacketOf, Stage, F!At
<1>6. F!Advance(w, k.ip, "suspect", IF k.ip \in d THEN "blocked" ELSE "passed")
  BY <1>1, <1>3, <1>5, PacketMoves DEF F!Advance
<1> QED
  BY <1>1, <1>6 DEF F!Judge, UnchangedWorld

\* Get answers with a judgement or with nothing Filter sees.
LEMMA FinishGetJudges ==
  ASSUME BlockInv, NEW w \in Threads, FinishGet(w)
  PROVE  F!Judge(w) \/ UNCHANGED F!filterVars
<1>1. /\ WorldTypeOK /\ work \in [Threads -> Work] /\ work[w] \in Work
      /\ work[w].pc = "getting" /\ call[w].ip = work[w].ip /\ UnchangedWorld
  BY DEF BlockInv, WorldTypeOK, FinishGet, CallsFollowWork
<1>2. CASE Hit(w) /\ Decide(w, HitDecision(w), "cache")
  <2>1. work[w].ip \in Keys /\ entries[work[w].ip] \in Entry
    BY <1>1, <1>2 DEF BlockInv, Hit, Fresh, Keys, Work, CacheInv, CacheTypeOK
  <2>2. HitDecision(w) \in BOOLEAN /\ Published(work[w].ip, HitDecision(w))
    BY <2>1 DEF BlockInv, HitDecision, Entry, DecisionsPublished, NoInventedDecision
  <2> QED
    BY <1>1, <1>2, <2>2, VerdictJudges
<1>3. CASE ~Hit(w) /\ GoTo(w, "missed")
  <2> DEFINE v == [work[w] EXCEPT !.pc = "missed"]
  <2>1. MovesTo(w, v) /\ PacketOf(v) = PacketOf(work[w])
    BY <1>1, <1>3 DEF GoTo, MovesTo, PacketOf, Stage, Work
  <2> HIDE DEF v
  <2> QED
    BY <1>1, <2>1, OutOfSight
<1> QED
  BY <1>2, <1>3 DEF FinishGet

\* After Set the database's answer is the judgement.
LEMMA FinishSetJudges ==
  ASSUME BlockInv, NEW w \in Threads, FinishSet(w)
  PROVE  F!Judge(w)
<1>1. /\ work[w].blocked \in BOOLEAN /\ Published(work[w].ip, work[w].blocked)
      /\ work[w].pc = "setting" /\ UnchangedWorld
  BY DEF BlockInv, WorldTypeOK, Work, FinishSet, DecisionsPublished, NoInventedDecision
<1> QED
  BY <1>1, VerdictJudges DEF FinishSet

\* Reading the database, and the beginnings of Get and Set, are out of sight.
LEMMA LookupOutOfSight ==
  ASSUME BlockInv, NEW w \in Threads, StartGet(w) \/ LoadDatabase(w) \/ StartSet(w)
  PROVE  UNCHANGED F!filterVars
<1>1. WorldTypeOK /\ work[w] \in Work /\ UnchangedWorld
  BY DEF BlockInv, WorldTypeOK, StartGet, LoadDatabase, StartSet
<1>2. \E v : MovesTo(w, v) /\ PacketOf(v) = PacketOf(work[w])
  <2>1. CASE StartGet(w)
    <3> DEFINE v == [work[w] EXCEPT !.pc = "getting"]
    <3>1. MovesTo(w, v) /\ PacketOf(v) = PacketOf(work[w])
      BY <1>1, <2>1 DEF StartGet, GoTo, MovesTo, PacketOf, Stage, Work
    <3> QED
      BY <3>1
  <2>2. CASE LoadDatabase(w)
    <3> DEFINE b == work[w].ip \in db
               v == [work[w] EXCEPT !.pc = "loaded", !.blocked = b]
    <3>1. MovesTo(w, v) /\ work[w].pc = "missed"
      BY <2>2 DEF LoadDatabase, MovesTo
    <3>2. v.pc = "loaded" /\ v.ip = work[w].ip
      BY <1>1 DEF Work
    <3> HIDE DEF v
    <3>3. PacketOf(v) = PacketOf(work[w])
      BY <3>1, <3>2 DEF PacketOf, Stage
    <3> QED
      BY <3>1, <3>3
  <2>3. CASE StartSet(w)
    <3> DEFINE v == [work[w] EXCEPT !.pc = "setting"]
    <3>1. MovesTo(w, v) /\ PacketOf(v) = PacketOf(work[w])
      BY <1>1, <2>3 DEF StartSet, GoTo, MovesTo, PacketOf, Stage, Work
    <3> QED
      BY <3>1
  <2> QED
    BY <2>1, <2>2, <2>3
<1> QED
  BY <1>1, <1>2, OutOfSight

\* Return is Finish.
LEMMA ReturnFinishes ==
  ASSUME BlockInv, NEW w \in Threads, Return(w)
  PROVE  F!Finish(w)
<1>1. /\ WorldTypeOK /\ work[w].ip \in IPs /\ work[w].pc = "verdict"
      /\ MovesTo(w, IdleWork) /\ UnchangedWorld
  BY DEF BlockInv, WorldTypeOK, Work, Return, MovesTo
<1>2. PacketOf(IdleWork) = Idle
  BY DEF PacketOf, IdleWork
<1>3. PacketOf(work[w]) \in {F!At(work[w].ip, "blocked"), F!At(work[w].ip, "passed")}
  BY <1>1 DEF PacketOf, Stage, F!At
<1> QED
  BY <1>1, <1>2, <1>3, PacketMoves DEF F!Finish, UnchangedWorld

\* The first half of a reload is out of sight, the second is Install.
LEMMA ReloadInstalls ==
  ASSUME BlockInv
  PROVE  /\ \A r \in Reloaders, d \in Databases : ClearCache(r, d) => UNCHANGED F!filterVars
         /\ \A r \in Reloaders : StoreDatabase(r) => \E d \in SUBSET IPs : F!Install(d)
<1>1. ASSUME NEW r \in Reloaders, NEW d \in Databases, ClearCache(r, d)
      PROVE  UNCHANGED F!filterVars
  BY <1>1 DEF ClearCache, Packets, F!filterVars
<1>2. ASSUME NEW r \in Reloaders, StoreDatabase(r)
      PROVE  \E d \in SUBSET IPs : F!Install(d)
  <2>1. PICK d \in reload[r] : published' = published \cup {d}
    BY <1>2 DEF StoreDatabase
  <2>2. d \in SUBSET IPs
    BY DEF BlockInv, WorldTypeOK
  <2> QED
    BY <1>2, <2>1, <2>2 DEF StoreDatabase, Packets, F!Install
<1> QED
  BY <1>1, <1>2

\* A refresh touches no packet.
LEMMA RefreshRefreshes ==
  ASSUME BlockInv, NEW s \in AllowSets, RefreshAllowlist(s)
  PROVE  s \in SUBSET IPs /\ F!Refresh(s)
<1>1. \A w \in Threads : PacketOf(work'[w]) = PacketOf(work[w])
  <2> SUFFICES ASSUME NEW w \in Threads PROVE PacketOf(work'[w]) = PacketOf(work[w])
    OBVIOUS
  <2> DEFINE b == work[w].listed /\ work[w].ip \in s
             v == [work[w] EXCEPT !.listed = b]
  <2>1. work[w] \in Work /\ work'[w] = v
    BY DEF BlockInv, WorldTypeOK, RefreshAllowlist
  <2>2. v.pc = work[w].pc /\ v.ip = work[w].ip /\ v.blocked = work[w].blocked
    BY <2>1 DEF Work
  <2> HIDE DEF v
  <2> QED
    BY <2>1, <2>2 DEF PacketOf, Stage
<1>2. Packets' = Packets
  BY <1>1 DEF Packets
<1> QED
  BY <1>2, BlockAssumption DEF RefreshAllowlist, F!Refresh

\* Every step of the workers, the reloads, the refreshes and the clock is a
\* step of Filter or changes nothing that Filter sees.
LEMMA StepRefines == BlockInv /\ [Next]_vars => [F!FilterNext]_(F!filterVars)
<1> SUFFICES ASSUME BlockInv, [Next]_vars PROVE [F!FilterNext]_(F!filterVars)
  OBVIOUS
<1>1. CASE \E w \in Threads, a \in IPs : Pick(w, a)
  BY <1>1, PickTakes DEF F!FilterNext
<1>2. CASE \E w \in Threads : Decision(w)
  <2>1. PICK w \in Threads : Decision(w)
    BY <1>2
  <2>2. F!Spare(w) \/ F!Suspect(w) \/ F!Judge(w) \/ F!Finish(w) \/ UNCHANGED F!filterVars
    BY <2>1, CheckSorts, FinishGetJudges, FinishSetJudges, LookupOutOfSight, ReturnFinishes
       DEF Decision
  <2> QED
    BY <2>2 DEF F!FilterNext
<1>3. CASE \E r \in Reloaders, d \in Databases : ClearCache(r, d)
  BY <1>3, ReloadInstalls
<1>4. CASE \E r \in Reloaders : StoreDatabase(r)
  BY <1>4, ReloadInstalls DEF F!FilterNext
<1>5. CASE \E s \in AllowSets : RefreshAllowlist(s)
  BY <1>5, RefreshRefreshes DEF F!FilterNext
<1>6. CASE TimePasses
  BY <1>6 DEF TimePasses, UnchangedWorld, Packets, F!filterVars
<1>7. CASE UNCHANGED vars
  BY <1>7 DEF vars, Packets, F!filterVars
<1> QED
  BY <1>1, <1>2, <1>3, <1>4, <1>5, <1>6, <1>7 DEF Next

\* For any number of workers and any lists, shouldBlock with its cache and
\* its unlocked steps is the atomic filter: the allowlist first, then one
\* judgement by one installed list, for the packet's own destination.
THEOREM FilterImplemented == Spec => ImplementsFilter
<1> QED
  BY FilterInitially, StepRefines, BlockInvariance, PTL
     DEF Spec, ImplementsFilter, F!FilterSpec

-----------------------------------------------------------------------------
(***************************************************************************)
(* MergeRanges and Contains, for every width of address and every sorted   *)
(* list of ranges of which only the last ends at MaxIP.  MergeInv is the   *)
(* invariant of MergeRanges' loop, SearchInv that of the binary search.    *)
(***************************************************************************)

InputOK == sorted \in Seq(IPRange) /\ SortedByStart(sorted) /\ NoWrap(sorted)

\* The loop has consumed sorted[1 .. next-1]; merged is what they come to.
MergeInv ==
  /\ merged \in Seq(IPRange)
  /\ next \in Nat /\ next >= 2
  /\ sorted = <<>> => merged = <<>>
  /\ sorted # <<>> => merged # <<>> /\ next <= Len(sorted) + 1
  /\ SortedNonOverlapping
  /\ \A k \in DOMAIN merged, i \in DOMAIN sorted : i >= next => merged[k].Start <= sorted[i].Start
  /\ \A k \in DOMAIN merged : \E i \in DOMAIN sorted : i < next /\ merged[k].End = sorted[i].End
  /\ \A a \in Addresses : Covers(merged, a) <=> \E i \in DOMAIN sorted : i < next /\ In(a, sorted[i])
  /\ pc # "merge" => next > Len(sorted)

\* Every range left of lo ends before ip, every range right of hi starts
\* after it.
SearchInv ==
  /\ ip \in Addresses
  /\ lo \in 0 .. Len(merged) /\ hi \in -1 .. Len(merged) - 1
  /\ pc \in {"merge", "ready", "search", "found", "missing"}
  /\ pc \in {"search", "missing"} =>
       \A k \in DOMAIN merged : /\ k <= lo => merged[k].End < ip
                                /\ k > hi + 1 => ip < merged[k].Start
  /\ pc = "found" => Covers(merged, ip)
  /\ pc = "missing" => lo > hi

RangeInv == sorted \in Inputs /\ InputOK /\ MergeInv /\ SearchInv

\* The range that MergeRanges compares with: its end does not wrap.
LEMMA LastEndBelowMax ==
  ASSUME InputOK, MergeInv, next \in DOMAIN sorted
  PROVE  /\ merged # <<>> /\ Len(merged) \in DOMAIN merged /\ Last \in IPRange
         /\ Last.End < MaxIP /\ Succ(Last.End) = Last.End + 1
<1>1. merged # <<>> /\ Len(merged) \in DOMAIN merged /\ Last \in IPRange
  BY DEF InputOK, MergeInv, Last
<1>2. PICK i \in DOMAIN sorted : i < next /\ Last.End = sorted[i].End
  BY <1>1 DEF MergeInv, Last
<1>3. Last.End # MaxIP
  BY <1>2 DEF InputOK, NoWrap
<1>4. Last.End \in 0 .. MaxIP /\ MaxIP \in Nat
  BY <1>1, RangeAssumption DEF IPRange, Addresses
<1>5. Last.End < MaxIP
  BY <1>3, <1>4
<1>6. Succ(Last.End) = Last.End + 1
  BY <1>4, <1>5 DEF Succ
<1> QED
  BY <1>1, <1>5, <1>6

\* What is known of the range r that the loop looks at.
LEMMA NextRange ==
  ASSUME InputOK, MergeInv, next \in DOMAIN sorted
  PROVE  /\ sorted[next] \in IPRange
         /\ \A k \in DOMAIN merged : merged[k].Start <= sorted[next].Start
         /\ \A i \in DOMAIN sorted : i >= next + 1 => sorted[next].Start <= sorted[i].Start
         /\ \A i \in DOMAIN sorted : i < next + 1 <=> i < next \/ i = next
<1>1. sorted[next] \in IPRange
  BY DEF InputOK
<1>2. next \in Nat /\ \A k \in DOMAIN merged : merged[k].Start <= sorted[next].Start
  BY DEF MergeInv
<1>3. \A i \in DOMAIN sorted : i >= next + 1 => sorted[next].Start <= sorted[i].Start
  BY <1>2 DEF InputOK, SortedByStart
<1>4. \A i \in DOMAIN sorted : i < next + 1 <=> i < next \/ i = next
  BY <1>2 DEF InputOK
<1> QED
  BY <1>1, <1>2, <1>3, <1>4

\* Startup.
LEMMA RangeInitInv == SafeInit => RangeInv
<1> SUFFICES ASSUME RangeInit, NoWrap(sorted) PROVE RangeInv
  BY DEF SafeInit
<1>1. sorted \in Inputs /\ InputOK
  BY RangeAssumption DEF RangeInit, InputOK
<1>2. SearchInv
  <2>1. Len(merged) \in Nat
    BY <1>1 DEF RangeInit, InputOK
  <2> QED
    BY <2>1, RangeAssumption DEF RangeInit, SearchInv, Addresses
<1>3. MergeInv
  <2>1. CASE sorted = <<>>
    BY <1>1, <2>1 DEF RangeInit, MergeInv, SortedNonOverlapping, Covers
  <2>2. CASE sorted # <<>>
    <3>1. /\ 1 \in DOMAIN sorted /\ sorted[1] \in IPRange /\ Len(sorted) >= 1
          /\ merged = <<sorted[1]>> /\ next = 2 /\ pc = "merge"
      BY <1>1, <2>2 DEF RangeInit, InputOK
    <3>2. merged \in Seq(IPRange) /\ DOMAIN merged = {1} /\ merged[1] = sorted[1]
      BY <3>1
    <3>3. SortedNonOverlapping
      BY <3>2 DEF SortedNonOverlapping
    <3>4. \A i \in DOMAIN sorted : sorted[1].Start <= sorted[i].Start
      BY <1>1, <3>1 DEF InputOK, SortedByStart, IPRange, Addresses
    <3>5. \A i \in DOMAIN sorted : i < 2 <=> i = 1
      BY <1>1, <3>1 DEF InputOK
    <3>6. \A a \in Addresses : Covers(merged, a) <=> \E i \in DOMAIN sorted : i < next /\ In(a, sorted[i])
      BY <3>1, <3>2, <3>5 DEF Covers
    <3>7. \A k \in DOMAIN merged : \E i \in DOMAIN sorted : i < next /\ merged[k].End = sorted[i].End
      BY <3>1, <3>2
    <3>8. \A k \in DOMAIN merged, i \in DOMAIN sorted : i >= next => merged[k].Start <= sorted[i].Start
      BY <3>2, <3>4
    <3>9. merged # <<>> /\ next <= Len(sorted) + 1 /\ next \in Nat /\ next >= 2
      BY <1>1, <3>1 DEF InputOK
    <3> QED
      BY <2>2, <3>1, <3>2, <3>3, <3>6, <3>7, <3>8, <3>9 DEF MergeInv
  <2> QED
    BY <2>1, <2>2
<1> QED
  BY <1>1, <1>2, <1>3 DEF RangeInv

\* Joining r to the last range keeps the list apart and covers r as well.
LEMMA MergeJoinInv ==
  ASSUME RangeInv, MergeJoin
  PROVE  RangeInv'
<1> DEFINE n == Len(merged)
           r == sorted[next]
           m == [Start |-> Last.Start, End |-> LargerEnd(r)]
<1> USE DEF RangeInv
<1>1. /\ InputOK /\ MergeInv /\ pc = "merge" /\ next \in DOMAIN sorted
      /\ next <= Len(sorted) /\ r.Start <= Succ(Last.End)
      /\ merged' = [merged EXCEPT ![n] = m] /\ next' = next + 1
      /\ UNCHANGED <<sorted, ip, lo, hi, pc>>
  BY DEF MergeJoin, Joins, MergeInv, InputOK
<1>2. /\ merged # <<>> /\ n \in DOMAIN merged /\ Last \in IPRange
      /\ Last.End < MaxIP /\ Succ(Last.End) = Last.End + 1
  BY <1>1, LastEndBelowMax
<1>3. /\ r \in IPRange
      /\ \A k \in DOMAIN merged : merged[k].Start <= r.Start
      /\ \A i \in DOMAIN sorted : i >= next + 1 => r.Start <= sorted[i].Start
      /\ \A i \in DOMAIN sorted : i < next + 1 <=> i < next \/ i = next
  BY <1>1, NextRange
<1>4. /\ Last = merged[n] /\ merged \in Seq(IPRange) /\ n \in Nat /\ MaxIP \in Nat
      /\ \A k \in DOMAIN merged : k \in Nat /\ k <= n
  BY <1>1, RangeAssumption DEF MergeInv, Last
<1>5. m \in IPRange /\ m.Start = Last.Start /\ m.End = LargerEnd(r)
  BY <1>2, <1>3 DEF IPRange, LargerEnd
<1> HIDE DEF m
<1>6. /\ merged' \in Seq(IPRange) /\ DOMAIN merged' = DOMAIN merged /\ Len(merged') = n
      /\ \A k \in DOMAIN merged : merged'[k] = IF k = n THEN m ELSE merged[k]
      /\ merged' # <<>>
  BY <1>1, <1>2, <1>4, <1>5
<1>7. \A a \in Addresses : In(a, m) <=> In(a, Last) \/ In(a, r)
  BY <1>1, <1>2, <1>3, <1>4, <1>5 DEF In, LargerEnd, IPRange, Addresses
<1>8. SortedNonOverlapping'
  BY <1>1, <1>4, <1>5, <1>6 DEF MergeInv, SortedNonOverlapping
<1>9. \A k \in DOMAIN merged', i \in DOMAIN sorted : i >= next + 1 => merged'[k].Start <= sorted[i].Start
  BY <1>1, <1>2, <1>3, <1>4, <1>5, <1>6 DEF MergeInv
<1>10. \A k \in DOMAIN merged' : \E i \in DOMAIN sorted : i < next + 1 /\ merged'[k].End = sorted[i].End
  BY <1>1, <1>2, <1>3, <1>4, <1>5, <1>6 DEF MergeInv, LargerEnd
<1>11. \A a \in Addresses : Covers(merged', a) <=> Covers(merged, a) \/ In(a, r)
  BY <1>2, <1>4, <1>6, <1>7 DEF Covers
<1>12. \A a \in Addresses : Covers(merged', a) <=> \E i \in DOMAIN sorted : i < next + 1 /\ In(a, sorted[i])
  BY <1>1, <1>3, <1>11 DEF MergeInv
<1>13. MergeInv'
  BY <1>1, <1>6, <1>8, <1>9, <1>10, <1>12 DEF MergeInv, Covers
<1>14. SearchInv'
  BY <1>1, <1>4, <1>6 DEF SearchInv
<1>15. InputOK'
  BY <1>1 DEF InputOK, SortedByStart, NoWrap
<1> QED
  BY <1>1, <1>13, <1>14, <1>15

\* A range that starts beyond the last one is appended.
LEMMA MergeAppendInv ==
  ASSUME RangeInv, MergeAppend
  PROVE  RangeInv'
<1> DEFINE n == Len(merged)
           r == sorted[next]
<1> USE DEF RangeInv
<1>1. /\ InputOK /\ MergeInv /\ pc = "merge" /\ next \in DOMAIN sorted
      /\ next <= Len(sorted) /\ ~(r.Start <= Succ(Last.End))
      /\ merged' = Append(merged, r) /\ next' = next + 1
      /\ UNCHANGED <<sorted, ip, lo, hi, pc>>
  BY DEF MergeAppend, Joins, MergeInv, InputOK
<1>2. /\ merged # <<>> /\ n \in DOMAIN merged /\ Last \in IPRange
      /\ Last.End < MaxIP /\ Succ(Last.End) = Last.End + 1
  BY <1>1, LastEndBelowMax
<1>3. /\ r \in IPRange
      /\ \A k \in DOMAIN merged : merged[k].Start <= r.Start
      /\ \A i \in DOMAIN sorted : i >= next + 1 => r.Start <= sorted[i].Start
      /\ \A i \in DOMAIN sorted : i < next + 1 <=> i < next \/ i = next
  BY <1>1, NextRange
<1>4. /\ Last = merged[n] /\ merged \in Seq(IPRange) /\ n \in Nat /\ MaxIP \in Nat
      /\ \A k \in DOMAIN merged : k \in Nat /\ k <= n /\ merged[k] \in IPRange
  BY <1>1, RangeAssumption DEF MergeInv, Last
<1>5. /\ merged' \in Seq(IPRange) /\ Len(merged') = n + 1 /\ merged' # <<>>
      /\ \A k \in DOMAIN merged' : k \in DOMAIN merged \/ k = n + 1
      /\ \A k \in DOMAIN merged : k \in DOMAIN merged' /\ merged'[k] = merged[k]
      /\ n + 1 \in DOMAIN merged' /\ merged'[n + 1] = r
  BY <1>1, <1>3, <1>4
<1> HIDE DEF r
<1>6. \A k \in DOMAIN merged : merged[k].End + 1 < r.Start
  <2> SUFFICES ASSUME NEW k \in DOMAIN merged PROVE merged[k].End + 1 < r.Start
    OBVIOUS
  <2>1. Last.End + 1 < r.Start
    BY <1>1, <1>2, <1>3 DEF IPRange, Addresses
  <2>2. CASE k = n
    BY <1>4, <2>1, <2>2
  <2>3. CASE k < n
    <3>1. merged[k].End + 1 < Last.Start /\ Last.Start <= r.Start
      BY <1>1, <1>2, <1>3, <1>4, <2>3 DEF MergeInv, SortedNonOverlapping
    <3> QED
      BY <1>2, <1>3, <1>4, <3>1 DEF IPRange, Addresses
  <2> QED
    BY <1>4, <2>2, <2>3
<1>7. SortedNonOverlapping'
  <2> SUFFICES ASSUME NEW i \in DOMAIN merged', NEW j \in DOMAIN merged', i < j
               PROVE  merged'[i].Start <= merged'[j].Start /\ merged'[i].End + 1 < merged'[j].Start
    BY DEF SortedNonOverlapping
  <2>1. i \in DOMAIN merged
    BY <1>4, <1>5
  <2>2. CASE j \in DOMAIN merged
    BY <1>1, <1>5, <2>1, <2>2 DEF MergeInv, SortedNonOverlapping
  <2>3. CASE j = n + 1
    BY <1>3, <1>5, <1>6, <2>1, <2>3
  <2> QED
    BY <1>5, <2>2, <2>3
<1>8. \A k \in DOMAIN merged', i \in DOMAIN sorted : i >= next + 1 => merged'[k].Start <= sorted[i].Start
  <2> SUFFICES ASSUME NEW k \in DOMAIN merged', NEW i \in DOMAIN sorted, i >= next + 1
               PROVE  merged'[k].Start <= sorted[i].Start
    OBVIOUS
  <2>1. CASE k = n + 1
    BY <1>3, <1>5, <2>1
  <2>2. CASE k \in DOMAIN merged
    <3>1. i >= next
      BY <1>1 DEF MergeInv, InputOK
    <3> QED
      BY <1>1, <1>5, <2>2, <3>1 DEF MergeInv
  <2> QED
    BY <1>5, <2>1, <2>2
<1>9. \A k \in DOMAIN merged' : \E i \in DOMAIN sorted : i < next + 1 /\ merged'[k].End = sorted[i].End
  BY <1>1, <1>3, <1>5 DEF MergeInv, r
<1>10. \A a \in Addresses : Covers(merged', a) <=> Covers(merged, a) \/ In(a, r)
  BY <1>5 DEF Covers
<1>11. \A a \in Addresses : Covers(merged', a) <=> \E i \in DOMAIN sorted : i < next + 1 /\ In(a, sorted[i])
  BY <1>1, <1>3, <1>10 DEF MergeInv, r
<1>12. next' \in Nat /\ next' >= 2 /\ next' <= Len(sorted) + 1 /\ sorted # <<>>
  BY <1>1 DEF MergeInv, InputOK
<1>13. MergeInv'
  BY <1>1, <1>5, <1>7, <1>8, <1>9, <1>11, <1>12 DEF MergeInv, Covers
<1>14. SearchInv'
  BY <1>1, <1>4, <1>5 DEF SearchInv
<1>15. InputOK'
  BY <1>1 DEF InputOK, SortedByStart, NoWrap
<1> QED
  BY <1>1, <1>13, <1>14, <1>15

-----------------------------------------------------------------------------

\* The steps of Contains leave the list alone.
LEMMA MergeInvKept ==
  ASSUME RangeInv, UNCHANGED <<sorted, merged, next>>, pc # "merge"
  PROVE  (sorted \in Inputs)' /\ InputOK' /\ MergeInv'
  BY DEF RangeInv, InputOK, SortedByStart, NoWrap, MergeInv, SortedNonOverlapping, Covers

\* The fields of the ranges in the list are numbers.
LEMMA MergedNumbers ==
  ASSUME merged \in Seq(IPRange), NEW k \in DOMAIN merged
  PROVE  k \in Nat /\ merged[k].Start \in Nat /\ merged[k].End \in Nat
<1>1. k \in Nat /\ merged[k] \in IPRange
  OBVIOUS
<1>2. \A a \in Addresses : a \in Nat
  BY RangeAssumption DEF Addresses
<1> QED
  BY <1>1, <1>2 DEF IPRange

\* What the search knows of the range in the middle.
LEMMA MiddleRange ==
  ASSUME RangeInv, pc = "search", lo <= hi
  PROVE  /\ Mid \in Nat /\ lo <= Mid /\ Mid <= hi
         /\ Mid + 1 \in DOMAIN merged
         /\ merged \in Seq(IPRange)
         /\ \A k \in DOMAIN merged :
              /\ k < Mid + 1 => merged[k].End < merged[Mid + 1].Start
              /\ k > Mid + 1 => merged[Mid + 1].Start <= merged[k].Start
<1>1. merged \in Seq(IPRange) /\ SortedNonOverlapping
  BY DEF RangeInv, MergeInv
<1>2. lo \in Nat /\ hi \in Int /\ hi <= Len(merged) - 1 /\ Len(merged) \in Nat
  BY <1>1 DEF RangeInv, SearchInv
<1>3. Mid \in Nat /\ lo <= Mid /\ Mid <= hi
  BY <1>2 DEF Mid
<1>4. Mid + 1 \in DOMAIN merged
  BY <1>1, <1>2, <1>3
<1>5. \A k \in DOMAIN merged : /\ k \in Nat /\ merged[k].Start \in Nat /\ merged[k].End \in Nat
  BY <1>1, MergedNumbers
<1>6. \A k \in DOMAIN merged :
        /\ k < Mid + 1 => merged[k].End < merged[Mid + 1].Start
        /\ k > Mid + 1 => merged[Mid + 1].Start <= merged[k].Start
  <2> SUFFICES ASSUME NEW k \in DOMAIN merged
               PROVE  /\ k < Mid + 1 => merged[k].End < merged[Mid + 1].Start
                      /\ k > Mid + 1 => merged[Mid + 1].Start <= merged[k].Start
    OBVIOUS
  <2>1. k < Mid + 1 => merged[k].End + 1 < merged[Mid + 1].Start
    BY <1>1, <1>4 DEF SortedNonOverlapping
  <2>2. k > Mid + 1 => merged[Mid + 1].Start <= merged[k].Start
    BY <1>1, <1>4 DEF SortedNonOverlapping
  <2> QED
    BY <1>4, <1>5, <2>1, <2>2
<1> QED
  BY <1>1, <1>3, <1>4, <1>6

\* ip lies before the middle range, so before all to its right.
LEMMA SearchLeftInv == ASSUME RangeInv, SearchLeft PROVE RangeInv'
<1>1. /\ pc = "search" /\ lo <= hi /\ ip < merged[Mid + 1].Start /\ hi' = Mid - 1
      /\ UNCHANGED <<sorted, merged, next, ip, lo, pc>>
  BY DEF SearchLeft
<1>2. /\ Mid \in Nat /\ lo <= Mid /\ Mid <= hi /\ Mid + 1 \in DOMAIN merged
      /\ merged \in Seq(IPRange)
      /\ \A k \in DOMAIN merged : k > Mid + 1 => merged[Mid + 1].Start <= merged[k].Start
  BY <1>1, MiddleRange
<1>3. ip \in Int /\ hi \in Int /\ hi <= Len(merged) - 1 /\ Len(merged) \in Nat
  BY <1>2, RangeAssumption DEF RangeInv, SearchInv, Addresses
<1>4. \A k \in DOMAIN merged : k \in Int /\ merged[k].Start \in Int
  BY <1>2, MergedNumbers
<1>5. \A k \in DOMAIN merged : k > hi' + 1 => ip < merged[k].Start
  <2> SUFFICES ASSUME NEW k \in DOMAIN merged, k > hi' + 1 PROVE ip < merged[k].Start
    OBVIOUS
  <2>1. k = Mid + 1 \/ k > Mid + 1
    BY <1>1, <1>2, <1>4
  <2> QED
    BY <1>1, <1>2, <1>3, <1>4, <2>1
<1>6. SearchInv'
  BY <1>1, <1>2, <1>3, <1>5 DEF RangeInv, SearchInv
<1> QED
  BY <1>1, <1>6, MergeInvKept DEF RangeInv

\* ip lies beyond the middle range, so beyond all to its left.
LEMMA SearchRightInv == ASSUME RangeInv, SearchRight PROVE RangeInv'
<1>1. /\ pc = "search" /\ lo <= hi /\ ip >= merged[Mid + 1].Start /\ ip > merged[Mid + 1].End
      /\ lo' = Mid + 1
      /\ UNCHANGED <<sorted, merged, next, ip, hi, pc>>
  BY DEF SearchRight, Beyond, RightLo
<1>2. /\ Mid \in Nat /\ lo <= Mid /\ Mid <= hi /\ Mid + 1 \in DOMAIN merged
      /\ merged \in Seq(IPRange)
      /\ \A k \in DOMAIN merged : k < Mid + 1 => merged[k].End < merged[Mid + 1].Start
  BY <1>1, MiddleRange
<1>3. ip \in Int /\ hi \in Int /\ hi <= Len(merged) - 1 /\ Len(merged) \in Nat
  BY <1>2, RangeAssumption DEF RangeInv, SearchInv, Addresses
<1>4. \A k \in DOMAIN merged : k \in Int /\ merged[k].Start \in Int /\ merged[k].End \in Int
  BY <1>2, MergedNumbers
<1>5. \A k \in DOMAIN merged : k <= lo' => merged[k].End < ip
  <2> SUFFICES ASSUME NEW k \in DOMAIN merged, k <= lo' PROVE merged[k].End < ip
    OBVIOUS
  <2>1. k = Mid + 1 \/ k < Mid + 1
    BY <1>1, <1>2, <1>4
  <2> QED
    BY <1>1, <1>2, <1>3, <1>4, <2>1
<1>6. SearchInv'
  BY <1>1, <1>2, <1>3, <1>5 DEF RangeInv, SearchInv
<1> QED
  BY <1>1, <1>6, MergeInvKept DEF RangeInv

\* ip lies in the middle range.
LEMMA SearchFoundInv == ASSUME RangeInv, SearchFound PROVE RangeInv'
<1>1. /\ pc = "search" /\ lo <= hi /\ ip >= merged[Mid + 1].Start /\ ~(ip > merged[Mid + 1].End)
      /\ pc' = "found" /\ UNCHANGED <<sorted, merged, next, ip, lo, hi>>
  BY DEF SearchFound, Beyond
<1>2. Mid + 1 \in DOMAIN merged /\ merged \in Seq(IPRange)
  BY <1>1, MiddleRange
<1>3. In(ip, merged[Mid + 1])
  <2>1. merged[Mid + 1].Start \in Nat /\ merged[Mid + 1].End \in Nat
    BY <1>2, MergedNumbers
  <2>2. ip \in Nat
    BY RangeAssumption DEF Addresses, RangeInv, SearchInv
  <2> QED
    BY <1>1, <2>1, <2>2 DEF In
<1>4. Covers(merged, ip)
  BY <1>2, <1>3 DEF Covers
<1>5. SearchInv'
  BY <1>1, <1>4 DEF RangeInv, SearchInv, Covers
<1> QED
  BY <1>1, <1>5, MergeInvKept DEF RangeInv

\* The other steps of Contains: its call, its negative answer, its return.
LEMMA ContainsOtherInv ==
  ASSUME RangeInv,
         MergeReturn \/ (\E a \in Addresses : ContainsCall(a)) \/ SearchMissing \/ ContainsReturn
  PROVE  RangeInv'
<1>1. merged \in Seq(IPRange) /\ Len(merged) \in Nat
      /\ \A k \in DOMAIN merged : k \in Nat /\ k >= 1 /\ k <= Len(merged)
  BY DEF RangeInv, MergeInv
<1>2. 0 \in Addresses
  BY RangeAssumption DEF Addresses
<1>3. CASE MergeReturn
  <2>1. InputOK' /\ MergeInv'
    BY <1>3 DEF MergeReturn, RangeInv, InputOK, SortedByStart, NoWrap, MergeInv,
                SortedNonOverlapping, Covers
  <2>2. SearchInv'
    BY <1>3 DEF MergeReturn, RangeInv, SearchInv
  <2> QED
    BY <1>3, <2>1, <2>2 DEF RangeInv, MergeReturn
<1>4. CASE \E a \in Addresses : ContainsCall(a)
  <2>1. PICK a \in Addresses : ContainsCall(a)
    BY <1>4
  <2>2. SearchInv'
    BY <1>1, <2>1 DEF ContainsCall, LastIndex, SearchInv
  <2> QED
    BY <2>1, <2>2, MergeInvKept DEF ContainsCall, RangeInv
<1>5. CASE SearchMissing
  <2>1. SearchInv'
    BY <1>5 DEF SearchMissing, RangeInv, SearchInv
  <2> QED
    BY <1>5, <2>1, MergeInvKept DEF SearchMissing, RangeInv
<1>6. CASE ContainsReturn
  <2>1. SearchInv'
    BY <1>1, <1>2, <1>6 DEF ContainsReturn, SearchInv
  <2>2. pc # "merge" /\ UNCHANGED <<sorted, merged, next>>
    BY <1>6 DEF ContainsReturn
  <2> QED
    BY <2>1, <2>2, MergeInvKept DEF RangeInv
<1> QED
  BY <1>3, <1>4, <1>5, <1>6

-----------------------------------------------------------------------------

\* The invariant holds in every reachable state.
THEOREM RangeInvariance == SafeSpec => []RangeInv
<1>1. RangeInv /\ [RangeNext]_rangeVars => RangeInv'
  <2> SUFFICES ASSUME RangeInv, [RangeNext]_rangeVars PROVE RangeInv'
    OBVIOUS
  <2>1. CASE UNCHANGED rangeVars
    BY <2>1 DEF rangeVars, RangeInv, InputOK, SortedByStart, NoWrap, MergeInv, SearchInv,
                SortedNonOverlapping, Covers
  <2> QED
    BY <2>1, MergeJoinInv, MergeAppendInv, SearchLeftInv, SearchRightInv, SearchFoundInv,
       ContainsOtherInv DEF RangeNext
<1> QED
  BY <1>1, RangeInitInv, PTL DEF SafeSpec

\* Type correctness; the search never leaves the list.
THEOREM RangeTypeCorrect == SafeSpec => []RangeTypeOK
<1>1. RangeInv => RangeTypeOK
  BY DEF RangeInv, MergeInv, SearchInv, RangeTypeOK
<1> QED
  BY <1>1, RangeInvariance, PTL

\* MergeRanges keeps its list sorted, disjoint and with adjacent ranges joined.
THEOREM MergedRangesAreDisjoint == SafeSpec => []SortedNonOverlapping
<1>1. RangeInv => SortedNonOverlapping
  BY DEF RangeInv, MergeInv
<1> QED
  BY <1>1, RangeInvariance, PTL

\* When MergeRanges returns, its list covers just what its argument covered.
LEMMA CoverageFromInv == RangeInv => CoveragePreserved
<1> SUFFICES ASSUME RangeInv, pc # "merge", NEW a \in Addresses
             PROVE  Covers(merged, a) <=> Covers(sorted, a)
  BY DEF CoveragePreserved
<1>1. \A i \in DOMAIN sorted : i < next
  BY DEF RangeInv, MergeInv, InputOK
<1> QED
  BY <1>1 DEF RangeInv, MergeInv, Covers

\* MergeRanges neither loses nor invents an address.
THEOREM MergingPreservesCoverage == SafeSpec => []CoveragePreserved
  BY CoverageFromInv, RangeInvariance, PTL

\* Contains answers yes exactly for the addresses of the parsed ranges: when
\* the bounds have crossed, every range is left of lo or right of hi.
THEOREM ContainsIsMembership == SafeSpec => []ContainsCorrect
<1>1. RangeInv => ContainsCorrect
  <2> SUFFICES ASSUME RangeInv PROVE ContainsCorrect
    OBVIOUS
  <2>1. ip \in Addresses /\ merged \in Seq(IPRange)
    BY DEF RangeInv, SearchInv, MergeInv
  <2>2. pc # "merge" => (Covers(merged, ip) <=> Covers(sorted, ip))
    BY <2>1, CoverageFromInv DEF CoveragePreserved
  <2>3. ASSUME pc = "missing" PROVE ~Covers(merged, ip)
    <3> SUFFICES ASSUME NEW k \in DOMAIN merged, In(ip, merged[k]) PROVE FALSE
      BY DEF Covers
    <3>1. k \in Nat /\ merged[k].Start \in Nat /\ merged[k].End \in Nat /\ ip \in Nat
      BY <2>1, MergedNumbers, RangeAssumption DEF Addresses
    <3>2. lo > hi /\ lo \in Int /\ hi \in Int
      BY <2>1, <2>3 DEF RangeInv, SearchInv
    <3>3. k <= lo \/ k > hi + 1
      BY <3>1, <3>2
    <3>4. merged[k].End < ip \/ ip < merged[k].Start
      BY <2>3, <3>3 DEF RangeInv, SearchInv
    <3> QED
      BY <3>1, <3>4 DEF In
  <2>4. pc = "found" => Covers(merged, ip)
    BY DEF RangeInv, SearchInv
  <2> QED
    BY <2>2, <2>3, <2>4 DEF ContainsCorrect
<1> QED
  BY <1>1, RangeInvariance, PTL

=============================================================================
