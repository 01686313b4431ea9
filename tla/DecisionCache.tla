---------------------------- MODULE DecisionCache ----------------------------
(***************************************************************************)
(* core/cache.go: the cache of blocking decisions that the filter workers  *)
(* share.  A Go map `entries`, a ring `lru` of the addresses in the order  *)
(* they were stored, and an atomic version counter.  Clear only increments *)
(* the counter: entries tagged with an older version stay in the map and   *)
(* are ignored by Get.                                                     *)
(*                                                                         *)
(* Get and Set each read the atomic counter before they take the lock, so  *)
(* each call is two steps here (Begin: the load; End: the critical section *)
(* under mu).  The timestamp of an entry is modelled by its age, counted   *)
(* in ticks and saturating at TTL: the code only ever compares             *)
(* time.Since(ts) with the ttl.                                            *)
(***************************************************************************)
EXTENDS Naturals, FiniteSets

CONSTANTS
  IPs,        \* the IPv4 addresses, as numbers; 0 is also the free-slot mark
  MaxSize,    \* maxSize, the length of the ring
  TTL,        \* ttl, in ticks
  Threads,    \* the goroutines that call the cache
  MaxClears,  \* bound: how often Clear is called
  NoEntry,    \* an address that is not a key of the map
  Idle        \* a thread that is in no call of the cache

VARIABLES
  entries,  \* map[uint32]cachedDecision
  lru,      \* []uint32, the ring
  pos,      \* the ring's next slot
  version,  \* atomic.Uint64
  call,     \* call[t]: the arguments and locals of t's call in progress
  clears    \* history: how many Clear calls have returned

cacheVars == <<entries, lru, pos, version, call, clears>>

Slots == 0 .. MaxSize - 1

\* since is a history field: the number of Clear calls that had returned
\* when the Set that wrote the entry (or the call in progress) began.
Entry == [blocked : BOOLEAN, age : 0 .. TTL, version : Nat, since : Nat]
Call  == [op : {"Get", "Set"}, ip : IPs, blocked : BOOLEAN, ver : Nat, since : Nat]

ASSUME CacheAssumption ==
  /\ IPs \subseteq Nat /\ 0 \in IPs
  /\ MaxSize \in Nat \ {0}
  /\ TTL \in Nat
  /\ MaxClears \in Nat
  /\ NoEntry \notin Entry
  /\ Idle \notin Call

CacheInit ==
  /\ entries = [ip \in IPs |-> NoEntry]
  /\ lru = [i \in Slots |-> 0]
  /\ pos = 0
  /\ version = 0
  /\ call = [t \in Threads |-> Idle]
  /\ clears = 0

\* The keys of the map; Len is their number.
Keys == {ip \in IPs : entries[ip] # NoEntry}

InGet(t) == call[t] # Idle /\ call[t].op = "Get"
InSet(t) == call[t] # Idle /\ call[t].op = "Set"

\* The test of Get: found, of the version loaded at the start, not expired.
FreshForever(d, ver) == d # NoEntry /\ d.version = ver   \* mutant: no expiry
Fresh(d, ver) ==
  /\ d # NoEntry
  /\ d.version = ver
  /\ d.age < TTL

Hit(t) == Fresh(entries[call[t].ip], call[t].ver)

-----------------------------------------------------------------------------

\* Get and Set before the lock: the load of the version.
Begin(t, op, ip, blocked) ==
  /\ call[t] = Idle
  /\ call' = [call EXCEPT ![t] = [op |-> op, ip |-> ip, blocked |-> blocked,
                                  ver |-> version, since |-> clears]]
  /\ UNCHANGED <<entries, lru, pos, version, clears>>

BeginGet(t, ip) == Begin(t, "Get", ip, FALSE)
BeginSet(t, ip, blocked) == Begin(t, "Set", ip, blocked)

\* Get under RLock.  It changes nothing; the caller looks at Hit(t).
EndGet(t) ==
  /\ InGet(t)
  /\ call' = [call EXCEPT ![t] = Idle]
  /\ UNCHANGED <<entries, lru, pos, version, clears>>

\* The slot that Set recycles next, and the slot after it.
Victim == lru[pos]
NextSlot == (pos + 1) % MaxSize

\* The map after Set's delete: the slot value 0 means "never used", so the
\* key 0 is never deleted.
EvictedTooLate == entries              \* mutant: no delete
EvictedPos0 ==                         \* mutant: position 0 taken for the mark
  [ip \in IPs |-> IF ip = Victim /\ pos # 0 THEN NoEntry ELSE entries[ip]]
Evicted ==
  [ip \in IPs |-> IF ip = Victim /\ ip # 0 THEN NoEntry ELSE entries[ip]]

\* The version an entry is tagged with: the one loaded before the lock.
TagAtStore(c) == version               \* mutant: loaded inside the lock
Tag(c) == c.ver

\* Set under Lock: evict, store, put the address in the ring, advance.
EndSet(t) ==
  /\ InSet(t)
  /\ LET c == call[t]
     IN  /\ entries' = [Evicted EXCEPT ![c.ip] =
                          [blocked |-> c.blocked, age |-> 0,
                           version |-> Tag(c), since |-> c.since]]
         /\ lru' = [lru EXCEPT ![pos] = c.ip]
  /\ pos' = NextSlot
  /\ call' = [call EXCEPT ![t] = Idle]
  /\ UNCHANGED <<version, clears>>

Clear ==
  /\ clears < MaxClears
  /\ version' = version + 1
  /\ clears' = clears + 1
  /\ UNCHANGED <<entries, lru, pos, call>>

\* One tick of the clock: every entry ages.
Older(d) == [d EXCEPT !.age = IF @ < TTL THEN @ + 1 ELSE TTL]

Tick ==
  /\ entries' = [ip \in IPs |->
                   IF entries[ip] = NoEntry THEN NoEntry ELSE Older(entries[ip])]
  /\ UNCHANGED <<lru, pos, version, call, clears>>

CacheNext ==
  \/ \E t \in Threads, ip \in IPs : BeginGet(t, ip)
  \/ \E t \in Threads, ip \in IPs, b \in BOOLEAN : BeginSet(t, ip, b)
  \/ \E t \in Threads : EndGet(t) \/ EndSet(t)
  \/ Clear
  \/ Tick

CacheSpec == CacheInit /\ [][CacheNext]_cacheVars

-----------------------------------------------------------------------------

\* Type invariant of the cache's state.
CacheTypeOK ==
  /\ entries \in [IPs -> Entry \cup {NoEntry}]
  /\ lru \in [Slots -> IPs]
  /\ pos \in Slots
  /\ version \in Nat
  /\ call \in [Threads -> Call \cup {Idle}]
  /\ clears \in Nat

\* Map and ring agree: every key of the map is still in the ring, so it will
\* be evicted when the ring comes round to it.  Only key 0 escapes.
KeysInRing == \A ip \in Keys \ {0} : \E i \in Slots : lru[i] = ip

\* Memory stays bounded whatever is stored, however calls interleave: the
\* map never holds more than one key beyond the ring's size (Set evicts
\* before it stores; the one extra key is the address 0).
LenBounded == Cardinality(Keys) <= MaxSize + 1

\* What the header comment promises: "a fixed-size LRU cache" of maxSize
\* decisions.
FixedSize == Cardinality(Keys) <= MaxSize

\* Clear really invalidates: a Get that begins after a Clear has returned is
\* never served a decision that was handed to Set before that Clear, even
\* when that Set wrote its entry after the Clear.
ClearInvalidates ==
  \A t \in Threads :
    InGet(t) /\ Hit(t) => entries[call[t].ip].since >= call[t].since

\* The part of the inductive invariant behind ClearInvalidates: the tag that
\* Set stores and Get compares counts the Clear calls.
TagsCountClears ==
  /\ version = clears
  /\ \A ip \in Keys : entries[ip].version = entries[ip].since
  /\ \A t \in Threads : call[t] # Idle => call[t].ver = call[t].since

=============================================================================
