------------------------------- MODULE Filter -------------------------------
(***************************************************************************)
(* What the filter promises about each packet, with no cache, no version,  *)
(* no clock and no locks.  A packet is looked at once against the          *)
(* allowlist, and let through if its destination is there; any other is    *)
(* judged once, in one step, by one of the block lists installed so far.   *)
(* A judgement is final.  BlockDecision is shown to implement this.        *)
(***************************************************************************)
CONSTANTS
  Addresses,  \* destinations of packets
  Workers,    \* goroutines that decide
  NoPacket    \* a worker without a packet

VARIABLES
  lists,    \* the block lists installed so far, as sets of addresses
  allowed,  \* the allowlist
  packet    \* packet[w]: the packet worker w holds and what became of it

filterVars == <<lists, allowed, packet>>

\* A packet is taken, perhaps a suspect, and in the end passed or blocked.
At(ip, stage) == [ip |-> ip, stage |-> stage]

FilterInit ==
  /\ lists = {{}}
  /\ allowed \in SUBSET Addresses
  /\ packet = [w \in Workers |-> NoPacket]

\* What worker w holds, a packet for ip, goes from one stage to the next.
Advance(w, ip, from, to) ==
  /\ packet[w] = At(ip, from)
  /\ packet' = [packet EXCEPT ![w] = At(ip, to)]

Take(w, ip) ==
  /\ packet[w] = NoPacket
  /\ packet' = [packet EXCEPT ![w] = At(ip, "taken")]
  /\ UNCHANGED <<lists, allowed>>

Spare(w) ==
  /\ \E ip \in allowed : Advance(w, ip, "taken", "passed")
  /\ UNCHANGED <<lists, allowed>>

Suspect(w) ==
  /\ \E ip \in Addresses \ allowed : Advance(w, ip, "taken", "suspect")
  /\ UNCHANGED <<lists, allowed>>

Judge(w) ==
  /\ \E d \in lists, ip \in Addresses :
       Advance(w, ip, "suspect", IF ip \in d THEN "blocked" ELSE "passed")
  /\ UNCHANGED <<lists, allowed>>

Finish(w) ==
  /\ \E ip \in Addresses : packet[w] \in {At(ip, "blocked"), At(ip, "passed")}
  /\ packet' = [packet EXCEPT ![w] = NoPacket]
  /\ UNCHANGED <<lists, allowed>>

Install(d) == lists' = lists \cup {d} /\ UNCHANGED <<allowed, packet>>

Refresh(s) == allowed' = s /\ UNCHANGED <<lists, packet>>

FilterNext ==
  \/ \E w \in Workers :
       \/ \E ip \in Addresses : Take(w, ip)
       \/ Spare(w) \/ Suspect(w) \/ Judge(w) \/ Finish(w)
  \/ \E s \in SUBSET Addresses : Install(s) \/ Refresh(s)

FilterSpec == FilterInit /\ [][FilterNext]_filterVars

=============================================================================
