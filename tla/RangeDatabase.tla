---------------------------- MODULE RangeDatabase ----------------------------
(***************************************************************************)
(* core/database.go: MergeRanges, which turns the parsed ranges into the   *)
(* list an IPDatabase holds, and Contains, the binary search on that list. *)
(* Both loops are written as state machines, one action per iteration of   *)
(* one branch, so that their invariants can be stated and proved.          *)
(* Allowlist.Contains (core/allowlist.go) is the same search on a list     *)
(* that comes from MergeRanges too.                                        *)
(*                                                                         *)
(* Addresses are uint32 values: End+1 wraps at MaxIP.  The parsers do not  *)
(* check Start <= End, so a range may be inverted (and then is empty).     *)
(***************************************************************************)
EXTENDS Integers, Sequences

CONSTANTS
  MaxIP,  \* the largest address, 2^32 - 1 in the code
  Inputs  \* the lists of ranges that MergeRanges may be given, sorted

Addresses == 0 .. MaxIP
IPRange == [Start : Addresses, End : Addresses]

\* What sort.Slice leaves: the ranges by Start, ties in any order.
SortedByStart(s) == \A i, j \in DOMAIN s : i < j => s[i].Start <= s[j].Start

ASSUME RangeAssumption ==
  /\ MaxIP \in Nat
  /\ \A s \in Inputs : s \in Seq(IPRange) /\ SortedByStart(s)

VARIABLES
  sorted,  \* MergeRanges: the sorted copy of the input
  merged,  \* MergeRanges: the result so far, then the database's ranges
  next,    \* MergeRanges: the index of r in sorted
  ip,      \* Contains: its argument
  lo, hi,  \* Contains: the bounds of the search, counted from 0 as in Go
  pc

rangeVars == <<sorted, merged, next, ip, lo, hi, pc>>

In(a, r) == r.Start <= a /\ a <= r.End
Covers(s, a) == \E i \in DOMAIN s : In(a, s[i])

\* MergeRanges up to its loop.
RangeInit ==
  /\ sorted \in Inputs
  /\ merged = IF sorted = <<>> THEN <<>> ELSE <<sorted[1]>>
  /\ next = 2
  /\ ip = 0 /\ lo = 0 /\ hi = -1
  /\ pc = "merge"

-----------------------------------------------------------------------------
\* MergeRanges

Last == merged[Len(merged)]

\* uint32 addition.
Succ(a) == (a + 1) % (MaxIP + 1)

\* r.Start <= last.End+1
JoinsOverlapping(r) == r.Start < Succ(Last.End)     \* mutant: < for <=
Joins(r) == r.Start <= Succ(Last.End)

\* The new end of the last range.
ShrinkingEnd(r) == r.End                             \* mutant: no comparison
LargerEnd(r) == IF r.End > Last.End THEN r.End ELSE Last.End

MergeJoin ==
  /\ pc = "merge" /\ next <= Len(sorted)
  /\ Joins(sorted[next])
  /\ merged' = [merged EXCEPT ![Len(merged)] =
                  [Start |-> Last.Start, End |-> LargerEnd(sorted[next])]]
  /\ next' = next + 1
  /\ UNCHANGED <<sorted, ip, lo, hi, pc>>

MergeAppend ==
  /\ pc = "merge" /\ next <= Len(sorted)
  /\ ~Joins(sorted[next])
  /\ merged' = Append(merged, sorted[next])
  /\ next' = next + 1
  /\ UNCHANGED <<sorted, ip, lo, hi, pc>>

MergeReturn ==
  /\ pc = "merge" /\ next > Len(sorted)
  /\ pc' = "ready"
  /\ UNCHANGED <<sorted, merged, next, ip, lo, hi>>

-----------------------------------------------------------------------------
\* Contains

Mid == (lo + hi) \div 2

\* The first value of hi, and lo after a step to the right.
LastIndex == Len(merged) - 1
StuckLo == Mid                          \* mutant: mid for mid + 1
RightLo == Mid + 1

ContainsCall(a) ==
  /\ pc = "ready"
  /\ ip' = a
  /\ lo' = 0 /\ hi' = LastIndex
  /\ pc' = "search"
  /\ UNCHANGED <<sorted, merged, next>>

SearchLeft ==
  /\ pc = "search" /\ lo <= hi
  /\ ip < merged[Mid + 1].Start
  /\ hi' = Mid - 1
  /\ UNCHANGED <<sorted, merged, next, ip, lo, pc>>

\* ip > r.End
BeyondOrAt(r) == ip >= r.End            \* mutant: >= for >
Beyond(r) == ip > r.End

SearchRight ==
  /\ pc = "search" /\ lo <= hi
  /\ ip >= merged[Mid + 1].Start /\ Beyond(merged[Mid + 1])
  /\ lo' = RightLo
  /\ UNCHANGED <<sorted, merged, next, ip, hi, pc>>

SearchFound ==
  /\ pc = "search" /\ lo <= hi
  /\ ip >= merged[Mid + 1].Start /\ ~Beyond(merged[Mid + 1])
  /\ pc' = "found"
  /\ UNCHANGED <<sorted, merged, next, ip, lo, hi>>

SearchMissing ==
  /\ pc = "search" /\ lo > hi
  /\ pc' = "missing"
  /\ UNCHANGED <<sorted, merged, next, ip, lo, hi>>

\* The caller takes the result; the next call may come.
ContainsReturn ==
  /\ pc \in {"found", "missing"}
  /\ ip' = 0 /\ lo' = 0 /\ hi' = -1
  /\ pc' = "ready"
  /\ UNCHANGED <<sorted, merged, next>>

RangeNext ==
  \/ MergeJoin \/ MergeAppend \/ MergeReturn
  \/ \E a \in Addresses : ContainsCall(a)
  \/ SearchLeft \/ SearchRight \/ SearchFound \/ SearchMissing
  \/ ContainsReturn

RangeSpec == RangeInit /\ [][RangeNext]_rangeVars

\* The loops run to their end once entered.
RangeFairness ==
  WF_rangeVars(MergeJoin \/ MergeAppend \/ MergeReturn \/ SearchLeft \/ SearchRight
                 \/ SearchFound \/ SearchMissing)

\* The inputs on which End+1 does not wrap before a later range is compared:
\* only the last range may end at MaxIP.
NoWrap(s) == \A i, j \in DOMAIN s : i < j => s[i].End # MaxIP

SafeInit == RangeInit /\ NoWrap(sorted)

SafeSpec == SafeInit /\ [][RangeNext]_rangeVars /\ RangeFairness

-----------------------------------------------------------------------------

\* Type invariant.
RangeTypeOK ==
  /\ sorted \in Inputs
  /\ merged \in Seq(IPRange)
  /\ next \in Nat
  /\ ip \in Addresses
  /\ lo \in 0 .. Len(merged)
  /\ hi \in -1 .. Len(merged) - 1
  /\ pc \in {"merge", "ready", "search", "found", "missing"}

\* "IPDatabase holds a sorted, non-overlapping list of IP ranges"; adjacent
\* ranges are joined as well.
SortedNonOverlapping ==
  \A i, j \in DOMAIN merged : i < j =>
    /\ merged[i].Start <= merged[j].Start
    /\ merged[i].End + 1 < merged[j].Start

\* Merging loses no address and invents none.
CoveragePreserved ==
  pc # "merge" => \A a \in Addresses : Covers(merged, a) <=> Covers(sorted, a)

\* "Contains checks if an IP (as uint32) is in any of the ranges": the search
\* answers yes exactly for the addresses in some range of the input.
ContainsCorrect ==
  /\ pc = "found" => Covers(sorted, ip)
  /\ pc = "missing" => ~Covers(sorted, ip)

\* Every search ends.
SearchTerminates == pc = "search" ~> pc \in {"found", "missing"}

=============================================================================
