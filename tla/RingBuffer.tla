------------------------------ MODULE RingBuffer ------------------------------
(***************************************************************************)
(* logger/ringbuffer.go: the ring of log entries that the window reads.    *)
(* A slot whose entry has a zero timestamp has never been used.  Every     *)
(* method runs under the mutex, so each is one step.                       *)
(***************************************************************************)
EXTENDS Integers, Sequences

CONSTANTS
  Entries,  \* the log entries
  Size,     \* size
  Unused    \* the zero entry

ASSUME RingAssumption ==
  /\ Size \in Nat \ {0}
  /\ Unused \notin Entries

VARIABLES
  slots,  \* entries
  pos,
  count

ringVars == <<slots, pos, count>>

RingInit ==
  /\ slots = [i \in 0 .. Size - 1 |-> Unused]
  /\ pos = 0
  /\ count = 0

\* count grows with every slot used for the first time.
NewCount == IF slots[pos] = Unused THEN count + 1 ELSE count

NextPos == (pos + 1) % Size

Add(e) ==
  /\ count' = NewCount
  /\ slots' = [slots EXCEPT ![pos] = e]
  /\ pos' = NextPos

\* Where Last(n) starts to read.
StartAfter(n) == (pos - n + 1 + Size) % Size   \* mutant: off by one
Start(n) == (pos - n + Size) % Size

\* The slot read in turn i of the loop, from 0 on.
Slot(n, i) == slots[(Start(n) + i) % Size]

\* Read[i] is result after i turns: an unused slot is skipped.
Last(n) ==
  LET m == IF n > Size THEN Size ELSE n
      Read[i \in 0 .. m] ==
        IF i = 0 THEN <<>>
        ELSE IF Slot(m, i - 1) = Unused THEN Read[i - 1]
        ELSE Append(Read[i - 1], Slot(m, i - 1))
  IN  Read[m]

-----------------------------------------------------------------------------

\* Type invariant.
RingTypeOK ==
  /\ slots \in [0 .. Size - 1 -> Entries \cup {Unused}]
  /\ pos \in 0 .. Size - 1
  /\ count \in 0 .. Size

\* Before and after the ring has wrapped round, and while it is being filled,
\* it is the log of the latest Size entries.
Recent == INSTANCE RecentLog WITH recent <- Last(Size)
KeepsTheLatest == Recent!RecentSpec

\* "Last returns the last n entries in chronological order", for every n, more
\* than there are included; Len is the number of entries there are.
LastIsLatest ==
  /\ Len(Last(Size)) = count
  /\ \A n \in 0 .. Size + 1 : Last(n) = Recent!Latest(n, Last(Size))

=============================================================================
