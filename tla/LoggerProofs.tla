----------------------------- MODULE LoggerProofs -----------------------------
(***************************************************************************)
(* Proofs about Logger, and about the ring of entries it uses.  The loop   *)
(* of Last is a recursive function: what it returns is shown by comparing  *)
(* it with a closed form, at the least turn at which they would differ.    *)
(***************************************************************************)
EXTENDS Logger, SequenceTheorems, WellFoundedInduction, TLAPS

-----------------------------------------------------------------------------
\* Numbers and sequences

\* A set of natural numbers has a least element.
LEMMA LeastElement ==
  ASSUME NEW T, T \subseteq Nat, T # {}
  PROVE  \E x \in T : \A y \in T : x <= y
<1> DEFINE R == OpToRel(<, Nat)
<1>1. PICK x \in T : \A y \in T : ~(<<y, x>> \in R)
  <2>1. IsWellFoundedOn(R, Nat)
    BY NatLessThanWellFounded
  <2> HIDE DEF R
  <2> QED  BY <2>1, WFMin
<1>2. \A y \in T : ~(y < x)
  BY <1>1 DEF OpToRel
<1> QED  BY <1>2

\* Going round the ring once at most.
LEMMA Remainder ==
  ASSUME NEW n \in Nat \ {0}, NEW x \in 0 .. 2 * n - 1
  PROVE  x % n = IF x < n THEN x ELSE x - n
<1>1. CASE x < n
  BY <1>1
<1>2. CASE x >= n
  <2>1. x = n * 1 + (x - n) /\ x - n \in 0 .. n - 1
    BY <1>2
  <2> QED  BY <2>1, <1>2
<1> QED  BY <1>1, <1>2

LEMMA RemainderRange ==
  ASSUME NEW n \in Nat \ {0}, NEW x \in Nat
  PROVE  x % n \in 0 .. n - 1
OBVIOUS

-----------------------------------------------------------------------------
\* The ring

\* The slot that was written b turns of Add ago.
Back(b) == IF b <= pos THEN pos - b ELSE pos - b + Size

\* The used slots are those that were written last.
RingInv ==
  /\ RingTypeOK
  /\ \A b \in 1 .. Size : slots[Back(b)] # Unused <=> b <= count

\* What Last(n) returns.
Kept(n) == LET k == IF n < count THEN n ELSE count
           IN  [j \in 1 .. k |-> slots[Back(k - j + 1)]]

LEMMA SlotIs ==
  ASSUME RingTypeOK, NEW m \in 0 .. Size, NEW i \in 0 .. m - 1
  PROVE  Slot(m, i) = slots[Back(m - i)]
<1> USE RingAssumption DEF RingTypeOK
<1>1. Start(m) = IF pos - m + Size < Size THEN pos - m + Size ELSE pos - m
  <2> DEFINE x == pos - m + Size
  <2>1. x \in 0 .. 2 * Size - 1 /\ x - Size = pos - m
    OBVIOUS
  <2> HIDE DEF x
  <2>2. x % Size = IF x < Size THEN x ELSE x - Size
    BY <2>1, Remainder
  <2>3. Start(m) = x % Size
    BY DEF Start, x
  <2> QED  BY <2>1, <2>2, <2>3 DEF x
<1>2. Start(m) + i \in 0 .. 2 * Size - 1
  BY <1>1
<1>3. (Start(m) + i) % Size = Back(m - i)
  <2> DEFINE x == Start(m) + i
  <2> HIDE DEF x
  <2>1. x \in 0 .. 2 * Size - 1
    BY <1>2 DEF x
  <2>2. x % Size = IF x < Size THEN x ELSE x - Size
    BY <2>1, Remainder
  <2>3. (IF x < Size THEN x ELSE x - Size) = Back(m - i)
    BY <1>1 DEF Back, x
  <2> QED  BY <2>2, <2>3 DEF x
<1> QED  BY <1>3 DEF Slot

ReturnsKept == \A n \in Nat : Last(n) = Kept(n)

LEMMA LastIs == RingInv => ReturnsKept
<1> SUFFICES ASSUME RingInv, NEW n \in Nat PROVE Last(n) = Kept(n)  BY DEF ReturnsKept
<1> DEFINE m == IF n > Size THEN Size ELSE n
           k == IF n < count THEN n ELSE count
           Turn(f, i) == IF i = 0 THEN <<>>
                         ELSE IF Slot(m, i - 1) = Unused THEN f[i - 1]
                         ELSE Append(f[i - 1], Slot(m, i - 1))
           R == CHOOSE f : f = [i \in 0 .. m |-> Turn(f, i)]
           F == [i \in 0 .. m |-> [j \in 1 .. i - (m - k) |-> slots[Back(k - j + 1)]]]
<1> USE RingAssumption
<1>1. /\ m \in 0 .. Size /\ k \in 0 .. m /\ count \in 0 .. Size
      /\ k = IF m < count THEN m ELSE count
  BY DEF RingInv, RingTypeOK
<1>0. /\ Last(n) = R[m]
      /\ Kept(n) = [j \in 1 .. k |-> slots[Back(k - j + 1)]]
  BY DEF Last, Kept
<1> HIDE DEF m, k
<1>2. \A i \in 1 .. m : Slot(m, i - 1) = slots[Back(m - i + 1)]
  BY <1>1, SlotIs DEF RingInv
<1>3. \A i \in 1 .. m : Slot(m, i - 1) # Unused <=> i > m - k
  <2> SUFFICES ASSUME NEW i \in 1 .. m PROVE Slot(m, i - 1) # Unused <=> i > m - k  OBVIOUS
  <2>1. m - i + 1 \in 1 .. Size
    BY <1>1
  <2>2. slots[Back(m - i + 1)] # Unused <=> m - i + 1 <= count
    BY <2>1 DEF RingInv
  <2> QED  BY <2>2, <1>1, <1>2
<1>4. ASSUME NEW i \in 0 .. m PROVE F[i] = Turn(F, i)
  <2>1. CASE i = 0
    <3>1. i - (m - k) <= 0
      BY <2>1, <1>1
    <3> QED  BY <3>1, <2>1, <1>1
  <2>2. CASE i > 0 /\ i <= m - k
    <3>1. Slot(m, i - 1) = Unused
      BY <2>2, <1>1, <1>3
    <3>2. F[i] = <<>> /\ F[i - 1] = <<>>
      BY <2>2, <1>1
    <3> QED  BY <3>1, <3>2, <2>2
  <2>3. CASE i > m - k
    <3> DEFINE l == i - (m - k)
               e == slots[Back(m - i + 1)]
    <3>1. Slot(m, i - 1) # Unused /\ Slot(m, i - 1) = e /\ i # 0 /\ i - 1 \in 0 .. m
      BY <2>3, <1>1, <1>2, <1>3
    <3>2. l \in Nat \ {0} /\ i - 1 - (m - k) = l - 1
      BY <2>3, <1>1
    <3>3. F[i - 1] = [j \in 1 .. l - 1 |-> slots[Back(k - j + 1)]]
      BY <3>1, <3>2
    <3>4. F[i] = [j \in 1 .. l |-> slots[Back(k - j + 1)]]
      OBVIOUS
    <3>5. k - l + 1 = m - i + 1
      BY <1>1
    <3> HIDE DEF l, F
    <3>6. Append(F[i - 1], e) = F[i]
      BY <3>2, <3>3, <3>4, <3>5 DEF e
    <3> QED  BY <3>1, <3>6
  <2> QED  BY <2>1, <2>2, <2>3, <1>1
<1>5. F = [i \in 0 .. m |-> Turn(F, i)]
  BY <1>4
<1>6. R = [i \in 0 .. m |-> Turn(R, i)]
  <2> HIDE DEF F, Turn
  <2> QED  BY <1>5
<1>7. \A i \in 0 .. m : R[i] = F[i]
  <2> DEFINE T == {i \in 0 .. m : R[i] # F[i]}
  <2> HIDE DEF R, F
  <2>1. ASSUME T # {} PROVE FALSE
    <3>0. T \subseteq Nat
      BY <1>1
    <3> HIDE DEF T
    <3>1. PICK i \in T : \A j \in T : i <= j
      BY <2>1, <3>0, LeastElement
    <3> USE DEF T
    <3>2. i \in 0 .. m /\ R[i] = Turn(R, i) /\ F[i] = Turn(F, i)
      BY <1>5, <1>6
    <3>3. i # 0
      BY <3>1, <3>2
    <3>4. i - 1 \in 0 .. m /\ i - 1 \notin T
      BY <3>1, <3>2, <3>3, <1>1
    <3> QED  BY <3>1, <3>2, <3>4
  <2> QED  BY <2>1
<1>8. R[m] = F[m]
  <2> HIDE DEF R, F
  <2> QED  BY <1>7, <1>1
<1>9. F[m] = [j \in 1 .. k |-> slots[Back(k - j + 1)]]
  <2>1. m - (m - k) = k /\ m \in 0 .. m
    BY <1>1
  <2> QED  BY <2>1
<1> QED  BY <1>8, <1>9, <1>0

\* One turn of Add: what was written b turns ago was written b - 1 turns ago.
LEMMA AddTurns ==
  ASSUME RingInv, NEW e \in Entries, Add(e)
  PROVE  /\ RingInv'
         /\ count' = IF count < Size THEN count + 1 ELSE Size
         /\ \A b \in 1 .. Size : slots[Back(b)]' = IF b = 1 THEN e ELSE slots[Back(b - 1)]
<1> USE RingAssumption
<1>1. pos' = IF pos = Size - 1 THEN 0 ELSE pos + 1
  <2> DEFINE x == pos + 1
  <2>1. x \in 1 .. Size /\ x \in 0 .. 2 * Size - 1 /\ (x = Size <=> pos = Size - 1)
    BY DEF RingInv, RingTypeOK
  <2> HIDE DEF x
  <2>2. x % Size = IF x < Size THEN x ELSE x - Size
    BY <2>1, Remainder
  <2>3. pos' = x % Size
    BY DEF Add, NextPos, x
  <2>4. x - Size = 0 <=> x = Size
    BY <2>1
  <2> QED  BY <2>1, <2>2, <2>3, <2>4 DEF x
<1>2. slots[pos] # Unused <=> Size <= count
  <2>1. Back(Size) = pos
    BY DEF Back, RingInv, RingTypeOK
  <2>2. Size \in 1 .. Size
    OBVIOUS
  <2> QED  BY <2>1, <2>2 DEF RingInv
<1>3. count' = IF count < Size THEN count + 1 ELSE Size
  BY <1>2 DEF Add, NewCount, RingInv, RingTypeOK
<1>4. \A b \in 1 .. Size : Back(b) \in 0 .. Size - 1 /\ (Back(b) = pos <=> b = Size)
  BY DEF Back, RingInv, RingTypeOK
<1>5. \A b \in 1 .. Size : Back(b)' = IF b = 1 THEN pos ELSE Back(b - 1)
  BY <1>1 DEF Back, RingInv, RingTypeOK
<1>6. \A b \in 1 .. Size : slots[Back(b)]' = IF b = 1 THEN e ELSE slots[Back(b - 1)]
  <2> SUFFICES ASSUME NEW b \in 1 .. Size
               PROVE  slots'[Back(b)'] = IF b = 1 THEN e ELSE slots[Back(b - 1)]
    OBVIOUS
  <2>1. slots' = [slots EXCEPT ![pos] = e] /\ DOMAIN slots = 0 .. Size - 1 /\ pos \in 0 .. Size - 1
    BY DEF Add, RingInv, RingTypeOK
  <2>2. CASE b = 1
    BY <2>1, <2>2, <1>5
  <2>3. CASE b # 1
    <3>1. b - 1 \in 1 .. Size /\ b - 1 # Size
      BY <2>3
    <3>2. Back(b - 1) \in 0 .. Size - 1 /\ Back(b - 1) # pos
      BY <3>1, <1>4
    <3> QED  BY <2>1, <2>3, <3>2, <1>5
  <2> QED  BY <2>2, <2>3
<1>7. RingTypeOK'
  <2>1. slots' \in [0 .. Size - 1 -> Entries \cup {Unused}]
    BY DEF Add, RingInv, RingTypeOK
  <2> QED  BY <2>1, <1>1, <1>3 DEF RingInv, RingTypeOK
<1>8. \A b \in 1 .. Size : slots[Back(b)]' # Unused <=> b <= count'
  <2> SUFFICES ASSUME NEW b \in 1 .. Size PROVE slots[Back(b)]' # Unused <=> b <= count'
    OBVIOUS
  <2>1. CASE b = 1
    BY <2>1, <1>3, <1>6 DEF RingInv, RingTypeOK
  <2>2. CASE b # 1
    <3>1. b - 1 \in 1 .. Size
      BY <2>2
    <3>2. slots[Back(b - 1)] # Unused <=> b - 1 <= count
      BY <3>1 DEF RingInv
    <3>3. slots[Back(b)]' = slots[Back(b - 1)]
      BY <2>2, <1>6
    <3> QED  BY <3>1, <3>2, <3>3, <1>3 DEF RingInv, RingTypeOK
  <2> QED  BY <2>1, <2>2
<1> QED  BY <1>3, <1>6, <1>7, <1>8 DEF RingInv

LEMMA RingUnchanged == RingInv /\ UNCHANGED ringVars => RingInv'
BY DEF RingInv, RingTypeOK, ringVars, Back

LEMMA RingStarts == RingInit => RingInv /\ count = 0
<1> SUFFICES ASSUME RingInit PROVE RingInv /\ count = 0  OBVIOUS
<1> USE RingAssumption
<1>1. RingTypeOK
  BY DEF RingInit, RingTypeOK
<1>2. \A b \in 1 .. Size : Back(b) \in 0 .. Size - 1
  BY DEF RingInit, Back
<1> QED  BY <1>1, <1>2 DEF RingInv, RingInit

\* What is in the ring, as a sequence.
Contents ==
  /\ Last(Size) \in Seq(Entries)
  /\ Len(Last(Size)) = count
  /\ count \in 0 .. Size
  /\ \A j \in 1 .. count : Last(Size)[j] = slots[Back(count - j + 1)]

LEMMA Whole == RingInv => Contents
<1> SUFFICES ASSUME RingInv PROVE Contents  OBVIOUS
<1>1. count \in 0 .. Size /\ Size \in Nat
  BY RingAssumption DEF RingInv, RingTypeOK
<1>2. Last(Size) = [j \in 1 .. count |-> slots[Back(count - j + 1)]]
  <2>1. Last(Size) = Kept(Size)
    BY <1>1, LastIs DEF ReturnsKept
  <2> QED  BY <2>1, <1>1 DEF Kept
<1>3. \A j \in 1 .. count : slots[Back(count - j + 1)] \in Entries
  <2> SUFFICES ASSUME NEW j \in 1 .. count PROVE slots[Back(count - j + 1)] \in Entries  OBVIOUS
  <2>1. count - j + 1 \in 1 .. Size /\ count - j + 1 <= count
    BY <1>1
  <2>2. slots[Back(count - j + 1)] # Unused
    BY <2>1 DEF RingInv
  <2>3. Back(count - j + 1) \in 0 .. Size - 1
    BY <2>1, <1>1 DEF Back, RingInv, RingTypeOK
  <2> QED  BY <2>2, <2>3 DEF RingInv, RingTypeOK
<1> QED  BY <1>1, <1>2, <1>3 DEF Contents

\* Add implements the Add of the abstract log.
LEMMA AddKeepsLatest ==
  ASSUME RingInv, NEW e \in Entries, Add(e)
  PROVE  Recent!RecentAdd(e)
<1> DEFINE L == Last(Size)
           M == Last(Size)'
<1> USE RingAssumption
<1>1. /\ L \in Seq(Entries) /\ Len(L) = count /\ count \in 0 .. Size
      /\ \A j \in 1 .. count : L[j] = slots[Back(count - j + 1)]
  BY Whole DEF Contents
<1>2. /\ RingInv'
      /\ count' = IF count < Size THEN count + 1 ELSE Size
      /\ \A b \in 1 .. Size : slots[Back(b)]' = IF b = 1 THEN e ELSE slots[Back(b - 1)]
  BY AddTurns
<1>3. /\ M \in Seq(Entries) /\ Len(M) = count' /\ count' \in 0 .. Size
      /\ \A j \in 1 .. count' : M[j] = slots[Back(count - j + 1)]'
  <2>1. Contents'
    BY <1>2, Whole, PTL
  <2> QED  BY <2>1 DEF Contents
<1> HIDE DEF L, M
<1>4. \A j \in 1 .. count' : M[j] = IF j = count' THEN e ELSE slots[Back(count' - j)]
  <2>1. PICK c \in 0 .. Size : c = count'
    BY <1>3
  <2> SUFFICES ASSUME NEW j \in 1 .. c
               PROVE  M[j] = IF j = c THEN e ELSE slots[Back(c - j)]
    BY <2>1
  <2>2. M[j] = slots'[Back(count - j + 1)']
    BY <1>3, <2>1
  <2>3. PICK b \in 1 .. Size : b = c - j + 1
    OBVIOUS
  <2>4. Back(count - j + 1)' = Back(b)'
    BY <2>1, <2>3 DEF Back
  <2>5. slots'[Back(b)'] = IF b = 1 THEN e ELSE slots[Back(b - 1)]
    BY <1>2
  <2>6. (b = 1 <=> j = c) /\ b - 1 = c - j
    BY <2>3
  <2> QED  BY <2>2, <2>4, <2>5, <2>6
<1>5. M = Recent!Latest(Size, Append(L, e))
  <2>1. CASE count < Size
    <3>1. Recent!Latest(Size, Append(L, e)) = Append(L, e)
      BY <2>1, <1>1 DEF Recent!Latest
    <3>2. Len(Append(L, e)) = count' /\ Append(L, e) \in Seq(Entries) /\ count' = count + 1
      BY <2>1, <1>1, <1>2
    <3>3. \A j \in 1 .. count' : M[j] = Append(L, e)[j]
      BY <2>1, <1>1, <1>4, <3>2
    <3> QED  BY <1>3, <3>1, <3>2, <3>3
  <2>2. CASE count = Size
    <3>1. Recent!Latest(Size, Append(L, e)) = SubSeq(Append(L, e), 2, Size + 1)
      BY <2>2, <1>1 DEF Recent!Latest
    <3> DEFINE S == SubSeq(Append(L, e), 2, Size + 1)
    <3>2. S \in Seq(Entries) /\ Len(S) = Size /\ \A j \in 1 .. Size : S[j] = Append(L, e)[j + 1]
      BY <2>2, <1>1
    <3>3. \A j \in 1 .. Size : Append(L, e)[j + 1] = IF j = Size THEN e ELSE L[j + 1]
      BY <2>2, <1>1
    <3>4. \A j \in 1 .. Size - 1 : L[j + 1] = slots[Back(Size - j)]
      BY <2>2, <1>1
    <3>5. count' = Size
      BY <2>2, <1>2
    <3> HIDE DEF S
    <3>6. \A j \in 1 .. Size : M[j] = S[j]
      <4> SUFFICES ASSUME NEW j \in 1 .. Size PROVE M[j] = S[j]  OBVIOUS
      <4>1. M[j] = IF j = Size THEN e ELSE slots[Back(Size - j)]
        BY <1>4, <3>5
      <4>2. S[j] = IF j = Size THEN e ELSE L[j + 1]
        BY <3>2, <3>3
      <4>3. j # Size => j \in 1 .. Size - 1
        OBVIOUS
      <4> QED  BY <4>1, <4>2, <4>3, <3>4
    <3>7. M = S
      BY <1>3, <3>2, <3>5, <3>6
    <3> QED  BY <3>1, <3>7 DEF S
  <2> QED  BY <2>1, <2>2, <1>1
<1> QED  BY <1>5 DEF Recent!RecentAdd, L, M

\* Nothing else changes what it returns.
LEMMA LastUnchanged ==
  ASSUME RingInv, UNCHANGED ringVars
  PROVE  Last(Size)' = Last(Size)
<1>1. RingInv'
  BY RingUnchanged
<1>2. Last(Size) = Kept(Size) /\ Last(Size)' = Kept(Size)'
  <2>1. ReturnsKept /\ ReturnsKept'
    BY <1>1, LastIs, PTL
  <2>2. Size \in Nat
    BY RingAssumption
  <2> QED  BY <2>1, <2>2 DEF ReturnsKept
<1>3. Kept(Size)' = Kept(Size)
  BY DEF Kept, Back, ringVars
<1> QED  BY <1>2, <1>3

\* The latest entries of a longer log.
LEMMA LatestOfAppend ==
  ASSUME NEW s \in Seq(Entries), NEW e \in Entries
  PROVE  Recent!Latest(Size, Append(Recent!Latest(Size, s), e)) = Recent!Latest(Size, Append(s, e))
<1> USE RingAssumption DEF Recent!Latest
<1>1. CASE Len(s) <= Size
  BY <1>1
<1>2. CASE Len(s) > Size
  <2> DEFINE l == Len(s)
             t == SubSeq(s, l - Size + 1, l)
  <2>1. t \in Seq(Entries) /\ Len(t) = Size /\ \A j \in 1 .. Size : t[j] = s[l - Size + j]
    BY <1>2
  <2>2. Recent!Latest(Size, s) = t
    BY <1>2
  <2> DEFINE A == SubSeq(Append(t, e), 2, Size + 1)
             B == SubSeq(Append(s, e), l + 1 - Size + 1, l + 1)
  <2>3. Recent!Latest(Size, Append(s, e)) = B
    BY <1>2
  <2> HIDE DEF t
  <2>4. Recent!Latest(Size, Append(t, e)) = A
    BY <2>1
  <2>5. /\ A \in Seq(Entries) /\ Len(A) = Size
        /\ \A j \in 1 .. Size : A[j] = IF j = Size THEN e ELSE s[l - Size + j + 1]
    BY <2>1, <1>2
  <2>6. /\ B \in Seq(Entries) /\ Len(B) = Size
        /\ \A j \in 1 .. Size : B[j] = IF j = Size THEN e ELSE s[l - Size + j + 1]
    BY <1>2
  <2> HIDE DEF A, B
  <2>7. A = B
    BY <2>5, <2>6
  <2> QED  BY <2>2, <2>3, <2>4, <2>7
<1> QED  BY <1>1, <1>2

-----------------------------------------------------------------------------
\* The goroutine run

Handling == {"rotate", "rename", "reopen", "write", "notify"}
PCs == Handling \cup {"select", "add", "left"}

LoggerInv ==
  /\ RingInv
  /\ ch \in Seq(Entries) /\ Len(ch) <= ChanCap
  /\ run \in [pc : PCs, entry : Entries \cup {Unused}, draining : BOOLEAN,
              writes : 0 .. RotateEvery - 1]
  /\ run.pc \in Handling \cup {"add"} => run.entry \in Entries
  /\ done \in BOOLEAN /\ fileOpen \in BOOLEAN
  /\ file \in Seq(Entries) /\ archive \in Seq(Entries) /\ accepted \in Seq(Entries)
  /\ handled \in Seq(Entries) /\ before \in Seq(Entries)
  /\ sub \in [Subs -> [state : {"new", "subscribed", "closed"},
                       queue : Seq(Entries), got : Seq(Entries)]]
  /\ closing \in {"outside", "waiting", "closed"}

LEMMA LoggerInvInit == Init => LoggerInv
<1> SUFFICES ASSUME Init PROVE LoggerInv  OBVIOUS
<1>1. RingInv
  BY RingStarts DEF Init
<1>2. 0 \in 0 .. RotateEvery - 1 /\ Len(<<>>) <= ChanCap
  BY LoggerAssumption
<1>3. NewSub \in [state : {"new", "subscribed", "closed"}, queue : Seq(Entries), got : Seq(Entries)]
  BY DEF NewSub
<1>4. sub \in [Subs -> [state : {"new", "subscribed", "closed"}, queue : Seq(Entries),
                        got : Seq(Entries)]]
  BY <1>3 DEF Init
<1>5. run \in [pc : PCs, entry : Entries \cup {Unused}, draining : BOOLEAN,
               writes : 0 .. RotateEvery - 1]
  BY <1>2 DEF Init, Nobody, PCs
<1>6. run.pc \notin Handling \cup {"add"}
  BY DEF Init, Nobody, Handling
<1>7. ch \in Seq(Entries) /\ Len(ch) <= ChanCap
  BY <1>2 DEF Init
<1>8. done \in BOOLEAN /\ fileOpen \in BOOLEAN /\ closing \in {"outside", "waiting", "closed"}
  BY DEF Init
<1>9. /\ file \in Seq(Entries) /\ archive \in Seq(Entries) /\ accepted \in Seq(Entries)
      /\ handled \in Seq(Entries) /\ before \in Seq(Entries)
  BY DEF Init
<1> QED  BY <1>1, <1>4, <1>5, <1>6, <1>7, <1>8, <1>9 DEF LoggerInv

LEMMA AddInv == LoggerInv /\ AddToRing => LoggerInv'
<1> SUFFICES ASSUME LoggerInv, AddToRing PROVE LoggerInv'  OBVIOUS
<1>1. run.entry \in Entries /\ Add(run.entry) /\ RunAt("add")
  BY DEF LoggerInv, AddToRing, RunAt
<1>2. RingInv'
  BY <1>1, AddTurns DEF LoggerInv
<1>3. (run.writes + 1) % RotateEvery \in 0 .. RotateEvery - 1
  <2>1. run.writes + 1 \in Nat /\ RotateEvery \in Nat \ {0}
    BY LoggerAssumption DEF LoggerInv
  <2> QED  BY <2>1, RemainderRange
<1>4. /\ run' \in [pc : PCs, entry : Entries \cup {Unused}, draining : BOOLEAN,
                   writes : 0 .. RotateEvery - 1]
      /\ run'.entry \in Entries
  <2> DEFINE w == (run.writes + 1) % RotateEvery
             p == IF w = 0 THEN "rotate" ELSE "write"
  <2>1. p \in PCs
    BY DEF PCs, Handling
  <2>2. run' = [run EXCEPT !.pc = p, !.writes = w]
    BY DEF AddToRing
  <2> HIDE DEF p, w
  <2>3. w \in 0 .. RotateEvery - 1
    BY <1>3 DEF w
  <2> QED  BY <2>1, <2>2, <2>3, <1>1 DEF LoggerInv
<1>5. handled' \in Seq(Entries)
  BY <1>1 DEF LoggerInv, AddToRing
<1> QED  BY <1>2, <1>4, <1>5 DEF LoggerInv, AddToRing, files

LEMMA RunInv == LoggerInv /\ Run => LoggerInv'
<1> SUFFICES ASSUME LoggerInv, Run PROVE LoggerInv'  OBVIOUS
<1> USE DEF LoggerInv, PCs, Handling, RunAt, UnchangedRest, RotateTo
<1>1. UNCHANGED ringVars => RingInv'
  BY RingUnchanged
<1>2. CASE Take
  <2>1. /\ run' = [run EXCEPT !.pc = "add", !.entry = Head(ch)]
        /\ ch' = Tail(ch) /\ Head(ch) \in Entries /\ Len(Tail(ch)) <= ChanCap /\ ch' \in Seq(Entries)
    BY <1>2, LoggerAssumption DEF Take, NextIn
  <2> QED  BY <1>1, <1>2, <2>1 DEF Take, files
<1>3. CASE SeeDone
  BY <1>1, <1>3 DEF SeeDone, files
<1>4. CASE Leave
  BY <1>1, <1>4 DEF Leave, files
<1>5. CASE AddToRing
  BY <1>5, AddInv
<1>6. CASE RotateNot
  BY <1>1, <1>6 DEF RotateNot, files
<1>7. CASE RotateClose
  BY <1>1, <1>7 DEF RotateClose
<1>8. CASE Rename
  <2>1. file' \in Seq(Entries) /\ archive' \in Seq(Entries)
    <3>1. file \in Seq(Entries) /\ archive \in Seq(Entries) /\ archive \o file \in Seq(Entries)
      OBVIOUS
    <3>2. <<>> \in Seq(Entries)
      OBVIOUS
    <3> QED  BY <1>8, <3>1, <3>2 DEF Rename, ArchivedFile, Moved
  <2> QED  BY <1>1, <1>8, <2>1 DEF Rename
<1>9. CASE Reopen
  BY <1>1, <1>9 DEF Reopen, files
<1>10. CASE Write
  <2>1. file' \in Seq(Entries)
    <3>1. run.entry \in Entries
      BY <1>10 DEF Write
    <3>2. file \in Seq(Entries) /\ Append(file, run.entry) \in Seq(Entries)
      BY <3>1
    <3> QED  BY <1>10, <3>2 DEF Write
  <2> QED  BY <1>1, <1>10, <2>1 DEF Write
<1>11. CASE Notify
  <2>1. \A s \in Subs : Deliver(sub[s]) \in
          [state : {"new", "subscribed", "closed"}, queue : Seq(Entries), got : Seq(Entries)]
    <3> SUFFICES ASSUME NEW s \in Subs
                 PROVE  Deliver(sub[s]) \in [state : {"new", "subscribed", "closed"},
                                             queue : Seq(Entries), got : Seq(Entries)]
      OBVIOUS
    <3>1. run.entry \in Entries
      BY <1>11 DEF Notify
    <3>2. sub[s] \in [state : {"new", "subscribed", "closed"},
                      queue : Seq(Entries), got : Seq(Entries)]
      OBVIOUS
    <3>3. Append(sub[s].queue, run.entry) \in Seq(Entries)
      BY <3>1, <3>2
    <3> QED  BY <3>2, <3>3 DEF Deliver
  <2> QED  BY <1>1, <1>11, <2>1 DEF Notify, files
<1> QED  BY <1>2, <1>3, <1>4, <1>5, <1>6, <1>7, <1>8, <1>9, <1>10, <1>11 DEF Run

LEMMA LoggerInvNext == LoggerInv /\ [Next]_vars => LoggerInv'
<1> SUFFICES ASSUME LoggerInv, [Next]_vars PROVE LoggerInv'  OBVIOUS
<1>1. UNCHANGED ringVars => RingInv'
  BY RingUnchanged DEF LoggerInv
<1>2. ASSUME NEW e \in Entries, Log(e) PROVE LoggerInv'
  <2>1. ch' \in Seq(Entries) /\ Len(ch') <= ChanCap /\ accepted' \in Seq(Entries)
    BY <1>2, LoggerAssumption DEF LoggerInv, Log, Room
  <2> QED  BY <1>1, <1>2, <2>1 DEF LoggerInv, Log, files
<1>3. CASE Run
  BY <1>3, RunInv
<1>4. ASSUME NEW s \in Subs, Subscribe(s) \/ Unsubscribe(s) \/ Read(s) PROVE LoggerInv'
  <2> DEFINE SubOK == [state : {"new", "subscribed", "closed"}, queue : Seq(Entries),
                       got : Seq(Entries)]
  <2>1. sub' \in [Subs -> SubOK]
    <3>1. sub \in [Subs -> SubOK] /\ sub[s] \in SubOK
      BY DEF LoggerInv
    <3>2. CASE Subscribe(s)
      BY <3>1, <3>2 DEF Subscribe
    <3>3. CASE Unsubscribe(s)
      BY <3>1, <3>3 DEF Unsubscribe
    <3>4. CASE Read(s)
      <4>1. /\ Tail(sub[s].queue) \in Seq(Entries)
            /\ Append(sub[s].got, Head(sub[s].queue)) \in Seq(Entries)
        BY <3>1, <3>4 DEF Read
      <4>2. Received(sub[s]) \in SubOK
        BY <3>1, <4>1 DEF Received
      <4> QED  BY <3>1, <3>4, <4>2 DEF Read
    <3> QED  BY <1>4, <3>2, <3>3, <3>4
  <2>2. UnchangedButSub
    BY <1>4 DEF Subscribe, Unsubscribe, Read
  <2> QED  BY <1>1, <2>1, <2>2 DEF UnchangedButSub, LoggerInv, files
<1>5. CASE CloseDone
  BY <1>1, <1>5 DEF CloseDone, LoggerInv, files
<1>6. CASE CloseFile
  BY <1>1, <1>6 DEF CloseFile, LoggerInv
<1>7. CASE UNCHANGED vars
  BY <1>1, <1>7 DEF vars, LoggerInv, files
<1> QED  BY <1>2, <1>3, <1>4, <1>5, <1>6, <1>7 DEF Next

LEMMA LoggerInvariance == Spec => []LoggerInv
BY LoggerInvInit, LoggerInvNext, PTL DEF Spec

\* Type correctness.
THEOREM LoggerTypeCorrect == Spec => []LoggerTypeOK
<1>1. LoggerInv => LoggerTypeOK
  BY DEF LoggerInv, LoggerTypeOK, RingInv, PCs, Handling
<1> QED  BY <1>1, LoggerInvariance, PTL

-----------------------------------------------------------------------------
\* The way of the entries

InHand == IF run.pc = "add" THEN <<run.entry>> ELSE <<>>

\* What was accepted was handled, is in run's hand, or waits in the channel; the
\* entry that run works on was handled last.
FlowInv ==
  /\ accepted = handled \o InHand \o ch
  /\ run.pc \in Handling => handled # <<>> /\ run.entry = handled[Len(handled)]

\* The first n entries of t contain those of s in their order.
Within(s, t, n) ==
  /\ \A i \in DOMAIN s : \E k \in 1 .. n : t[k] = s[i]
  /\ \A i, j \in DOMAIN s : i < j =>
       \E k, l \in 1 .. n : k < l /\ t[k] = s[i] /\ t[l] = s[j]

\* How many of the entries that were handled may be in the files, and how many
\* may have been handed to subscribers.
Written == IF run.pc \in Handling \ {"notify"} THEN Len(handled) - 1 ELSE Len(handled)
Delivered == IF run.pc \in Handling THEN Len(handled) - 1 ELSE Len(handled)

OrderInv ==
  /\ Last(Size) = Recent!Latest(Size, handled)
  /\ Within(archive \o file, handled, Written)
  /\ \A s \in Subs : Within(sub[s].got \o sub[s].queue, handled, Delivered)

\* before is what accepted was; run leaves only after done was closed, and with
\* all of it handled.
CloseInv ==
  /\ closing # "outside" <=> done
  /\ run.draining => done
  /\ run.pc = "left" => run.draining /\ Elements(before) \subseteq Elements(handled)
  /\ closing = "closed" => run.pc = "left"
  /\ Elements(before) \subseteq Elements(accepted)

LEMMA AppendConcat ==
  ASSUME NEW S, NEW s \in Seq(S), NEW t \in Seq(S), NEW e \in S
  PROVE  /\ s \o Append(t, e) = Append(s \o t, e)
         /\ Append(s, e) = s \o <<e>>
OBVIOUS

LEMMA MoveHead ==
  ASSUME NEW S, NEW s \in Seq(S), NEW t \in Seq(S), t # <<>>
  PROVE  /\ s \o t = Append(s, Head(t)) \o Tail(t)
         /\ s \o t = (s \o <<Head(t)>>) \o Tail(t)
<1> DEFINE A == s \o t
           B == Append(s, Head(t)) \o Tail(t)
<1>1. Head(t) \in S /\ Tail(t) \in Seq(S) /\ Len(Tail(t)) = Len(t) - 1 /\ Len(t) \in Nat \ {0}
  OBVIOUS
<1>2. A \in Seq(S) /\ Len(A) = Len(s) + Len(t)
  OBVIOUS
<1>3. B \in Seq(S) /\ Len(B) = Len(s) + Len(t)
  BY <1>1
<1>4. \A i \in 1 .. Len(s) + Len(t) : A[i] = IF i <= Len(s) THEN s[i] ELSE t[i - Len(s)]
  OBVIOUS
<1>5. \A i \in 1 .. Len(s) + Len(t) : B[i] = IF i <= Len(s) THEN s[i] ELSE t[i - Len(s)]
  <2> SUFFICES ASSUME NEW i \in 1 .. Len(s) + Len(t)
               PROVE  B[i] = IF i <= Len(s) THEN s[i] ELSE t[i - Len(s)]
    OBVIOUS
  <2>1. CASE i <= Len(s) + 1
    BY <1>1, <2>1
  <2>2. CASE i > Len(s) + 1
    <3>1. i - (Len(s) + 1) \in 1 .. Len(Tail(t))
      BY <1>1, <2>2
    <3>2. Tail(t)[i - (Len(s) + 1)] = t[i - Len(s)]
      BY <3>1
    <3>3. B[i] = Tail(t)[i - (Len(s) + 1)]
      BY <1>1, <2>2
    <3> QED  BY <3>2, <3>3, <2>2
  <2> QED  BY <2>1, <2>2
<1>6. A = B
  <2> HIDE DEF A, B
  <2> QED  BY <1>2, <1>3, <1>4, <1>5
<1> QED  BY <1>6, <1>1, AppendConcat

LEMMA FlowInit == Init => FlowInv
BY DEF Init, FlowInv, InHand, Nobody, Handling

LEMMA FlowNext == LoggerInv /\ FlowInv /\ [Next]_vars => FlowInv'
<1> SUFFICES ASSUME LoggerInv, FlowInv, [Next]_vars PROVE FlowInv'  OBVIOUS
<1> USE DEF FlowInv, InHand, Handling, PCs, RunAt, UnchangedRest, RotateTo
<1>0. /\ ch \in Seq(Entries) /\ handled \in Seq(Entries) /\ accepted \in Seq(Entries)
      /\ run.pc \in Handling \cup {"add"} => run.entry \in Entries
      /\ run \in [pc : PCs, entry : Entries \cup {Unused}, draining : BOOLEAN,
                  writes : 0 .. RotateEvery - 1]
      /\ InHand \in Seq(Entries)
  BY DEF LoggerInv
<1>1. ASSUME NEW e \in Entries, Log(e) PROVE FlowInv'
  <2>1. accepted' = (handled \o InHand) \o Append(ch, e)
    <3> HIDE DEF InHand
    <3>1. handled \o InHand \in Seq(Entries)
      BY <1>0
    <3>2. (handled \o InHand) \o Append(ch, e) = Append((handled \o InHand) \o ch, e)
      BY <1>0, <3>1, AppendConcat
    <3> QED  BY <1>1, <3>2 DEF Log
  <2> QED  BY <1>1, <2>1 DEF Log
<1>2. CASE Take
  <2>1. /\ run' = [run EXCEPT !.pc = "add", !.entry = Head(ch)] /\ ch' = Tail(ch) /\ ch # <<>>
        /\ handled' = handled /\ accepted' = accepted /\ InHand = <<>>
    BY <1>2 DEF Take, NextIn
  <2>2. InHand' = <<Head(ch)>>
    BY <2>1, <1>0
  <2>3. accepted = (handled \o <<Head(ch)>>) \o Tail(ch)
    <3>1. handled \o <<>> = handled
      BY <1>0, ConcatEmptySeq
    <3>2. accepted = handled \o ch
      BY <2>1, <3>1
    <3>3. handled \o ch = (handled \o <<Head(ch)>>) \o Tail(ch)
      BY <2>1, <1>0, MoveHead
    <3> QED  BY <3>2, <3>3
  <2>4. run'.pc \notin Handling
    BY <2>1, <1>0
  <2> HIDE DEF InHand, Handling
  <2> QED  BY <2>1, <2>2, <2>3, <2>4
<1>3. CASE AddToRing
  <2>1. /\ handled' = Append(handled, run.entry) /\ ch' = ch /\ accepted' = accepted
        /\ run.pc = "add" /\ run'.pc \in {"rotate", "write"} /\ run'.entry = run.entry
    BY <1>3, <1>0 DEF AddToRing
  <2>2. accepted = handled' \o ch /\ handled' \in Seq(Entries)
    BY <2>1, <1>0, AppendConcat
  <2>3. InHand' = <<>>
    BY <2>1
  <2>4. handled' # <<>> /\ run'.entry = handled'[Len(handled')]
    <3>1. Len(handled') = Len(handled) + 1 /\ handled'[Len(handled) + 1] = run.entry
      BY <2>1, <1>0
    <3> QED  BY <3>1, <2>1, <1>0
  <2> QED  BY <2>1, <2>2, <2>3, <2>4, <1>0
<1>4. CASE Run /\ ~Take /\ ~AddToRing
  <2>1. /\ UNCHANGED <<handled, ch, accepted>>
        /\ run.pc # "add" /\ run'.pc # "add"
        /\ run'.pc \in Handling => run.pc \in Handling /\ run'.entry = run.entry
    BY <1>0, <1>4 DEF Run, SeeDone, Leave, RotateNot, RotateClose, Rename, Reopen, Write, Notify
  <2> QED  BY <2>1
<1>5. CASE UNCHANGED <<handled, ch, accepted, run>>
  BY <1>5
<1>6. ASSUME NEW s \in Subs, Subscribe(s) \/ Unsubscribe(s) \/ Read(s)
      PROVE  UNCHANGED <<handled, ch, accepted, run>>
  BY <1>6 DEF Subscribe, Unsubscribe, Read, UnchangedButSub
<1>7. CloseDone \/ CloseFile \/ UNCHANGED vars => UNCHANGED <<handled, ch, accepted, run>>
  BY DEF CloseDone, CloseFile, vars
<1> QED  BY <1>1, <1>2, <1>3, <1>4, <1>5, <1>6, <1>7 DEF Next

-----------------------------------------------------------------------------
\* The order of the entries

LEMMA WithinLonger ==
  ASSUME NEW s, NEW t, NEW u, NEW n \in Nat, NEW m \in Nat, n <= m,
         \A k \in 1 .. n : u[k] = t[k], Within(s, t, n)
  PROVE  Within(s, u, m)
<1>1. \A k \in 1 .. n : k \in 1 .. m
  OBVIOUS
<1>2. ASSUME NEW i \in DOMAIN s PROVE \E k \in 1 .. m : u[k] = s[i]
  BY <1>1 DEF Within
<1>3. ASSUME NEW i \in DOMAIN s, NEW j \in DOMAIN s, i < j
      PROVE  \E k, l \in 1 .. m : k < l /\ u[k] = s[i] /\ u[l] = s[j]
  <2>1. PICK k \in 1 .. n, l \in 1 .. n : k < l /\ t[k] = s[i] /\ t[l] = s[j]
    BY <1>3 DEF Within
  <2> QED  BY <2>1, <1>1
<1> QED  BY <1>2, <1>3 DEF Within

LEMMA WithinAppend ==
  ASSUME NEW S, NEW s \in Seq(S), NEW t, NEW n \in Nat, NEW e \in S,
         t[n + 1] = e, Within(s, t, n)
  PROVE  Within(Append(s, e), t, n + 1)
<1> DEFINE a == Append(s, e)
<1>1. /\ DOMAIN a = 1 .. Len(s) + 1 /\ DOMAIN s = 1 .. Len(s) /\ Len(s) \in Nat
      /\ \A i \in 1 .. Len(s) : a[i] = s[i]
      /\ a[Len(s) + 1] = e
  OBVIOUS
<1> HIDE DEF a
<1>2. \A k \in 1 .. n : k \in 1 .. n + 1 /\ k < n + 1
  OBVIOUS
<1>3. n + 1 \in 1 .. n + 1
  OBVIOUS
<1>4. ASSUME NEW i \in DOMAIN a PROVE \E k \in 1 .. n + 1 : t[k] = a[i]
  <2>1. CASE i = Len(s) + 1
    BY <1>1, <1>3, <2>1
  <2>2. CASE i # Len(s) + 1
    <3>1. i \in DOMAIN s /\ a[i] = s[i]
      BY <1>1, <2>2
    <3> QED  BY <3>1, <1>2 DEF Within
  <2> QED  BY <2>1, <2>2
<1>5. ASSUME NEW i \in DOMAIN a, NEW j \in DOMAIN a, i < j
      PROVE  \E k, l \in 1 .. n + 1 : k < l /\ t[k] = a[i] /\ t[l] = a[j]
  <2>1. i \in DOMAIN s /\ a[i] = s[i]
    BY <1>1, <1>5
  <2>2. CASE j = Len(s) + 1
    <3>1. PICK k \in 1 .. n : t[k] = s[i]
      BY <2>1 DEF Within
    <3>2. k \in 1 .. n + 1 /\ k < n + 1 /\ t[n + 1] = a[j]
      BY <1>1, <1>2, <2>2
    <3> QED  BY <3>1, <3>2, <1>3, <2>1
  <2>3. CASE j # Len(s) + 1
    <3>1. j \in DOMAIN s /\ a[j] = s[j]
      BY <1>1, <2>3
    <3>2. PICK k \in 1 .. n, l \in 1 .. n : k < l /\ t[k] = s[i] /\ t[l] = s[j]
      BY <1>5, <2>1, <3>1 DEF Within
    <3> QED  BY <3>1, <3>2, <2>1, <1>2
  <2> QED  BY <2>2, <2>3
<1> QED  BY <1>4, <1>5 DEF Within, a

\* What a step does to the files, taken together.
LEMMA FilesMove ==
  ASSUME LoggerInv, [Next]_vars
  PROVE  \/ archive' \o file' = archive \o file
         \/ RunAt("write") /\ archive' \o file' = Append(archive \o file, run.entry)
<1>1. archive \in Seq(Entries) /\ file \in Seq(Entries) /\ archive \o file \in Seq(Entries)
  BY DEF LoggerInv
<1>2. CASE Rename
  BY <1>1, <1>2, ConcatEmptySeq DEF Rename, ArchivedFile, Moved
<1>3. CASE Reopen
  BY <1>1, <1>3, ConcatEmptySeq DEF Reopen, files
<1>4. CASE Write
  <2>1. run.entry \in Entries /\ RunAt("write")
    BY <1>4 DEF Write, LoggerInv, RunAt, Handling
  <2>2. archive \o Append(file, run.entry) = Append(archive \o file, run.entry)
    BY <1>1, <2>1, AppendConcat
  <2> QED  BY <1>4, <2>1, <2>2 DEF Write
<1>5. CASE Run /\ ~Rename /\ ~Reopen /\ ~Write
  BY <1>5 DEF Run, Take, SeeDone, Leave, AddToRing, RotateNot, RotateClose, Notify, files
<1>6. CASE ~Run
  BY <1>6 DEF Next, Log, Subscribe, Unsubscribe, Read, UnchangedButSub, CloseDone, CloseFile, files,
              vars
<1> QED  BY <1>2, <1>3, <1>4, <1>5, <1>6

\* Rotation loses nothing that had been written.
THEOREM WrittenStays == Spec => WrittenIsKept
<1>1. LoggerInv /\ [Next]_vars => [Elements(archive \o file) \subseteq Elements(archive' \o file')]_vars
  <2> SUFFICES ASSUME LoggerInv, [Next]_vars
               PROVE  Elements(archive \o file) \subseteq Elements(archive' \o file')
    OBVIOUS
  <2>1. archive \o file \in Seq(Entries)
    BY DEF LoggerInv
  <2> DEFINE s == archive \o file
  <2> HIDE DEF s
  <2>2. s \in Seq(Entries)
    BY <2>1 DEF s
  <2>3. ASSUME NEW e \in Entries PROVE Elements(s) \subseteq Elements(Append(s, e))
    <3>1. \A i \in DOMAIN s : i \in DOMAIN Append(s, e) /\ Append(s, e)[i] = s[i]
      BY <2>2
    <3> QED  BY <3>1 DEF Elements
  <2>4. RunAt("write") => run.entry \in Entries
    BY DEF RunAt, LoggerInv, Handling
  <2> QED  BY <2>3, <2>4, FilesMove DEF s
<1> QED  BY <1>1, LoggerInvariance, PTL DEF Spec, WrittenIsKept

LEMMA OrderInit == Init => OrderInv
<1> SUFFICES ASSUME Init PROVE OrderInv  OBVIOUS
<1>1. Last(Size) = <<>>
  <2>1. RingInv /\ count = 0
    BY RingStarts DEF Init
  <2>2. Contents
    BY <2>1, Whole
  <2>3. Last(Size) \in Seq(Entries) /\ Len(Last(Size)) = 0
    BY <2>1, <2>2 DEF Contents
  <2> HIDE DEF Last
  <2> QED  BY <2>3
<1>2. Recent!Latest(Size, <<>>) = <<>>
  BY RingAssumption DEF Recent!Latest
<1>3. \A t, n : Within(<<>> \o <<>>, t, n)
  BY DEF Within
<1> QED  BY <1>1, <1>2, <1>3 DEF Init, OrderInv, NewSub

\* The ring.
LEMMA RingOrder ==
  ASSUME LoggerInv, OrderInv, [Next]_vars
  PROVE  Last(Size)' = Recent!Latest(Size, handled)'
<1>1. RingInv /\ handled \in Seq(Entries) /\ Last(Size) = Recent!Latest(Size, handled)
  BY DEF LoggerInv, OrderInv
<1>2. CASE AddToRing
  <2>1. run.entry \in Entries /\ Add(run.entry) /\ handled' = Append(handled, run.entry)
    BY <1>2 DEF AddToRing, RunAt, LoggerInv
  <2>2. Last(Size)' = Recent!Latest(Size, Append(Last(Size), run.entry))
    BY <1>1, <2>1, AddKeepsLatest DEF Recent!RecentAdd
  <2> QED  BY <1>1, <2>1, <2>2, LatestOfAppend
<1>3. CASE ~AddToRing
  <2>1. UNCHANGED ringVars /\ handled' = handled
    BY <1>3 DEF Next, Log, Run, Take, SeeDone, Leave, RotateNot, RotateClose, Rename, Reopen, Write,
                Notify, UnchangedRest, Subscribe, Unsubscribe, Read, UnchangedButSub, CloseDone,
                CloseFile, vars
  <2>2. Last(Size)' = Last(Size)
    BY <1>1, <2>1, LastUnchanged
  <2> QED  BY <1>1, <2>1, <2>2
<1> QED  BY <1>2, <1>3

\* What run does to the places in which the entries are counted.
LEMMA PlacesMove ==
  ASSUME LoggerInv, FlowInv, [Next]_vars
  PROVE  /\ Written \in Nat /\ Delivered \in Nat /\ Written <= Len(handled) /\ Delivered <= Len(handled)
         /\ \A k \in 1 .. Len(handled) : handled'[k] = handled[k]
         /\ Len(handled) <= Len(handled') /\ Len(handled') \in Nat
         /\ IF RunAt("write") /\ Write THEN Written' = Written + 1 ELSE Written' = Written
         /\ IF Notify THEN Delivered' = Delivered + 1 ELSE Delivered' = Delivered
         /\ RunAt("write") \/ RunAt("notify") => handled' = handled
         /\ RunAt("write") => Written = Len(handled) - 1 /\ run.entry = handled[Len(handled)]
         /\ RunAt("notify") => Delivered = Len(handled) - 1 /\ run.entry = handled[Len(handled)]
<1> USE DEF RunAt, Handling, Written, Delivered
<1>1. /\ handled \in Seq(Entries) /\ Len(handled) \in Nat
      /\ run.pc \in Handling => Len(handled) >= 1 /\ run.entry = handled[Len(handled)]
      /\ run \in [pc : PCs, entry : Entries \cup {Unused}, draining : BOOLEAN,
                  writes : 0 .. RotateEvery - 1]
  BY DEF LoggerInv, FlowInv
<1>2. CASE AddToRing
  <2>1. /\ handled' = Append(handled, run.entry) /\ run.pc = "add" /\ run'.pc \in {"rotate", "write"}
        /\ run.entry \in Entries
    BY <1>1, <1>2 DEF AddToRing, LoggerInv
  <2>2. Len(handled') = Len(handled) + 1 /\ \A k \in 1 .. Len(handled) : handled'[k] = handled[k]
    BY <1>1, <2>1
  <2>3. ~Write /\ ~Notify
    BY <2>1 DEF Write, Notify
  <2> QED  BY <1>1, <2>1, <2>2, <2>3
<1>3. CASE Run /\ ~AddToRing
  <2>1. handled' = handled
    BY <1>3 DEF Run, Take, SeeDone, Leave, RotateNot, RotateClose, Rename, Reopen, Write, Notify,
                UnchangedRest
  <2>2. \/ Write /\ run.pc = "write" /\ run'.pc = "notify" /\ ~Notify
        \/ Notify /\ run.pc = "notify" /\ run'.pc = "select" /\ ~Write
        \/ /\ ~Write /\ ~Notify
           /\ \/ {run.pc, run'.pc} \subseteq {"rotate", "rename", "reopen", "write"}
              \/ run.pc \notin Handling /\ run'.pc \notin Handling
    BY <1>1, <1>3 DEF Run, Take, SeeDone, Leave, RotateNot, RotateClose, Rename, Reopen, Write, Notify,
                      RotateTo
  <2> QED  BY <1>1, <2>1, <2>2
<1>4. CASE ~Run
  <2>1. handled' = handled /\ run' = run
    BY <1>4 DEF Next, Log, Subscribe, Unsubscribe, Read, UnchangedButSub, CloseDone, CloseFile, vars
  <2>2. ~Write /\ ~Notify
    BY <1>4 DEF Run
  <2> QED  BY <1>1, <2>1, <2>2
<1> QED  BY <1>2, <1>3, <1>4

\* A subscriber's entries grow only when run has notified it.
LEMMA SubsMove ==
  ASSUME LoggerInv, [Next]_vars, NEW s \in Subs
  PROVE  \/ sub'[s].got \o sub'[s].queue = sub[s].got \o sub[s].queue
         \/ /\ Notify /\ run.entry \in Entries
            /\ sub'[s].got \o sub'[s].queue = Append(sub[s].got \o sub[s].queue, run.entry)
<1> DEFINE SubOK == [state : {"new", "subscribed", "closed"}, queue : Seq(Entries), got : Seq(Entries)]
<1>1. sub \in [Subs -> SubOK]
  BY DEF LoggerInv
<1>2. sub[s] \in SubOK /\ sub[s].queue \in Seq(Entries) /\ sub[s].got \in Seq(Entries)
  BY <1>1
<1>3. CASE Notify
  <2>1. run.entry \in Entries /\ sub'[s] = Deliver(sub[s])
    BY <1>3 DEF Notify, LoggerInv, RunAt, Handling
  <2>2. CASE sub'[s] = sub[s]
    BY <2>2
  <2>3. CASE sub'[s] # sub[s]
    <3>1. sub'[s].got = sub[s].got /\ sub'[s].queue = Append(sub[s].queue, run.entry)
      BY <1>2, <2>1, <2>3 DEF Deliver
    <3>2. sub[s].got \o Append(sub[s].queue, run.entry) = Append(sub[s].got \o sub[s].queue, run.entry)
      <4>1. sub[s].got \in Seq(Entries) /\ sub[s].queue \in Seq(Entries) /\ run.entry \in Entries
        BY <1>2, <2>1
      <4>2. \A g, q \in Seq(Entries), e \in Entries : g \o Append(q, e) = Append(g \o q, e)
        BY AppendConcat
      <4> QED  BY <4>1, <4>2
    <3> QED  BY <1>3, <2>1, <3>1, <3>2
  <2> QED  BY <2>2, <2>3
<1>4. ASSUME NEW r \in Subs, Subscribe(r) \/ Unsubscribe(r)
      PROVE  sub'[s].got = sub[s].got /\ sub'[s].queue = sub[s].queue
  <2>1. \E x \in {"subscribed", "closed"} : sub' = [sub EXCEPT ![r] = [sub[r] EXCEPT !.state = x]]
    BY <1>1, <1>4 DEF Subscribe, Unsubscribe
  <2>2. CASE r = s
    BY <1>1, <1>2, <2>1, <2>2
  <2>3. CASE r # s
    BY <1>1, <2>1, <2>3
  <2> QED  BY <2>2, <2>3
<1>5. ASSUME NEW r \in Subs, Read(r)
      PROVE  sub'[s].got \o sub'[s].queue = sub[s].got \o sub[s].queue
  <2>1. CASE r = s
    <3>1. /\ sub[s].queue # <<>>
          /\ sub'[s].got = Append(sub[s].got, Head(sub[s].queue))
          /\ sub'[s].queue = Tail(sub[s].queue)
      BY <1>1, <1>2, <1>5, <2>1 DEF Read, Received
    <3>2. sub[s].got \o sub[s].queue = Append(sub[s].got, Head(sub[s].queue)) \o Tail(sub[s].queue)
      BY <3>1, <1>2, MoveHead
    <3> QED  BY <3>1, <3>2
  <2>2. CASE r # s
    BY <1>1, <1>5, <2>2 DEF Read
  <2> QED  BY <2>1, <2>2
<1>6. CASE sub' = sub
  BY <1>6
<1>7. Run => Notify \/ sub' = sub
  BY DEF Run, Take, SeeDone, Leave, AddToRing, RotateNot, RotateClose, Rename, Reopen, Write,
         UnchangedRest
<1>8. (\E e \in Entries : Log(e)) \/ CloseDone \/ CloseFile \/ UNCHANGED vars => sub' = sub
  BY DEF Log, CloseDone, CloseFile, vars
<1> QED  BY <1>3, <1>4, <1>5, <1>6, <1>7, <1>8 DEF Next

LEMMA OrderNext == LoggerInv /\ FlowInv /\ OrderInv /\ [Next]_vars => OrderInv'
<1> SUFFICES ASSUME LoggerInv, FlowInv, OrderInv, [Next]_vars PROVE OrderInv'  OBVIOUS
<1>1. Last(Size)' = Recent!Latest(Size, handled)'
  BY RingOrder
<1>2. /\ Written \in Nat /\ Delivered \in Nat /\ Written <= Len(handled) /\ Delivered <= Len(handled)
      /\ \A k \in 1 .. Len(handled) : handled'[k] = handled[k]
      /\ Len(handled) <= Len(handled') /\ Len(handled') \in Nat /\ Len(handled) \in Nat
  BY PlacesMove DEF LoggerInv
<1>3. Within(archive \o file, handled, Written)'
  <2> DEFINE s == archive \o file
             u == archive' \o file'
  <2>1. s \in Seq(Entries) /\ Within(s, handled, Written)
    BY DEF OrderInv, LoggerInv
  <2>2. \A k \in 1 .. Written : handled'[k] = handled[k]
    BY <1>2
  <2>3. Within(s, handled', Written)
    <3> HIDE DEF s
    <3> QED  BY <1>2, <2>1, <2>2, WithinLonger
  <2>4. CASE u = s
    <3>1. Written' \in Nat /\ Written <= Written'
      BY <1>2, PlacesMove
    <3>2. Within(s, handled', Written')
      <4> HIDE DEF s
      <4> QED  BY <1>2, <2>3, <3>1, WithinLonger
    <3> QED  BY <2>4, <3>2
  <2>5. CASE u # s
    <3>1. RunAt("write") /\ u = Append(s, run.entry)
      BY <2>5, FilesMove
    <3>2. Write /\ run.entry \in Entries
      BY <2>5, <3>1 DEF Next, Run, Take, SeeDone, Leave, AddToRing, RotateNot, RotateClose, Rename,
                        Reopen, Notify, RunAt, Log, Subscribe, Unsubscribe, Read, UnchangedButSub,
                        CloseDone, CloseFile, files, vars, LoggerInv, Handling
    <3>3. Written' = Written + 1 /\ handled'[Written + 1] = run.entry
      BY <3>1, <3>2, PlacesMove, <1>2
    <3>4. Within(Append(s, run.entry), handled', Written + 1)
      <4> HIDE DEF s
      <4> QED  BY <1>2, <2>1, <2>3, <3>2, <3>3, WithinAppend
    <3> QED  BY <3>1, <3>3, <3>4
  <2> QED  BY <2>4, <2>5
<1>4. ASSUME NEW r \in Subs PROVE Within(sub'[r].got \o sub'[r].queue, handled', Delivered')
  <2> DEFINE s == sub[r].got \o sub[r].queue
             u == sub'[r].got \o sub'[r].queue
  <2>1. s \in Seq(Entries) /\ Within(s, handled, Delivered)
    <3>1. sub[r].got \in Seq(Entries) /\ sub[r].queue \in Seq(Entries)
      BY DEF LoggerInv
    <3> QED  BY <3>1 DEF OrderInv
  <2>2. \A k \in 1 .. Delivered : handled'[k] = handled[k]
    BY <1>2
  <2>3. Within(s, handled', Delivered)
    <3> HIDE DEF s
    <3> QED  BY <1>2, <2>1, <2>2, WithinLonger
  <2>4. CASE u = s
    <3>1. Delivered' \in Nat /\ Delivered <= Delivered'
      BY <1>2, PlacesMove
    <3>2. Within(s, handled', Delivered')
      <4> HIDE DEF s
      <4> QED  BY <1>2, <2>3, <3>1, WithinLonger
    <3> QED  BY <2>4, <3>2
  <2>5. CASE u # s
    <3>1. Notify /\ run.entry \in Entries /\ u = Append(s, run.entry)
      BY <2>5, SubsMove
    <3>2. RunAt("notify")
      BY <3>1 DEF Notify
    <3>3. Delivered' = Delivered + 1 /\ handled'[Delivered + 1] = run.entry
      BY <3>1, <3>2, PlacesMove, <1>2
    <3>4. Within(Append(s, run.entry), handled', Delivered + 1)
      <4> HIDE DEF s
      <4> QED  BY <1>2, <2>1, <2>3, <3>1, <3>3, WithinAppend
    <3> QED  BY <3>1, <3>3, <3>4
  <2> QED  BY <2>4, <2>5
<1> QED  BY <1>1, <1>3, <1>4 DEF OrderInv

LEMMA LoggerRuns == Spec => [](LoggerInv /\ FlowInv /\ OrderInv)
BY LoggerInvInit, LoggerInvNext, FlowInit, FlowNext, OrderInit, OrderNext, PTL DEF Spec

\* Everybody who looks, at the files, the ring or a subscription, sees what was
\* logged in the order in which it was accepted.
THEOREM OrderIsKept == Spec => []EverywhereInOrder
<1>1. ASSUME LoggerInv, FlowInv, OrderInv PROVE EverywhereInOrder
  <2>1. /\ accepted \in Seq(Entries) /\ handled \in Seq(Entries)
        /\ Len(handled) <= Len(accepted)
        /\ \A k \in 1 .. Len(handled) : accepted[k] = handled[k]
    <3>1. accepted = (handled \o InHand) \o ch /\ InHand \in Seq(Entries) /\ ch \in Seq(Entries)
      BY <1>1 DEF FlowInv, InHand, LoggerInv, Handling
    <3>2. handled \in Seq(Entries)
      BY <1>1 DEF LoggerInv
    <3> HIDE DEF InHand
    <3> DEFINE t == handled \o InHand
    <3>3. t \in Seq(Entries) /\ Len(handled) <= Len(t) /\ \A k \in 1 .. Len(handled) : t[k] = handled[k]
      BY <3>1, <3>2
    <3> HIDE DEF t
    <3>4. accepted = t \o ch
      BY <3>1 DEF t
    <3> QED  BY <3>1, <3>2, <3>3, <3>4
  <2>2. ASSUME NEW s, NEW n \in Nat, n <= Len(handled), Within(s, handled, n)
        PROVE  IsSubsequence(s, accepted)
    <3>1. Within(s, accepted, Len(accepted))
      BY <2>1, <2>2, WithinLonger
    <3>2. DOMAIN accepted = 1 .. Len(accepted)
      BY <2>1
    <3>3. Elements(s) \subseteq Elements(accepted)
      BY <3>1, <3>2 DEF Within, Elements
    <3> QED  BY <3>1, <3>2, <3>3 DEF Within, IsSubsequence
  <2>3. Written \in Nat /\ Delivered \in Nat /\ Written <= Len(handled) /\ Delivered <= Len(handled)
    BY <1>1, <2>1 DEF Written, Delivered, FlowInv, Handling
  <2>4. Within(Last(Size), handled, Len(handled))
    <3> DEFINE h == handled
               t == SubSeq(h, Len(h) - Size + 1, Len(h))
    <3>1. Last(Size) = IF Len(h) <= Size THEN h ELSE t
      BY <1>1 DEF OrderInv, Recent!Latest
    <3>2. \A k \in 1 .. Len(h) : k \in DOMAIN h /\ h[k] = h[k] /\ DOMAIN h = 1 .. Len(h)
      BY <2>1
    <3>3. CASE Len(h) <= Size
      <4>1. DOMAIN h = 1 .. Len(h)
        BY <2>1
      <4> QED  BY <3>1, <3>3, <4>1 DEF Within
    <3>4. CASE Len(h) > Size
      <4>1. /\ t \in Seq(Entries) /\ DOMAIN t = 1 .. Size /\ Len(h) \in Nat /\ Size \in Nat
            /\ \A i \in 1 .. Size : t[i] = h[i + (Len(h) - Size)]
        BY <2>1, <3>4, RingAssumption
      <4>2. \A i \in 1 .. Size : i + (Len(h) - Size) \in 1 .. Len(h)
        BY <3>4, <4>1
      <4>3. \A i, j \in 1 .. Size : i < j => i + (Len(h) - Size) < j + (Len(h) - Size)
        BY <4>1
      <4> HIDE DEF t
      <4>4. Within(t, h, Len(h))
        <5>1. ASSUME NEW i \in DOMAIN t PROVE \E k \in 1 .. Len(h) : h[k] = t[i]
          BY <4>1, <4>2
        <5>2. ASSUME NEW i \in DOMAIN t, NEW j \in DOMAIN t, i < j
              PROVE  \E k, l \in 1 .. Len(h) : k < l /\ h[k] = t[i] /\ h[l] = t[j]
          BY <4>1, <4>2, <4>3, <5>2
        <5> QED  BY <5>1, <5>2 DEF Within
      <4>5. ~(Len(h) <= Size)
        BY <3>4, <4>1
      <4> QED  BY <3>1, <4>4, <4>5
    <3> QED  BY <2>1, <3>3, <3>4, RingAssumption
  <2>5. IsSubsequence(archive \o file, accepted)
    BY <1>1, <2>2, <2>3 DEF OrderInv
  <2>6. IsSubsequence(Last(Size), accepted)
    <3>1. Len(handled) \in Nat
      BY <2>1
    <3> QED  BY <3>1, <2>2, <2>4
  <2>7. \A s \in Subs : IsSubsequence(sub[s].got \o sub[s].queue, accepted)
    BY <1>1, <2>2, <2>3 DEF OrderInv
  <2> QED  BY <2>5, <2>6, <2>7 DEF EverywhereInOrder
<1> QED  BY <1>1, LoggerRuns, PTL

-----------------------------------------------------------------------------
\* The ring implements the abstract log

\* Before and after it has wrapped round the ring is the log of the latest Size
\* entries that run has put into it.
THEOREM RingKeepsTheLatest == Spec => KeepsTheLatest
<1>1. Init => Recent!RecentInit
  BY OrderInit, RingAssumption DEF OrderInv, Recent!RecentInit, Recent!Latest, Init
<1>2. LoggerInv /\ [Next]_vars => [\E e \in Entries : Recent!RecentAdd(e)]_(Last(Size))
  <2> SUFFICES ASSUME LoggerInv, [Next]_vars
               PROVE  (\E e \in Entries : Recent!RecentAdd(e)) \/ Last(Size)' = Last(Size)
    OBVIOUS
  <2>1. CASE AddToRing
    <3>1. run.entry \in Entries /\ Add(run.entry) /\ RingInv
      BY <2>1 DEF AddToRing, RunAt, LoggerInv
    <3> QED  BY <3>1, AddKeepsLatest
  <2>2. CASE ~AddToRing
    <3>1. UNCHANGED ringVars
      BY <2>2 DEF Next, Log, Run, Take, SeeDone, Leave, RotateNot, RotateClose, Rename, Reopen, Write,
                  Notify, UnchangedRest, Subscribe, Unsubscribe, Read, UnchangedButSub, CloseDone,
                  CloseFile, vars
    <3> QED  BY <3>1, LastUnchanged DEF LoggerInv
  <2> QED  BY <2>1, <2>2
<1> QED  BY <1>1, <1>2, LoggerInvariance, PTL DEF Spec, KeepsTheLatest, Recent!RecentSpec

\* Last returns the last n entries, for every n, and Len is their number.
THEOREM LastReturnsTheLatest == Spec => []LastIsLatest
<1>1. ASSUME RingInv PROVE LastIsLatest
  <2>1. /\ Last(Size) \in Seq(Entries) /\ Len(Last(Size)) = count /\ count \in 0 .. Size
        /\ \A j \in 1 .. count : Last(Size)[j] = slots[Back(count - j + 1)]
        /\ Size \in Nat
    BY <1>1, Whole, RingAssumption DEF Contents
  <2>2. ASSUME NEW n \in 0 .. Size + 1 PROVE Last(n) = Recent!Latest(n, Last(Size))
    <3> DEFINE W == Last(Size)
    <3>1. Last(n) = Kept(n)
      BY <1>1, <2>1, LastIs DEF ReturnsKept
    <3> HIDE DEF W
    <3>2. /\ W \in Seq(Entries) /\ Len(W) = count /\ count \in Nat /\ n \in Nat
          /\ \A j \in 1 .. count : W[j] = slots[Back(count - j + 1)]
      BY <2>1 DEF W
    <3>3. CASE count <= n
      <4>1. Kept(n) = [j \in 1 .. count |-> slots[Back(count - j + 1)]]
        BY <3>2, <3>3 DEF Kept
      <4>2. W = [j \in 1 .. count |-> slots[Back(count - j + 1)]]
        BY <3>2
      <4> QED  BY <3>1, <3>2, <3>3, <4>1, <4>2 DEF Recent!Latest, W
    <3>4. CASE n < count
      <4> DEFINE t == SubSeq(W, count - n + 1, count)
      <4>1. t \in Seq(Entries) /\ Len(t) = n /\ \A j \in 1 .. n : t[j] = W[count - n + j]
        BY <3>2, <3>4
      <4>2. \A j \in 1 .. n : t[j] = slots[Back(n - j + 1)]
        <5> SUFFICES ASSUME NEW j \in 1 .. n PROVE t[j] = slots[Back(n - j + 1)]  OBVIOUS
        <5>1. count - n + j \in 1 .. count /\ count - (count - n + j) + 1 = n - j + 1
          BY <3>2, <3>4
        <5>2. W[count - n + j] = slots[Back(count - (count - n + j) + 1)]
          BY <3>2, <5>1
        <5> HIDE DEF t
        <5> QED  BY <4>1, <5>1, <5>2
      <4> HIDE DEF t
      <4>3. t = [j \in 1 .. n |-> slots[Back(n - j + 1)]]
        BY <4>1, <4>2
      <4>4. Kept(n) = [j \in 1 .. n |-> slots[Back(n - j + 1)]]
        BY <3>2, <3>4 DEF Kept
      <4>5. Recent!Latest(n, W) = t
        <5>1. ~(Len(W) <= n)
          BY <3>2, <3>4
        <5> QED  BY <3>2, <5>1 DEF Recent!Latest, t
      <4> QED  BY <3>1, <4>3, <4>4, <4>5 DEF W
    <3> QED  BY <3>2, <3>3, <3>4
  <2> QED  BY <2>1, <2>2 DEF LastIsLatest
<1> QED  BY <1>1, LoggerInvariance, PTL DEF LoggerInv

-----------------------------------------------------------------------------
\* Close

LEMMA CloseInit == Init => CloseInv
BY DEF Init, CloseInv, Nobody, Elements

LEMMA CloseNext == LoggerInv /\ FlowInv /\ CloseInv /\ [Next]_vars => CloseInv'
<1> SUFFICES ASSUME LoggerInv, FlowInv, CloseInv, [Next]_vars PROVE CloseInv'  OBVIOUS
<1>1. /\ run \in [pc : PCs, entry : Entries \cup {Unused}, draining : BOOLEAN,
                  writes : 0 .. RotateEvery - 1]
      /\ handled \in Seq(Entries) /\ accepted \in Seq(Entries) /\ done \in BOOLEAN
  BY DEF LoggerInv
<1>2. \A s \in Seq(Entries), e \in Entries : Elements(s) \subseteq Elements(Append(s, e))
  <2> SUFFICES ASSUME NEW s \in Seq(Entries), NEW e \in Entries
               PROVE  Elements(s) \subseteq Elements(Append(s, e))
    OBVIOUS
  <2>1. \A i \in DOMAIN s : i \in DOMAIN Append(s, e) /\ Append(s, e)[i] = s[i]
    OBVIOUS
  <2> QED  BY <2>1 DEF Elements
<1>3. ASSUME NEW e \in Entries, Log(e) PROVE CloseInv'
  <2>1. Elements(before) \subseteq Elements(accepted')
    BY <1>1, <1>2, <1>3 DEF Log, CloseInv
  <2> QED  BY <1>3, <2>1 DEF Log, CloseInv
<1>4. CASE Leave
  <2>1. accepted = handled
    <3>1. ch = <<>> /\ InHand = <<>>
      BY <1>4 DEF Leave, DrainedAll, RunAt, InHand
    <3>2. handled \o <<>> = handled
      BY <1>1, ConcatEmptySeq
    <3> QED  BY <3>1, <3>2 DEF FlowInv
  <2> QED  BY <1>1, <1>4, <2>1 DEF Leave, CloseInv
<1>5. CASE SeeDone
  BY <1>1, <1>5 DEF SeeDone, RunAt, CloseInv
<1>6. CASE AddToRing
  BY <1>1, <1>6 DEF AddToRing, RunAt, CloseInv
<1>7. CASE Run /\ ~Leave /\ ~SeeDone /\ ~AddToRing
  <2>1. /\ run.pc # "left" /\ run'.pc # "left" /\ run'.draining = run.draining
        /\ UNCHANGED <<closing, done, before, accepted>>
    BY <1>1, <1>7 DEF Run, Take, RotateNot, RotateClose, Rename, Reopen, Write, Notify, RunAt,
                      RotateTo, UnchangedRest
  <2> QED  BY <2>1 DEF CloseInv
<1>8. CASE CloseDone
  BY <1>8 DEF CloseDone, CloseInv
<1>9. CASE CloseFile
  BY <1>9 DEF CloseFile, CloseInv
<1>10. CASE UNCHANGED <<closing, done, run, before, accepted, handled>>
  BY <1>10 DEF CloseInv
<1>11. ASSUME NEW s \in Subs, Subscribe(s) \/ Unsubscribe(s) \/ Read(s)
       PROVE  UNCHANGED <<closing, done, run, before, accepted, handled>>
  BY <1>11 DEF Subscribe, Unsubscribe, Read, UnchangedButSub
<1>12. UNCHANGED vars => UNCHANGED <<closing, done, run, before, accepted, handled>>
  BY DEF vars
<1> QED  BY <1>3, <1>4, <1>5, <1>6, <1>7, <1>8, <1>9, <1>10, <1>11, <1>12 DEF Next

\* Once Close has returned, all that was accepted before it was called has been
\* handled.
THEOREM CloseWaits == Spec => []CloseDrains
<1>1. CloseInv => CloseDrains
  BY DEF CloseInv, CloseDrains
<1> QED  BY <1>1, LoggerInvInit, LoggerInvNext, FlowInit, FlowNext, CloseInit, CloseNext, PTL DEF Spec
=============================================================================
