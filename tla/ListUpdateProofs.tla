---------------------------- MODULE ListUpdateProofs ----------------------------
(***************************************************************************)
(* Proofs about ListUpdate, for every source list, every length of it and  *)
(* every number of overlapping SaveConfig calls: type correctness, that    *)
(* no request for an update is lost, and that the database is made of all  *)
(* that one round of fetches got.                                          *)
(*                                                                         *)
(* The last needs OneURLPerName: the code keeps the ranges by the name of  *)
(* their source, so of two sources with one name and different URLs only   *)
(* one survives a merge (FetchedIsBlocked fails without it).  The dialog   *)
(* for a new source does not enforce it.                                   *)
(***************************************************************************)
EXTENDS ListUpdate, TLAPS, SequenceTheorems

\* What perSource keeps of a source, and what it may come to keep.
Entry(s) == [name |-> s.name, url |-> s.url]
Entries == NewSources \cup UNION {{Entry(l[i]) : i \in DOMAIN l} : l \in FirstLists}

OneURLPerName == \A f, g \in Entries : f.name = g.name => f = g

\* No edit and no update gives a source another name or URL.
KnownLists == {l \in Lists : \A i \in DOMAIN l : Entry(l[i]) \in Entries}

ListInv ==
  /\ ListTypeOK
  /\ \A k \in 0 .. MaxSaves : heap[k] \in KnownLists
  /\ job.list \in KnownLists /\ draft.list \in KnownLists
  /\ job.got \subseteq Entries

\* From the fetch to the database: what is on its way is all of one round.
WholeInv ==
  /\ {} \in rounds
  /\ job.all = Content(job.got)
  /\ job.pc \in {"copyback", "ranges", "merge", "append", "store", "sync"} => Content(job.got) \in rounds
  /\ job.pc \in {"merge", "append", "store", "sync"} => ranges = job.got
  /\ job.pc \in {"store", "sync"} => job.new \cap URLs = job.all
  /\ Content(ranges) \in rounds
  /\ \A k \in Saves : save[k].new \cap URLs \in rounds
  /\ DatabaseIsWhole

-----------------------------------------------------------------------------
\* The lists

LEMMA KnownIsList ==
  ASSUME NEW l \in KnownLists
  PROVE  /\ l \in Lists /\ l \in Seq(Source) /\ Len(l) \in 0 .. MaxSources /\ DOMAIN l = 1 .. Len(l)
         /\ \A i \in DOMAIN l : l[i] \in Source /\ Entry(l[i]) \in Entries
  BY ListAssumption DEF KnownLists, Lists

\* A list of the same length with the same entries.
LEMMA SameEntries ==
  ASSUME NEW l \in KnownLists, NEW m, m \in Seq(Source), DOMAIN m = DOMAIN l,
         \A i \in DOMAIN l : Entry(m[i]) = Entry(l[i])
  PROVE  m \in KnownLists
<1>1. Len(m) = Len(l)
  <2>1. l \in Seq(Source)
    BY DEF KnownLists, Lists
  <2> QED  BY <2>1
<1> QED  BY <1>1 DEF KnownLists, Lists

LEMMA SyncedKnown ==
  ASSUME NEW l \in KnownLists, NEW i \in DOMAIN l, NEW b \in BOOLEAN
  PROVE  [l EXCEPT ![i].synced = b] \in KnownLists
<1> DEFINE m == [l EXCEPT ![i].synced = b]
<1>1. l \in Seq(Source) /\ l[i] \in Source
  BY KnownIsList
<1>2. [l[i] EXCEPT !.synced = b] \in Source /\ Entry([l[i] EXCEPT !.synced = b]) = Entry(l[i])
  BY <1>1 DEF Source, Entry
<1>3. m \in Seq(Source) /\ DOMAIN m = DOMAIN l
  BY <1>1, <1>2
<1>4. \A j \in DOMAIN l : Entry(m[j]) = Entry(l[j])
  BY <1>1, <1>2
<1> QED  BY <1>3, <1>4, SameEntries

LEMMA CountedKnown ==
  ASSUME NEW l \in KnownLists, NEW i \in DOMAIN l, NEW u \in URLs
  PROVE  [l EXCEPT ![i] = [l[i] EXCEPT !.synced = TRUE, !.count = u]] \in KnownLists
<1> DEFINE s == [l[i] EXCEPT !.synced = TRUE, !.count = u]
           m == [l EXCEPT ![i] = s]
<1>1. l \in Seq(Source) /\ l[i] \in Source
  BY KnownIsList
<1>2. s \in Source /\ Entry(s) = Entry(l[i])
  BY <1>1 DEF Source, Entry
<1>3. i \in 1 .. Len(l) /\ DOMAIN l = 1 .. Len(l)
  BY <1>1
<1>4. m \in Seq(Source) /\ Len(m) = Len(l) /\ \A j \in 1 .. Len(l) : m[j] = IF j = i THEN s ELSE l[j]
  <2> HIDE DEF s
  <2> QED  BY <1>1, <1>2, <1>3, ExceptSeq
<1>5. DOMAIN m = DOMAIN l /\ \A j \in DOMAIN l : Entry(m[j]) = Entry(l[j])
  <2> HIDE DEF s, m
  <2> QED  BY <1>1, <1>2, <1>3, <1>4
<1> QED  BY <1>4, <1>5, SameEntries

LEMMA CopiedBackKnown ==
  ASSUME NEW old \in KnownLists, NEW new \in KnownLists
  PROVE  CopiedBack(old, new) \in KnownLists
<1> DEFINE m == CopiedBack(old, new)
<1>1. old \in Seq(Source) /\ DOMAIN old = 1 .. Len(old) /\ Len(old) \in Nat
  BY KnownIsList
<1>2. /\ \A i \in DOMAIN old : old[i] \in Source
      /\ \A i \in DOMAIN old : i <= Len(new) => new[i].count \in URLs \cup {NoURL}
  BY <1>1, KnownIsList DEF Source
<1>3. DOMAIN m = DOMAIN old
  BY DEF CopiedBack
<1>4. \A i \in DOMAIN old : m[i] \in Source /\ Entry(m[i]) = Entry(old[i])
  BY <1>2 DEF CopiedBack, Source, Entry
<1>5. m \in [1 .. Len(old) -> Source]
  BY <1>1, <1>3, <1>4 DEF CopiedBack
<1>6. m \in Seq(Source)
  <2> HIDE DEF m
  <2> QED  BY <1>1, <1>5, SeqDef
<1> QED  BY <1>3, <1>4, <1>6, SameEntries

\* What the user can do to a list.
LEMMA EditsKnown ==
  ASSUME NEW l \in KnownLists, NEW e \in SourceEdits(l)
  PROVE  e \in KnownLists
<1>1. /\ l \in Seq(Source) /\ Len(l) \in 0 .. MaxSources /\ DOMAIN l = 1 .. Len(l)
      /\ \A i \in DOMAIN l : l[i] \in Source /\ Entry(l[i]) \in Entries
      /\ MaxSources \in Nat
  BY KnownIsList, ListAssumption
<1>2. ASSUME NEW i \in DOMAIN l, e = [l EXCEPT ![i].enabled = ~@]
      PROVE  e \in KnownLists
  <2>1. [l[i] EXCEPT !.enabled = ~@] \in Source /\ Entry([l[i] EXCEPT !.enabled = ~@]) = Entry(l[i])
    BY <1>1 DEF Source, Entry
  <2>2. e \in Seq(Source) /\ DOMAIN e = DOMAIN l
    BY <1>1, <1>2, <2>1
  <2>3. \A j \in DOMAIN l : Entry(e[j]) = Entry(l[j])
    BY <1>1, <1>2, <2>1
  <2> QED  BY <2>2, <2>3, SameEntries
<1>3. ASSUME NEW i \in DOMAIN l, e = SubSeq(l, 1, i - 1) \o SubSeq(l, i + 1, Len(l))
      PROVE  e \in KnownLists
  <2> DEFINE p == SubSeq(l, 1, i - 1)
             q == SubSeq(l, i + 1, Len(l))
  <2>0. e = p \o q /\ i \in 1 .. Len(l)
    BY <1>1, <1>3
  <2>1. /\ p \in Seq(Source) /\ Len(p) = i - 1 /\ q \in Seq(Source) /\ Len(q) = Len(l) - i
        /\ \A j \in 1 .. i - 1 : p[j] = l[j]
        /\ \A j \in 1 .. Len(l) - i : q[j] = l[i + j]
    <3>1. i \in 1 .. Len(l) /\ \A j \in 1 .. i - 1 : l[j] \in Source
      BY <1>1
    <3>2. \A j \in i + 1 .. Len(l) : l[j] \in Source
      BY <1>1, <3>1
    <3>3. p \in Seq(Source) /\ Len(p) = i - 1 /\ \A j \in 1 .. i - 1 : p[j] = l[j]
      BY <1>1, <3>1, SubSeqProperties
    <3>4. q \in Seq(Source) /\ Len(q) = Len(l) - i /\ \A j \in 1 .. Len(l) - i : q[j] = l[i + j]
      <4>1. Len(l) \in Int /\ i + 1 \in Int
        BY <1>1, <3>1
      <4>2. /\ q \in Seq(Source)
            /\ Len(q) = IF i + 1 <= Len(l) THEN Len(l) - (i + 1) + 1 ELSE 0
            /\ \A j \in 1 .. Len(l) - (i + 1) + 1 : q[j] = l[(i + 1) + j - 1]
        BY <3>2, <4>1, SubSeqProperties
      <4>3. Len(l) \in Nat /\ i \in Nat /\ i <= Len(l)
        BY <1>1, <3>1
      <4> HIDE DEF q
      <4>4. Len(q) = Len(l) - i
        BY <4>2, <4>3
      <4>5. ASSUME NEW j \in 1 .. Len(l) - i  PROVE q[j] = l[i + j]
        <5>1. j \in 1 .. Len(l) - (i + 1) + 1 /\ (i + 1) + j - 1 = i + j
          BY <4>3
        <5> QED  BY <4>2, <5>1
      <4> QED  BY <4>2, <4>4, <4>5
    <3> QED  BY <3>3, <3>4
  <2> HIDE DEF p, q
  <2>2. /\ e \in Seq(Source) /\ Len(e) = Len(l) - 1
        /\ \A j \in 1 .. Len(l) - 1 : e[j] = IF j <= i - 1 THEN p[j] ELSE q[j - (i - 1)]
    <3>1. /\ e \in Seq(Source) /\ Len(e) = Len(p) + Len(q)
          /\ \A j \in 1 .. Len(p) + Len(q) : e[j] = IF j <= Len(p) THEN p[j] ELSE q[j - Len(p)]
      BY <2>0, <2>1, ConcatProperties
    <3>2. Len(p) + Len(q) = Len(l) - 1
      BY <1>1, <2>0, <2>1
    <3> QED  BY <2>1, <3>1, <3>2
  <2>3. \A j \in DOMAIN e : \E k \in DOMAIN l : e[j] = l[k]
    <3> TAKE j \in DOMAIN e
    <3>1. j \in 1 .. Len(l) - 1
      BY <2>2
    <3>2. CASE j <= i - 1
      BY <1>1, <2>0, <2>1, <2>2, <3>1, <3>2
    <3>3. CASE j > i - 1
      <4>1. e[j] = q[j - (i - 1)] /\ j - (i - 1) \in 1 .. Len(l) - i
        <5>1. i \in Nat /\ Len(l) \in Nat /\ j \in Nat
          BY <1>1, <2>0, <3>1
        <5>2. ~(j <= i - 1) /\ j - (i - 1) \in 1 .. Len(l) - i
          BY <3>1, <3>3, <5>1
        <5> QED  BY <2>2, <3>1, <5>2
      <4>2. e[j] = l[j + 1] /\ j + 1 \in DOMAIN l
        <5>1. i \in Nat /\ Len(l) \in Nat /\ j \in Nat
          BY <1>1, <2>0, <3>1
        <5>2. i + (j - (i - 1)) = j + 1 /\ j + 1 \in 1 .. Len(l)
          BY <3>1, <5>1
        <5> QED  BY <1>1, <2>1, <4>1, <5>2
      <4> QED  BY <4>2
    <3> QED  BY <1>1, <2>0, <3>1, <3>2, <3>3
  <2>4. \A j \in DOMAIN e : Entry(e[j]) \in Entries
    BY <1>1, <2>3
  <2> QED  BY <1>1, <2>2, <2>4 DEF KnownLists, Lists
<1>4. ASSUME NEW f \in NewSources, Len(l) < MaxSources, e = Append(l, Added(f))
      PROVE  e \in KnownLists
  <2>1. Added(f) \in Source /\ Entry(Added(f)) = f /\ f \in Entries
    BY ListAssumption DEF Added, Source, Entry, Entries, Fetched
  <2>2. /\ e \in Seq(Source) /\ Len(e) = Len(l) + 1 /\ DOMAIN e = 1 .. Len(l) + 1
        /\ \A j \in 1 .. Len(l) : e[j] = l[j]
        /\ e[Len(l) + 1] = Added(f)
    BY <1>1, <1>4, <2>1
  <2>3. \A j \in DOMAIN e : Entry(e[j]) \in Entries
    BY <1>1, <2>1, <2>2
  <2>4. Len(e) <= MaxSources
    BY <1>1, <1>4, <2>2
  <2> QED  BY <2>2, <2>3, <2>4 DEF KnownLists, Lists
<1> QED  BY <1>2, <1>3, <1>4 DEF SourceEdits

-----------------------------------------------------------------------------
\* Type correctness, and no entry that was not entered.

LEMMA InitList == Init => ListInv
<1> SUFFICES ASSUME Init PROVE ListInv  OBVIOUS
<1>1. /\ MaxSources \in Nat /\ MaxSaves \in Nat
      /\ <<>> \in KnownLists
  BY ListAssumption DEF KnownLists, Lists
<1>2. PICK l \in FirstLists : heap = [k \in 0 .. MaxSaves |-> IF k = 0 THEN l ELSE <<>>]
  BY DEF Init
<1>3. l \in KnownLists
  <2>1. l \in Lists
    BY ListAssumption DEF Lists
  <2>2. \A i \in DOMAIN l : Entry(l[i]) \in Entries
    BY DEF Entries
  <2> QED  BY <2>1, <2>2 DEF KnownLists
<1>4. \A k \in 0 .. MaxSaves : heap[k] \in KnownLists
  BY <1>1, <1>2, <1>3
<1>5. heap \in [0 .. MaxSaves -> Lists] /\ heap[0] \in KnownLists
  BY <1>1, <1>2, <1>3, <1>4 DEF KnownLists
<1>6. job = NewJob /\ job.list \in KnownLists /\ job.got = {}
  BY <1>1 DEF Init, NewJob
<1>7. job \in [pc : JobPCs, silent : BOOLEAN, list : Lists, i : 1 .. MaxSources + 1,
               n : 0 .. MaxSources, got : SUBSET Fetched, all : SUBSET URLs, new : Database,
               diffs : SUBSET Names]
  BY <1>1, <1>6 DEF NewJob, JobPCs, KnownLists, Database
<1>8. draft.list \in KnownLists /\ draft \in [list : Lists, rules : SUBSET Rules]
  BY <1>5 DEF Init, KnownLists
<1>9. /\ cfg \in [src : 0 .. MaxSaves, rules : SUBSET Rules] /\ sources \in 0 .. MaxSaves
      /\ custom \in SUBSET Rules
  BY <1>1 DEF Init
<1>10. save \in [Saves -> [pc : SavePCs, rules : SUBSET Rules, new : Database]]
  <2>1. [pc |-> "unused", rules |-> {}, new |-> {}] \in [pc : SavePCs, rules : SUBSET Rules, new : Database]
    BY DEF SavePCs, Database
  <2> QED  BY <2>1 DEF Init
<1>11. /\ ranges \in SUBSET Fetched /\ db \in Database
       /\ {trigger, owed, panicked} \subseteq BOOLEAN /\ rounds \in SUBSET (SUBSET URLs)
  BY DEF Init, Database
<1> QED  BY <1>4, <1>5, <1>6, <1>7, <1>8, <1>9, <1>10, <1>11 DEF ListInv, ListTypeOK

Jobs == [pc : JobPCs, silent : BOOLEAN, list : Lists, i : 1 .. MaxSources + 1,
         n : 0 .. MaxSources, got : SUBSET Fetched, all : SUBSET URLs, new : Database,
         diffs : SUBSET Names]

LEMMA NewJobType == NewJob \in Jobs /\ NewJob.list = <<>> /\ NewJob.got = {} /\ NewJob.all = {}
<1>1. /\ 1 \in 1 .. MaxSources + 1 /\ 0 \in 0 .. MaxSources /\ <<>> \in Lists
      /\ {} \in SUBSET Fetched /\ {} \in SUBSET URLs /\ {} \in Database /\ {} \in SUBSET Names
      /\ "start" \in JobPCs
  BY ListAssumption DEF Database, Lists, JobPCs
<1> QED  BY <1>1 DEF NewJob, Jobs

\* The steps of the updater that move job along and leave the lists alone.
LEMMA RunList ==
  ASSUME ListInv, Scheduled \/ Manual \/ Stopped \/ Skip \/ FetchFails \/ Diff \/ CheckCustom
                  \/ StoreRanges \/ StoreDatabase \/ SyncEnd \/ AppendCustom
  PROVE  ListInv'
<1>1. MaxSources \in Nat /\ <<>> \in KnownLists
  BY ListAssumption DEF KnownLists, Lists
<1>2. job.list \in Lists /\ Len(job.list) \in 0 .. MaxSources /\ DOMAIN job.list = 1 .. Len(job.list)
      /\ \A i \in DOMAIN job.list : job.list[i].name \in Names
  BY KnownIsList DEF ListInv, Source
<1>3. CASE Scheduled \/ Manual \/ Stopped
  BY <1>3 DEF ListInv, ListTypeOK, Scheduled, Manual, Stopped, JobPCs, appVars
<1>4. CASE Skip \/ FetchFails
  <2>1. job.i \in 1 .. MaxSources + 1 /\ job.i <= Len(job.list)
    BY <1>4 DEF ListInv, ListTypeOK, Skip, FetchFails
  <2>2. job.i + 1 \in 1 .. MaxSources + 1
    BY <1>1, <1>2, <2>1
  <2>3. job' = [job EXCEPT !.i = job.i + 1] /\ UNCHANGED <<appVars, trigger, owed, rounds, panicked, draft, save>>
    BY <1>4 DEF Skip, FetchFails, ListInv, ListTypeOK
  <2> QED  BY <2>2, <2>3 DEF ListInv, ListTypeOK, appVars
<1>5. CASE Diff
  <2>1. {job.list[i].name : i \in {j \in DOMAIN job.list : HasDiff(job.list[j])}} \in SUBSET Names
    BY <1>2
  <2>2. Content(job.got) \in SUBSET URLs
    BY DEF ListInv, ListTypeOK, Content, Fetched
  <2> QED  BY <1>5, <2>1, <2>2 DEF ListInv, ListTypeOK, Diff, JobPCs, appVars
<1>6. CASE CheckCustom
  BY <1>6 DEF ListInv, ListTypeOK, CheckCustom, JobPCs, Database, appVars
<1>7. CASE StoreRanges \/ StoreDatabase
  BY <1>7 DEF ListInv, ListTypeOK, StoreRanges, StoreDatabase, JobPCs
<1>8. CASE SyncEnd
  <2>1. job' = [NewJob EXCEPT !.pc = "waiting"]
    BY <1>8 DEF SyncEnd
  <2>2. job' \in Jobs /\ job'.list = <<>> /\ job'.got = {}
    BY <2>1, NewJobType DEF Jobs, JobPCs
  <2> QED  BY <1>1, <1>8, <2>2 DEF ListInv, ListTypeOK, Jobs, SyncEnd, appVars
<1>9. CASE AppendCustom
  <2>1. WithCustom \in Database
    BY DEF WithCustom, Content, Database, Fetched, ListInv, ListTypeOK
  <2> QED  BY <1>9, <2>1 DEF ListInv, ListTypeOK, AppendCustom, JobPCs, appVars
<1> QED  BY <1>3, <1>4, <1>5, <1>6, <1>7, <1>8, <1>9

LEMMA BeginList == ASSUME ListInv, Begin PROVE ListInv'
<1>1. MaxSources \in Nat /\ heap[sources] \in KnownLists /\ heap[sources] \in Lists
  BY ListAssumption DEF ListInv, ListTypeOK, KnownLists
<1>2. job' = [NewJob EXCEPT !.pc = "fetch", !.silent = JobAt("start"), !.list = heap[sources]]
      /\ "fetch" \in JobPCs /\ JobAt("start") \in BOOLEAN
  BY DEF Begin, JobPCs, JobAt
<1>3. job' \in Jobs /\ job'.list = heap[sources] /\ job'.got = {}
  BY <1>1, <1>2, NewJobType DEF Jobs
<1> QED  BY <1>1, <1>2, <1>3 DEF ListInv, ListTypeOK, Jobs, Begin, appVars

LEMMA FetchSucceedsList == ASSUME ListInv, FetchSucceeds PROVE ListInv'
<1> DEFINE s == job.list[job.i]
<1>1. /\ job.i \in DOMAIN job.list /\ s \in Source /\ Entry(s) \in Entries /\ job.list \in KnownLists
      /\ job.i + 1 \in 1 .. MaxSources + 1
  <2>1. job.i \in 1 .. MaxSources + 1 /\ job.list \in KnownLists /\ MaxSources \in Nat
        /\ job.i <= Len(job.list)
    BY ListAssumption DEF ListInv, ListTypeOK, FetchSucceeds
  <2>2. job.i \in DOMAIN job.list /\ Len(job.list) <= MaxSources
    BY <2>1, KnownIsList
  <2>3. job.i + 1 \in 1 .. MaxSources + 1
    BY <2>1, <2>2, KnownIsList
  <2> QED  BY <2>1, <2>2, <2>3, KnownIsList
<1>2. job'.list = [job.list EXCEPT ![job.i] = [s EXCEPT !.synced = TRUE, !.count = s.url]]
  BY DEF FetchSucceeds, ListInv, ListTypeOK
<1>3. s.url \in URLs /\ s.name \in Names
  BY <1>1 DEF Source
<1>4. job'.list \in KnownLists /\ job'.list \in Lists
  <2>1. job'.list \in KnownLists
    <3>1. [job.list EXCEPT ![job.i] = [job.list[job.i] EXCEPT !.synced = TRUE, !.count = s.url]]
            \in KnownLists
      BY <1>1, <1>3, CountedKnown
    <3> QED  BY <1>2, <3>1
  <2> QED  BY <2>1 DEF KnownLists
<1>5. Put(job.got, s) \subseteq Entries /\ Put(job.got, s) \subseteq Fetched
  BY <1>1, <1>3 DEF ListInv, ListTypeOK, Put, Entry, Fetched
<1>6. job \in Jobs
  BY DEF ListInv, ListTypeOK, Jobs
<1>7. /\ job'.i = job.i + 1 /\ job'.got = Put(job.got, s) /\ job'.all = job.all \cup {s.url}
      /\ job'.pc = job.pc /\ job'.silent = job.silent /\ job'.n = job.n /\ job'.new = job.new
      /\ job'.diffs = job.diffs
      /\ job' = [pc |-> job'.pc, silent |-> job'.silent, list |-> job'.list, i |-> job'.i,
                 n |-> job'.n, got |-> job'.got, all |-> job'.all, new |-> job'.new,
                 diffs |-> job'.diffs]
  BY <1>6 DEF FetchSucceeds, Jobs
<1>8. job' \in Jobs
  <2>1. /\ job.pc \in JobPCs /\ job.silent \in BOOLEAN /\ job.n \in 0 .. MaxSources
        /\ job.all \in SUBSET URLs /\ job.new \in Database /\ job.diffs \in SUBSET Names
    BY <1>6 DEF Jobs
  <2>2. /\ job'.pc \in JobPCs /\ job'.silent \in BOOLEAN /\ job'.n \in 0 .. MaxSources
        /\ job'.all \in SUBSET URLs /\ job'.new \in Database /\ job'.diffs \in SUBSET Names
        /\ job'.list \in Lists /\ job'.i \in 1 .. MaxSources + 1 /\ job'.got \in SUBSET Fetched
    BY <1>1, <1>3, <1>4, <1>5, <1>7, <2>1
  <2> QED  BY <1>7, <2>2 DEF Jobs
<1>9. UNCHANGED <<appVars, trigger, owed, rounds, panicked, draft, save>>
  BY DEF FetchSucceeds
<1> QED  BY <1>4, <1>5, <1>7, <1>8, <1>9 DEF ListInv, ListTypeOK, Jobs, appVars

LEMMA CopyBackList == ASSUME ListInv, CopyBack PROVE ListInv'
<1>1. sources \in 0 .. MaxSaves /\ heap \in [0 .. MaxSaves -> Lists]
      /\ CopiedBack(heap[sources], job.list) \in KnownLists
  BY CopiedBackKnown DEF ListInv, ListTypeOK
<1>2. heap' = [heap EXCEPT ![sources] = CopiedBack(heap[sources], job.list)]
  BY DEF CopyBack
<1>3. heap' \in [0 .. MaxSaves -> Lists] /\ \A k \in 0 .. MaxSaves : heap'[k] \in KnownLists
  BY <1>1, <1>2 DEF ListInv, KnownLists
<1> QED  BY <1>3 DEF CopyBack, ListInv, ListTypeOK, JobPCs

LEMMA SyncBeginList == ASSUME ListInv, SyncBegin PROVE ListInv'
<1>1. /\ MaxSources \in Nat /\ heap[sources] \in KnownLists /\ heap[sources] \in Lists
      /\ heap[cfg.src] \in KnownLists
  BY ListAssumption DEF ListInv, ListTypeOK, KnownLists
<1>2. Len(heap[cfg.src]) \in 0 .. MaxSources
  BY <1>1, KnownIsList
<1> DEFINE n == IF heap[sources] = <<>> THEN 0 ELSE Len(heap[cfg.src])
<1>4. n \in 0 .. MaxSources /\ 1 \in 1 .. MaxSources + 1
  BY <1>1, <1>2
<1>5. job' = [job EXCEPT !.pc = "syncing", !.list = heap[sources], !.i = 1, !.n = n]
  BY DEF SyncBegin
<1>6. job' \in Jobs /\ job'.list = heap[sources] /\ job'.got = job.got
  <2> HIDE DEF n
  <2> QED  BY <1>1, <1>4, <1>5 DEF ListInv, ListTypeOK, Jobs, JobPCs
<1> QED  BY <1>1, <1>6 DEF SyncBegin, ListInv, ListTypeOK, Jobs, appVars

LEMMA SyncOneList == ASSUME ListInv, SyncOne PROVE ListInv'
<1>1. CASE panicked' = TRUE /\ UNCHANGED <<heap, job>>
  BY <1>1 DEF SyncOne, ListInv, ListTypeOK
<1>2. CASE /\ job.i <= Len(heap[cfg.src])
           /\ heap' = [heap EXCEPT ![cfg.src][job.i].synced =
                         @ \/ \E i \in DOMAIN job.list :
                                job.list[i].synced /\ job.list[i].name = heap[cfg.src][job.i].name]
           /\ job' = [job EXCEPT !.i = @ + 1]
           /\ UNCHANGED panicked
  <2> DEFINE l == heap[cfg.src]
             b == l[job.i].synced \/ \E i \in DOMAIN job.list :
                    job.list[i].synced /\ job.list[i].name = l[job.i].name
  <2>1. /\ cfg.src \in 0 .. MaxSaves /\ heap \in [0 .. MaxSaves -> Lists] /\ l \in KnownLists
        /\ job.i \in 1 .. MaxSources + 1 /\ MaxSources \in Nat
    BY ListAssumption DEF ListInv, ListTypeOK
  <2>2. job.i \in DOMAIN l /\ job.i + 1 \in 1 .. MaxSources + 1
    BY <1>2, <2>1, KnownIsList
  <2>3. b \in BOOLEAN
    <3>1. l[job.i].synced \in BOOLEAN
      BY <2>1, <2>2, KnownIsList DEF Source
    <3> QED  BY <3>1
  <2>4. heap' = [heap EXCEPT ![cfg.src] = [l EXCEPT ![job.i].synced = b]]
    BY <1>2, <2>1, <2>2
  <2>5. [l EXCEPT ![job.i].synced = b] \in KnownLists
    <3> HIDE DEF b, l
    <3> QED  BY <2>1, <2>2, <2>3, SyncedKnown
  <2>6. heap' \in [0 .. MaxSaves -> Lists] /\ \A k \in 0 .. MaxSaves : heap'[k] \in KnownLists
    <3> HIDE DEF b, l
    <3> QED  BY <2>1, <2>4, <2>5 DEF ListInv, KnownLists
  <2> QED  BY <1>2, <2>2, <2>6 DEF SyncOne, ListInv, ListTypeOK
<1> QED  BY <1>1, <1>2 DEF SyncOne

\* The window and its calls.

LEMMA CallList == ASSUME ListInv, NEW k \in Saves, Call(k) PROVE ListInv'
<1>1. PICK d \in Edits :
        /\ draft' = d
        /\ heap' = [heap EXCEPT ![k] = d.list]
        /\ save' = [save EXCEPT ![k].pc = "assign", ![k].rules = d.rules]
  BY DEF Call
<1>2. d \in [list : KnownLists, rules : SUBSET Rules]
  <2>1. draft.list \in KnownLists /\ draft.rules \in SUBSET Rules
    BY DEF ListInv, ListTypeOK
  <2> QED  BY <2>1, EditsKnown DEF Edits
<1>3. d \in [list : Lists, rules : SUBSET Rules]
  BY <1>2 DEF KnownLists
<1>4. k \in 0 .. MaxSaves
  BY ListAssumption DEF Saves
<1>5. heap' \in [0 .. MaxSaves -> Lists] /\ \A j \in 0 .. MaxSaves : heap'[j] \in KnownLists
  BY <1>1, <1>2, <1>3, <1>4 DEF ListInv, ListTypeOK
<1>6. save' \in [Saves -> [pc : SavePCs, rules : SUBSET Rules, new : Database]]
  BY <1>1, <1>2 DEF ListInv, ListTypeOK, SavePCs
<1> QED  BY <1>1, <1>2, <1>3, <1>5, <1>6 DEF Call, ListInv, ListTypeOK, updaterVars

LEMMA SaveConfigList == ASSUME ListInv, NEW k \in Saves, SaveConfig(k) PROVE ListInv'
<1>1. k \in 0 .. MaxSaves /\ save[k] \in [pc : SavePCs, rules : SUBSET Rules, new : Database]
  BY ListAssumption DEF Saves, ListInv, ListTypeOK
<1>2. CASE Assign(k)
  BY <1>1, <1>2 DEF Assign, ListInv, ListTypeOK, SavePCs, updaterVars
<1>3. CASE Parse(k)
  BY <1>1, <1>3 DEF Parse, ListInv, ListTypeOK, SavePCs, updaterVars
<1>4. CASE Rebuild(k)
  <2>1. WithCustom \in Database
    BY DEF WithCustom, Content, Database, Fetched, ListInv, ListTypeOK
  <2> QED  BY <1>1, <1>4, <2>1 DEF Rebuild, ListInv, ListTypeOK, SavePCs, updaterVars, appVars
<1>5. CASE StoreRebuilt(k)
  <2>1. {} \in Database
    BY DEF Database
  <2> QED  BY <1>1, <1>5, <2>1 DEF StoreRebuilt, ListInv, ListTypeOK, SavePCs, updaterVars
<1>6. CASE RefreshSources(k)
  BY <1>1, <1>6 DEF RefreshSources, Refreshed, ListInv, ListTypeOK, SavePCs, updaterVars
<1> QED  BY <1>2, <1>3, <1>4, <1>5, <1>6 DEF SaveConfig

LEMMA OtherList == ASSUME ListInv, TriggerManual \/ Mount \/ UNCHANGED vars PROVE ListInv'
<1>1. CASE TriggerManual
  BY <1>1 DEF TriggerManual, Kept, ListInv, ListTypeOK, appVars
<1>2. CASE Mount
  <2>1. heap[cfg.src] \in KnownLists /\ heap[cfg.src] \in Lists
    BY DEF ListInv, ListTypeOK
  <2> QED  BY <1>2, <2>1 DEF Mount, ListInv, ListTypeOK, appVars, updaterVars
<1>3. CASE UNCHANGED vars
  BY <1>3 DEF ListInv, ListTypeOK, vars, appVars, updaterVars
<1> QED  BY <1>1, <1>2, <1>3

LEMMA ListInvariance == Spec => []ListInv
<1>1. ListInv /\ [Next]_vars => ListInv'
  BY RunList, BeginList, FetchSucceedsList, CopyBackList, SyncBeginList, SyncOneList, CallList,
     SaveConfigList, OtherList DEF Next, Run, UpdateAll
<1> QED  BY <1>1, InitList, PTL DEF Spec

\* Type correctness, for every list and every interleaving of SaveConfig calls
\* with the updater.
THEOREM ListTypeCorrect == Spec => []ListTypeOK
<1>1. ListInv => ListTypeOK
  BY DEF ListInv
<1> QED  BY <1>1, ListInvariance, PTL

-----------------------------------------------------------------------------
\* Requests

\* TriggerManual: a request that no update has answered is still in
\* manualTrigger, or the update that will answer it is about to begin.
THEOREM RequestsAreNeverLost == Spec => []NoRequestLost
<1>1. Init => NoRequestLost
  BY DEF Init, NoRequestLost
<1>2. ListTypeOK /\ NoRequestLost /\ [Next]_vars => NoRequestLost'
  <2> SUFFICES ASSUME ListTypeOK, NoRequestLost, [Next]_vars PROVE NoRequestLost'  OBVIOUS
  <2>1. CASE Run
    <3>1. Begin => owed' = FALSE
      BY DEF Begin
    <3>2. Scheduled \/ Manual => job'.pc = "begin"
      BY DEF ListTypeOK, Scheduled, Manual
    <3>3. Stopped => job'.pc = "stopped"
      BY DEF ListTypeOK, Stopped
    <3>4. Run => Begin \/ Scheduled \/ Manual \/ Stopped
                 \/ (job.pc \notin {"start", "begin", "stopped"} /\ UNCHANGED <<owed, trigger>>)
      <4>1. Skip \/ FetchFails \/ FetchSucceeds \/ Diff \/ CopyBack \/ StoreRanges =>
              job.pc \notin {"start", "begin", "stopped"} /\ UNCHANGED <<owed, trigger>>
        BY DEF Skip, FetchFails, FetchSucceeds, Diff, CopyBack, StoreRanges, JobAt
      <4>2. CheckCustom \/ AppendCustom \/ StoreDatabase \/ SyncBegin \/ SyncOne \/ SyncEnd =>
              job.pc \notin {"start", "begin", "stopped"} /\ UNCHANGED <<owed, trigger>>
        BY DEF CheckCustom, AppendCustom, StoreDatabase, SyncBegin, SyncOne, SyncEnd, JobAt, appVars
      <4> QED  BY <4>1, <4>2 DEF Run, UpdateAll
    <3> QED  BY <2>1, <3>1, <3>2, <3>3, <3>4 DEF NoRequestLost
  <2>2. CASE TriggerManual
    BY <2>2 DEF TriggerManual, Kept, NoRequestLost
  <2>3. CASE Mount \/ \E k \in Saves : Call(k) \/ SaveConfig(k)
    <3>1. UNCHANGED updaterVars
      BY <2>3 DEF Mount, Call, SaveConfig, Assign, Parse, Rebuild, StoreRebuilt, RefreshSources
    <3> QED  BY <3>1 DEF updaterVars, NoRequestLost
  <2>4. CASE UNCHANGED vars
    BY <2>4 DEF vars, updaterVars, NoRequestLost
  <2> QED  BY <2>1, <2>2, <2>3, <2>4 DEF Next
<1> QED  BY <1>1, <1>2, ListTypeCorrect, PTL DEF Spec

-----------------------------------------------------------------------------
\* The database

LEMMA PutAddsEntry ==
  ASSUME OneURLPerName, NEW rs, rs \subseteq Entries, NEW s, Entry(s) \in Entries
  PROVE  Put(rs, s) = rs \cup {Entry(s)}
  BY DEF OneURLPerName, Put, Entry

\* The source part of what AppendCustom and rebuildDB build.
LEMMA SourcePart ==
  ASSUME ListInv
  PROVE  /\ WithCustom \cap URLs = Content(ranges)
         /\ job.all \in SUBSET URLs
         /\ job.all = Content(job.got) => job.all \cap URLs = Content(job.got)
  BY ListAssumption DEF WithCustom, Content, ListInv, ListTypeOK, Fetched

LEMMA UpdateWhole ==
  ASSUME OneURLPerName, ListInv, WholeInv, UpdateAll  PROVE WholeInv'
<1>1. CASE Begin \/ SyncEnd
  <2>1. /\ job'.pc \in {"fetch", "waiting"} /\ job'.got = {} /\ job'.all = {}
        /\ UNCHANGED <<appVars, rounds, save>>
    BY <1>1, NewJobType DEF Begin, SyncEnd, Jobs
  <2> QED  BY <2>1 DEF WholeInv, DatabaseIsWhole, Content, appVars
<1>2. CASE Skip \/ FetchFails
  <2>1. /\ job'.pc = "fetch" /\ job'.got = job.got /\ job'.all = job.all
        /\ UNCHANGED <<appVars, rounds, save>>
    BY <1>2 DEF Skip, FetchFails, JobAt, ListInv, ListTypeOK
  <2> QED  BY <2>1 DEF WholeInv, DatabaseIsWhole, appVars
<1>3. CASE FetchSucceeds
  <2> DEFINE s == job.list[job.i]
  <2>1. /\ job'.pc = "fetch" /\ job'.got = Put(job.got, s) /\ job'.all = job.all \cup {s.url}
        /\ UNCHANGED <<appVars, rounds, save>>
    BY <1>3 DEF FetchSucceeds, JobAt, ListInv, ListTypeOK
  <2>2. Entry(s) \in Entries
    <3>1. job.list \in KnownLists /\ job.i \in Nat \ {0} /\ job.i <= Len(job.list)
      BY <1>3 DEF FetchSucceeds, ListInv, ListTypeOK
    <3> QED  BY <3>1, KnownIsList
  <2>3. job'.got = job.got \cup {Entry(s)}
    <3> HIDE DEF s
    <3> QED  BY <2>1, <2>2, PutAddsEntry DEF ListInv
  <2>4. job'.all = Content(job'.got)
    <3>1. Content(job.got \cup {Entry(s)}) = Content(job.got) \cup {s.url}
      <4>1. \A A, e : Content(A \cup {e}) = Content(A) \cup {e.url}
        BY DEF Content
      <4>2. Entry(s).url = s.url
        BY DEF Entry
      <4> QED  BY <4>1, <4>2
    <3> QED  BY <2>1, <2>3, <3>1 DEF WholeInv
  <2> QED  BY <2>1, <2>4 DEF WholeInv, DatabaseIsWhole, appVars
<1>4. CASE Diff
  <2>1. /\ job'.pc = "copyback" /\ job'.got = job.got /\ job'.all = job.all
        /\ rounds' = rounds \cup {Content(job.got)}
        /\ UNCHANGED <<appVars, save>>
    BY <1>4 DEF Diff, ListInv, ListTypeOK
  <2> QED  BY <2>1 DEF WholeInv, DatabaseIsWhole, appVars
<1>5. CASE CopyBack
  <2>1. /\ job.pc = "copyback" /\ job'.pc = "ranges" /\ job'.got = job.got /\ job'.all = job.all
        /\ UNCHANGED <<ranges, db, rounds, save>>
    BY <1>5 DEF CopyBack, JobAt, ListInv, ListTypeOK
  <2> QED  BY <2>1 DEF WholeInv, DatabaseIsWhole
<1>6. CASE StoreRanges
  <2>1. /\ job.pc = "ranges" /\ job'.pc = "merge" /\ job'.got = job.got /\ job'.all = job.all
        /\ ranges' = job.got
        /\ UNCHANGED <<db, rounds, save>>
    BY <1>6 DEF StoreRanges, JobAt, ListInv, ListTypeOK
  <2> QED  BY <2>1 DEF WholeInv, DatabaseIsWhole
<1>7. CASE CheckCustom
  <2>1. /\ job.pc = "merge" /\ job'.pc \in {"append", "store"} /\ job'.got = job.got
        /\ job'.all = job.all /\ job'.new = job.all
        /\ UNCHANGED <<appVars, rounds, save>>
    BY <1>7 DEF CheckCustom, JobAt, ListInv, ListTypeOK
  <2> QED  BY <2>1, SourcePart DEF WholeInv, DatabaseIsWhole, appVars
<1>8. CASE AppendCustom
  <2>1. /\ job.pc = "append" /\ job'.pc = "store" /\ job'.got = job.got /\ job'.all = job.all
        /\ job'.new = WithCustom
        /\ UNCHANGED <<appVars, rounds, save>>
    BY <1>8 DEF AppendCustom, JobAt, ListInv, ListTypeOK
  <2>2. job'.new \cap URLs = job'.all
    BY <2>1, SourcePart DEF WholeInv
  <2> QED  BY <2>1, <2>2 DEF WholeInv, DatabaseIsWhole, appVars
<1>9. CASE StoreDatabase
  <2>1. /\ job.pc = "store" /\ job'.pc = "sync" /\ job'.got = job.got /\ job'.all = job.all
        /\ job'.new = job.new /\ db' = job.new
        /\ UNCHANGED <<ranges, rounds, save>>
    BY <1>9 DEF StoreDatabase, JobAt, ListInv, ListTypeOK
  <2> QED  BY <2>1 DEF WholeInv, DatabaseIsWhole
<1>10. CASE SyncBegin \/ SyncOne
  <2>1. /\ job'.pc = "syncing" /\ job'.got = job.got /\ job'.all = job.all
        /\ UNCHANGED <<ranges, db, rounds, save>>
    BY <1>10 DEF SyncBegin, SyncOne, JobAt, appVars, ListInv, ListTypeOK
  <2> QED  BY <2>1 DEF WholeInv, DatabaseIsWhole
<1> QED  BY <1>1, <1>2, <1>3, <1>4, <1>5, <1>6, <1>7, <1>8, <1>9, <1>10 DEF UpdateAll

LEMMA WindowWhole ==
  ASSUME ListInv, WholeInv, NEW k \in Saves, Call(k) \/ SaveConfig(k)  PROVE WholeInv'
<1>1. /\ save \in [Saves -> [pc : SavePCs, rules : SUBSET Rules, new : Database]]
      /\ UNCHANGED updaterVars /\ ranges' = ranges
  BY DEF ListInv, ListTypeOK, Call, SaveConfig, Assign, Parse, Rebuild, StoreRebuilt,
     RefreshSources, appVars
<1>2. CASE Call(k) \/ Assign(k) \/ Parse(k) \/ RefreshSources(k)
  <2>1. UNCHANGED db /\ \A j \in Saves : save'[j].new = save[j].new
    BY <1>1, <1>2 DEF Call, Assign, Parse, RefreshSources
  <2> QED  BY <1>1, <2>1 DEF WholeInv, DatabaseIsWhole, updaterVars
<1>3. CASE Rebuild(k)
  <2>1. UNCHANGED db /\ \A j \in Saves : save'[j].new = IF j = k THEN WithCustom ELSE save[j].new
    BY <1>1, <1>3 DEF Rebuild, appVars
  <2> QED  BY <1>1, <2>1, SourcePart DEF WholeInv, DatabaseIsWhole, updaterVars
<1>4. CASE StoreRebuilt(k)
  <2>1. db' = save[k].new /\ \A j \in Saves : save'[j].new = IF j = k THEN {} ELSE save[j].new
    BY <1>1, <1>4 DEF StoreRebuilt
  <2>2. {} \cap URLs \in rounds
    BY DEF WholeInv
  <2> QED  BY <1>1, <2>1, <2>2 DEF WholeInv, DatabaseIsWhole, updaterVars
<1> QED  BY <1>2, <1>3, <1>4 DEF SaveConfig

LEMMA WholeInvariance == OneURLPerName => (Spec => [](ListInv /\ WholeInv))
<1> SUFFICES ASSUME OneURLPerName PROVE Spec => [](ListInv /\ WholeInv)  OBVIOUS
<1>1. Init => WholeInv
  <2> SUFFICES ASSUME Init PROVE WholeInv  OBVIOUS
  <2>1. /\ job.pc = "start" /\ job.got = {} /\ job.all = {} /\ ranges = {} /\ db = {}
        /\ rounds = {{}} /\ \A k \in Saves : save[k].new = {}
    BY DEF Init, NewJob
  <2> QED  BY <2>1 DEF WholeInv, DatabaseIsWhole, Content
<1>2. ListInv /\ WholeInv /\ [Next]_vars => WholeInv'
  <2> SUFFICES ASSUME ListInv, WholeInv, [Next]_vars PROVE WholeInv'  OBVIOUS
  <2>1. CASE Scheduled \/ Manual \/ Stopped
    <3>1. /\ job'.pc \in {"begin", "stopped"} /\ job'.got = job.got /\ job'.all = job.all
          /\ UNCHANGED <<appVars, rounds, save>>
      BY <2>1 DEF Scheduled, Manual, Stopped, ListInv, ListTypeOK
    <3> QED  BY <3>1 DEF WholeInv, DatabaseIsWhole, appVars
  <2>2. CASE UpdateAll
    BY <2>2, UpdateWhole
  <2>3. CASE TriggerManual \/ Mount \/ UNCHANGED vars
    <3>1. UNCHANGED <<appVars, job, rounds, save>>
      BY <2>3 DEF TriggerManual, Mount, vars, updaterVars
    <3> QED  BY <3>1 DEF WholeInv, DatabaseIsWhole, appVars
  <2>4. CASE \E k \in Saves : Call(k) \/ SaveConfig(k)
    BY <2>4, WindowWhole
  <2> QED  BY <2>1, <2>2, <2>3, <2>4 DEF Next, Run
<1> QED  BY <1>1, <1>2, ListInvariance, PTL DEF Spec

\* The filter never works with half a database, whichever of onReload and any
\* number of overlapping SaveConfig calls stores it: its source part is all
\* that one round of fetches got.
THEOREM DatabasesAreWhole == OneURLPerName => (Spec => []DatabaseIsWhole)
<1> SUFFICES ASSUME OneURLPerName PROVE Spec => []DatabaseIsWhole  OBVIOUS
<1>1. WholeInv => DatabaseIsWhole
  BY DEF WholeInv
<1> QED  BY <1>1, WholeInvariance, PTL

\* onReload: the merge of custom rules keeps everything the updater fetched.
THEOREM FetchedSourcesAreBlocked == OneURLPerName => (Spec => []FetchedIsBlocked)
<1> SUFFICES ASSUME OneURLPerName PROVE Spec => []FetchedIsBlocked  OBVIOUS
<1>1. WholeInv => FetchedIsBlocked
  BY DEF WholeInv, FetchedIsBlocked
<1> QED  BY <1>1, WholeInvariance, PTL

=============================================================================
