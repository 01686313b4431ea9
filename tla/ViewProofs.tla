------------------------------ MODULE ViewProofs ------------------------------
(***************************************************************************)
(* Proofs about the views of the window, for any lists, names, addresses   *)
(* and limits, and any number of events, calls and tabs.  The first part   *)
(* is about what they show of the running filter (Live): samples and log   *)
(* entries travel to the window in one queue, and the invariants speak of  *)
(* messages of a kind that follow each other in it, the place behind the   *)
(* last one standing for what Go would send next.  The second part is      *)
(* about the configuration that the views edit (Settings): what the calls  *)
(* under way will make of it.  The parts share nothing.                    *)
(***************************************************************************)
EXTENDS Live, Settings, SequenceTheorems, TLAPS

-----------------------------------------------------------------------------
\* Messages of a kind

\* In the queue q: j is a message of kind k, or the place behind the last one;
\* it is the first such; it is the next one after the message i of that kind.
At(q, k, j) == j = Len(q) + 1 \/ (j \in 1 .. Len(q) /\ q[j][1] = k)
First(q, k, j) == At(q, k, j) /\ \A l \in 1 .. j - 1 : q[l][1] # k
Follows(q, k, i, j) ==
  /\ i \in 1 .. Len(q) /\ q[i][1] = k /\ At(q, k, j) /\ i < j
  /\ \A l \in i + 1 .. j - 1 : q[l][1] # k

\* A message of another kind is appended.
LEMMA AppendOther ==
  ASSUME NEW S, NEW q \in Seq(S), NEW m \in S, NEW k, m[1] # k,
         NEW j \in 1 .. Len(q) + 2
  PROVE  LET r == Append(q, m)
             o == IF j = Len(q) + 2 THEN Len(q) + 1 ELSE j
         IN  /\ First(r, k, j) => First(q, k, o)
             /\ \A i \in 1 .. Len(q) + 2 :
                  Follows(r, k, i, j) => i \in 1 .. Len(q) /\ Follows(q, k, i, o)
             /\ At(r, k, j) => j # Len(q) + 1
<1> DEFINE r == Append(q, m)
           o == IF j = Len(q) + 2 THEN Len(q) + 1 ELSE j
<1>1. /\ Len(q) \in Nat /\ Len(r) = Len(q) + 1 /\ r[Len(q) + 1] = m
      /\ \A i \in 1 .. Len(q) : r[i] = q[i]
  OBVIOUS
<1> HIDE DEF r
<1>2. At(r, k, j) => j # Len(q) + 1 /\ At(q, k, o) /\ o <= j
  BY <1>1 DEF At
<1>3. First(r, k, j) => First(q, k, o)
  BY <1>1, <1>2 DEF First
<1>4. ASSUME NEW i \in 1 .. Len(q) + 2, Follows(r, k, i, j)
      PROVE  i \in 1 .. Len(q) /\ Follows(q, k, i, o)
  <2>1. At(r, k, j) /\ i < j /\ r[i][1] = k /\ i \in 1 .. Len(q) + 1
    BY <1>4, <1>1 DEF Follows
  <2>2. i \in 1 .. Len(q) /\ q[i][1] = k
    BY <2>1, <1>1
  <2>3. i < o
    BY <2>1, <2>2, <1>1
  <2>4. \A l \in i + 1 .. o - 1 : q[l][1] # k
    BY <1>4, <1>1, <2>2 DEF Follows
  <2> QED  BY <2>1, <2>2, <2>3, <2>4, <1>2 DEF Follows
<1> QED  BY <1>2, <1>3, <1>4 DEF r

\* A message of the kind is appended.
LEMMA AppendSame ==
  ASSUME NEW S, NEW q \in Seq(S), NEW m \in S, NEW k, m[1] = k,
         NEW j \in 1 .. Len(q) + 2
  PROVE  LET r == Append(q, m)
         IN  /\ First(r, k, j) => j # Len(q) + 2 /\ First(q, k, j)
             /\ \A i \in 1 .. Len(q) + 2 : Follows(r, k, i, j) =>
                  IF j = Len(q) + 2 THEN i = Len(q) + 1 ELSE i \in 1 .. Len(q) /\ Follows(q, k, i, j)
<1> DEFINE r == Append(q, m)
<1>1. /\ Len(q) \in Nat /\ Len(r) = Len(q) + 1 /\ r[Len(q) + 1] = m
      /\ \A i \in 1 .. Len(q) : r[i] = q[i]
  OBVIOUS
<1> HIDE DEF r
<1>2. First(r, k, j) => j # Len(q) + 2 /\ First(q, k, j)
  <2>1. ASSUME First(r, k, j) PROVE j # Len(q) + 2
    <3>1. Len(q) + 1 \in 1 .. Len(q) + 2 - 1
      BY <1>1
    <3> QED  BY <2>1, <3>1, <1>1 DEF First
  <2>2. ASSUME First(r, k, j), j # Len(q) + 2 PROVE First(q, k, j)
    BY <2>2, <1>1 DEF First, At
  <2> QED  BY <2>1, <2>2
<1>3. ASSUME NEW i \in 1 .. Len(q) + 2, Follows(r, k, i, j)
      PROVE  IF j = Len(q) + 2 THEN i = Len(q) + 1 ELSE i \in 1 .. Len(q) /\ Follows(q, k, i, j)
  <2>1. i \in 1 .. Len(q) + 1 /\ i < j
    BY <1>3, <1>1 DEF Follows
  <2>2. CASE j = Len(q) + 2
    <3>1. ASSUME i # Len(q) + 1 PROVE FALSE
      <4>1. Len(q) + 1 \in i + 1 .. j - 1
        BY <3>1, <2>1, <2>2, <1>1
      <4> QED  BY <4>1, <1>1, <1>3 DEF Follows
    <3> QED  BY <3>1, <2>2
  <2>3. CASE j # Len(q) + 2
    <3>1. i \in 1 .. Len(q)
      BY <2>1, <2>3
    <3>2. At(q, k, j)
      BY <1>1, <1>3, <2>3 DEF Follows, At
    <3>3. \A l \in i + 1 .. j - 1 : q[l][1] # k
      BY <1>1, <1>3, <2>3 DEF Follows
    <3> QED  BY <2>1, <2>3, <3>1, <3>2, <3>3, <1>1, <1>3 DEF Follows
  <2> QED  BY <2>2, <2>3
<1> QED  BY <1>2, <1>3 DEF r

\* The message at the head is taken out.
LEMMA TakeHead ==
  ASSUME NEW S, NEW q \in Seq(S), q # <<>>, NEW k, NEW j \in 1 .. Len(q)
  PROVE  LET r == Tail(q)
         IN  /\ First(r, k, j) =>
                  IF q[1][1] = k THEN Follows(q, k, 1, j + 1) ELSE First(q, k, j + 1)
             /\ \A i \in 1 .. Len(q) : Follows(r, k, i, j) =>
                  i + 1 \in 1 .. Len(q) /\ Follows(q, k, i + 1, j + 1)
<1> DEFINE r == Tail(q)
<1>1. Len(q) \in Nat \ {0} /\ Len(r) = Len(q) - 1 /\ \A i \in 1 .. Len(q) - 1 : r[i] = q[i + 1]
  OBVIOUS
<1> HIDE DEF r
<1>2. At(r, k, j) => At(q, k, j + 1)
  BY <1>1 DEF At
<1>3. ASSUME NEW a \in 0 .. Len(q), \A l \in a + 1 .. j - 1 : r[l][1] # k
      PROVE  \A l \in a + 2 .. j + 1 - 1 : q[l][1] # k
  <2> SUFFICES ASSUME NEW l \in a + 2 .. j PROVE q[l][1] # k  OBVIOUS
  <2>1. l - 1 \in a + 1 .. j - 1 /\ l - 1 \in 1 .. Len(q) - 1 /\ l - 1 + 1 = l
    BY <1>1
  <2>2. r[l - 1] = q[l - 1 + 1]
    BY <1>1, <2>1
  <2> QED  BY <1>3, <2>1, <2>2
<1>4. ASSUME First(r, k, j)
      PROVE  IF q[1][1] = k THEN Follows(q, k, 1, j + 1) ELSE First(q, k, j + 1)
  <2>1. At(q, k, j + 1)
    BY <1>2, <1>4 DEF First
  <2>2. \A l \in 2 .. j + 1 - 1 : q[l][1] # k
    <3>1. 0 \in 0 .. Len(q) /\ 0 + 1 = 1 /\ 0 + 2 = 2
      BY <1>1
    <3> QED  BY <1>3, <1>4, <3>1 DEF First
  <2>3. CASE q[1][1] = k
    BY <2>1, <2>2, <2>3, <1>1 DEF Follows
  <2>4. CASE q[1][1] # k
    <3>1. \A l \in 1 .. j + 1 - 1 : l = 1 \/ l \in 2 .. j + 1 - 1
      OBVIOUS
    <3> QED  BY <2>1, <2>2, <2>4, <3>1 DEF First
  <2> QED  BY <2>3, <2>4
<1>5. ASSUME NEW i \in 1 .. Len(q), Follows(r, k, i, j)
      PROVE  i + 1 \in 1 .. Len(q) /\ Follows(q, k, i + 1, j + 1)
  <2>1. i \in 1 .. Len(q) - 1 /\ i < j /\ r[i][1] = k /\ At(q, k, j + 1)
    BY <1>1, <1>2, <1>5 DEF Follows
  <2>2. q[i + 1][1] = k /\ i + 1 < j + 1 /\ i + 1 \in 1 .. Len(q)
    BY <2>1, <1>1
  <2>3. \A l \in i + 2 .. j + 1 - 1 : q[l][1] # k
    <3>1. i \in 0 .. Len(q) /\ \A l \in i + 1 .. j - 1 : r[l][1] # k
      BY <1>5 DEF Follows
    <3> QED  BY <1>3, <3>1
  <2>4. i + 2 = i + 1 + 1
    BY <2>1
  <2> QED  BY <2>1, <2>2, <2>3, <2>4 DEF Follows
<1> QED  BY <1>4, <1>5 DEF r

-----------------------------------------------------------------------------
\* Types

Counters == [blocked : Nat, allowed : Nat]
LogEntry == {e \in [n : Nat, kind : {"BLOCK", "INFO", "ERROR"}, ip : IPs \cup {Nobody},
                    proto : Protocols \cup {"-"}] : e.kind = "BLOCK" => e.ip \in IPs}
Lookup == [ip : IPs, asked : BOOLEAN, mounted : BOOLEAN]
Sample == [delta : [blocked : Int, allowed : Int], real : Counters]

\* What has been logged; every message of the queue is about it, and about
\* calls that were made.
Logged == {log[i] : i \in DOMAIN log}
Packed == {e \in Logged : e.kind = "BLOCK"}
UpTo(n, S) == {s \in Seq(S) : Len(s) <= n}
Messages ==
  ({"stats"} \X [count : Counters, real : Counters]) \cup ({"log"} \X Logged)
    \cup ({"logs"} \X UpTo(Limit, Logged)) \cup ({"sources"} \X [call : DOMAIN lookup, ok : BOOLEAN])

FilterInv ==
  /\ events \in 0 .. MaxEvents
  /\ count \in Counters /\ since \in Counters
  /\ log \in Seq(LogEntry) /\ sent \in 0 .. Len(log)
  /\ \A i \in DOMAIN log : log[i].n = i

WindowInv ==
  /\ mounted \in BOOLEAN /\ charts \in BOOLEAN /\ orderly \in BOOLEAN
  /\ prev \in UpTo(1, Counters) /\ history \in Seq(Sample)
  /\ refresh \in [pc : {"called", "answer", "answered"}, read : Seq(Logged)]
  /\ logs \in UpTo(Limit, Logged) /\ fresh \in Nat
  /\ blocked \in UpTo(BlockLimit, Packed)
  /\ dialog \in [ip : IPs \cup {Nobody}, sources : SUBSET IPs, loading : BOOLEAN]
  /\ lookup \in Seq(Lookup)
  /\ inbox \in Seq(Messages)

\* Nothing comes to a window that has set no listeners.
Unmounted ==
  ~mounted => /\ inbox = <<>> /\ prev = <<>> /\ fresh = 0 /\ ~charts
              /\ refresh.pc = "called" /\ lookup = <<>>

LiveInv == FilterInv /\ WindowInv /\ Unmounted

LEMMA Wider ==
  ASSUME NEW S, NEW T, S \subseteq T
  PROVE  Seq(S) \subseteq Seq(T) /\ \A n : UpTo(n, S) \subseteq UpTo(n, T)
BY DEF UpTo

\* The kinds of messages.
LEMMA MessageIs ==
  ASSUME NEW m \in Messages
  PROVE  /\ m[1] \in {"stats", "log", "logs", "sources"}
         /\ m[1] = "stats" => m[2] \in [count : Counters, real : Counters]
         /\ m[1] = "log" => m[2] \in Logged
         /\ m[1] = "logs" => m[2] \in UpTo(Limit, Logged)
         /\ m[1] = "sources" => m[2] \in [call : DOMAIN lookup, ok : BOOLEAN]
BY DEF Messages

LEMMA IsMessage ==
  /\ \A v \in [count : Counters, real : Counters] : <<"stats", v>> \in Messages
  /\ \A v \in Logged : <<"log", v>> \in Messages
  /\ \A v \in UpTo(Limit, Logged) : <<"logs", v>> \in Messages
  /\ \A v \in [call : DOMAIN lookup, ok : BOOLEAN] : <<"sources", v>> \in Messages
BY DEF Messages

\* The head of the queue and what is behind it.
LEMMA Heads ==
  ASSUME NEW S, NEW q \in Seq(S), q # <<>>
  PROVE  /\ Head(q) = q[1] /\ q[1] \in S /\ Tail(q) \in Seq(S) /\ 1 \in DOMAIN q
         /\ Len(q) \in Nat \ {0} /\ Len(Tail(q)) = Len(q) - 1
         /\ \A i \in 1 .. Len(q) - 1 : Tail(q)[i] = q[i + 1]
OBVIOUS

\* The log and the lookups only grow, and so does what may be said of them.
LEMMA Growth ==
  ASSUME log \in Seq(LogEntry), lookup \in Seq(Lookup),
         log' = log \/ \E e \in LogEntry : log' = Append(log, e),
         DOMAIN lookup \subseteq DOMAIN lookup'
  PROVE  /\ Logged \subseteq Logged' /\ Packed \subseteq Packed'
         /\ Messages \subseteq Messages' /\ Seq(Messages) \subseteq Seq(Messages')
         /\ Seq(Logged) \subseteq Seq(Logged') /\ UpTo(Limit, Logged) \subseteq UpTo(Limit, Logged')
         /\ UpTo(BlockLimit, Packed) \subseteq UpTo(BlockLimit, Packed')
<1>1. DOMAIN log \subseteq DOMAIN log' /\ \A i \in DOMAIN log : log'[i] = log[i]
  OBVIOUS
<1>2. Logged \subseteq Logged'
  BY <1>1 DEF Logged
<1>3. Packed \subseteq Packed'
  BY <1>2 DEF Packed
<1>4. Seq(Logged) \subseteq Seq(Logged') /\ UpTo(Limit, Logged) \subseteq UpTo(Limit, Logged')
  BY <1>2, Wider
<1>5. [call : DOMAIN lookup, ok : BOOLEAN] \subseteq [call : DOMAIN lookup', ok : BOOLEAN]
  OBVIOUS
<1>6. Messages \subseteq Messages'
  BY <1>2, <1>4, <1>5 DEF Messages
<1> QED  BY <1>2, <1>3, <1>4, <1>6, Wider

\* The filter's side keeps its types; the rest changes there only by a message.
LEMMA FilterStep ==
  ASSUME LiveAssumption, LiveInv, LiveNext
  PROVE  /\ FilterInv'
         /\ log' = log \/ \E e \in LogEntry : log' = Append(log, e)
         /\ DOMAIN lookup \subseteq DOMAIN lookup' /\ lookup' \in Seq(Lookup)
<1>1. ASSUME NEW ip \in IPs, NEW proto \in Protocols, BlockPacket(ip, proto)
      PROVE  FilterInv' /\ \E e \in LogEntry : log' = Append(log, e)
  <2>1. Entry("BLOCK", ip, proto) \in LogEntry /\ Entry("BLOCK", ip, proto).n = Len(log) + 1
    BY DEF LiveInv, FilterInv, LogEntry, Entry
  <2>2. count' \in Counters /\ since' \in Counters
    BY <1>1 DEF LiveInv, FilterInv, BlockPacket, Counters
  <2>3. log' \in Seq(LogEntry) /\ (\A i \in DOMAIN log' : log'[i].n = i) /\ sent' \in 0 .. Len(log')
    BY <1>1, <2>1 DEF LiveInv, FilterInv, BlockPacket
  <2>4. FilterInv'
    BY <1>1, <2>2, <2>3, LiveAssumption DEF LiveInv, FilterInv, BlockPacket, Event
  <2> QED  BY <1>1, <2>1, <2>4 DEF BlockPacket
<1>2. ASSUME RestartProtection
      PROVE  FilterInv' /\ \E e \in LogEntry : log' = Append(log, e)
  <2>1. \A kind \in {"INFO", "ERROR"} :
          Entry(kind, Nobody, "-") \in LogEntry /\ Entry(kind, Nobody, "-").n = Len(log) + 1
    BY DEF LiveInv, FilterInv, LogEntry, Entry
  <2>2. FilterInv'
    BY <1>2, <2>1, LiveAssumption DEF LiveInv, FilterInv, RestartProtection, Event, None, Counters
  <2> QED  BY <1>2, <2>1, <2>2 DEF RestartProtection
<1>3. CASE AllowPacket
  <2>1. count' \in Counters /\ since' \in Counters
    BY <1>3 DEF LiveInv, FilterInv, AllowPacket, Counters
  <2>2. UNCHANGED <<log, sent, lookup>>
    BY <1>3 DEF AllowPacket, entries, search
  <2> QED
    BY <1>3, <2>1, <2>2, LiveAssumption DEF LiveInv, FilterInv, WindowInv, AllowPacket, Event
<1>4. CASE EmitStats
  BY <1>4, LiveAssumption DEF LiveInv, FilterInv, WindowInv, EmitStats, Event, None, Counters, entries, search
<1>5. CASE ForwardEntry
  BY <1>5 DEF LiveInv, FilterInv, WindowInv, ForwardEntry, packets, search
<1>6. ASSUME Mount \/ HandleStats \/ ReadLogs \/ AnswerLogs \/ HandleLogs \/ HandleLog
               \/ CloseDialog \/ HandleLookup
      PROVE  UNCHANGED <<events, packets, entries, lookup>>
  BY <1>6 DEF Mount, HandleStats, ReadLogs, AnswerLogs, HandleLogs, HandleLog, CloseDialog,
              HandleLookup, search
<1>7. CASE UNCHANGED <<events, packets, entries, lookup>>
  BY <1>7 DEF LiveInv, FilterInv, WindowInv, packets, entries
<1>8. CASE ClearLogs
  BY <1>8, LiveAssumption DEF LiveInv, FilterInv, WindowInv, ClearLogs, Event, packets, entries, search
<1>9. CASE SwitchTab
  <2>1. FilterInv' /\ log' = log
    BY <1>9, LiveAssumption DEF LiveInv, FilterInv, SwitchTab, Event, packets, entries
  <2>2. lookup \in Seq(Lookup) /\ \A l \in Lookup : [l EXCEPT !.mounted = FALSE] \in Lookup
    BY DEF LiveInv, WindowInv, Lookup
  <2>3. lookup' \in Seq(Lookup) /\ DOMAIN lookup' = DOMAIN lookup
    BY <1>9, <2>2 DEF SwitchTab
  <2> QED  BY <2>1, <2>3
<1>10. ASSUME NEW i \in DOMAIN blocked, BlockClick(blocked[i])
       PROVE  FilterInv' /\ log' = log /\ DOMAIN lookup \subseteq DOMAIN lookup'
                /\ lookup' \in Seq(Lookup)
  <2>1. FilterInv' /\ log' = log
    BY <1>10, LiveAssumption DEF LiveInv, FilterInv, BlockClick, Event, packets, entries
  <2>2. blocked[i].ip \in IPs
    BY DEF LiveInv, FilterInv, WindowInv, UpTo, Packed, Logged, LogEntry
  <2>3. [ip |-> blocked[i].ip, asked |-> TRUE, mounted |-> TRUE] \in Lookup
    BY <2>2 DEF Lookup
  <2> QED  BY <1>10, <2>1, <2>3 DEF BlockClick, LiveInv, WindowInv
<1>11. ASSUME NEW k \in DOMAIN lookup, AnswerLookup(k)
       PROVE  FilterInv' /\ log' = log /\ DOMAIN lookup' = DOMAIN lookup
                /\ lookup' \in Seq(Lookup)
  <2>1. FilterInv' /\ log' = log
    BY <1>11, LiveAssumption DEF LiveInv, FilterInv, AnswerLookup, packets, entries
  <2>2. lookup \in Seq(Lookup) /\ \A l \in Lookup : [l EXCEPT !.asked = FALSE] \in Lookup
    BY DEF LiveInv, WindowInv, Lookup
  <2>3. lookup' = [lookup EXCEPT ![k] = [lookup[k] EXCEPT !.asked = FALSE]]
    BY <1>11, <2>2 DEF AnswerLookup
  <2>4. lookup' \in Seq(Lookup) /\ DOMAIN lookup' = DOMAIN lookup
    BY <2>2, <2>3
  <2> QED  BY <2>1, <2>4
<1>12. ASSUME NEW ip \in IPs, NEW proto \in Protocols, BlockPacket(ip, proto)
       PROVE  lookup' = lookup
  BY <1>12 DEF BlockPacket, search
<1>13. RestartProtection => lookup' = lookup
  BY DEF RestartProtection, search
<1>14. lookup \in Seq(Lookup)
  BY DEF LiveInv, WindowInv
<1> QED
  BY <1>1, <1>2, <1>3, <1>4, <1>5, <1>6, <1>7, <1>8, <1>9, <1>10, <1>11, <1>12, <1>13, <1>14 DEF LiveNext

\* What is put into the queue is a message.
LEMMA InboxStep ==
  ASSUME LiveAssumption, LiveInv, LiveNext
  PROVE  inbox' \in Seq(Messages')
<1>1. /\ inbox \in Seq(Messages) /\ inbox \in Seq(Messages')
      /\ Logged \subseteq Logged' /\ Messages \subseteq Messages' /\ log \in Seq(LogEntry)
  <2>1. log \in Seq(LogEntry) /\ lookup \in Seq(Lookup) /\ inbox \in Seq(Messages)
    BY DEF LiveInv, FilterInv, WindowInv
  <2> QED  BY <2>1, FilterStep, Growth
<1>2. CASE inbox' = inbox
  BY <1>1, <1>2
<1>3. CASE inbox # <<>> /\ inbox' = Tail(inbox)
  BY <1>1, <1>3, Heads
<1>4. ASSUME NEW m \in Messages, inbox' = Append(inbox, m)
      PROVE  inbox' \in Seq(Messages')
  BY <1>1, <1>4
<1>5. CASE EmitStats
  <2>1. count \in Counters /\ since \in Counters
    BY DEF LiveInv, FilterInv
  <2>2. <<"stats", [count |-> count, real |-> since]>> \in Messages
    BY <2>1, IsMessage
  <2> QED  BY <1>5, <2>2, <1>2, <1>4 DEF EmitStats, Emit
<1>6. CASE ForwardEntry
  <2>1. sent + 1 \in DOMAIN log
    BY <1>1, <1>6 DEF ForwardEntry, LiveInv, FilterInv
  <2>2. <<"log", log[sent + 1]>> \in Messages
    BY <2>1, IsMessage DEF Logged
  <2> QED  BY <1>6, <2>2, <1>2, <1>4 DEF ForwardEntry, Emit
<1>7. CASE AnswerLogs
  <2>1. refresh.read \in Seq(Logged)
    BY DEF LiveInv, WindowInv
  <2>2. Newest(Reverse(refresh.read), Limit) \in UpTo(Limit, Logged)
    BY <2>1, LiveAssumption DEF Newest, Reverse, UpTo
  <2>3. <<"logs", Newest(Reverse(refresh.read), Limit)>> \in Messages
    BY <2>2, IsMessage
  <2> QED  BY <1>7, <2>3, <1>4 DEF AnswerLogs, Post
<1>8. ASSUME NEW k \in DOMAIN lookup, AnswerLookup(k) PROVE inbox' \in Seq(Messages')
  <2>1. \A ok \in BOOLEAN : <<"sources", [call |-> k, ok |-> ok]>> \in Messages
    BY IsMessage
  <2> QED  BY <1>8, <2>1, <1>4 DEF AnswerLookup, Post
<1>9. ASSUME HandleStats \/ HandleLogs \/ HandleLog \/ HandleLookup
      PROVE  inbox # <<>> /\ inbox' = Tail(inbox)
  BY <1>9 DEF HandleStats, HandleLogs, HandleLog, HandleLookup, Receive
<1>10. ASSUME Mount \/ AllowPacket \/ RestartProtection \/ ReadLogs \/ ClearLogs \/ SwitchTab
                \/ CloseDialog
       PROVE  inbox' = inbox
  BY <1>10 DEF Mount, AllowPacket, RestartProtection, ReadLogs, ClearLogs, SwitchTab, CloseDialog
<1>11. ASSUME NEW ip \in IPs, NEW proto \in Protocols, BlockPacket(ip, proto) PROVE inbox' = inbox
  BY <1>11 DEF BlockPacket
<1>12. ASSUME NEW i \in DOMAIN blocked, BlockClick(blocked[i]) PROVE inbox' = inbox
  BY <1>12 DEF BlockClick
<1> QED
  BY <1>2, <1>3, <1>5, <1>6, <1>7, <1>8, <1>9, <1>10, <1>11, <1>12 DEF LiveNext

\* The message at the head of the queue.
LEMMA TheMessage ==
  ASSUME LiveInv, NEW kind, Receive(kind)
  PROVE  /\ inbox \in Seq(Messages) /\ inbox # <<>> /\ inbox' = Tail(inbox)
         /\ inbox[1] \in Messages /\ inbox[1][1] = kind /\ Message = inbox[1][2]
         /\ kind = "stats" => Message \in [count : Counters, real : Counters]
         /\ kind = "log" => Message \in Logged
         /\ kind = "logs" => Message \in UpTo(Limit, Logged)
         /\ kind = "sources" => Message \in [call : DOMAIN lookup, ok : BOOLEAN]
<1>1. inbox \in Seq(Messages) /\ inbox # <<>> /\ Head(inbox)[1] = kind /\ inbox' = Tail(inbox)
  BY DEF Receive, LiveInv, WindowInv
<1>2. Head(inbox) = inbox[1] /\ inbox[1] \in Messages
  BY <1>1, Heads
<1> QED  BY <1>1, <1>2, MessageIs DEF Message

LEMMA NewestOf ==
  ASSUME NEW S, NEW s \in Seq(S), NEW n \in Nat
  PROVE  /\ Newest(s, n) \in UpTo(n, S)
         /\ Len(Newest(s, n)) = IF Len(s) < n THEN Len(s) ELSE n
         /\ \A i \in 1 .. Len(Newest(s, n)) : Newest(s, n)[i] = s[i]
BY DEF Newest, UpTo

\* An entry comes before the others.
LEMMA NewestFirst ==
  ASSUME NEW S, NEW s \in Seq(S), NEW e \in S, NEW n \in Nat
  PROVE  /\ Newest(Cons(e, s), n) \in UpTo(n, S)
         /\ Len(Newest(Cons(e, s), n)) = IF Len(s) + 1 < n THEN Len(s) + 1 ELSE n
         /\ \A i \in 1 .. Len(Newest(Cons(e, s), n)) :
              Newest(Cons(e, s), n)[i] = IF i = 1 THEN e ELSE s[i - 1]
<1> DEFINE t == Cons(e, s)
<1>1. t \in Seq(S) /\ Len(t) = Len(s) + 1 /\ Len(s) \in Nat
  BY DEF Cons
<1>2. \A i \in 1 .. Len(s) + 1 : t[i] = IF i = 1 THEN e ELSE s[i - 1]
  BY DEF Cons
<1> HIDE DEF t
<1>3. /\ Newest(t, n) \in UpTo(n, S)
      /\ Len(Newest(t, n)) = IF Len(t) < n THEN Len(t) ELSE n
      /\ \A i \in 1 .. Len(Newest(t, n)) : Newest(t, n)[i] = t[i]
  BY <1>1, NewestOf
<1>4. \A i \in 1 .. Len(Newest(t, n)) : i \in 1 .. Len(s) + 1
  BY <1>1, <1>3
<1> QED  BY <1>1, <1>2, <1>3, <1>4 DEF t

\* The window's side keeps its types.
LEMMA WindowStep ==
  ASSUME LiveAssumption, LiveInv, LiveNext
  PROVE  WindowInv'
<1>1. /\ inbox' \in Seq(Messages') /\ lookup' \in Seq(Lookup)
      /\ Logged \subseteq Logged' /\ Packed \subseteq Packed'
      /\ Seq(Logged) \subseteq Seq(Logged') /\ UpTo(Limit, Logged) \subseteq UpTo(Limit, Logged')
      /\ UpTo(BlockLimit, Packed) \subseteq UpTo(BlockLimit, Packed')
  <2>1. log \in Seq(LogEntry) /\ lookup \in Seq(Lookup)
    BY DEF LiveInv, FilterInv, WindowInv
  <2> QED  BY <2>1, FilterStep, Growth, InboxStep
<1> DEFINE Lists == /\ prev' \in UpTo(1, Counters) /\ history' \in Seq(Sample)
                    /\ refresh' \in [pc : {"called", "answer", "answered"}, read : Seq(Logged')]
                    /\ logs' \in UpTo(Limit, Logged') /\ fresh' \in Nat
                    /\ blocked' \in UpTo(BlockLimit, Packed')
           Flags == /\ mounted' \in BOOLEAN /\ charts' \in BOOLEAN /\ orderly' \in BOOLEAN
                    /\ dialog' \in [ip : IPs \cup {Nobody}, sources : SUBSET IPs, loading : BOOLEAN]
<1>2. ASSUME UNCHANGED <<samples, refresh, lists>> PROVE Lists
  BY <1>1, <1>2 DEF samples, lists, LiveInv, WindowInv
<1>3. ASSUME UNCHANGED <<mounted, charts, search>> PROVE Flags
  BY <1>3 DEF search, LiveInv, WindowInv
<1>4. ASSUME Lists, Flags PROVE WindowInv'
  BY <1>1, <1>4 DEF WindowInv
<1> HIDE DEF Lists, Flags
<1>5. CASE Mount
  BY <1>5, <1>2, <1>4 DEF Mount, Flags, search, LiveInv, WindowInv
<1>6. CASE AllowPacket \/ RestartProtection \/ ForwardEntry \/ EmitStats
  BY <1>6, <1>2, <1>3, <1>4 DEF AllowPacket, RestartProtection, ForwardEntry, EmitStats
<1>7. ASSUME NEW ip \in IPs, NEW proto \in Protocols, BlockPacket(ip, proto) PROVE WindowInv'
  BY <1>7, <1>2, <1>3, <1>4 DEF BlockPacket
<1>8. CASE HandleStats
  <2>1. Message.count \in Counters /\ Message.real \in Counters
    BY <1>8, TheMessage DEF HandleStats
  <2>2. prev' \in UpTo(1, Counters)
    BY <1>8, <2>1 DEF HandleStats, PrevAfter, UpTo
  <2>3. history' \in Seq(Sample)
    <3>1. prev # <<>> => prev[1] \in Counters
      BY DEF LiveInv, WindowInv, UpTo
    <3> DEFINE s == [delta |-> Delta(Message.count, prev[1]), real |-> Message.real]
    <3>2. prev # <<>> => s \in Sample
      BY <2>1, <3>1 DEF Sample, Delta, Counters
    <3>3. history \in Seq(Sample) /\ Len(history) \in Nat
      BY DEF LiveInv, WindowInv
    <3>4. \A old \in 0 .. Len(history) :
            prev # <<>> => SubSeq(Append(history, s), old + 1, Len(history) + 1) \in Seq(Sample)
      BY <3>2, <3>3
    <3> QED  BY <1>8, <3>3, <3>4 DEF HandleStats
  <2>4. Flags
    BY <1>8, <1>3 DEF HandleStats
  <2>5. Lists
    BY <1>8, <1>1, <2>2, <2>3 DEF Lists, HandleStats, lists, LiveInv, WindowInv
  <2> QED  BY <1>4, <2>4, <2>5
<1>9. CASE ReadLogs
  <2>1. log \in Seq(Logged) /\ log' = log
    BY <1>9 DEF ReadLogs, entries, Logged, LiveInv, FilterInv
  <2>2. refresh' \in [pc : {"called", "answer", "answered"}, read : Seq(Logged')]
    BY <1>9, <1>1, <2>1 DEF ReadLogs
  <2> QED
    BY <1>9, <1>1, <1>3, <1>4, <2>2 DEF Lists, ReadLogs, samples, lists, LiveInv, WindowInv
<1>10. CASE AnswerLogs
  <2>1. refresh' \in [pc : {"called", "answer", "answered"}, read : Seq(Logged')]
    BY <1>10 DEF AnswerLogs
  <2> QED
    BY <1>10, <1>1, <1>3, <1>4, <2>1 DEF Lists, AnswerLogs, samples, lists, LiveInv, WindowInv
<1>11. CASE HandleLogs
  <2>1. logs' \in UpTo(Limit, Logged') /\ fresh' = 0
    BY <1>11, <1>1, TheMessage DEF HandleLogs
  <2> QED
    BY <1>11, <1>1, <1>3, <1>4, <2>1 DEF Lists, HandleLogs, samples, LiveInv, WindowInv
<1>12. CASE HandleLog
  <2>1. Message \in Logged /\ logs \in Seq(Logged) /\ blocked \in Seq(Packed)
    BY <1>12, TheMessage DEF HandleLog, LiveInv, WindowInv, UpTo
  <2>2. logs' \in UpTo(Limit, Logged)
    <3>1. Newest(Cons(Message, logs), Limit) \in UpTo(Limit, Logged)
      BY <2>1, NewestFirst, LiveAssumption
    <3> QED  BY <1>12, <3>1 DEF HandleLog, Prepended, Cons
  <2>3. blocked' \in UpTo(BlockLimit, Packed)
    <3>1. CASE Listed(Message)
      <4>1. Message \in Packed
        BY <2>1, <3>1 DEF Packed, Listed
      <4>2. Newest(Cons(Message, blocked), BlockLimit) \in UpTo(BlockLimit, Packed)
        BY <2>1, <4>1, NewestFirst, LiveAssumption
      <4> QED  BY <1>12, <3>1, <4>2 DEF HandleLog, Cons
    <3>2. CASE ~Listed(Message)
      BY <1>12, <3>2 DEF HandleLog, LiveInv, WindowInv
    <3> QED  BY <3>1, <3>2
  <2>4. fresh' \in Nat
    BY <1>12 DEF HandleLog, LiveInv, WindowInv
  <2> QED
    BY <1>12, <1>1, <1>3, <1>4, <2>2, <2>3, <2>4 DEF Lists, HandleLog, samples, LiveInv, WindowInv
<1>13. CASE ClearLogs
  <2>1. logs' \in UpTo(Limit, Logged') /\ blocked' \in UpTo(BlockLimit, Packed') /\ fresh' \in Nat
    BY <1>13, LiveAssumption DEF ClearLogs, UpTo
  <2> QED
    BY <1>13, <1>1, <1>3, <1>4, <2>1 DEF Lists, ClearLogs, samples, LiveInv, WindowInv
<1>14. CASE SwitchTab
  BY <1>14, <1>2, <1>4 DEF Flags, SwitchTab, Closed, LiveInv, WindowInv
<1>15. CASE CloseDialog
  <2>1. dialog' \in [ip : IPs \cup {Nobody}, sources : SUBSET IPs, loading : BOOLEAN]
    BY <1>15 DEF CloseDialog, LiveInv, WindowInv
  <2> QED  BY <1>15, <2>1, <1>2, <1>4 DEF Flags, CloseDialog, LiveInv, WindowInv
<1>16. CASE HandleLookup
  <2>1. Message \in [call : DOMAIN lookup, ok : BOOLEAN]
    BY <1>16, TheMessage DEF HandleLookup
  <2>2. lookup[Message.call].ip \in IPs
    <3>1. lookup \in Seq(Lookup) /\ \A l \in Lookup : l.ip \in IPs
      BY DEF LiveInv, WindowInv, Lookup
    <3> QED  BY <2>1, <3>1
  <2>3. dialog' \in [ip : IPs \cup {Nobody}, sources : SUBSET IPs, loading : BOOLEAN]
    BY <1>16, <2>2 DEF HandleLookup, Found, LiveInv, WindowInv
  <2> QED  BY <1>16, <2>3, <1>2, <1>4 DEF Flags, HandleLookup, LiveInv, WindowInv
<1>17. ASSUME NEW i \in DOMAIN blocked, BlockClick(blocked[i]) PROVE WindowInv'
  <2>1. blocked[i].ip \in IPs
    BY DEF LiveInv, FilterInv, WindowInv, UpTo, Packed, Logged, LogEntry
  <2> QED  BY <1>17, <2>1, <1>2, <1>4 DEF Flags, BlockClick, LiveInv, WindowInv
<1>18. ASSUME NEW k \in DOMAIN lookup, AnswerLookup(k) PROVE WindowInv'
  <2>1. orderly' \in BOOLEAN
    BY <1>18 DEF AnswerLookup
  <2> QED  BY <1>18, <2>1, <1>2, <1>4 DEF Flags, AnswerLookup, LiveInv, WindowInv
<1> QED
  BY <1>5, <1>6, <1>7, <1>8, <1>9, <1>10, <1>11, <1>12, <1>13, <1>14, <1>15, <1>16, <1>17, <1>18
  DEF LiveNext

LEMMA UnmountedStep ==
  ASSUME LiveAssumption, LiveInv, LiveNext
  PROVE  Unmounted'
<1> SUFFICES ASSUME ~mounted' PROVE Unmounted'
  BY DEF Unmounted
<1>1. ASSUME mounted PROVE FALSE
  BY <1>1 DEF LiveNext, Mount, AllowPacket, RestartProtection, ForwardEntry, EmitStats, BlockPacket,
              HandleStats, ReadLogs, AnswerLogs, HandleLogs, HandleLog, ClearLogs, SwitchTab,
              CloseDialog, HandleLookup, BlockClick, AnswerLookup
<1>2. ~mounted /\ inbox = <<>> /\ prev = <<>> /\ fresh = 0 /\ ~charts /\ refresh.pc = "called"
      /\ lookup = <<>> /\ DOMAIN lookup = {}
  BY <1>1 DEF LiveInv, Unmounted
<1> HIDE DEF LiveInv
<1>3. ASSUME NEW i \in DOMAIN blocked, BlockClick(blocked[i]) PROVE FALSE
  BY <1>2, <1>3 DEF BlockClick
<1>4. ASSUME HandleStats \/ HandleLogs \/ HandleLog \/ HandleLookup PROVE FALSE
  BY <1>2, <1>4 DEF HandleStats, HandleLogs, HandleLog, HandleLookup, Receive
<1>5. ASSUME ReadLogs \/ AnswerLogs \/ ClearLogs \/ SwitchTab \/ Mount PROVE FALSE
  BY <1>2, <1>5 DEF ReadLogs, AnswerLogs, ClearLogs, SwitchTab, Mount
<1>6. ASSUME AllowPacket \/ RestartProtection \/ ForwardEntry \/ EmitStats \/ CloseDialog
      PROVE  UNCHANGED <<inbox, prev, fresh, charts, refresh, lookup>>
  BY <1>2, <1>6 DEF AllowPacket, RestartProtection, ForwardEntry, EmitStats, CloseDialog, Emit,
                    samples, lists, search
<1>7. ASSUME NEW ip \in IPs, NEW proto \in Protocols, BlockPacket(ip, proto)
      PROVE  UNCHANGED <<inbox, prev, fresh, charts, refresh, lookup>>
  BY <1>7 DEF BlockPacket, samples, lists, search
<1>8. UNCHANGED <<inbox, prev, fresh, charts, refresh, lookup>>
  BY <1>2, <1>3, <1>4, <1>5, <1>6, <1>7 DEF LiveNext
<1> QED  BY <1>2, <1>8 DEF Unmounted

LEMMA LiveInvHolds == LiveSpec => []LiveInv
<1> USE LiveAssumption
<1>1. LiveInit => LiveInv
  <2> SUFFICES ASSUME LiveInit PROVE LiveInv
    OBVIOUS
  <2>1. FilterInv
    BY DEF LiveInit, FilterInv, None, Counters
  <2>2. \A n \in Nat : \A S : <<>> \in UpTo(n, S)
    BY DEF UpTo
  <2>3. WindowInv
    <3>1. <<>> \in UpTo(1, Counters) /\ <<>> \in UpTo(Limit, Logged)
          /\ <<>> \in UpTo(BlockLimit, Packed)
      BY <2>2
    <3>2. Closed \in [ip : IPs \cup {Nobody}, sources : SUBSET IPs, loading : BOOLEAN]
      BY DEF Closed
    <3>3. [pc |-> "called", read |-> <<>>]
            \in [pc : {"called", "answer", "answered"}, read : Seq(Logged)]
      OBVIOUS
    <3>4. logs \in UpTo(Limit, Logged) /\ blocked \in UpTo(BlockLimit, Packed)
          /\ prev \in UpTo(1, Counters)
      BY <3>1 DEF LiveInit
    <3>5. inbox \in Seq(Messages) /\ history \in Seq(Sample) /\ lookup \in Seq(Lookup)
      BY DEF LiveInit
    <3> QED  BY <3>2, <3>3, <3>4, <3>5 DEF LiveInit, WindowInv
  <2>4. Unmounted
    BY DEF LiveInit, Unmounted
  <2> QED  BY <2>1, <2>3, <2>4 DEF LiveInv
<1>2. LiveInv /\ [LiveNext]_liveVars => LiveInv'
  <2>1. ASSUME LiveInv, LiveNext PROVE LiveInv'
    BY <2>1, FilterStep, WindowStep, UnmountedStep DEF LiveInv
  <2>2. ASSUME LiveInv, UNCHANGED liveVars PROVE LiveInv'
    <3>1. Logged' = Logged /\ Packed' = Packed /\ Messages' = Messages
      BY <2>2 DEF liveVars, entries, search, Logged, Packed, Messages
    <3> QED
      BY <2>2, <3>1 DEF liveVars, packets, entries, samples, lists, search, LiveInv, FilterInv,
                        WindowInv, Unmounted
  <2> QED  BY <2>1, <2>2
<1> QED  BY <1>1, <1>2, PTL DEF LiveSpec

\* Every variable keeps its type, and what the window shows of the log are
\* entries of the log.
THEOREM LiveTypeCorrect == LiveSpec => []LiveTypeOK
<1>1. LiveInv => LiveTypeOK
  <2> SUFFICES ASSUME LiveInv PROVE LiveTypeOK
    OBVIOUS
  <2>1. {count, since} \subseteq Packets /\ Counters \subseteq Packets
    BY DEF LiveInv, FilterInv, Counters, Packets
  <2>2. Len(prev) <= 1 /\ ToSet(prev) \subseteq Packets
    BY <2>1 DEF LiveInv, WindowInv, UpTo, ToSet
  <2>3. Len(logs) <= Limit /\ Len(blocked) <= BlockLimit
    BY DEF LiveInv, WindowInv, UpTo
  <2>4. ToSet(logs) \subseteq Logged /\ ToSet(blocked) \subseteq Logged
    BY DEF LiveInv, WindowInv, UpTo, ToSet, Packed
  <2>5. Logged = ToSet(log)
    BY DEF Logged, ToSet
  <2>6. events \in 0 .. MaxEvents /\ sent \in 0 .. Len(log)
    BY DEF LiveInv, FilterInv
  <2>7. {mounted, charts, orderly} \subseteq BOOLEAN /\ fresh \in Nat
        /\ refresh.pc \in {"called", "answer", "answered"}
        /\ dialog \in [ip : IPs \cup {Nobody}, sources : SUBSET IPs, loading : BOOLEAN]
    BY DEF LiveInv, WindowInv
  <2> QED  BY <2>1, <2>2, <2>3, <2>4, <2>5, <2>6, <2>7 DEF LiveTypeOK
<1> QED  BY <1>1, LiveInvHolds, PTL

-----------------------------------------------------------------------------
\* The chart

\* A reading of the counters, with the packets decided since the one before,
\* is at most what the one before allows.
AtMost(r, c) == /\ r.count.blocked <= c.blocked + r.real.blocked
                /\ r.count.allowed <= c.allowed + r.real.allowed

\* What the place j of the queue q tells, behind the last message v.
Told(q, v, j) == IF j = Len(q) + 1 THEN v ELSE q[j][2]

\* The readings in the queue, the one eventsEmitter would send next included,
\* follow from each other, and the first of them from the window's.
StatsChain(q, v) ==
  \A i, j \in 1 .. Len(q) + 1 :
    Follows(q, "stats", i, j) => AtMost(Told(q, v, j), q[i][2].count)
StatsFirst(q, v, p) ==
  \A j \in 1 .. Len(q) + 1 : First(q, "stats", j) /\ p # <<>> => AtMost(Told(q, v, j), p[1])

Reading == [count |-> count, real |-> since]

StatsInv == StatsChain(inbox, Reading) /\ StatsFirst(inbox, Reading, prev) /\ SamplesAreReal

\* Another message is appended.
LEMMA StatsOther ==
  ASSUME NEW S, NEW q \in Seq(S), NEW m \in S, m[1] # "stats", NEW v, NEW p,
         StatsChain(q, v), StatsFirst(q, v, p)
  PROVE  StatsChain(Append(q, m), v) /\ StatsFirst(Append(q, m), v, p)
<1> DEFINE r == Append(q, m)
<1>1. Len(q) \in Nat /\ Len(r) = Len(q) + 1 /\ \A i \in 1 .. Len(q) : r[i] = q[i]
  OBVIOUS
<1>2. \A j \in 1 .. Len(q) + 2 :
        LET o == IF j = Len(q) + 2 THEN Len(q) + 1 ELSE j
        IN  /\ First(r, "stats", j) => First(q, "stats", o)
            /\ \A i \in 1 .. Len(q) + 2 :
                 Follows(r, "stats", i, j) => i \in 1 .. Len(q) /\ Follows(q, "stats", i, o)
            /\ At(r, "stats", j) => j # Len(q) + 1
  BY AppendOther
<1> HIDE DEF r
<1>3. ASSUME NEW i \in 1 .. Len(r) + 1, NEW j \in 1 .. Len(r) + 1, Follows(r, "stats", i, j)
      PROVE  AtMost(Told(r, v, j), r[i][2].count)
  <2> DEFINE o == IF j = Len(q) + 2 THEN Len(q) + 1 ELSE j
  <2>1. i \in 1 .. Len(q) /\ Follows(q, "stats", i, o) /\ j # Len(q) + 1
    BY <1>1, <1>2, <1>3 DEF Follows
  <2>2. o \in 1 .. Len(q) + 1 /\ Told(r, v, j) = Told(q, v, o) /\ r[i] = q[i]
    BY <1>1, <2>1 DEF Told
  <2> QED  BY <2>1, <2>2 DEF StatsChain
<1>4. ASSUME NEW j \in 1 .. Len(r) + 1, First(r, "stats", j), p # <<>>
      PROVE  AtMost(Told(r, v, j), p[1])
  <2> DEFINE o == IF j = Len(q) + 2 THEN Len(q) + 1 ELSE j
  <2>1. First(q, "stats", o) /\ j # Len(q) + 1
    BY <1>1, <1>2, <1>4 DEF First
  <2>2. o \in 1 .. Len(q) + 1 /\ Told(r, v, j) = Told(q, v, o)
    BY <1>1, <2>1 DEF Told
  <2> QED  BY <1>4, <2>1, <2>2 DEF StatsFirst
<1> QED  BY <1>3, <1>4 DEF StatsChain, StatsFirst, r

\* The next reading is sent, and one is begun that follows from it.
LEMMA StatsSame ==
  ASSUME NEW S, NEW q \in Seq(S), NEW m \in S, m[1] = "stats", NEW w, NEW p,
         StatsChain(q, m[2]), StatsFirst(q, m[2], p), AtMost(w, m[2].count)
  PROVE  StatsChain(Append(q, m), w) /\ StatsFirst(Append(q, m), w, p)
<1> DEFINE r == Append(q, m)
<1>1. /\ Len(q) \in Nat /\ Len(r) = Len(q) + 1 /\ r[Len(q) + 1] = m
      /\ \A i \in 1 .. Len(q) : r[i] = q[i]
  OBVIOUS
<1>2. \A j \in 1 .. Len(q) + 2 :
        /\ First(r, "stats", j) => j # Len(q) + 2 /\ First(q, "stats", j)
        /\ \A i \in 1 .. Len(q) + 2 : Follows(r, "stats", i, j) =>
             IF j = Len(q) + 2 THEN i = Len(q) + 1
                               ELSE i \in 1 .. Len(q) /\ Follows(q, "stats", i, j)
  BY AppendSame
<1> HIDE DEF r
<1>3. \A j \in 1 .. Len(q) + 1 : Told(r, w, j) = Told(q, m[2], j)
  BY <1>1 DEF Told
<1>4. ASSUME NEW i \in 1 .. Len(r) + 1, NEW j \in 1 .. Len(r) + 1, Follows(r, "stats", i, j)
      PROVE  AtMost(Told(r, w, j), r[i][2].count)
  <2>1. CASE j = Len(q) + 2
    BY <1>1, <1>2, <1>4, <2>1 DEF Told
  <2>2. CASE j # Len(q) + 2
    <3>1. j \in 1 .. Len(q) + 1 /\ i \in 1 .. Len(q) /\ Follows(q, "stats", i, j)
      BY <1>1, <1>2, <1>4, <2>2
    <3>2. r[i] = q[i] /\ i \in 1 .. Len(q) + 1
      BY <1>1, <3>1
    <3> QED  BY <1>3, <3>1, <3>2 DEF StatsChain
  <2> QED  BY <2>1, <2>2
<1>5. ASSUME NEW j \in 1 .. Len(r) + 1, First(r, "stats", j), p # <<>>
      PROVE  AtMost(Told(r, w, j), p[1])
  <2>1. j \in 1 .. Len(q) + 1 /\ First(q, "stats", j)
    BY <1>1, <1>2, <1>5
  <2> QED  BY <1>3, <1>5, <2>1 DEF StatsFirst
<1> QED  BY <1>4, <1>5 DEF StatsChain, StatsFirst, r

\* The head is taken: if it is a reading, the window's is it from now on.
LEMMA StatsTail ==
  ASSUME NEW S, NEW q \in Seq(S), q # <<>>, NEW v, NEW p, NEW o,
         StatsChain(q, v), StatsFirst(q, v, p),
         IF q[1][1] = "stats" THEN o = <<q[1][2].count>> ELSE o = p
  PROVE  StatsChain(Tail(q), v) /\ StatsFirst(Tail(q), v, o)
<1> DEFINE r == Tail(q)
<1>1. Len(q) \in Nat \ {0} /\ Len(r) = Len(q) - 1 /\ \A i \in 1 .. Len(q) - 1 : r[i] = q[i + 1]
  OBVIOUS
<1>2. \A j \in 1 .. Len(q) :
        /\ First(r, "stats", j) => IF q[1][1] = "stats" THEN Follows(q, "stats", 1, j + 1)
                                                       ELSE First(q, "stats", j + 1)
        /\ \A i \in 1 .. Len(q) : Follows(r, "stats", i, j) =>
             i + 1 \in 1 .. Len(q) /\ Follows(q, "stats", i + 1, j + 1)
  BY TakeHead
<1> HIDE DEF r
<1>3. \A j \in 1 .. Len(q) : j + 1 \in 1 .. Len(q) + 1 /\ Told(r, v, j) = Told(q, v, j + 1)
  BY <1>1 DEF Told
<1>4. ASSUME NEW i \in 1 .. Len(r) + 1, NEW j \in 1 .. Len(r) + 1, Follows(r, "stats", i, j)
      PROVE  AtMost(Told(r, v, j), r[i][2].count)
  <2>1. j \in 1 .. Len(q) /\ i + 1 \in 1 .. Len(q) /\ Follows(q, "stats", i + 1, j + 1)
    BY <1>1, <1>2, <1>4
  <2>2. r[i] = q[i + 1] /\ i + 1 \in 1 .. Len(q) + 1
    BY <1>1, <2>1
  <2> QED  BY <1>3, <2>1, <2>2 DEF StatsChain
<1>5. ASSUME NEW j \in 1 .. Len(r) + 1, First(r, "stats", j), o # <<>>
      PROVE  AtMost(Told(r, v, j), o[1])
  <2>1. j \in 1 .. Len(q) /\ 1 \in 1 .. Len(q) + 1
    BY <1>1
  <2>2. CASE q[1][1] = "stats"
    <3>1. Follows(q, "stats", 1, j + 1) /\ o[1] = q[1][2].count
      BY <1>2, <1>5, <2>1, <2>2
    <3> QED  BY <1>3, <2>1, <3>1 DEF StatsChain
  <2>3. CASE q[1][1] # "stats"
    BY <1>2, <1>3, <1>5, <2>1, <2>3 DEF StatsFirst
  <2> QED  BY <2>2, <2>3
<1> QED  BY <1>4, <1>5 DEF StatsChain, StatsFirst, r

\* A new interval begins: what follows from it is what followed from the last.
LEMMA NextReading ==
  ASSUME LiveInv, NEW c \in Counters, NEW s \in Counters,
         StatsChain(inbox, Reading), StatsFirst(inbox, Reading, prev),
         \A p \in Counters : AtMost(Reading, p) => AtMost([count |-> c, real |-> s], p)
  PROVE  /\ StatsChain(inbox, [count |-> c, real |-> s])
         /\ StatsFirst(inbox, [count |-> c, real |-> s], prev)
<1>1. inbox \in Seq(Messages) /\ \A m \in Messages : m[1] = "stats" => m[2].count \in Counters
  BY MessageIs DEF LiveInv, WindowInv
<1>2. prev # <<>> => prev[1] \in Counters
  BY DEF LiveInv, WindowInv, UpTo
<1>3. StatsChain(inbox, [count |-> c, real |-> s])
  <2> SUFFICES ASSUME NEW i \in 1 .. Len(inbox) + 1, NEW j \in 1 .. Len(inbox) + 1,
                      Follows(inbox, "stats", i, j)
               PROVE  AtMost(Told(inbox, [count |-> c, real |-> s], j), inbox[i][2].count)
    BY DEF StatsChain
  <2>1. inbox[i][2].count \in Counters
    BY <1>1 DEF Follows
  <2>2. AtMost(Told(inbox, Reading, j), inbox[i][2].count)
    BY DEF StatsChain
  <2> QED  BY <2>1, <2>2 DEF Told
<1>4. StatsFirst(inbox, [count |-> c, real |-> s], prev)
  BY <1>2 DEF StatsFirst, Told
<1> QED  BY <1>3, <1>4

LEMMA StatsStep ==
  ASSUME LiveAssumption, LiveInv, LiveNext, StatsInv
  PROVE  StatsInv'
<1>1. /\ inbox \in Seq(Messages) /\ count \in Counters /\ since \in Counters
      /\ StatsChain(inbox, Reading) /\ StatsFirst(inbox, Reading, prev) /\ SamplesAreReal
  BY DEF StatsInv, LiveInv, FilterInv, WindowInv
<1>2. \A m \in Messages : m[1] = "stats" => m[2] \in [count : Counters, real : Counters]
  BY MessageIs
\* the queue and the chart stay
<1>3. ASSUME UNCHANGED <<inbox, samples>>, count' \in Counters, since' \in Counters,
             \A p \in Counters : AtMost(Reading, p) => AtMost(Reading', p)
      PROVE  StatsInv'
  <2>1. StatsChain(inbox, [count |-> count', real |-> since'])
        /\ StatsFirst(inbox, [count |-> count', real |-> since'], prev)
    BY <1>1, <1>3, NextReading DEF Reading
  <2>2. SamplesAreReal'
    BY <1>1, <1>3 DEF SamplesAreReal, samples
  <2> QED  BY <1>3, <2>1, <2>2 DEF StatsInv, Reading, samples
<1>4. ASSUME UNCHANGED <<inbox, packets, samples>> PROVE StatsInv'
  BY <1>1, <1>4 DEF StatsInv, StatsChain, StatsFirst, SamplesAreReal, Reading, packets, samples
\* another message is posted, or handled
<1>5. ASSUME NEW m, m[1] # "stats", inbox' = Append(inbox, m), UNCHANGED <<packets, samples>>
      PROVE  StatsInv'
  <2> DEFINE S == Messages \cup {m}
  <2>1. inbox \in Seq(S) /\ m \in S
    BY <1>1, Wider
  <2> HIDE DEF S
  <2>2. StatsChain(Append(inbox, m), Reading) /\ StatsFirst(Append(inbox, m), Reading, prev)
    BY <1>1, <1>5, <2>1, StatsOther
  <2>3. SamplesAreReal'
    BY <1>1, <1>5 DEF SamplesAreReal, samples
  <2> QED  BY <1>5, <2>2, <2>3 DEF StatsInv, Reading, packets, samples
<1>6. ASSUME NEW kind, kind # "stats", Receive(kind), UNCHANGED <<packets, samples>>
      PROVE  StatsInv'
  <2>1. inbox # <<>> /\ inbox[1][1] # "stats" /\ inbox' = Tail(inbox)
    BY <1>6, TheMessage
  <2>2. StatsChain(Tail(inbox), Reading) /\ StatsFirst(Tail(inbox), Reading, prev)
    BY <1>1, <2>1, StatsTail
  <2>3. SamplesAreReal'
    BY <1>1, <1>6 DEF SamplesAreReal, samples
  <2> QED  BY <1>6, <2>1, <2>2, <2>3 DEF StatsInv, Reading, packets, samples
<1>7. ASSUME NEW ip \in IPs, NEW proto \in Protocols, BlockPacket(ip, proto) PROVE StatsInv'
  <2>1. /\ UNCHANGED <<inbox, samples>>
        /\ count' = [count EXCEPT !.blocked = @ + 1] /\ since' = [since EXCEPT !.blocked = @ + 1]
    BY <1>7 DEF BlockPacket
  <2>2. count' \in Counters /\ since' \in Counters
    BY <1>1, <2>1 DEF Counters
  <2>3. /\ count'.blocked = count.blocked + 1 /\ since'.blocked = since.blocked + 1
        /\ count'.allowed = count.allowed /\ since'.allowed = since.allowed
    BY <1>1, <2>1 DEF Counters
  <2>4. \A p \in Counters : AtMost(Reading, p) => AtMost(Reading', p)
    BY <1>1, <2>3 DEF Counters, Reading, AtMost
  <2> QED  BY <1>3, <2>1, <2>2, <2>4
<1>8. CASE AllowPacket
  <2>1. /\ UNCHANGED <<inbox, samples>>
        /\ count' = [count EXCEPT !.allowed = @ + 1] /\ since' = [since EXCEPT !.allowed = @ + 1]
    BY <1>8 DEF AllowPacket
  <2>2. count' \in Counters /\ since' \in Counters
    BY <1>1, <2>1 DEF Counters
  <2>3. /\ count'.allowed = count.allowed + 1 /\ since'.allowed = since.allowed + 1
        /\ count'.blocked = count.blocked /\ since'.blocked = since.blocked
    BY <1>1, <2>1 DEF Counters
  <2>4. \A p \in Counters : AtMost(Reading, p) => AtMost(Reading', p)
    BY <1>1, <2>3 DEF Counters, Reading, AtMost
  <2> QED  BY <1>3, <2>1, <2>2, <2>4
<1>9. CASE RestartProtection
  <2>1. UNCHANGED <<inbox, since, samples>> /\ count' = None /\ None \in Counters
    BY <1>9 DEF RestartProtection, None, Counters
  <2>2. \A p \in Counters : AtMost(Reading', p)
    BY <1>1, <2>1 DEF Counters, Reading, AtMost, None
  <2> QED  BY <1>1, <1>3, <2>1, <2>2
<1>10. CASE EmitStats
  <2>1. count' = count /\ since' = None /\ None \in Counters /\ UNCHANGED samples
    BY <1>10 DEF EmitStats, None, Counters
  <2>2. SamplesAreReal'
    BY <1>1, <2>1 DEF SamplesAreReal, samples
  <2>3. CASE mounted
    <3> DEFINE m == <<"stats", Reading>>
    <3>1. inbox' = Append(inbox, m)
      BY <1>10, <2>3 DEF EmitStats, Emit, Reading
    <3>2. m \in Messages /\ m[1] = "stats" /\ m[2] = Reading
      BY <1>1, IsMessage DEF Reading
    <3>3. AtMost(Reading', m[2].count)
      BY <1>1, <2>1 DEF AtMost, Reading, Counters, None
    <3> HIDE DEF m
    <3>4. StatsChain(Append(inbox, m), Reading') /\ StatsFirst(Append(inbox, m), Reading', prev)
      BY <1>1, <3>2, <3>3, StatsSame
    <3> QED  BY <2>1, <2>2, <3>1, <3>4 DEF StatsInv, samples
  <2>4. CASE ~mounted
    <3>1. inbox' = <<>> /\ prev' = <<>>
      BY <1>10, <2>1, <2>4 DEF EmitStats, Emit, samples, LiveInv, Unmounted
    <3> QED  BY <2>2, <3>1 DEF StatsInv, StatsChain, StatsFirst, Follows
  <2> QED  BY <2>3, <2>4 DEF LiveInv, WindowInv
<1>11. CASE HandleStats
  <2>1. /\ inbox # <<>> /\ inbox[1][1] = "stats" /\ inbox' = Tail(inbox) /\ Message = inbox[1][2]
        /\ Message \in [count : Counters, real : Counters]
    BY <1>11, TheMessage DEF HandleStats
  <2>2. prev' = <<inbox[1][2].count>> /\ UNCHANGED packets
    BY <1>11, <2>1 DEF HandleStats, PrevAfter
  <2>3. StatsChain(Tail(inbox), Reading) /\ StatsFirst(Tail(inbox), Reading, prev')
    BY <1>1, <2>1, <2>2, StatsTail
  <2>4. ASSUME prev # <<>> PROVE AtMost(Message, prev[1])
    <3>1. Len(inbox) \in Nat \ {0}
      BY <1>1, <2>1, Heads
    <3>2. 1 \in 1 .. Len(inbox) + 1 /\ First(inbox, "stats", 1) /\ Told(inbox, Reading, 1) = Message
      BY <2>1, <3>1 DEF First, At, Told
    <3> QED  BY <1>1, <2>4, <3>2 DEF StatsFirst
  <2> DEFINE d == Delta(Message.count, prev[1])
             s == [delta |-> d, real |-> Message.real]
  <2>5. ASSUME prev # <<>>, Usable(d)
        PROVE  d.blocked \in 0 .. Message.real.blocked /\ d.allowed \in 0 .. Message.real.allowed
    <3>1. prev[1] \in Counters /\ Message.count \in Counters /\ Message.real \in Counters
      BY <2>1, <2>5 DEF LiveInv, WindowInv, UpTo
    <3> QED  BY <2>4, <2>5, <3>1 DEF Usable, Delta, AtMost, Counters
  <2>6. SamplesAreReal'
    <3>1. history \in Seq(Sample) /\ Len(history) \in Nat
      BY DEF LiveInv, WindowInv
    <3>2. CASE history' = history
      BY <1>1, <3>2 DEF SamplesAreReal
    <3>3. ASSUME NEW old \in 0 .. Len(history), prev # <<>>, Usable(d),
                 history' = SubSeq(Append(history, s), old + 1, Len(history) + 1)
          PROVE  SamplesAreReal'
      <4>1. s \in Sample
        <5>1. prev[1] \in Counters /\ Message.count \in Counters /\ Message.real \in Counters
          BY <2>1, <3>3 DEF LiveInv, WindowInv, UpTo
        <5> QED  BY <5>1 DEF Sample, Delta, Counters
      <4>2. s.delta = d /\ s.real = Message.real
        OBVIOUS
      <4> HIDE DEF s, d
      <4>3. /\ Len(history') = Len(history) + 1 - old
            /\ \A i \in 1 .. Len(history') :
                 i + old \in 1 .. Len(history) + 1
                 /\ history'[i] = IF i + old = Len(history) + 1 THEN s ELSE history[i + old]
        <5> DEFINE t == Append(history, s)
        <5>1. /\ t \in Seq(Sample) /\ Len(t) = Len(history) + 1
              /\ \A i \in 1 .. Len(t) : t[i] = IF i = Len(history) + 1 THEN s ELSE history[i]
          BY <3>1, <4>1
        <5> HIDE DEF t
        <5>2. history' = SubSeq(t, old + 1, Len(t))
          BY <3>3, <5>1 DEF t
        <5> QED  BY <3>1, <5>1, <5>2
      <4>4. \A i \in 1 .. Len(history') :
              /\ history'[i].delta.blocked \in 0 .. history'[i].real.blocked
              /\ history'[i].delta.allowed \in 0 .. history'[i].real.allowed
        <5> SUFFICES ASSUME NEW i \in 1 .. Len(history')
                     PROVE  /\ history'[i].delta.blocked \in 0 .. history'[i].real.blocked
                            /\ history'[i].delta.allowed \in 0 .. history'[i].real.allowed
          OBVIOUS
        <5>1. CASE i + old = Len(history) + 1
          BY <2>5, <3>3, <4>2, <4>3, <5>1
        <5>2. CASE i + old # Len(history) + 1
          <6>1. i + old \in DOMAIN history
            BY <3>1, <4>3, <5>2
          <6> QED  BY <1>1, <4>3, <5>2, <6>1 DEF SamplesAreReal
        <5> QED  BY <5>1, <5>2
      <4>5. DOMAIN history' = 1 .. Len(history')
        BY <3>1, <3>3, <4>1
      <4> QED  BY <4>4, <4>5 DEF SamplesAreReal
    <3> QED  BY <1>11, <3>2, <3>3 DEF HandleStats
  <2> QED  BY <2>1, <2>2, <2>3, <2>6 DEF StatsInv, Reading, packets
<1>12. CASE ForwardEntry
  <2>1. CASE inbox' = inbox
    BY <1>4, <1>12, <2>1 DEF ForwardEntry
  <2>2. CASE inbox' # inbox
    <3> DEFINE m == <<"log", log[sent + 1]>>
    <3>1. inbox' = Append(inbox, m) /\ m[1] # "stats" /\ UNCHANGED <<packets, samples>>
      BY <1>12, <2>2 DEF ForwardEntry, Emit
    <3> QED  BY <1>5, <3>1
  <2> QED  BY <2>1, <2>2
<1>13. CASE AnswerLogs
  <2> DEFINE m == <<"logs", Newest(Reverse(refresh.read), Limit)>>
  <2>1. inbox' = Append(inbox, m) /\ m[1] # "stats" /\ UNCHANGED <<packets, samples>>
    BY <1>13 DEF AnswerLogs, Post
  <2> QED  BY <1>5, <2>1
<1>14. ASSUME NEW k \in DOMAIN lookup, AnswerLookup(k) PROVE StatsInv'
  <2>1. PICK ok \in BOOLEAN : inbox' = Append(inbox, <<"sources", [call |-> k, ok |-> ok]>>)
    BY <1>14 DEF AnswerLookup, Post
  <2> DEFINE m == <<"sources", [call |-> k, ok |-> ok]>>
  <2>2. m[1] # "stats" /\ UNCHANGED <<packets, samples>>
    BY <1>14 DEF AnswerLookup
  <2> QED  BY <1>5, <2>1, <2>2
<1>15. CASE HandleLogs
  BY <1>6, <1>15 DEF HandleLogs
<1>16. CASE HandleLog
  BY <1>6, <1>16 DEF HandleLog
<1>17. CASE HandleLookup
  BY <1>6, <1>17 DEF HandleLookup
<1>18. CASE Mount \/ ReadLogs \/ ClearLogs \/ SwitchTab \/ CloseDialog
  BY <1>4, <1>18 DEF Mount, ReadLogs, ClearLogs, SwitchTab, CloseDialog
<1>19. ASSUME NEW i \in DOMAIN blocked, BlockClick(blocked[i]) PROVE StatsInv'
  BY <1>4, <1>19 DEF BlockClick
<1> QED
  BY <1>7, <1>8, <1>9, <1>10, <1>11, <1>12, <1>13, <1>14, <1>15, <1>16, <1>17, <1>18, <1>19
  DEF LiveNext

\* A sample of the chart shows at most what was really blocked and allowed
\* between the two events it lies between, whatever was restarted or closed in
\* the meantime.
THEOREM ChartInventsNothing == LiveSpec => []SamplesAreReal
<1>1. LiveInit => StatsInv
  BY DEF LiveInit, StatsInv, StatsChain, StatsFirst, SamplesAreReal, Follows
<1>2. LiveInv /\ StatsInv /\ [LiveNext]_liveVars => StatsInv'
  <2>1. ASSUME StatsInv, UNCHANGED liveVars PROVE StatsInv'
    BY <2>1 DEF liveVars, packets, samples, StatsInv, StatsChain, StatsFirst, SamplesAreReal, Reading
  <2> QED  BY <2>1, StatsStep, LiveAssumption
<1>3. StatsInv => SamplesAreReal
  BY DEF StatsInv
<1> QED  BY <1>1, <1>2, <1>3, LiveInvHolds, PTL DEF LiveSpec

-----------------------------------------------------------------------------
\* The log

\* The number of the entry at the place j of the queue q; v behind the last.
Due(q, v, j) == IF j = Len(q) + 1 THEN v ELSE q[j][2].n

\* The entries in the queue, and the one that would be sent next, are numbered
\* one after the other, from n.
LogChain(q, v) ==
  \A i, j \in 1 .. Len(q) + 1 : Follows(q, "log", i, j) => Due(q, v, j) = q[i][2].n + 1
LogFirst(q, v, n) == \A j \in 1 .. Len(q) + 1 : First(q, "log", j) => Due(q, v, j) = n

\* The entries that came since logs was replaced are the newest up to h, in order.
Smaller(a, b) == IF a < b THEN a ELSE b
Top(h) == /\ fresh <= h /\ Smaller(fresh, Limit) <= Len(logs)
          /\ \A i \in 1 .. Smaller(fresh, Limit) : logs[i] = log[h - i + 1]

LogInv ==
  /\ LogChain(inbox, sent + 1)
  /\ \E n \in 1 .. Len(log) + 1 : LogFirst(inbox, sent + 1, n) /\ Top(n - 1)

\* Another message is appended.
LEMMA LogOther ==
  ASSUME NEW S, NEW q \in Seq(S), NEW m \in S, m[1] # "log", NEW v, NEW n,
         LogChain(q, v), LogFirst(q, v, n)
  PROVE  LogChain(Append(q, m), v) /\ LogFirst(Append(q, m), v, n)
<1> DEFINE r == Append(q, m)
<1>1. Len(q) \in Nat /\ Len(r) = Len(q) + 1 /\ \A i \in 1 .. Len(q) : r[i] = q[i]
  OBVIOUS
<1>2. \A j \in 1 .. Len(q) + 2 :
        LET o == IF j = Len(q) + 2 THEN Len(q) + 1 ELSE j
        IN  /\ First(r, "log", j) => First(q, "log", o)
            /\ \A i \in 1 .. Len(q) + 2 :
                 Follows(r, "log", i, j) => i \in 1 .. Len(q) /\ Follows(q, "log", i, o)
            /\ At(r, "log", j) => j # Len(q) + 1
  BY AppendOther
<1> HIDE DEF r
<1>3. ASSUME NEW i \in 1 .. Len(r) + 1, NEW j \in 1 .. Len(r) + 1, Follows(r, "log", i, j)
      PROVE  Due(r, v, j) = r[i][2].n + 1
  <2> DEFINE o == IF j = Len(q) + 2 THEN Len(q) + 1 ELSE j
  <2>1. i \in 1 .. Len(q) /\ Follows(q, "log", i, o) /\ j # Len(q) + 1
    BY <1>1, <1>2, <1>3 DEF Follows
  <2>2. o \in 1 .. Len(q) + 1 /\ Due(r, v, j) = Due(q, v, o) /\ r[i] = q[i]
    BY <1>1, <2>1 DEF Due
  <2> QED  BY <2>1, <2>2 DEF LogChain
<1>4. ASSUME NEW j \in 1 .. Len(r) + 1, First(r, "log", j) PROVE Due(r, v, j) = n
  <2> DEFINE o == IF j = Len(q) + 2 THEN Len(q) + 1 ELSE j
  <2>1. First(q, "log", o) /\ j # Len(q) + 1
    BY <1>1, <1>2, <1>4 DEF First
  <2>2. o \in 1 .. Len(q) + 1 /\ Due(r, v, j) = Due(q, v, o)
    BY <1>1, <2>1 DEF Due
  <2> QED  BY <2>1, <2>2 DEF LogFirst
<1> QED  BY <1>3, <1>4 DEF LogChain, LogFirst, r

\* The next entry is appended.
LEMMA LogSame ==
  ASSUME NEW S, NEW q \in Seq(S), NEW m \in S, m[1] = "log", NEW n,
         LogChain(q, m[2].n), LogFirst(q, m[2].n, n)
  PROVE  LogChain(Append(q, m), m[2].n + 1) /\ LogFirst(Append(q, m), m[2].n + 1, n)
<1> DEFINE r == Append(q, m)
           w == m[2].n + 1
<1>1. /\ Len(q) \in Nat /\ Len(r) = Len(q) + 1 /\ r[Len(q) + 1] = m
      /\ \A i \in 1 .. Len(q) : r[i] = q[i]
  OBVIOUS
<1>2. \A j \in 1 .. Len(q) + 2 :
        /\ First(r, "log", j) => j # Len(q) + 2 /\ First(q, "log", j)
        /\ \A i \in 1 .. Len(q) + 2 : Follows(r, "log", i, j) =>
             IF j = Len(q) + 2 THEN i = Len(q) + 1 ELSE i \in 1 .. Len(q) /\ Follows(q, "log", i, j)
  BY AppendSame
<1> HIDE DEF r
<1>3. \A j \in 1 .. Len(q) + 1 : Due(r, w, j) = Due(q, m[2].n, j)
  BY <1>1 DEF Due
<1>4. ASSUME NEW i \in 1 .. Len(r) + 1, NEW j \in 1 .. Len(r) + 1, Follows(r, "log", i, j)
      PROVE  Due(r, w, j) = r[i][2].n + 1
  <2>1. CASE j = Len(q) + 2
    BY <1>1, <1>2, <1>4, <2>1 DEF Due
  <2>2. CASE j # Len(q) + 2
    <3>1. j \in 1 .. Len(q) + 1 /\ i \in 1 .. Len(q) /\ Follows(q, "log", i, j)
      BY <1>1, <1>2, <1>4, <2>2
    <3>2. r[i] = q[i] /\ i \in 1 .. Len(q) + 1
      BY <1>1, <3>1
    <3> QED  BY <1>3, <3>1, <3>2 DEF LogChain
  <2> QED  BY <2>1, <2>2
<1>5. ASSUME NEW j \in 1 .. Len(r) + 1, First(r, "log", j) PROVE Due(r, w, j) = n
  <2>1. j \in 1 .. Len(q) + 1 /\ First(q, "log", j)
    BY <1>1, <1>2, <1>5
  <2> QED  BY <1>3, <2>1 DEF LogFirst
<1> QED  BY <1>4, <1>5 DEF LogChain, LogFirst, r

\* The head is taken.
LEMMA LogTail ==
  ASSUME NEW S, NEW q \in Seq(S), q # <<>>, NEW v, NEW n, LogChain(q, v), LogFirst(q, v, n)
  PROVE  /\ LogChain(Tail(q), v)
         /\ q[1][1] # "log" => LogFirst(Tail(q), v, n)
         /\ q[1][1] = "log" => q[1][2].n = n /\ LogFirst(Tail(q), v, n + 1)
<1> DEFINE r == Tail(q)
<1>1. Len(q) \in Nat \ {0} /\ Len(r) = Len(q) - 1 /\ \A i \in 1 .. Len(q) - 1 : r[i] = q[i + 1]
  OBVIOUS
<1>2. \A j \in 1 .. Len(q) :
        /\ First(r, "log", j) => IF q[1][1] = "log" THEN Follows(q, "log", 1, j + 1)
                                                     ELSE First(q, "log", j + 1)
        /\ \A i \in 1 .. Len(q) : Follows(r, "log", i, j) =>
             i + 1 \in 1 .. Len(q) /\ Follows(q, "log", i + 1, j + 1)
  BY TakeHead
<1> HIDE DEF r
<1>3. \A j \in 1 .. Len(q) : j + 1 \in 1 .. Len(q) + 1 /\ Due(r, v, j) = Due(q, v, j + 1)
  BY <1>1 DEF Due
<1>4. ASSUME NEW i \in 1 .. Len(r) + 1, NEW j \in 1 .. Len(r) + 1, Follows(r, "log", i, j)
      PROVE  Due(r, v, j) = r[i][2].n + 1
  <2>1. j \in 1 .. Len(q) /\ i + 1 \in 1 .. Len(q) /\ Follows(q, "log", i + 1, j + 1)
    BY <1>1, <1>2, <1>4
  <2>2. r[i] = q[i + 1] /\ i + 1 \in 1 .. Len(q) + 1
    BY <1>1, <2>1
  <2> QED  BY <1>3, <2>1, <2>2 DEF LogChain
<1>5. ASSUME q[1][1] # "log" PROVE LogFirst(r, v, n)
  BY <1>1, <1>2, <1>3, <1>5 DEF LogFirst
<1>6. ASSUME q[1][1] = "log" PROVE q[1][2].n = n /\ LogFirst(r, v, n + 1)
  <2>1. 1 \in 1 .. Len(q) + 1 /\ First(q, "log", 1) /\ Due(q, v, 1) = q[1][2].n
    BY <1>1, <1>6 DEF First, At, Due
  <2>2. q[1][2].n = n
    BY <2>1 DEF LogFirst
  <2>3. ASSUME NEW j \in 1 .. Len(r) + 1, First(r, "log", j) PROVE Due(r, v, j) = n + 1
    <3>1. j \in 1 .. Len(q) /\ Follows(q, "log", 1, j + 1)
      BY <1>1, <1>2, <1>6, <2>3
    <3> QED  BY <1>3, <2>1, <2>2, <3>1 DEF LogChain
  <2> QED  BY <2>2, <2>3 DEF LogFirst
<1> QED  BY <1>4, <1>5, <1>6 DEF LogChain, r

\* The log grows behind what the window has.
LEMMA TopStays ==
  ASSUME LiveInv, NEW h \in 0 .. Len(log), Top(h), UNCHANGED lists,
         log' = log \/ \E e \in LogEntry : log' = Append(log, e)
  PROVE  Top(h)' /\ Len(log) <= Len(log')
<1>1. /\ log \in Seq(LogEntry) /\ Len(log) \in Nat /\ Len(log') \in Nat /\ Len(log) <= Len(log')
      /\ \A i \in 1 .. Len(log) : log'[i] = log[i]
  BY DEF LiveInv, FilterInv
<1>2. logs' = logs /\ fresh' = fresh /\ fresh \in Nat
  BY DEF lists, LiveInv, WindowInv
<1>3. \A i \in 1 .. Smaller(fresh, Limit) : i \in 1 .. h
  BY <1>2, LiveAssumption DEF Top, Smaller
<1>4. \A i \in 1 .. Smaller(fresh, Limit) : logs[i] = log'[h - i + 1]
  <2> SUFFICES ASSUME NEW i \in 1 .. Smaller(fresh, Limit) PROVE logs[i] = log'[h - i + 1]
    OBVIOUS
  <2>1. h - i + 1 \in 1 .. Len(log)
    BY <1>1, <1>3
  <2> QED  BY <1>1, <2>1 DEF Top
<1> QED  BY <1>1, <1>2, <1>4 DEF Top

\* An entry comes on top.
LEMMA TopGrows ==
  ASSUME LiveAssumption, LiveInv, NEW n \in DOMAIN log, Top(n - 1),
         logs' = Newest(<<log[n]>> \o logs, Limit), fresh' = fresh + 1, log' = log
  PROVE  Top(n)'
<1>1. /\ n \in Nat \ {0} /\ fresh \in Nat /\ Limit \in Nat \ {0} /\ Len(logs) \in Nat
      /\ logs \in Seq(Logged) /\ log[n] \in Logged /\ Len(logs) <= Limit
  BY LiveAssumption DEF LiveInv, FilterInv, WindowInv, UpTo, Logged
<1>2. /\ Len(logs') = IF Len(logs) + 1 < Limit THEN Len(logs) + 1 ELSE Limit
      /\ \A i \in 1 .. Len(logs') : logs'[i] = IF i = 1 THEN log[n] ELSE logs[i - 1]
  <2>1. logs' = Newest(Cons(log[n], logs), Limit)
    BY DEF Cons
  <2>2. log[n] \in Logged /\ logs \in Seq(Logged) /\ Limit \in Nat
    BY <1>1
  <2>3. /\ Len(Newest(Cons(log[n], logs), Limit)) =
             IF Len(logs) + 1 < Limit THEN Len(logs) + 1 ELSE Limit
        /\ \A i \in 1 .. Len(Newest(Cons(log[n], logs), Limit)) :
             Newest(Cons(log[n], logs), Limit)[i] = IF i = 1 THEN log[n] ELSE logs[i - 1]
    BY <2>2, NewestFirst
  <2> QED  BY <2>1, <2>3
<1>3. fresh <= n - 1 /\ Smaller(fresh, Limit) <= Len(logs)
  BY DEF Top
<1>4. fresh' <= n /\ Smaller(fresh', Limit) <= Len(logs')
  BY <1>1, <1>2, <1>3 DEF Smaller
<1>5. ASSUME NEW i \in 1 .. Smaller(fresh', Limit) PROVE logs'[i] = log[n - i + 1]
  <2>1. i \in 1 .. Len(logs')
    BY <1>1, <1>2, <1>4 DEF Smaller
  <2>2. CASE i = 1
    BY <1>1, <1>2, <2>1, <2>2
  <2>3. CASE i # 1
    <3>1. i - 1 \in 1 .. Smaller(fresh, Limit)
      BY <1>1, <2>3 DEF Smaller
    <3>2. logs[i - 1] = log[n - 1 - (i - 1) + 1] /\ n - 1 - (i - 1) + 1 = n - i + 1
      BY <1>1, <3>1 DEF Top
    <3> QED  BY <1>2, <2>1, <2>3, <3>2
  <2> QED  BY <2>2, <2>3
<1> QED  BY <1>4, <1>5 DEF Top

LEMMA LogStep ==
  ASSUME LiveAssumption, LiveInv, LiveNext, LogInv
  PROVE  LogInv'
<1>1. /\ inbox \in Seq(Messages) /\ log \in Seq(LogEntry) /\ sent \in 0 .. Len(log)
      /\ (\A i \in DOMAIN log : log[i].n = i) /\ Len(log) \in Nat
  BY DEF LiveInv, FilterInv, WindowInv
<1>2. PICK n \in 1 .. Len(log) + 1 :
        LogChain(inbox, sent + 1) /\ LogFirst(inbox, sent + 1, n) /\ Top(n - 1)
  BY DEF LogInv
<1>3. log' = log \/ \E e \in LogEntry : log' = Append(log, e)
  BY FilterStep
<1>4. n - 1 \in 0 .. Len(log) /\ n \in 1 .. Len(log) + 1
  BY <1>1
\* what the window has stays, and the queue tells the same
<1>5. ASSUME LogChain(inbox', sent' + 1), LogFirst(inbox', sent' + 1, n), UNCHANGED lists
      PROVE  LogInv'
  <2>1. Top(n - 1)' /\ Len(log) <= Len(log')
    BY <1>2, <1>3, <1>4, <1>5, TopStays
  <2>2. n \in 1 .. Len(log') + 1
    BY <1>1, <1>3, <2>1
  <2> QED  BY <1>5, <2>1, <2>2 DEF LogInv
<1>6. ASSUME UNCHANGED <<inbox, sent, lists>> PROVE LogInv'
  BY <1>2, <1>5, <1>6
<1>7. ASSUME NEW m, m[1] # "log", inbox' = Append(inbox, m), UNCHANGED <<sent, lists>>
      PROVE  LogInv'
  <2> DEFINE S == Messages \cup {m}
  <2>1. inbox \in Seq(S) /\ m \in S
    BY <1>1, Wider
  <2> HIDE DEF S
  <2>2. LogChain(Append(inbox, m), sent + 1) /\ LogFirst(Append(inbox, m), sent + 1, n)
    BY <1>2, <1>7, <2>1, LogOther
  <2> QED  BY <1>5, <1>7, <2>2
<1>8. ASSUME NEW kind, kind # "log", Receive(kind)
      PROVE  LogChain(inbox', sent + 1) /\ LogFirst(inbox', sent + 1, n)
  <2>1. inbox # <<>> /\ inbox[1][1] # "log" /\ inbox' = Tail(inbox)
    BY <1>8, TheMessage
  <2> QED  BY <1>1, <1>2, <2>1, LogTail
\* the window's log is emptied, or replaced
<1>9. ASSUME LogChain(inbox', sent + 1), LogFirst(inbox', sent + 1, n), fresh' = 0,
             logs' \in UpTo(Limit, Logged), UNCHANGED entries
      PROVE  LogInv'
  <2>1. Len(logs') \in Nat /\ Smaller(0, Limit) = 0
    BY <1>9, LiveAssumption DEF UpTo, Smaller
  <2>2. Top(n - 1)'
    BY <1>4, <1>9, <2>1 DEF Top
  <2> QED  BY <1>9, <2>2 DEF LogInv, entries
<1>10. CASE ForwardEntry
  <2>1. /\ sent + 1 \in DOMAIN log /\ sent' = sent + 1 /\ UNCHANGED <<log, lists>>
        /\ inbox' = IF mounted THEN Append(inbox, <<"log", log[sent + 1]>>) ELSE inbox
    BY <1>1, <1>10 DEF ForwardEntry, Emit
  <2>2. CASE mounted
    <3> DEFINE m == <<"log", log[sent + 1]>>
    <3>1. m \in Messages
      BY <2>1, IsMessage DEF Logged
    <3>2. m[1] = "log" /\ m[2].n = sent + 1 /\ inbox' = Append(inbox, m)
      BY <1>1, <2>1, <2>2
    <3> HIDE DEF m
    <3>3. LogChain(inbox', sent + 1 + 1) /\ LogFirst(inbox', sent + 1 + 1, n)
      BY <1>1, <1>2, <3>1, <3>2, LogSame
    <3> QED  BY <1>5, <2>1, <3>3
  <2>3. CASE ~mounted
    <3>1. inbox = <<>> /\ inbox' = <<>> /\ fresh = 0 /\ Len(inbox) = 0
      BY <2>1, <2>3 DEF LiveInv, Unmounted
    <3>2. LogChain(inbox', sent' + 1) /\ LogFirst(inbox', sent' + 1, sent + 2)
      BY <1>1, <2>1, <3>1 DEF LogChain, LogFirst, Follows, Due
    <3>3. fresh' = 0 /\ Smaller(0, Limit) = 0 /\ Len(logs') \in Nat
      BY <2>1, <3>1, LiveAssumption DEF lists, Smaller, LiveInv, WindowInv, UpTo
    <3>4. \A h \in Nat : Top(h)'
      BY <3>3 DEF Top
    <3>5. PICK h \in Nat : h = sent + 1
      BY <1>1
    <3>6. h + 1 \in 1 .. Len(log') + 1 /\ h + 1 - 1 = h
      BY <1>1, <2>1, <3>5
    <3>7. LogFirst(inbox', sent' + 1, h + 1)
      BY <1>1, <3>2, <3>5
    <3> QED  BY <3>2, <3>4, <3>6, <3>7 DEF LogInv
  <2> QED  BY <2>2, <2>3 DEF LiveInv, WindowInv
<1>11. CASE EmitStats
  <2>1. CASE inbox' = inbox
    BY <1>6, <1>11, <2>1 DEF EmitStats, entries
  <2>2. CASE inbox' # inbox
    <3> DEFINE m == <<"stats", [count |-> count, real |-> since]>>
    <3>1. inbox' = Append(inbox, m) /\ m[1] # "log" /\ UNCHANGED <<sent, lists>>
      BY <1>11, <2>2 DEF EmitStats, Emit, entries
    <3> QED  BY <1>7, <3>1
  <2> QED  BY <2>1, <2>2
<1>12. CASE AnswerLogs
  <2> DEFINE m == <<"logs", Newest(Reverse(refresh.read), Limit)>>
  <2>1. inbox' = Append(inbox, m) /\ m[1] # "log" /\ UNCHANGED <<sent, lists>>
    BY <1>12 DEF AnswerLogs, Post, entries
  <2> QED  BY <1>7, <2>1
<1>13. ASSUME NEW k \in DOMAIN lookup, AnswerLookup(k) PROVE LogInv'
  <2>1. PICK ok \in BOOLEAN : inbox' = Append(inbox, <<"sources", [call |-> k, ok |-> ok]>>)
    BY <1>13 DEF AnswerLookup, Post
  <2> DEFINE m == <<"sources", [call |-> k, ok |-> ok]>>
  <2>2. m[1] # "log" /\ UNCHANGED <<sent, lists>>
    BY <1>13 DEF AnswerLookup, entries
  <2> QED  BY <1>7, <2>1, <2>2
<1>14. CASE HandleStats
  BY <1>5, <1>8, <1>14 DEF HandleStats, entries
<1>15. CASE HandleLookup
  BY <1>5, <1>8, <1>15 DEF HandleLookup, entries
<1>16. CASE HandleLogs
  BY <1>8, <1>9, <1>16, TheMessage DEF HandleLogs
<1>17. CASE HandleLog
  <2>1. /\ inbox # <<>> /\ inbox[1][1] = "log" /\ inbox' = Tail(inbox) /\ Message = inbox[1][2]
        /\ Message \in Logged
    BY <1>17, TheMessage DEF HandleLog
  <2>2. /\ LogChain(inbox', sent + 1) /\ Message.n = n /\ LogFirst(inbox', sent + 1, n + 1)
    BY <1>1, <1>2, <2>1, LogTail
  <2>3. n \in DOMAIN log /\ Message = log[n]
    BY <1>1, <2>1, <2>2 DEF Logged
  <2>4. /\ logs' = Newest(<<log[n]>> \o logs, Limit) /\ fresh' = fresh + 1
        /\ log' = log /\ sent' = sent
    BY <1>17, <2>3 DEF HandleLog, Prepended, entries
  <2>5. Top(n)'
    BY <1>2, <2>3, <2>4, TopGrows
  <2>6. n + 1 \in 1 .. Len(log) + 1 /\ n + 1 - 1 = n
    BY <1>1, <2>3
  <2> QED  BY <2>2, <2>4, <2>5, <2>6 DEF LogInv
<1>18. CASE ClearLogs
  <2>1. logs' \in UpTo(Limit, Logged) /\ fresh' = 0 /\ UNCHANGED <<inbox, entries>>
    BY <1>18, LiveAssumption DEF ClearLogs, UpTo
  <2> QED  BY <1>2, <1>9, <2>1
<1>19. CASE Mount \/ AllowPacket \/ RestartProtection \/ ReadLogs \/ SwitchTab \/ CloseDialog
  BY <1>6, <1>19 DEF Mount, AllowPacket, RestartProtection, ReadLogs, SwitchTab, CloseDialog, entries
<1>20. ASSUME NEW ip \in IPs, NEW proto \in Protocols, BlockPacket(ip, proto) PROVE LogInv'
  BY <1>6, <1>20 DEF BlockPacket
<1>21. ASSUME NEW i \in DOMAIN blocked, BlockClick(blocked[i]) PROVE LogInv'
  BY <1>6, <1>21 DEF BlockClick, entries
<1> QED
  BY <1>10, <1>11, <1>12, <1>13, <1>14, <1>15, <1>16, <1>17, <1>18, <1>19, <1>20, <1>21 DEF LiveNext

\* Once Limit entries have come since refresh's answer, and the window has
\* caught up, it has exactly the newest Limit entries of the log, the newest
\* first: what the answer repeated or overwrote is gone.
THEOREM WindowLogHeals == LiveSpec => []LogsHeal
<1>1. LiveInit => LogInv
  <2> SUFFICES ASSUME LiveInit PROVE LogInv
    OBVIOUS
  <2>1. inbox = <<>> /\ Len(inbox) = 0 /\ sent = 0 /\ log = <<>> /\ Len(log) = 0 /\ fresh = 0
        /\ logs = <<>> /\ Len(logs) = 0 /\ Smaller(0, Limit) = 0
    BY LiveAssumption DEF LiveInit, Smaller
  <2>2. LogChain(inbox, sent + 1) /\ LogFirst(inbox, sent + 1, 1)
    BY <2>1 DEF LogChain, LogFirst, Follows, Due
  <2>3. Top(1 - 1)
    BY <2>1 DEF Top
  <2> QED  BY <2>1, <2>2, <2>3 DEF LogInv
<1>2. LiveInv /\ LogInv /\ [LiveNext]_liveVars => LogInv'
  <2>1. ASSUME LogInv, UNCHANGED liveVars PROVE LogInv'
    BY <2>1 DEF liveVars, entries, lists, LogInv, Top
  <2> QED  BY <2>1, LogStep, LiveAssumption
<1>3. LiveInv /\ LogInv => LogsHeal
  <2> SUFFICES ASSUME LiveInv, LogInv, Idle, fresh >= Limit
               PROVE  logs = Newest(Reverse(log), Limit)
    BY DEF LogsHeal
  <2>1. /\ inbox = <<>> /\ Len(inbox) = 0 /\ sent = Len(log) /\ Len(log) \in Nat
        /\ log \in Seq(LogEntry) /\ logs \in Seq(Logged) /\ Len(logs) <= Limit
        /\ fresh \in Nat /\ Limit \in Nat \ {0} /\ Len(logs) \in Nat
    BY LiveAssumption DEF Idle, LiveInv, FilterInv, WindowInv, UpTo
  <2>2. Top(Len(log))
    <3>1. PICK n \in 1 .. Len(log) + 1 : LogFirst(inbox, sent + 1, n) /\ Top(n - 1)
      BY DEF LogInv
    <3>2. First(inbox, "log", 1) /\ 1 \in 1 .. Len(inbox) + 1 /\ Due(inbox, sent + 1, 1) = sent + 1
      BY <2>1 DEF First, At, Due
    <3>3. sent + 1 = n /\ n - 1 = Len(log)
      BY <2>1, <3>1, <3>2 DEF LogFirst
    <3> QED  BY <3>1, <3>3
  <2>3. Len(logs) = Limit /\ Limit <= Len(log)
    BY <2>1, <2>2 DEF Top, Smaller
  <2>4. \A i \in 1 .. Limit : logs[i] = log[Len(log) - i + 1]
    BY <2>1, <2>2 DEF Top, Smaller
  <2>5. logs = Newest(Reverse(log), Limit)
    <3> DEFINE r == Reverse(log)
    <3>1. r \in Seq(LogEntry) /\ Len(r) = Len(log) /\ \A i \in 1 .. Len(log) : r[i] = log[Len(log) - i + 1]
      BY <2>1 DEF Reverse
    <3> HIDE DEF r
    <3>2. /\ Newest(r, Limit) \in Seq(LogEntry)
          /\ Len(Newest(r, Limit)) = Limit
          /\ \A i \in 1 .. Limit : Newest(r, Limit)[i] = r[i]
      BY <2>1, <2>3, <3>1, NewestOf DEF UpTo
    <3>3. \A i \in 1 .. Limit : Newest(r, Limit)[i] = logs[i]
      BY <2>1, <2>3, <2>4, <3>1, <3>2
    <3> QED  BY <2>1, <2>3, <3>2, <3>3 DEF r
  <2> QED  BY <2>5
<1> QED  BY <1>1, <1>2, <1>3, LiveInvHolds, PTL DEF LiveSpec

-----------------------------------------------------------------------------
\* The dialog

\* An answer to the call c is in the queue q.
IsAnswer(q, i, c) == i \in 1 .. Len(q) /\ q[i][1] = "sources" /\ q[i][2].call = c
Waiting(q, c) == \E i \in 1 .. Len(q) : IsAnswer(q, i, c)

\* The answers for the ChartsView that is open are in the order of the calls.
Open(l, c) == c \in DOMAIN l /\ l[c].mounted
AnswersInOrder(q, l) ==
  \A c, d \in DOMAIN l : \A i, j \in 1 .. Len(q) :
    IsAnswer(q, i, c) /\ IsAnswer(q, j, d) /\ Open(l, c) /\ Open(l, d) /\ i < j => c < d

\* The call c has still something to say.
Pending(c) == lookup[c].asked \/ Waiting(inbox, c)

\* What holds if the calls were answered in order: an unanswered call has only
\* unanswered ones behind it; and when the last one has been heard, all have,
\* and the dialog shows what it said.
Orderly ==
  /\ \A c, d \in DOMAIN lookup :
       c < d /\ Open(lookup, c) /\ Open(lookup, d) /\ lookup[c].asked => lookup[d].asked
  /\ AnswersInOrder(inbox, lookup)
  /\ dialog.ip # Nobody /\ ~Pending(Len(lookup)) =>
       /\ \A c \in DOMAIN lookup : Open(lookup, c) => ~Pending(c)
       /\ ~dialog.loading /\ dialog.sources \subseteq {dialog.ip}

DialogInv ==
  /\ \A c \in DOMAIN lookup : Waiting(inbox, c) => ~lookup[c].asked
  /\ dialog.ip # Nobody =>
       /\ lookup # <<>> /\ Open(lookup, Len(lookup)) /\ lookup[Len(lookup)].ip = dialog.ip
  /\ orderly => Orderly

LEMMA AnswersOther ==
  ASSUME NEW S, NEW q \in Seq(S), NEW m \in S, m[1] # "sources", NEW l
  PROVE  /\ \A c : Waiting(Append(q, m), c) <=> Waiting(q, c)
         /\ AnswersInOrder(q, l) => AnswersInOrder(Append(q, m), l)
<1> DEFINE r == Append(q, m)
<1>1. /\ Len(q) \in Nat /\ Len(r) = Len(q) + 1 /\ r[Len(q) + 1] = m
      /\ \A i \in 1 .. Len(q) : r[i] = q[i]
  OBVIOUS
<1> HIDE DEF r
<1>2. \A i, c : IsAnswer(r, i, c) <=> IsAnswer(q, i, c)
  BY <1>1 DEF IsAnswer
<1>3. 1 .. Len(q) \subseteq 1 .. Len(r) /\ \A i, c : IsAnswer(q, i, c) => i \in 1 .. Len(q)
  BY <1>1 DEF IsAnswer
<1> QED  BY <1>2, <1>3 DEF Waiting, AnswersInOrder, r

LEMMA AnswersSame ==
  ASSUME NEW S, NEW q \in Seq(S), NEW m \in S, m[1] = "sources", NEW l
  PROVE  /\ \A c : Waiting(Append(q, m), c) <=> Waiting(q, c) \/ c = m[2].call
         /\ AnswersInOrder(q, l)
            /\ (\A c \in DOMAIN l : Waiting(q, c) /\ Open(l, c) /\ Open(l, m[2].call) => c < m[2].call)
              => AnswersInOrder(Append(q, m), l)
<1> DEFINE r == Append(q, m)
<1>1. /\ Len(q) \in Nat /\ Len(r) = Len(q) + 1 /\ r[Len(q) + 1] = m
      /\ \A i \in 1 .. Len(q) : r[i] = q[i]
  OBVIOUS
<1> HIDE DEF r
<1>2. \A i, c : IsAnswer(r, i, c) <=> IsAnswer(q, i, c) \/ (i = Len(q) + 1 /\ c = m[2].call)
  BY <1>1 DEF IsAnswer
<1>3. 1 .. Len(q) \subseteq 1 .. Len(r) /\ Len(q) + 1 \in 1 .. Len(r)
      /\ \A i, c : IsAnswer(q, i, c) => i \in 1 .. Len(q)
  BY <1>1 DEF IsAnswer
<1>4. \A c : Waiting(r, c) <=> Waiting(q, c) \/ c = m[2].call
  BY <1>2, <1>3 DEF Waiting
<1>5. ASSUME AnswersInOrder(q, l),
             \A c \in DOMAIN l :
               Waiting(q, c) /\ Open(l, c) /\ Open(l, m[2].call) => c < m[2].call
      PROVE  AnswersInOrder(r, l)
  <2> SUFFICES ASSUME NEW c \in DOMAIN l, NEW d \in DOMAIN l,
                      NEW i \in 1 .. Len(r), NEW j \in 1 .. Len(r),
                      IsAnswer(r, i, c), IsAnswer(r, j, d), Open(l, c), Open(l, d), i < j
               PROVE  c < d
    BY DEF AnswersInOrder
  <2>1. IsAnswer(q, i, c) /\ i \in 1 .. Len(q)
    BY <1>1, <1>2, <1>3
  <2>2. CASE IsAnswer(q, j, d)
    BY <1>3, <1>5, <2>1, <2>2 DEF AnswersInOrder
  <2>3. CASE d = m[2].call
    BY <1>5, <2>1, <2>3 DEF Waiting
  <2> QED  BY <1>2, <2>2, <2>3
<1> QED  BY <1>4, <1>5 DEF r

LEMMA AnswersTail ==
  ASSUME NEW S, NEW q \in Seq(S), q # <<>>, NEW l
  PROVE  /\ \A c : Waiting(q, c) <=> Waiting(Tail(q), c) \/ IsAnswer(q, 1, c)
         /\ AnswersInOrder(q, l) =>
              /\ AnswersInOrder(Tail(q), l)
              /\ \A c, d \in DOMAIN l :
                   IsAnswer(q, 1, c) /\ Waiting(Tail(q), d) /\ Open(l, c) /\ Open(l, d) => c < d
<1> DEFINE r == Tail(q)
<1>1. Len(q) \in Nat \ {0} /\ Len(r) = Len(q) - 1 /\ \A i \in 1 .. Len(q) - 1 : r[i] = q[i + 1]
  OBVIOUS
<1> HIDE DEF r
<1>2. \A c : \A i \in 1 .. Len(r) : i + 1 \in 1 .. Len(q) /\ (IsAnswer(r, i, c) <=> IsAnswer(q, i + 1, c))
  BY <1>1 DEF IsAnswer
<1>3. ASSUME NEW c PROVE Waiting(q, c) <=> Waiting(r, c) \/ IsAnswer(q, 1, c)
  <2>1. ASSUME Waiting(q, c), ~IsAnswer(q, 1, c) PROVE Waiting(r, c)
    <3>1. PICK i \in 1 .. Len(q) : IsAnswer(q, i, c)
      BY <2>1 DEF Waiting
    <3>2. i - 1 \in 1 .. Len(r) /\ i - 1 + 1 = i
      BY <1>1, <2>1, <3>1
    <3>3. IsAnswer(r, i - 1, c)
      BY <1>2, <3>1, <3>2
    <3> QED  BY <3>2, <3>3 DEF Waiting
  <2>2. ASSUME Waiting(r, c) PROVE Waiting(q, c)
    BY <1>2, <2>2 DEF Waiting
  <2>3. ASSUME IsAnswer(q, 1, c) PROVE Waiting(q, c)
    BY <2>3 DEF IsAnswer, Waiting
  <2> QED  BY <2>1, <2>2, <2>3
<1>4. ASSUME AnswersInOrder(q, l) PROVE AnswersInOrder(r, l)
  <2> SUFFICES ASSUME NEW c \in DOMAIN l, NEW d \in DOMAIN l,
                      NEW i \in 1 .. Len(r), NEW j \in 1 .. Len(r),
                      IsAnswer(r, i, c), IsAnswer(r, j, d), Open(l, c), Open(l, d), i < j
               PROVE  c < d
    BY DEF AnswersInOrder
  <2>1. /\ IsAnswer(q, i + 1, c) /\ IsAnswer(q, j + 1, d) /\ i + 1 < j + 1
        /\ i + 1 \in 1 .. Len(q) /\ j + 1 \in 1 .. Len(q)
    BY <1>2
  <2> QED  BY <1>4, <2>1 DEF AnswersInOrder
<1>5. ASSUME AnswersInOrder(q, l), NEW c \in DOMAIN l, NEW d \in DOMAIN l,
             IsAnswer(q, 1, c), Waiting(r, d), Open(l, c), Open(l, d)
      PROVE  c < d
  <2>1. PICK j \in 1 .. Len(r) : IsAnswer(r, j, d)
    BY <1>5 DEF Waiting
  <2>2. j + 1 \in 1 .. Len(q) /\ IsAnswer(q, j + 1, d) /\ 1 < j + 1 /\ 1 \in 1 .. Len(q)
    BY <1>1, <1>2, <2>1
  <2> QED  BY <1>5, <2>2 DEF AnswersInOrder
<1> QED  BY <1>3, <1>4, <1>5 DEF r

\* A call is answered.
LEMMA AnswerStep ==
  ASSUME LiveAssumption, LiveInv, DialogInv, NEW k \in DOMAIN lookup, AnswerLookup(k)
  PROVE  DialogInv'
<1>1. /\ lookup \in Seq(Lookup) /\ inbox \in Seq(Messages) /\ DOMAIN lookup = 1 .. Len(lookup)
      /\ Len(lookup) \in Nat /\ orderly \in BOOLEAN
  BY DEF LiveInv, WindowInv
<1>2. PICK ok \in BOOLEAN : inbox' = Append(inbox, <<"sources", [call |-> k, ok |-> ok]>>)
  BY DEF AnswerLookup, Post
<1> DEFINE m == <<"sources", [call |-> k, ok |-> ok]>>
<1>3. m[1] = "sources" /\ m[2].call = k /\ m \in Messages \cup {m} /\ inbox \in Seq(Messages \cup {m})
  BY <1>1, Wider
<1> HIDE DEF m
<1>4. /\ \A c : Waiting(inbox', c) <=> Waiting(inbox, c) \/ c = k
      /\ \A l : AnswersInOrder(inbox, l)
           /\ (\A c \in DOMAIN l : Waiting(inbox, c) /\ Open(l, c) /\ Open(l, k) => c < k)
             => AnswersInOrder(inbox', l)
  BY <1>2, <1>3, AnswersSame DEF m
<1>5. /\ lookup[k].asked /\ dialog' = dialog
      /\ DOMAIN lookup' = DOMAIN lookup /\ Len(lookup') = Len(lookup)
      /\ \A c \in DOMAIN lookup :
           /\ lookup'[c].asked = (lookup[c].asked /\ c # k)
           /\ lookup'[c].ip = lookup[c].ip /\ lookup'[c].mounted = lookup[c].mounted
      /\ \A c : Open(lookup', c) <=> Open(lookup, c)
  <2>1. /\ lookup' = [lookup EXCEPT ![k].asked = FALSE] /\ lookup[k].asked /\ dialog' = dialog
        /\ \A c \in DOMAIN lookup : lookup[c] \in Lookup
    BY <1>1 DEF AnswerLookup
  <2>2. DOMAIN lookup' = DOMAIN lookup /\ Len(lookup') = Len(lookup)
    BY <1>1, <2>1
  <2>3. \A c \in DOMAIN lookup :
           /\ lookup'[c].asked = (lookup[c].asked /\ c # k)
           /\ lookup'[c].ip = lookup[c].ip /\ lookup'[c].mounted = lookup[c].mounted
    BY <2>1 DEF Lookup
  <2> QED  BY <2>1, <2>2, <2>3 DEF Open
<1>6. \A c \in DOMAIN lookup : Waiting(inbox', c) => ~lookup'[c].asked
  BY <1>4, <1>5 DEF DialogInv
<1>7. dialog'.ip # Nobody =>
        /\ lookup' # <<>> /\ Open(lookup', Len(lookup')) /\ lookup'[Len(lookup')].ip = dialog'.ip
  <2> SUFFICES ASSUME dialog.ip # Nobody
               PROVE  lookup' # <<>> /\ Open(lookup, Len(lookup)) /\ lookup[Len(lookup)].ip = dialog.ip
                      /\ Len(lookup) \in DOMAIN lookup
    BY <1>5
  <2>1. lookup # <<>> /\ Open(lookup, Len(lookup)) /\ lookup[Len(lookup)].ip = dialog.ip
    BY DEF DialogInv
  <2>2. Len(lookup) \in DOMAIN lookup /\ lookup' # <<>>
    BY <1>1, <1>5, <2>1
  <2> QED  BY <2>1, <2>2
<1>8. ASSUME orderly' PROVE Orderly'
  <2>1. orderly /\ (Open(lookup, k) => \A c \in 1 .. k - 1 : ~(lookup[c].asked /\ lookup[c].mounted))
    BY <1>8, <1>1 DEF AnswerLookup, Open
  <2>2. Orderly
    BY <2>1 DEF DialogInv
  <2>3. ASSUME NEW c \in DOMAIN lookup, NEW d \in DOMAIN lookup,
               c < d, Open(lookup, c), Open(lookup, d), lookup'[c].asked
        PROVE  lookup'[d].asked
    <3>1. lookup[c].asked /\ lookup[d].asked
      BY <1>5, <2>2, <2>3 DEF Orderly
    <3>2. d # k
      <4>1. ASSUME d = k PROVE FALSE
        <5>1. c \in 1 .. k - 1 /\ lookup[c].mounted
          BY <1>1, <2>3, <4>1 DEF Open
        <5> QED  BY <2>1, <2>3, <3>1, <4>1, <5>1
      <4> QED  BY <4>1
    <3> QED  BY <1>5, <3>1, <3>2
  <2>4. AnswersInOrder(inbox', lookup)
    <3>1. ASSUME NEW c \in DOMAIN lookup, Waiting(inbox, c), Open(lookup, c), Open(lookup, k)
          PROVE  c < k
      <4>1. ~lookup[c].asked /\ c # k
        BY <1>5, <3>1 DEF DialogInv
      <4>2. ASSUME k < c PROVE FALSE
        BY <1>5, <2>2, <3>1, <4>1, <4>2 DEF Orderly
      <4> QED  BY <1>1, <4>1, <4>2
    <3> QED  BY <1>4, <2>2, <3>1 DEF Orderly
  <2>5. AnswersInOrder(inbox', lookup')
    BY <1>5, <2>4 DEF AnswersInOrder
  <2>6. \A c \in DOMAIN lookup : Pending(c)' <=> Pending(c)
    BY <1>4, <1>5 DEF Pending
  <2>7. ASSUME dialog.ip # Nobody, ~Pending(Len(lookup))'
        PROVE  ~Pending(Len(lookup))
    <3>1. Len(lookup) \in DOMAIN lookup
      BY <1>1, <2>7 DEF DialogInv, Open
    <3> QED  BY <1>4, <1>5, <2>7, <3>1 DEF Pending
  <2> QED  BY <1>5, <2>2, <2>3, <2>5, <2>6, <2>7 DEF Orderly
<1> QED  BY <1>5, <1>6, <1>7, <1>8 DEF DialogInv

\* An answer reaches the dialog.
LEMMA HandleLookupStep ==
  ASSUME LiveAssumption, LiveInv, DialogInv, HandleLookup
  PROVE  DialogInv'
<1>1. /\ lookup \in Seq(Lookup) /\ inbox \in Seq(Messages) /\ DOMAIN lookup = 1 .. Len(lookup)
      /\ Len(lookup) \in Nat /\ orderly \in BOOLEAN
      /\ dialog \in [ip : IPs \cup {Nobody}, sources : SUBSET IPs, loading : BOOLEAN]
  BY DEF LiveInv, WindowInv
<1>2. /\ inbox # <<>> /\ inbox' = Tail(inbox) /\ inbox[1][1] = "sources"
      /\ Message = inbox[1][2] /\ Message.call \in DOMAIN lookup
      /\ UNCHANGED <<lookup, orderly>>
  BY TheMessage DEF HandleLookup
<1> DEFINE a == Message.call
<1>3. a \in DOMAIN lookup /\ \A c : IsAnswer(inbox, 1, c) <=> c = a
  <2>1. Len(inbox) \in Nat \ {0}
    BY <1>1, <1>2, Heads
  <2> QED  BY <1>2, <2>1 DEF IsAnswer
<1>4. dialog' = IF lookup[a].mounted
                THEN [dialog EXCEPT !.sources = Found(Message), !.loading = FALSE]
                ELSE dialog
  BY DEF HandleLookup
<1>5. Found(Message) \subseteq {lookup[a].ip}
  BY DEF Found
<1> HIDE DEF a
<1>6. /\ \A c : Waiting(inbox, c) <=> Waiting(inbox', c) \/ c = a
      /\ AnswersInOrder(inbox, lookup) =>
           /\ AnswersInOrder(inbox', lookup)
           /\ \A d \in DOMAIN lookup :
                Waiting(inbox', d) /\ Open(lookup, a) /\ Open(lookup, d) => a < d
  BY <1>1, <1>2, <1>3, AnswersTail
<1>7. dialog'.ip = dialog.ip
  BY <1>1, <1>4
<1>8. ASSUME orderly PROVE Orderly'
  <2>1. Orderly
    BY <1>8 DEF DialogInv
  <2>2. ASSUME dialog.ip # Nobody, ~Pending(Len(lookup))'
        PROVE  /\ \A c \in DOMAIN lookup : Open(lookup, c) => ~Pending(c)'
               /\ ~dialog'.loading /\ dialog'.sources \subseteq {dialog'.ip}
    <3>1. /\ Open(lookup, Len(lookup)) /\ lookup[Len(lookup)].ip = dialog.ip
          /\ ~lookup[Len(lookup)].asked /\ ~Waiting(inbox', Len(lookup))
      BY <1>2, <2>2 DEF DialogInv, Pending
    <3>2. CASE a = Len(lookup)
      <4>1. ASSUME NEW c \in DOMAIN lookup, Open(lookup, c) PROVE ~Pending(c)'
        <5>1. ~Waiting(inbox', c)
          <6>1. ASSUME Waiting(inbox', c) PROVE FALSE
            <7>1. a < c
              BY <1>6, <2>1, <3>1, <3>2, <4>1, <6>1 DEF Orderly
            <7> QED  BY <1>1, <3>2, <7>1
          <6> QED  BY <6>1
        <5>2. ~lookup[c].asked
          <6>1. ASSUME lookup[c].asked PROVE FALSE
            <7>1. c # Len(lookup)
              BY <3>1, <6>1
            <7>2. c < Len(lookup) /\ Len(lookup) \in DOMAIN lookup
              BY <1>1, <7>1
            <7> QED  BY <2>1, <3>1, <4>1, <6>1, <7>2 DEF Orderly
          <6> QED  BY <6>1
        <5> QED  BY <1>2, <5>1, <5>2 DEF Pending
      <4>2. dialog' = [dialog EXCEPT !.sources = Found(Message), !.loading = FALSE]
        BY <1>4, <3>1, <3>2 DEF Open
      <4>3. dialog'.sources = Found(Message) /\ dialog'.loading = FALSE
        BY <1>1, <4>2
      <4> QED  BY <1>5, <1>7, <3>1, <3>2, <4>1, <4>3
    <3>3. CASE a # Len(lookup)
      <4>1. ~Pending(Len(lookup))
        BY <1>6, <3>1, <3>3 DEF Pending
      <4>2. /\ \A c \in DOMAIN lookup : Open(lookup, c) => ~Pending(c)
            /\ ~dialog.loading /\ dialog.sources \subseteq {dialog.ip}
        BY <2>1, <2>2, <4>1 DEF Orderly
      <4>3. \A c \in DOMAIN lookup : Open(lookup, c) => ~Pending(c)'
        BY <1>2, <1>6, <4>2 DEF Pending
      <4>4. ~Open(lookup, a)
        BY <1>3, <1>6, <4>2 DEF Pending
      <4>5. dialog' = dialog
        BY <1>3, <1>4, <4>4 DEF Open
      <4> QED  BY <4>2, <4>3, <4>5
    <3> QED  BY <3>2, <3>3
  <2> QED  BY <1>2, <1>6, <1>7, <2>1, <2>2 DEF Orderly
<1> QED  BY <1>2, <1>6, <1>7, <1>8 DEF DialogInv

LEMMA DialogStep ==
  ASSUME LiveAssumption, LiveInv, LiveNext, DialogInv
  PROVE  DialogInv'
<1>1. /\ lookup \in Seq(Lookup) /\ inbox \in Seq(Messages) /\ DOMAIN lookup = 1 .. Len(lookup)
      /\ Len(lookup) \in Nat /\ orderly \in BOOLEAN
      /\ dialog \in [ip : IPs \cup {Nobody}, sources : SUBSET IPs, loading : BOOLEAN]
      /\ \A c : Waiting(inbox, c) => c \in DOMAIN lookup
  <2>1. inbox \in Seq(Messages)
    BY DEF LiveInv, WindowInv
  <2>2. \A m \in Messages : m[1] = "sources" => m[2].call \in DOMAIN lookup
    BY MessageIs
  <2>3. \A c : Waiting(inbox, c) => c \in DOMAIN lookup
    BY <2>1, <2>2 DEF Waiting, IsAnswer
  <2> QED  BY <2>3 DEF LiveInv, WindowInv
\* the search stays, and so do the answers in the queue
<1>2. ASSUME UNCHANGED search, \A c : Waiting(inbox', c) <=> Waiting(inbox, c),
             AnswersInOrder(inbox, lookup) => AnswersInOrder(inbox', lookup)
      PROVE  DialogInv'
  <2>1. lookup' = lookup /\ dialog' = dialog /\ orderly' = orderly
    BY <1>2 DEF search
  <2>2. /\ \A c : Pending(c)' <=> Pending(c)
        /\ Pending(Len(lookup))' <=> Pending(Len(lookup))
    BY <1>2, <2>1 DEF Pending
  <2>3. Orderly => Orderly'
    BY <1>2, <2>1, <2>2 DEF Orderly
  <2> QED  BY <1>2, <2>1, <2>3 DEF DialogInv
<1>3. ASSUME UNCHANGED <<inbox, search>> PROVE DialogInv'
  BY <1>2, <1>3
<1>4. ASSUME NEW m, m[1] # "sources", inbox' = Append(inbox, m), UNCHANGED search
      PROVE  DialogInv'
  <2> DEFINE S == Messages \cup {m}
  <2>1. inbox \in Seq(S) /\ m \in S
    BY <1>1, Wider
  <2> HIDE DEF S
  <2>2. /\ \A c : Waiting(Append(inbox, m), c) <=> Waiting(inbox, c)
        /\ AnswersInOrder(inbox, lookup) => AnswersInOrder(Append(inbox, m), lookup)
    BY <1>4, <2>1, AnswersOther
  <2> QED  BY <1>2, <1>4, <2>2
<1>5. ASSUME NEW kind, kind # "sources", Receive(kind), UNCHANGED search PROVE DialogInv'
  <2>1. inbox # <<>> /\ inbox[1][1] # "sources" /\ inbox' = Tail(inbox)
    BY <1>5, TheMessage
  <2>2. \A c : ~IsAnswer(inbox, 1, c)
    BY <2>1 DEF IsAnswer
  <2> QED  BY <1>1, <1>2, <1>5, <2>1, <2>2, AnswersTail
<1>6. CASE ForwardEntry
  <2>1. CASE inbox' = inbox
    BY <1>3, <1>6, <2>1 DEF ForwardEntry
  <2>2. CASE inbox' # inbox
    <3> DEFINE m == <<"log", log[sent + 1]>>
    <3>1. inbox' = Append(inbox, m) /\ m[1] # "sources" /\ UNCHANGED search
      BY <1>6, <2>2 DEF ForwardEntry, Emit
    <3> QED  BY <1>4, <3>1
  <2> QED  BY <2>1, <2>2
<1>7. CASE EmitStats
  <2>1. CASE inbox' = inbox
    BY <1>3, <1>7, <2>1 DEF EmitStats
  <2>2. CASE inbox' # inbox
    <3> DEFINE m == <<"stats", [count |-> count, real |-> since]>>
    <3>1. inbox' = Append(inbox, m) /\ m[1] # "sources" /\ UNCHANGED search
      BY <1>7, <2>2 DEF EmitStats, Emit
    <3> QED  BY <1>4, <3>1
  <2> QED  BY <2>1, <2>2
<1>8. CASE AnswerLogs
  <2> DEFINE m == <<"logs", Newest(Reverse(refresh.read), Limit)>>
  <2>1. inbox' = Append(inbox, m) /\ m[1] # "sources" /\ UNCHANGED search
    BY <1>8 DEF AnswerLogs, Post
  <2> QED  BY <1>4, <2>1
<1>9. CASE HandleStats
  BY <1>5, <1>9 DEF HandleStats
<1>10. CASE HandleLogs
  BY <1>5, <1>10 DEF HandleLogs
<1>11. CASE HandleLog
  BY <1>5, <1>11 DEF HandleLog
<1>12. CASE Mount \/ AllowPacket \/ RestartProtection \/ ReadLogs \/ ClearLogs
  BY <1>3, <1>12 DEF Mount, AllowPacket, RestartProtection, ReadLogs, ClearLogs
<1>13. ASSUME NEW ip \in IPs, NEW proto \in Protocols, BlockPacket(ip, proto) PROVE DialogInv'
  BY <1>3, <1>13 DEF BlockPacket
<1>14. CASE SwitchTab
  <2>1. /\ inbox' = inbox /\ DOMAIN lookup' = DOMAIN lookup /\ dialog' = Closed
        /\ lookup' = [k \in DOMAIN lookup |-> [lookup[k] EXCEPT !.mounted = FALSE]]
    BY <1>14 DEF SwitchTab
  <2>2. \A c \in DOMAIN lookup : lookup'[c].asked = lookup[c].asked /\ ~lookup'[c].mounted
    <3> SUFFICES ASSUME NEW c \in DOMAIN lookup
                 PROVE  lookup'[c].asked = lookup[c].asked /\ ~lookup'[c].mounted
      OBVIOUS
    <3>1. lookup[c] \in Lookup /\ lookup'[c] = [lookup[c] EXCEPT !.mounted = FALSE]
      BY <1>1, <2>1
    <3>2. lookup'[c].asked = lookup[c].asked /\ lookup'[c].mounted = FALSE
      BY <3>1 DEF Lookup
    <3> QED  BY <3>2
  <2>3. dialog'.ip = Nobody /\ \A c : ~Open(lookup', c)
    BY <2>1, <2>2 DEF Closed, Open
  <2>4. \A c \in DOMAIN lookup' : Waiting(inbox', c) => ~lookup'[c].asked
    BY <2>1, <2>2 DEF DialogInv
  <2>5. Orderly'
    BY <2>3 DEF Orderly, AnswersInOrder
  <2> QED  BY <2>3, <2>4, <2>5 DEF DialogInv
<1>15. CASE CloseDialog
  <2>1. inbox' = inbox /\ lookup' = lookup /\ orderly' = orderly /\ dialog'.ip = Nobody
    BY <1>1, <1>15 DEF CloseDialog
  <2>2. Orderly => Orderly'
    BY <2>1 DEF Orderly
  <2> QED  BY <2>1, <2>2 DEF DialogInv
<1>16. ASSUME NEW i \in DOMAIN blocked, BlockClick(blocked[i]) PROVE DialogInv'
  <2> DEFINE e == [ip |-> blocked[i].ip, asked |-> TRUE, mounted |-> TRUE]
             n == Len(lookup) + 1
  <2>1. /\ inbox' = inbox /\ lookup' = Append(lookup, e) /\ orderly' = orderly
        /\ dialog' = [ip |-> blocked[i].ip, sources |-> {}, loading |-> TRUE]
    BY <1>16 DEF BlockClick
  <2>2. e.ip = blocked[i].ip /\ e.asked = TRUE /\ e.mounted = TRUE /\ dialog'.ip = blocked[i].ip
    BY <2>1
  <2> HIDE DEF e
  <2>3. /\ Len(lookup') = n /\ DOMAIN lookup' = 1 .. n /\ lookup'[n] = e /\ lookup' # <<>>
        /\ \A c \in DOMAIN lookup : lookup'[c] = lookup[c]
        /\ \A c \in DOMAIN lookup' : c \in DOMAIN lookup \/ c = n
        /\ DOMAIN lookup \subseteq DOMAIN lookup' /\ n \notin DOMAIN lookup /\ \A c \in DOMAIN lookup : c < n
    <3>1. lookup \in Seq(Lookup \cup {e}) /\ e \in Lookup \cup {e}
      BY <1>1, Wider
    <3> QED  BY <1>1, <2>1, <3>1
  <2> HIDE DEF n
  <2>4. \A c \in DOMAIN lookup : Open(lookup', c) <=> Open(lookup, c)
    BY <2>3 DEF Open
  <2>5. \A c \in DOMAIN lookup' : Waiting(inbox', c) => ~lookup'[c].asked
    BY <1>1, <2>1, <2>3 DEF DialogInv
  <2>6. Open(lookup', Len(lookup')) /\ lookup'[Len(lookup')].ip = dialog'.ip
    BY <1>1, <2>2, <2>3 DEF Open, n
  <2>7. ASSUME orderly PROVE Orderly'
    <3>1. Orderly
      BY <2>7 DEF DialogInv
    <3>2. ASSUME NEW c \in DOMAIN lookup', NEW d \in DOMAIN lookup',
                 c < d, Open(lookup', c), Open(lookup', d), lookup'[c].asked
          PROVE  lookup'[d].asked
      <4>1. CASE d = n
        BY <2>2, <2>3, <4>1
      <4>2. CASE d # n
        <5>1. c # n
          BY <1>1, <2>3, <3>2, <4>2 DEF n
        <5> QED  BY <2>3, <2>4, <3>1, <3>2, <4>2, <5>1 DEF Orderly
      <4> QED  BY <4>1, <4>2
    <3>3. AnswersInOrder(inbox', lookup')
      <4> SUFFICES ASSUME NEW c \in DOMAIN lookup', NEW d \in DOMAIN lookup',
                          NEW a \in 1 .. Len(inbox), NEW b \in 1 .. Len(inbox),
                          IsAnswer(inbox, a, c), IsAnswer(inbox, b, d), Open(lookup', c),
                          Open(lookup', d), a < b
                   PROVE  c < d
        BY <2>1 DEF AnswersInOrder
      <4>1. c \in DOMAIN lookup /\ d \in DOMAIN lookup
        BY <1>1 DEF Waiting
      <4> QED  BY <2>4, <3>1, <4>1 DEF Orderly, AnswersInOrder
    <3>4. Pending(Len(lookup))'
      BY <2>2, <2>3 DEF Pending
    <3> QED  BY <3>2, <3>3, <3>4 DEF Orderly
  <2> QED  BY <2>1, <2>3, <2>5, <2>6, <2>7 DEF DialogInv
<1> QED
  BY <1>6, <1>7, <1>8, <1>9, <1>10, <1>11, <1>12, <1>13, <1>14, <1>15, <1>16,
     AnswerStep, HandleLookupStep DEF LiveNext

\* When the lookups of the ChartsView were answered in order and all have been
\* heard, the dialog names the lists of its own address, or none.
THEOREM DialogEndsRight == LiveSpec => []DialogSettles
<1>1. LiveInit => DialogInv
  BY DEF LiveInit, DialogInv, Orderly, AnswersInOrder, Closed
<1>2. LiveInv /\ DialogInv /\ [LiveNext]_liveVars => DialogInv'
  <2>1. ASSUME DialogInv, UNCHANGED liveVars PROVE DialogInv'
    BY <2>1 DEF liveVars, search, DialogInv, Orderly, AnswersInOrder, Pending
  <2> QED  BY <2>1, DialogStep, LiveAssumption
<1>3. LiveInv /\ DialogInv => DialogSettles
  <2> SUFFICES ASSUME LiveInv, DialogInv, inbox = <<>>,
                      \A k \in DOMAIN lookup : ~lookup[k].asked, dialog.ip # Nobody, orderly
               PROVE  ~dialog.loading /\ dialog.sources \subseteq {dialog.ip}
    BY DEF DialogSettles
  <2>1. \A c : ~Waiting(inbox, c)
    BY DEF Waiting
  <2>2. Len(lookup) \in DOMAIN lookup
    BY DEF DialogInv, Open
  <2> QED  BY <2>1, <2>2 DEF DialogInv, Orderly, Pending
<1> QED  BY <1>1, <1>2, <1>3, LiveInvHolds, PTL DEF LiveSpec

-----------------------------------------------------------------------------
\* Types of the configuration views

Kinds == {"sources", "settings", "none"}
Calls ==
  {c \in [kind : {"get", "save", "reset"}, view : Nat, arg : Config,
          next : {"startup", "load", "reset", "toggled", "added", "deleted", "saved"},
          done : BOOLEAN, ok : BOOLEAN] :
     /\ c.kind = "get" => c.next \in {"startup", "load", "reset"}
     /\ c.kind = "save" => c.next \in {"toggled", "added", "deleted", "saved"}
     /\ c.kind = "reset" => c.next = "reset"}
Views ==
  [id : 0 .. MaxViews, kind : Kinds, cfg : {s \in Seq(Config) : Len(s) <= 1}, form : Form,
   touched : SUBSET Fields, saving : BOOLEAN, adding : BOOLEAN, deleting : Nat]

SettingsTypes ==
  /\ store \in Config /\ wanted \in Config
  /\ calls \in Seq(Calls) /\ Len(calls) <= MaxCalls
  /\ view \in Views
  /\ language \in Languages /\ acts \in 0 .. MaxActs

\* The constructors copy every field.
LEMMA NewConfigIs ==
  ASSUME NEW c \in Config
  PROVE  NewConfig(c) = c
<1>1. c.sources \in Seq(Source)
  BY DEF Config
<1>2. \A i \in DOMAIN c.sources : NewSource(c.sources[i]) = c.sources[i]
  <2>1. \A s \in Source : NewSource(s) = s
    BY DEF Source, NewSource
  <2> QED  BY <1>1, <2>1
<1>3. [i \in DOMAIN c.sources |-> NewSource(c.sources[i])] = c.sources
  BY <1>1, <1>2
<1> QED  BY <1>3 DEF NewConfig, Config

LEMMA RemoveAtIs ==
  ASSUME NEW S, NEW q \in Seq(S), NEW k \in DOMAIN q
  PROVE  /\ RemoveAt(q, k) \in Seq(S) /\ Len(RemoveAt(q, k)) = Len(q) - 1
         /\ \A i \in 1 .. Len(q) - 1 : RemoveAt(q, k)[i] = q[IF i < k THEN i ELSE i + 1]
<1>1. SubSeq(q, 1, k - 1) \in Seq(S) /\ SubSeq(q, k + 1, Len(q)) \in Seq(S)
  OBVIOUS
<1>2. Len(SubSeq(q, 1, k - 1)) = k - 1 /\ Len(SubSeq(q, k + 1, Len(q))) = Len(q) - k
  OBVIOUS
<1>3. /\ \A i \in 1 .. k - 1 : SubSeq(q, 1, k - 1)[i] = q[i]
      /\ \A i \in 1 .. Len(q) - k : SubSeq(q, k + 1, Len(q))[i] = q[i + k]
  OBVIOUS
<1> DEFINE a == SubSeq(q, 1, k - 1)
           b == SubSeq(q, k + 1, Len(q))
<1>4. k \in 1 .. Len(q) /\ Len(q) \in Nat
  OBVIOUS
<1>5. RemoveAt(q, k) = a \o b
  BY DEF RemoveAt
<1>6. a \in Seq(S) /\ b \in Seq(S) /\ Len(a) = k - 1 /\ Len(b) = Len(q) - k
  BY <1>1, <1>2
<1> HIDE DEF a, b
<1>7. a \o b \in Seq(S) /\ Len(a \o b) = Len(q) - 1
  BY <1>4, <1>6
<1>8. \A i \in 1 .. Len(q) - 1 : (a \o b)[i] = IF i < k THEN a[i] ELSE b[i - (k - 1)]
  BY <1>4, <1>6
<1>9. \A i \in 1 .. Len(q) - 1 : (a \o b)[i] = q[IF i < k THEN i ELSE i + 1]
  <2> SUFFICES ASSUME NEW i \in 1 .. Len(q) - 1
               PROVE  (a \o b)[i] = q[IF i < k THEN i ELSE i + 1]
    OBVIOUS
  <2>1. CASE i < k
    BY <1>3, <1>4, <1>8, <2>1 DEF a
  <2>2. CASE ~(i < k)
    <3>1. i - (k - 1) \in 1 .. Len(q) - k /\ i - (k - 1) + k = i + 1
      BY <1>4, <2>2
    <3>2. b[i - (k - 1)] = q[i + 1]
      BY <1>3, <3>1 DEF b
    <3> QED  BY <1>8, <2>2, <3>2
  <2> QED  BY <2>1, <2>2
<1> QED  BY <1>5, <1>7, <1>9

LEMMA WithoutIs ==
  ASSUME NEW s \in Seq(Source), NEW name
  PROVE  Without(s, name) \in Seq(Source)
BY RemoveAtIs DEF Without

\* What the form is parsed to.
LEMMA ParsedIs ==
  ASSUME NEW form \in Form
  PROVE  Parsed(form) \in [ttl : Nat, lines : SUBSET Lines, language : Languages]
BY DEF Form, Parsed

\* The configuration a view shows.
LEMMA CfgIs ==
  ASSUME SettingsTypes, Shown
  PROVE  Cfg \in Config /\ view.cfg = <<Cfg>> /\ Cfg.sources \in Seq(Source)
<1>1. view.cfg \in Seq(Config) /\ Len(view.cfg) <= 1 /\ view.cfg # <<>>
  BY DEF SettingsTypes, Views, Shown
<1>2. view.cfg = <<view.cfg[1]>> /\ view.cfg[1] \in Config
  BY <1>1
<1> QED  BY <1>2 DEF Cfg, Config

LEMMA CallIs ==
  ASSUME NEW kind, NEW id, NEW arg, NEW next
  PROVE  LET c == Call(kind, id, arg, next)
         IN  c.kind = kind /\ c.view = id /\ c.arg = arg /\ c.next = next /\ c.done = FALSE
BY DEF Call

\* A call of the window has the right type.
LEMMA IsCall ==
  ASSUME NEW kind, NEW id \in Nat, NEW arg \in Config, NEW next,
         \/ kind = "get" /\ next \in {"startup", "load", "reset"}
         \/ kind = "save" /\ next \in {"toggled", "added", "deleted", "saved"}
         \/ kind = "reset" /\ next = "reset"
  PROVE  Call(kind, id, arg, next) \in Calls
BY DEF Call, Calls

\* The configuration with other sources, and its saving.
LEMMA Resourced ==
  ASSUME NEW c \in Config, NEW s \in Seq(Source)
  PROVE  LET u == [c EXCEPT !.sources = s]
         IN  u \in Config /\ u.sources = s /\ u.ttl = c.ttl /\ u.lines = c.lines
             /\ u.language = c.language /\ NewConfig(u) = u
<1> DEFINE u == [c EXCEPT !.sources = s]
<1>1. u \in Config /\ u.sources = s /\ u.ttl = c.ttl /\ u.lines = c.lines /\ u.language = c.language
  BY DEF Config
<1>2. NewConfig(u) = u
  BY <1>1, NewConfigIs
<1> QED  BY <1>1, <1>2

LEMMA SaveSourcesIs ==
  ASSUME SettingsTypes, Shown, NEW s \in Seq(Source),
         NEW next \in {"toggled", "added", "deleted"}, SaveSources(s, next)
  PROVE  LET u == [Cfg EXCEPT !.sources = s]
         IN  /\ u \in Config /\ u.sources = s
             /\ Len(calls) < MaxCalls /\ calls' = Append(calls, Call("save", view.id, u, next))
             /\ Call("save", view.id, u, next) \in Calls
             /\ view' = [view EXCEPT !.cfg = <<u>>, !.saving = TRUE]
<1> DEFINE u == [Cfg EXCEPT !.sources = s]
<1>1. u \in Config /\ u.sources = s /\ NewConfig(u) = u
  BY CfgIs, Resourced
<1>2. view.id \in Nat
  BY DEF SettingsTypes, Views
<1>3. Call("save", view.id, u, next) \in Calls
  BY <1>1, <1>2, IsCall
<1> QED  BY <1>1, <1>3 DEF SaveSources, Ask, Optimistic

\* The calls stay calls when one is made or answered.
LEMMA MoreCalls ==
  ASSUME SettingsTypes, NEW c \in Calls, Ask(c)
  PROVE  calls' \in Seq(Calls) /\ Len(calls') <= MaxCalls
BY SettingsAssumption DEF SettingsTypes, Ask

LEMMA FewerCalls ==
  ASSUME SettingsTypes, NEW k \in DOMAIN calls, Answered(k)
  PROVE  calls' \in Seq(Calls) /\ Len(calls') <= MaxCalls
<1>1. calls' \in Seq(Calls) /\ Len(calls') = Len(calls) - 1
  BY RemoveAtIs DEF SettingsTypes, Answered
<1> QED  BY <1>1, SettingsAssumption DEF SettingsTypes

\* A call takes effect: it is done, and may bring something back.
LEMMA DoneCalls ==
  ASSUME SettingsTypes, NEW k \in DOMAIN calls, NEW arg \in Config, NEW ok \in BOOLEAN,
         calls' = [calls EXCEPT ![k] = [calls[k] EXCEPT !.done = TRUE, !.arg = arg, !.ok = ok]]
  PROVE  /\ calls' \in Seq(Calls) /\ Len(calls') <= MaxCalls /\ DOMAIN calls' = DOMAIN calls
         /\ \A j \in DOMAIN calls : j # k => calls'[j] = calls[j]
         /\ calls'[k].done /\ calls'[k].arg = arg
         /\ calls'[k].kind = calls[k].kind /\ calls'[k].next = calls[k].next
         /\ calls'[k].view = calls[k].view
<1>1. calls \in Seq(Calls) /\ calls[k] \in Calls
  BY DEF SettingsTypes
<1> DEFINE c == [calls[k] EXCEPT !.done = TRUE, !.arg = arg, !.ok = ok]
<1>2. /\ c \in Calls /\ c.done /\ c.arg = arg /\ c.kind = calls[k].kind /\ c.next = calls[k].next
      /\ c.view = calls[k].view
  BY <1>1 DEF Calls
<1>3. calls' = [calls EXCEPT ![k] = c]
  OBVIOUS
<1> HIDE DEF c
<1>4. /\ calls' \in Seq(Calls) /\ Len(calls') = Len(calls) /\ DOMAIN calls' = DOMAIN calls
      /\ calls'[k] = c /\ \A j \in DOMAIN calls : j # k => calls'[j] = calls[j]
  BY <1>1, <1>2, <1>3
<1> QED  BY <1>2, <1>4 DEF SettingsTypes

\* GetConfig, SaveConfig and ResetAllowlist in this form.
LEMMA GoIs ==
  ASSUME SettingsAssumption, SettingsTypes, NEW k \in DOMAIN calls, Go(k)
  PROVE  /\ ~calls[k].done /\ InTurn(k) /\ UNCHANGED <<wanted, view, language, acts>>
         /\ store' \in Config
         /\ \E arg \in Config, ok \in BOOLEAN :
              calls' = [calls EXCEPT ![k] = [calls[k] EXCEPT !.done = TRUE, !.arg = arg, !.ok = ok]]
         /\ \/ calls[k].kind = "get" /\ store' = store /\ calls'[k].arg = store
            \/ calls[k].kind = "save" /\ store' = calls[k].arg /\ calls'[k].arg = calls[k].arg
            \/ calls[k].kind = "reset" /\ store' = [store EXCEPT !.lines = DefaultLines]
<1>1. calls \in Seq(Calls) /\ calls[k] \in Calls /\ store \in Config
  BY DEF SettingsTypes
<1> DEFINE With(arg, ok) == [calls[k] EXCEPT !.done = TRUE, !.arg = arg, !.ok = ok]
<1>2. calls[k].arg \in Config /\ calls[k].ok \in BOOLEAN
  BY <1>1 DEF Calls
<1>3. [calls[k] EXCEPT !.done = TRUE, !.arg = store] = With(store, calls[k].ok)
  BY <1>1 DEF Calls
<1>4. \A ok \in BOOLEAN : [calls[k] EXCEPT !.done = TRUE, !.ok = ok] = With(calls[k].arg, ok)
  BY <1>1 DEF Calls
<1>5. CASE GetConfig(k)
  <2>1. calls' = [calls EXCEPT ![k] = With(store, calls[k].ok)]
    <3>1. calls' = [calls EXCEPT ![k] = [calls[k] EXCEPT !.done = TRUE, !.arg = store]]
      BY <1>1, <1>5 DEF GetConfig
    <3> QED  BY <1>3, <3>1
  <2>2. calls'[k].arg = store
    BY <1>1, <1>2, <2>1, DoneCalls
  <2> QED  BY <1>1, <1>2, <1>5, <2>1, <2>2 DEF GetConfig
<1>6. ASSUME Finishes(k)
      PROVE  \E ok \in BOOLEAN : calls' = [calls EXCEPT ![k] = With(calls[k].arg, ok)]
  <2>1. PICK ok \in BOOLEAN : calls' = [calls EXCEPT ![k].done = TRUE, ![k].ok = ok]
    BY <1>6 DEF Finishes
  <2>2. calls' = [calls EXCEPT ![k] = [calls[k] EXCEPT !.done = TRUE, !.ok = ok]]
    BY <1>1, <2>1
  <2> QED  BY <1>4, <2>2
<1>7. CASE SaveConfig(k)
  <2>1. PICK ok \in BOOLEAN : calls' = [calls EXCEPT ![k] = With(calls[k].arg, ok)]
    BY <1>6, <1>7 DEF SaveConfig
  <2>2. calls'[k].arg = calls[k].arg
    BY <1>2, <2>1, DoneCalls
  <2> QED  BY <1>2, <1>7, <2>1, <2>2 DEF SaveConfig
<1>8. CASE ResetAllowlist(k)
  <2>1. PICK ok \in BOOLEAN : calls' = [calls EXCEPT ![k] = With(calls[k].arg, ok)]
    BY <1>6, <1>8 DEF ResetAllowlist
  <2>2. store' \in Config
    BY <1>1, <1>8, SettingsAssumption DEF ResetAllowlist, Config
  <2> QED  BY <1>2, <1>8, <2>1, <2>2 DEF ResetAllowlist
<1> QED  BY <1>5, <1>7, <1>8 DEF Go

\* A view keeps its type.
LEMMA ViewFields ==
  ASSUME NEW v \in Views
  PROVE  /\ \A c \in Config : [v EXCEPT !.cfg = <<c>>] \in Views
         /\ \A c \in Config : [v EXCEPT !.cfg = <<c>>, !.saving = TRUE] \in Views
         /\ \A c \in Config : [v EXCEPT !.cfg = <<c>>, !.saving = FALSE] \in Views
         /\ [v EXCEPT !.cfg = v.cfg, !.saving = FALSE] \in Views
         /\ \A b \in BOOLEAN : [v EXCEPT !.saving = b] \in Views
         /\ \A b \in BOOLEAN, n \in Nat : [v EXCEPT !.adding = b, !.deleting = n] \in Views
         /\ \A b \in BOOLEAN : [v EXCEPT !.adding = b] \in Views
         /\ \A n \in Nat : [v EXCEPT !.deleting = n] \in Views
         /\ \A b \in BOOLEAN, n \in Nat :
              [v EXCEPT !.saving = FALSE, !.adding = b, !.deleting = n] \in Views
         /\ \A f \in Fields : [v EXCEPT !.touched = v.touched \cup {f}] \in Views
         /\ \A c \in Config, m \in Form :
              [v EXCEPT !.cfg = <<c>>, !.touched = {}, !.form = m] \in Views
         /\ \A f \in Fields, m \in Form :
              [v EXCEPT !.form = m, !.touched = v.touched \cup {f}] \in Views
<1>1. \A c \in Config : <<c>> \in {s \in Seq(Config) : Len(s) <= 1}
  OBVIOUS
<1>2. \A c \in Config : [v EXCEPT !.cfg = <<c>>] \in Views
  BY <1>1 DEF Views
<1>3. \A c \in Config : [v EXCEPT !.cfg = <<c>>, !.saving = TRUE] \in Views
  BY <1>1 DEF Views
<1>4. \A c \in Config : [v EXCEPT !.cfg = <<c>>, !.saving = FALSE] \in Views
  BY <1>1 DEF Views
<1>5. [v EXCEPT !.cfg = v.cfg, !.saving = FALSE] \in Views
  BY DEF Views
<1>6. \A b \in BOOLEAN : [v EXCEPT !.saving = b] \in Views
  BY DEF Views
<1>7. \A b \in BOOLEAN, n \in Nat : [v EXCEPT !.adding = b, !.deleting = n] \in Views
  BY DEF Views
<1>8. \A b \in BOOLEAN : [v EXCEPT !.adding = b] \in Views
  BY DEF Views
<1>9. \A n \in Nat : [v EXCEPT !.deleting = n] \in Views
  BY DEF Views
<1>10. \A b \in BOOLEAN, n \in Nat :
        [v EXCEPT !.saving = FALSE, !.adding = b, !.deleting = n] \in Views
  BY DEF Views
<1>11. \A f \in Fields : [v EXCEPT !.touched = v.touched \cup {f}] \in Views
  BY DEF Views
<1>12. \A c \in Config, m \in Form :
        [v EXCEPT !.cfg = <<c>>, !.touched = {}, !.form = m] \in Views
  BY <1>1 DEF Views
<1>13. \A f \in Fields, m \in Form :
        [v EXCEPT !.form = m, !.touched = v.touched \cup {f}] \in Views
  BY DEF Views
<1> QED  BY <1>2, <1>3, <1>4, <1>5, <1>6, <1>7, <1>8, <1>9, <1>10, <1>11, <1>12, <1>13

LEMMA LoadedIs ==
  ASSUME NEW c \in Config
  PROVE  Loaded(c) \in Form /\ Loaded(c).ttl = (c.ttl + 1) \div 2 /\ Loaded(c).lines = c.lines
         /\ Loaded(c).language = c.language
BY DEF Config, Form, Loaded, Rounded

\* Every kind of step keeps the types.
LEMMA HandleTypes ==
  ASSUME SettingsAssumption, SettingsTypes, NEW k \in DOMAIN calls, Handle(k)
  PROVE  SettingsTypes'
<1>1. /\ calls \in Seq(Calls) /\ calls[k] \in Calls /\ calls[k].arg \in Config
      /\ calls[k].ok \in BOOLEAN /\ store \in Config /\ wanted \in Config /\ view \in Views
      /\ language \in Languages /\ acts \in 0 .. MaxActs
  BY DEF SettingsTypes, Calls
<1>2. CASE HandleLanguage(k)
  <2>1. calls' \in Seq(Calls) /\ Len(calls') <= MaxCalls
    BY <1>2, FewerCalls DEF HandleLanguage
  <2>2. language' \in Languages
    BY <1>1, <1>2 DEF HandleLanguage, Config
  <2> QED  BY <1>1, <1>2, <2>1, <2>2 DEF HandleLanguage, SettingsTypes
<1>3. CASE HandleLoad(k)
  <2>1. calls' \in Seq(Calls) /\ Len(calls') <= MaxCalls
    BY <1>3, FewerCalls DEF HandleLoad
  <2>2. view' \in Views
    <3>1. Loaded(calls[k].arg) \in Form /\ view.form \in Form
      BY <1>1, LoadedIs DEF Views
    <3>2. \A m \in Form : [view EXCEPT !.cfg = <<calls[k].arg>>, !.touched = {}, !.form = m] \in Views
      BY <1>1, ViewFields
    <3> QED  BY <1>1, <1>3, <3>1, <3>2 DEF HandleLoad
  <2> QED  BY <1>1, <1>3, <2>1, <2>2 DEF HandleLoad, SettingsTypes
<1>4. CASE HandleSources(k)
  <2>1. calls' \in Seq(Calls) /\ Len(calls') <= MaxCalls
    BY <1>4, FewerCalls DEF HandleSources
  <2>2. view' \in Views
    <3>1. view.deleting \in Nat /\ view.adding \in BOOLEAN
      BY <1>1 DEF Views
    <3>2. AfterSources(view, k) \in Views
      BY <1>1, <3>1, ViewFields DEF AfterSources
    <3> QED  BY <1>1, <1>4, <3>2 DEF HandleSources
  <2> QED  BY <1>1, <1>4, <2>1, <2>2 DEF HandleSources, SettingsTypes
<1>5. CASE HandleSave(k)
  <2>1. calls' \in Seq(Calls) /\ Len(calls') <= MaxCalls
    BY <1>5, FewerCalls DEF HandleSave
  <2>2. AfterSave(view, k) \in Views
    <3>1. CASE calls[k].ok
      BY <1>1, <3>1, ViewFields DEF AfterSave
    <3>2. CASE ~calls[k].ok
      BY <1>1, <3>2, ViewFields DEF AfterSave
    <3> QED  BY <3>1, <3>2
  <2>3. view' \in Views
    BY <1>1, <1>5, <2>2 DEF HandleSave
  <2> QED  BY <1>1, <1>5, <2>1, <2>3 DEF HandleSave, SettingsTypes
<1>6. CASE HandleReset(k)
  <2>1. RemoveAt(calls, k) \in Seq(Calls) /\ Len(RemoveAt(calls, k)) = Len(calls) - 1
    BY <1>1, RemoveAtIs
  <2>2. Call("get", view.id, store, "reset") \in Calls
    BY <1>1, IsCall DEF Views
  <2>3. calls' \in Seq(Calls) /\ Len(calls') <= MaxCalls
    BY <1>1, <1>6, <2>1, <2>2, SettingsAssumption DEF HandleReset, Reload, SettingsTypes
  <2>4. view' \in Views
    BY <1>1, <1>6, ViewFields DEF HandleReset, Fields
  <2> QED  BY <1>1, <1>6, <2>3, <2>4 DEF HandleReset, SettingsTypes
<1> QED  BY <1>2, <1>3, <1>4, <1>5, <1>6 DEF Handle

LEMMA UserTypes ==
  ASSUME SettingsAssumption, SettingsTypes, User
  PROVE  SettingsTypes'
<1>1. /\ calls \in Seq(Calls) /\ Len(calls) <= MaxCalls
      /\ store \in Config /\ wanted \in Config /\ view \in Views
      /\ language \in Languages /\ acts \in 0 .. MaxActs /\ view.id \in 0 .. MaxViews
  BY DEF SettingsTypes, Views
<1>2. ASSUME Order PROVE acts' \in 0 .. MaxActs
  BY <1>1, <1>2, SettingsAssumption DEF Order
<1>3. ASSUME NEW kind \in {"sources", "settings", "none"}, OpenTab(kind) PROVE SettingsTypes'
  <2>1. view.id + 1 \in 0 .. MaxViews /\ view.id + 1 \in Nat
    BY <1>1, <1>3, SettingsAssumption DEF OpenTab
  <2>2. NoForm \in Form
    BY SettingsAssumption DEF NoForm, Form
  <2>3. view' \in Views
    BY <1>3, <2>1, <2>2 DEF OpenTab, Fresh, Views, Kinds
  <2>4. Call("get", view.id + 1, store, "load") \in Calls
    BY <1>1, <2>1, IsCall
  <2>5. calls' \in Seq(Calls) /\ Len(calls') <= MaxCalls
    BY <1>1, <1>3, <2>4, MoreCalls DEF OpenTab
  <2> QED  BY <1>1, <1>3, <2>3, <2>5 DEF OpenTab, SettingsTypes
\* a change of the sources
<1>4. ASSUME NEW s \in Seq(Source), NEW next \in {"toggled", "added", "deleted"},
             Shown, SaveSources(s, next), Order, UNCHANGED <<store, language>>,
             wanted' \in Config
      PROVE  SettingsTypes'
  <2> DEFINE u == [Cfg EXCEPT !.sources = s]
  <2>1. /\ u \in Config /\ Len(calls) < MaxCalls
        /\ calls' = Append(calls, Call("save", view.id, u, next))
        /\ Call("save", view.id, u, next) \in Calls
        /\ view' = [view EXCEPT !.cfg = <<u>>, !.saving = TRUE]
    BY <1>4, SaveSourcesIs
  <2> HIDE DEF u
  <2>2. view' \in Views
    BY <1>1, <2>1, ViewFields
  <2>3. calls' \in Seq(Calls) /\ Len(calls') <= MaxCalls
    BY <1>1, <2>1, SettingsAssumption
  <2> QED  BY <1>1, <1>2, <1>4, <2>2, <2>3 DEF SettingsTypes
<1>5. ASSUME Shown PROVE Cfg \in Config /\ Cfg.sources \in Seq(Source)
  BY <1>5, CfgIs
<1>6. ASSUME OnSources, NEW i \in DOMAIN Cfg.sources, ToggleSource(i) PROVE SettingsTypes'
  <2> DEFINE s == [Cfg.sources EXCEPT ![i].enabled = ~Cfg.sources[i].enabled]
             w == [j \in DOMAIN wanted.sources |->
                     IF wanted.sources[j].name = Cfg.sources[i].name
                     THEN [wanted.sources[j] EXCEPT !.enabled = ~Cfg.sources[i].enabled]
                     ELSE wanted.sources[j]]
  <2>1. Shown /\ Cfg.sources \in Seq(Source) /\ wanted.sources \in Seq(Source)
    BY <1>1, <1>5, <1>6 DEF OnSources, Config
  <2>2. \A x \in Source : \A b \in BOOLEAN : [x EXCEPT !.enabled = b] \in Source
    BY DEF Source
  <2>3. Cfg.sources[i] \in Source /\ Cfg.sources[i].enabled \in BOOLEAN
    <3>1. Cfg.sources[i] \in Source
      BY <2>1
    <3> QED  BY <3>1 DEF Source
  <2>4. s \in Seq(Source)
    <3>1. s = [Cfg.sources EXCEPT ![i] = [Cfg.sources[i] EXCEPT !.enabled = ~Cfg.sources[i].enabled]]
      BY <2>1
    <3>2. [Cfg.sources[i] EXCEPT !.enabled = ~Cfg.sources[i].enabled] \in Source
      BY <2>2, <2>3
    <3> QED  BY <2>1, <3>1, <3>2
  <2>5. w \in Seq(Source)
    <3>1. ASSUME NEW j \in DOMAIN wanted.sources
          PROVE  (IF wanted.sources[j].name = Cfg.sources[i].name
                  THEN [wanted.sources[j] EXCEPT !.enabled = ~Cfg.sources[i].enabled]
                  ELSE wanted.sources[j]) \in Source
      <4>1. wanted.sources[j] \in Source /\ (~Cfg.sources[i].enabled) \in BOOLEAN
        BY <2>1
      <4> QED  BY <2>2, <4>1
    <3>2. DOMAIN wanted.sources = 1 .. Len(wanted.sources) /\ Len(wanted.sources) \in Nat
      BY <2>1
    <3> QED  BY <3>1, <3>2
  <2>6. wanted' = [wanted EXCEPT !.sources = w] /\ SaveSources(s, "toggled") /\ Order
        /\ UNCHANGED <<store, language>>
    BY <1>6 DEF ToggleSource
  <2> HIDE DEF s, w
  <2> QED  BY <1>1, <1>4, <2>1, <2>4, <2>5, <2>6, Resourced
<1>7. CASE SubmitSource
  <2>1. PICK name \in Names : HandleAdd(name)
    BY <1>7 DEF SubmitSource
  <2> DEFINE e == NewSource([name |-> name, enabled |-> TRUE])
  <2>2. Shown /\ Cfg.sources \in Seq(Source) /\ wanted.sources \in Seq(Source) /\ e \in Source
    BY <1>1, <1>5, <1>7 DEF SubmitSource, OnSources, Config, NewSource, Source
  <2>3. wanted' = [wanted EXCEPT !.sources = Append(wanted.sources, e)] /\ Order
        /\ SaveSources(Append(Cfg.sources, e), "added") /\ UNCHANGED <<store, language>>
    BY <2>1 DEF HandleAdd
  <2> HIDE DEF e
  <2>4. Append(Cfg.sources, e) \in Seq(Source) /\ Append(wanted.sources, e) \in Seq(Source)
    BY <2>2
  <2> QED  BY <1>1, <1>4, <2>2, <2>3, <2>4, Resourced
<1>8. CASE HandleDelete
  <2>1. Shown /\ Cfg.sources \in Seq(Source) /\ wanted.sources \in Seq(Source)
    BY <1>1, <1>5, <1>8 DEF HandleDelete, OnSources, Config
  <2>2. RemoveAt(Cfg.sources, view.deleting) \in Seq(Source)
    BY <1>8, <2>1, RemoveAtIs DEF HandleDelete
  <2>3. Without(wanted.sources, Cfg.sources[view.deleting].name) \in Seq(Source)
    BY <2>1, WithoutIs
  <2>4. wanted' \in Config
    BY <1>1, <1>8, <2>3, Resourced DEF HandleDelete
  <2> QED  BY <1>4, <1>8, <2>1, <2>2, <2>4 DEF HandleDelete
<1>9. CASE OpenDialog
  <2>1. Shown /\ Cfg.sources \in Seq(Source)
    BY <1>5, <1>9 DEF OpenDialog, OnSources
  <2>2. \A i \in DOMAIN Cfg.sources : i \in Nat
    BY <2>1
  <2>3. view' \in Views
    BY <1>1, <1>9, <2>2, ViewFields DEF OpenDialog
  <2> QED  BY <1>1, <1>9, <2>3 DEF OpenDialog, SettingsTypes
<1>10. CASE CancelDialog
  <2>1. view' \in Views
    BY <1>1, <1>10, ViewFields DEF CancelDialog
  <2> QED  BY <1>1, <1>10, <2>1 DEF CancelDialog, SettingsTypes
<1>11. ASSUME NEW f \in Fields, NEW x, Edit(f, x), f = "ttl" => x \in Nat,
              f = "lines" => x \in SUBSET (Lines \cup {Comment}), f = "language" => x \in Languages
       PROVE  SettingsTypes'
  <2>1. view.form \in Form
    BY <1>1 DEF Views
  <2>2. [view.form EXCEPT ![f] = x] \in Form
    BY <1>11, <2>1 DEF Form, Fields
  <2>3. view' = [view EXCEPT !.form = [view.form EXCEPT ![f] = x], !.touched = view.touched \cup {f}]
    BY <1>1, <1>11 DEF Edit, Views
  <2>4. view' \in Views
    BY <1>1, <2>2, <2>3, ViewFields
  <2>5. acts' \in 0 .. MaxActs /\ language' \in Languages
    BY <1>1, <1>11, SettingsAssumption DEF Edit, OnLanguageChange
  <2> QED  BY <1>1, <1>11, <2>4, <2>5 DEF Edit, SettingsTypes
<1>12. CASE Save
  <2>1. Parsed(view.form) \in [ttl : Nat, lines : SUBSET Lines, language : Languages]
        /\ Parsed(view.form).language = view.form.language
    BY <1>1, ParsedIs DEF Views, Parsed
  <2> DEFINE a == [sources |-> Cfg.sources, ttl |-> Parsed(view.form).ttl,
                   lines |-> Parsed(view.form).lines, language |-> view.form.language]
  <2>2. a \in Config
    BY <1>5, <1>12, <2>1 DEF Save, OnSettings, Config
  <2>3. FromForm(Cfg, view.form) = a
    BY <2>2, NewConfigIs DEF FromForm
  <2> HIDE DEF a
  <2>4. Call("save", view.id, a, "saved") \in Calls
    BY <1>1, <2>2, IsCall
  <2>5. calls' \in Seq(Calls) /\ Len(calls') <= MaxCalls
    BY <1>12, <2>3, <2>4, MoreCalls DEF Save
  <2>6. Ordered("ttl") \in Nat /\ Ordered("lines") \in SUBSET Lines /\ Ordered("language") \in Languages
    BY <1>1, <2>1 DEF Ordered, Config
  <2>7. wanted' \in Config
    BY <1>1, <1>12, <2>6 DEF Save, Config
  <2>8. view' \in Views
    BY <1>1, <1>12, ViewFields DEF Save
  <2> QED  BY <1>1, <1>2, <1>12, <2>5, <2>7, <2>8 DEF Save, SettingsTypes
<1>13. CASE Reset
  <2>1. Call("reset", view.id, store, "reset") \in Calls
    BY <1>1, IsCall
  <2>2. calls' \in Seq(Calls) /\ Len(calls') <= MaxCalls
    BY <1>13, <2>1, MoreCalls DEF Reset
  <2>3. wanted' \in Config
    BY <1>1, <1>13, SettingsAssumption DEF Reset, Config
  <2> QED  BY <1>1, <1>2, <1>13, <2>2, <2>3 DEF Reset, SettingsTypes
<1>14. ASSUME NEW n \in Minutes, Edit("ttl", n) PROVE SettingsTypes'
  BY <1>11, <1>14, SettingsAssumption DEF Fields
<1>15. ASSUME NEW s \in SUBSET (Lines \cup {Comment}), Edit("lines", s) PROVE SettingsTypes'
  BY <1>11, <1>15 DEF Fields
<1>16. ASSUME NEW l \in Languages, Edit("language", l) PROVE SettingsTypes'
  BY <1>11, <1>16 DEF Fields
<1> QED
  BY <1>3, <1>6, <1>7, <1>8, <1>9, <1>10, <1>12, <1>13, <1>14, <1>15, <1>16 DEF User

-----------------------------------------------------------------------------
\* The calls, one after the other

\* A save that has still to take effect; the last one.
Coming(c) == c.kind = "save" /\ ~c.done
LastSave(q, k) == k \in DOMAIN q /\ Coming(q[k]) /\ \A j \in DOMAIN q : k < j => ~Coming(q[j])
NoSave(q) == \A j \in DOMAIN q : ~Coming(q[j])
ResetComing(q) == \E j \in DOMAIN q : q[j].kind = "reset" /\ ~q[j].done

\* What becomes of the configuration c when the saves are through.
Outcome(q, c) == IF ResetComing(q) THEN [c EXCEPT !.lines = DefaultLines] ELSE c

\* What the calls in q make of the configuration s in the end is w.
LeadsTo(q, s, w) ==
  /\ NoSave(q) => Outcome(q, s) = w
  /\ \A k \in DOMAIN q : LastSave(q, k) => Outcome(q, q[k].arg) = w

\* A call behind which nothing is ordered: a reset, with the loading that
\* follows it, and the loading of the view id.
Loads(c, id) == c.next = "load" /\ c.view = id
Bars(c, id) == c.next = "reset" \/ Loads(c, id)

InLine(q, id) ==
  /\ \A j, k \in DOMAIN q : j < k /\ q[k].done => q[j].done
  /\ \A j, k \in DOMAIN q : j < k /\ Bars(q[j], id) => q[k].kind = "get"
  /\ \A j, k \in DOMAIN q : q[j].next = "reset" /\ q[k].next = "reset" => j = k
  /\ \A j, k \in DOMAIN q : Loads(q[j], id) /\ Loads(q[k], id) => j = k

\* What the calls of the mounted view bring back.
Resetting == \E k \in DOMAIN calls : Here(k) /\ calls[k].next = "reset"
CallInv ==
  \A k \in DOMAIN calls :
    /\ calls[k].view <= view.id
    /\ Here(k) =>
         /\ calls[k].next = "load" => ~Shown
         /\ calls[k].next \in {"reset", "saved"} => OnSettings
         /\ calls[k].next = "saved" => calls[k].arg.sources = wanted.sources
         /\ calls[k].kind = "get" /\ calls[k].next \in {"load", "reset"} /\ calls[k].done
              => calls[k].arg = wanted

\* What the mounted view shows.
ViewInv ==
  /\ OnSources => Cfg = wanted
  /\ OnSettings =>
       /\ Cfg.sources = wanted.sources
       /\ "ttl" \notin view.touched => Parsed(view.form).ttl = wanted.ttl
       /\ "language" \notin view.touched => Parsed(view.form).language = wanted.language
       /\ "lines" \notin view.touched /\ ~Resetting => Parsed(view.form).lines = wanted.lines

Distinct(s) == \A i, j \in DOMAIN s : s[i].name = s[j].name => i = j

WantedInv == Distinct(wanted.sources) /\ wanted.ttl % 2 = 0

SettingsInv ==
  /\ InLine(calls, view.id) /\ LeadsTo(calls, store, wanted)
  /\ CallInv /\ ViewInv /\ WantedInv

\* A call is made.
LEMMA Appended ==
  ASSUME NEW q \in Seq(Calls), NEW c \in Calls
  PROVE  LET r == Append(q, c)
         IN  /\ r \in Seq(Calls) /\ DOMAIN q = 1 .. Len(q) /\ DOMAIN r = 1 .. Len(q) + 1
             /\ Len(q) \in Nat /\ r[Len(q) + 1] = c
             /\ \A j \in DOMAIN q : r[j] = q[j]
             /\ \A j \in DOMAIN r : j \in DOMAIN q \/ j = Len(q) + 1
OBVIOUS

LEMMA LineGrows ==
  ASSUME NEW q \in Seq(Calls), NEW c \in Calls, NEW id, InLine(q, id), ~c.done,
         c.next = "reset" => \A j \in DOMAIN q : q[j].next # "reset",
         Loads(c, id) => \A j \in DOMAIN q : ~Loads(q[j], id),
         c.kind = "get" \/ \A j \in DOMAIN q : ~Bars(q[j], id)
  PROVE  InLine(Append(q, c), id)
<1> DEFINE r == Append(q, c)
           n == Len(q) + 1
<1>1. /\ DOMAIN q = 1 .. Len(q) /\ DOMAIN r = 1 .. n /\ Len(q) \in Nat /\ r[n] = c
      /\ \A j \in DOMAIN q : r[j] = q[j]
  BY Appended
<1> HIDE DEF r
<1>2. \A j, k \in DOMAIN r : j < k => j \in DOMAIN q /\ r[j] = q[j]
  BY <1>1
<1>3. \A k \in DOMAIN r : k # n => k \in DOMAIN q /\ r[k] = q[k]
  BY <1>1
<1> HIDE DEF n
<1>4. \A j, k \in DOMAIN r : j < k /\ r[k].done => r[j].done
  BY <1>1, <1>2, <1>3 DEF InLine
<1>5. \A j, k \in DOMAIN r : j < k /\ Bars(r[j], id) => r[k].kind = "get"
  <2> SUFFICES ASSUME NEW j \in DOMAIN r, NEW k \in DOMAIN r, j < k, Bars(r[j], id)
               PROVE  r[k].kind = "get"
    OBVIOUS
  <2>1. j \in DOMAIN q /\ Bars(q[j], id)
    BY <1>2
  <2>2. CASE k = n
    BY <1>1, <2>1, <2>2
  <2>3. CASE k # n
    BY <1>3, <2>1, <2>3 DEF InLine
  <2> QED  BY <2>2, <2>3
<1>6. \A j, k \in DOMAIN r : r[j].next = "reset" /\ r[k].next = "reset" => j = k
  BY <1>1, <1>3 DEF InLine
<1>7. \A j, k \in DOMAIN r : Loads(r[j], id) /\ Loads(r[k], id) => j = k
  BY <1>1, <1>3 DEF InLine
<1> QED  BY <1>4, <1>5, <1>6, <1>7 DEF InLine, r

\* A save is ordered when no reset is coming.
LEMMA SaveLeads ==
  ASSUME NEW q \in Seq(Calls), NEW c \in Calls, Coming(c), ~ResetComing(q), NEW s
  PROVE  LeadsTo(Append(q, c), s, c.arg)
<1> DEFINE r == Append(q, c)
           n == Len(q) + 1
<1>1. /\ DOMAIN q = 1 .. Len(q) /\ DOMAIN r = 1 .. n /\ Len(q) \in Nat /\ r[n] = c
      /\ \A j \in DOMAIN q : r[j] = q[j]
      /\ \A j \in DOMAIN r : j \in DOMAIN q \/ j = n
  BY Appended
<1> HIDE DEF r
<1>2. ~NoSave(r)
  BY <1>1 DEF NoSave
<1>3. ~ResetComing(r)
  BY <1>1 DEF ResetComing, Coming
<1>4. \A k \in DOMAIN r : LastSave(r, k) => k = n
  BY <1>1 DEF LastSave
<1> QED  BY <1>1, <1>2, <1>3, <1>4 DEF LeadsTo, Outcome, r

\* Another call is made.
LEMMA OtherLeads ==
  ASSUME NEW q \in Seq(Calls), NEW c \in Calls, c.kind # "save", NEW s, NEW w, LeadsTo(q, s, w),
         IF c.kind = "reset" THEN ~ResetComing(q) /\ ~c.done ELSE TRUE
  PROVE  LeadsTo(Append(q, c), s, IF c.kind = "reset" THEN [w EXCEPT !.lines = DefaultLines] ELSE w)
<1> DEFINE r == Append(q, c)
           n == Len(q) + 1
           v == IF c.kind = "reset" THEN [w EXCEPT !.lines = DefaultLines] ELSE w
<1>1. /\ DOMAIN q = 1 .. Len(q) /\ DOMAIN r = 1 .. n /\ Len(q) \in Nat /\ r[n] = c
      /\ \A j \in DOMAIN q : r[j] = q[j]
      /\ \A j \in DOMAIN r : j \in DOMAIN q \/ j = n
  BY Appended
<1> HIDE DEF r
<1>2. NoSave(r) => NoSave(q)
  BY <1>1 DEF NoSave
<1>3. \A k \in DOMAIN r : LastSave(r, k) => k \in DOMAIN q /\ LastSave(q, k) /\ r[k] = q[k]
  BY <1>1 DEF LastSave, Coming
<1>4. \A x : Outcome(q, x) = w => Outcome(r, x) = v
  <2>1. CASE c.kind = "reset"
    <3>1. ResetComing(r) /\ ~ResetComing(q)
      BY <1>1, <2>1 DEF ResetComing
    <3> QED  BY <2>1, <3>1 DEF Outcome
  <2>2. CASE c.kind # "reset"
    <3>1. ResetComing(r) <=> ResetComing(q)
      BY <1>1, <2>2 DEF ResetComing
    <3> QED  BY <2>2, <3>1 DEF Outcome
  <2> QED  BY <2>1, <2>2
<1>5. NoSave(r) => Outcome(r, s) = v
  BY <1>2, <1>4 DEF LeadsTo
<1>6. \A k \in DOMAIN r : LastSave(r, k) => Outcome(r, r[k].arg) = v
  BY <1>3, <1>4 DEF LeadsTo
<1> QED  BY <1>5, <1>6 DEF LeadsTo, r

\* A call that is done is taken out.
LEMMA TakenOut ==
  ASSUME NEW q \in Seq(Calls), NEW k \in DOMAIN q, q[k].done, NEW id, NEW s, NEW w,
         InLine(q, id), LeadsTo(q, s, w)
  PROVE  /\ InLine(RemoveAt(q, k), id) /\ LeadsTo(RemoveAt(q, k), s, w)
         /\ \A i \in DOMAIN RemoveAt(q, k) : \E j \in DOMAIN q : j # k /\ RemoveAt(q, k)[i] = q[j]
         /\ \A j \in DOMAIN q : j # k => \E i \in DOMAIN RemoveAt(q, k) : RemoveAt(q, k)[i] = q[j]
<1> DEFINE r == RemoveAt(q, k)
           Was(i) == IF i < k THEN i ELSE i + 1
           Is(j) == IF j < k THEN j ELSE j - 1
<1>1. /\ Len(q) \in Nat \ {0} /\ DOMAIN q = 1 .. Len(q) /\ k \in 1 .. Len(q)
      /\ r \in Seq(Calls) /\ DOMAIN r = 1 .. Len(q) - 1
      /\ \A i \in 1 .. Len(q) - 1 : r[i] = q[Was(i)]
  BY RemoveAtIs
<1> HIDE DEF r
<1>2. \A i \in DOMAIN r : Was(i) \in DOMAIN q /\ Was(i) # k /\ r[i] = q[Was(i)]
  BY <1>1
<1>3. \A j \in DOMAIN q : j # k => Is(j) \in DOMAIN r /\ Was(Is(j)) = j
  BY <1>1
<1>4. \A i, j \in DOMAIN r : /\ i < j => Was(i) < Was(j)
                             /\ Was(i) = Was(j) => i = j
                             /\ Was(i) < Was(j) => i < j
  BY <1>1
<1> HIDE DEF Was, Is
<1>5. \A j \in DOMAIN q : j # k => \E i \in DOMAIN r : Was(i) = j /\ r[i] = q[j]
  BY <1>2, <1>3
<1>6. InLine(r, id)
  <2>1. \A i, j \in DOMAIN r : i < j /\ r[j].done => r[i].done
    BY <1>2, <1>4 DEF InLine
  <2>2. \A i, j \in DOMAIN r : i < j /\ Bars(r[i], id) => r[j].kind = "get"
    BY <1>2, <1>4 DEF InLine
  <2>3. \A i, j \in DOMAIN r : r[i].next = "reset" /\ r[j].next = "reset" => i = j
    BY <1>2, <1>4 DEF InLine
  <2>4. \A i, j \in DOMAIN r : Loads(r[i], id) /\ Loads(r[j], id) => i = j
    BY <1>2, <1>4 DEF InLine
  <2> QED  BY <2>1, <2>2, <2>3, <2>4 DEF InLine
<1>7. LeadsTo(r, s, w)
  <2>1. ResetComing(r) <=> ResetComing(q)
    BY <1>2, <1>5 DEF ResetComing
  <2>2. \A x : Outcome(r, x) = Outcome(q, x)
    BY <2>1 DEF Outcome
  <2>3. NoSave(r) => NoSave(q)
    <3> SUFFICES ASSUME NoSave(r), NEW j \in DOMAIN q PROVE ~Coming(q[j])
      BY DEF NoSave
    <3>1. CASE j = k
      BY <3>1 DEF Coming
    <3>2. CASE j # k
      BY <1>5, <3>2 DEF NoSave
    <3> QED  BY <3>1, <3>2
  <2>4. ASSUME NEW i \in DOMAIN r, LastSave(r, i)
        PROVE  LastSave(q, Was(i)) /\ Was(i) \in DOMAIN q /\ r[i] = q[Was(i)]
    <3>1. Was(i) \in DOMAIN q /\ r[i] = q[Was(i)] /\ Coming(q[Was(i)])
      BY <1>2, <2>4 DEF LastSave
    <3>2. ASSUME NEW j \in DOMAIN q, Was(i) < j PROVE ~Coming(q[j])
      <4>1. CASE j = k
        BY <4>1 DEF Coming
      <4>2. CASE j # k
        <5>1. PICK l \in DOMAIN r : Was(l) = j /\ r[l] = q[j]
          BY <1>5, <4>2
        <5>2. i < l
          BY <1>4, <3>2, <5>1
        <5> QED  BY <2>4, <5>1, <5>2 DEF LastSave
      <4> QED  BY <4>1, <4>2
    <3> QED  BY <3>1, <3>2 DEF LastSave
  <2> QED  BY <2>2, <2>3, <2>4 DEF LeadsTo
<1> QED  BY <1>2, <1>5, <1>6, <1>7 DEF r

\* A call takes effect, the first that has not.
Effect(q, r, k) ==
  /\ DOMAIN r = DOMAIN q /\ k \in DOMAIN q /\ ~q[k].done /\ r[k].done
  /\ \A j \in DOMAIN q : j < k => q[j].done
  /\ \A j \in DOMAIN q : j # k => r[j] = q[j]
  /\ r[k].kind = q[k].kind /\ r[k].next = q[k].next /\ r[k].view = q[k].view

LEMMA LineGoes ==
  ASSUME NEW q \in Seq(Calls), NEW r \in Seq(Calls), NEW k, Effect(q, r, k), NEW id, InLine(q, id)
  PROVE  InLine(r, id)
<1>1. \A j \in DOMAIN r : j \in DOMAIN q /\ r[j].kind = q[j].kind /\ r[j].next = q[j].next
                          /\ r[j].view = q[j].view
  BY DEF Effect
<1>2. \A i, j \in DOMAIN r : i < j /\ r[j].done => r[i].done
  BY <1>1 DEF Effect, InLine
<1>3. \A i, j \in DOMAIN r : i < j /\ Bars(r[i], id) => r[j].kind = "get"
  BY <1>1 DEF Bars, Loads, InLine
<1>4. \A i, j \in DOMAIN r : r[i].next = "reset" /\ r[j].next = "reset" => i = j
  BY <1>1 DEF InLine
<1>5. \A i, j \in DOMAIN r : Loads(r[i], id) /\ Loads(r[j], id) => i = j
  BY <1>1 DEF Loads, InLine
<1> QED  BY <1>2, <1>3, <1>4, <1>5 DEF InLine

\* GetConfig leads nowhere else; SaveConfig and ResetAllowlist lead to what was
\* to come of them.
LEMMA GetLeads ==
  ASSUME NEW q \in Seq(Calls), NEW r \in Seq(Calls), NEW k, Effect(q, r, k), q[k].kind = "get",
         NEW s, NEW w, LeadsTo(q, s, w)
  PROVE  LeadsTo(r, s, w)
<1>1. \A j \in DOMAIN q : Coming(r[j]) <=> Coming(q[j])
  BY DEF Effect, Coming
<1>2. ResetComing(r) <=> ResetComing(q)
  BY DEF Effect, ResetComing
<1>3. \A j \in DOMAIN r : LastSave(r, j) => LastSave(q, j) /\ j \in DOMAIN q /\ r[j] = q[j]
  <2> SUFFICES ASSUME NEW j \in DOMAIN r, LastSave(r, j)
               PROVE  LastSave(q, j) /\ j \in DOMAIN q /\ r[j] = q[j]
    OBVIOUS
  <2>1. j # k /\ j \in DOMAIN q
    BY DEF LastSave, Coming, Effect
  <2> QED  BY <1>1, <2>1 DEF LastSave, Effect
<1>4. NoSave(r) <=> NoSave(q)
  BY <1>1 DEF NoSave, Effect
<1> QED  BY <1>2, <1>3, <1>4 DEF LeadsTo, Outcome

LEMMA SaveGoes ==
  ASSUME NEW q \in Seq(Calls), NEW r \in Seq(Calls), NEW k, Effect(q, r, k), q[k].kind = "save",
         NEW s, NEW w, LeadsTo(q, s, w)
  PROVE  LeadsTo(r, q[k].arg, w)
<1>1. DOMAIN q = 1 .. Len(q) /\ DOMAIN r = DOMAIN q /\ k \in DOMAIN q
  BY DEF Effect
<1>2. ResetComing(r) <=> ResetComing(q)
  BY DEF Effect, ResetComing
<1>3. \A j \in DOMAIN q : j # k => r[j] = q[j]
  BY DEF Effect
<1>4. ASSUME NEW j \in DOMAIN r, LastSave(r, j) PROVE LastSave(q, j) /\ r[j] = q[j]
  <2>1. j # k /\ r[j] = q[j]
    BY <1>1, <1>3, <1>4 DEF LastSave, Coming, Effect
  <2>2. ~(j < k)
    BY <1>1, <1>4, <2>1 DEF LastSave, Coming, Effect
  <2> QED  BY <1>1, <1>3, <1>4, <2>1, <2>2 DEF LastSave
<1>5. ASSUME NoSave(r) PROVE LastSave(q, k)
  BY <1>1, <1>3, <1>5 DEF NoSave, LastSave, Coming, Effect
<1> QED  BY <1>1, <1>2, <1>4, <1>5 DEF LeadsTo, Outcome

LEMMA ResetGoes ==
  ASSUME NEW q \in Seq(Calls), NEW r \in Seq(Calls), NEW k, Effect(q, r, k), q[k].kind = "reset",
         NEW id, InLine(q, id), NEW s, NEW w, LeadsTo(q, s, w)
  PROVE  LeadsTo(r, [s EXCEPT !.lines = DefaultLines], w)
<1>1. /\ DOMAIN q = 1 .. Len(q) /\ DOMAIN r = DOMAIN q /\ k \in DOMAIN q /\ q[k].next = "reset"
      /\ \A j \in DOMAIN q : q[j] \in Calls /\ r[j] \in Calls
  BY DEF Effect, Calls
<1>2. \A j \in DOMAIN q : j = k \/ j < k \/ k < j
  BY <1>1
<1>3. NoSave(q) /\ NoSave(r)
  <2> SUFFICES ASSUME NEW j \in DOMAIN q PROVE ~Coming(q[j]) /\ ~Coming(r[j])
    BY <1>1 DEF NoSave
  <2>1. CASE j = k
    BY <2>1 DEF Coming, Effect
  <2>2. CASE j < k
    BY <1>1, <2>2 DEF Coming, Effect
  <2>3. CASE k < j
    BY <1>1, <2>3 DEF Coming, Effect, InLine, Bars
  <2> QED  BY <1>2, <2>1, <2>2, <2>3
<1>4. ResetComing(q)
  BY <1>1 DEF ResetComing, Effect
<1>5. ~ResetComing(r)
  <2> SUFFICES ASSUME NEW j \in DOMAIN r, r[j].kind = "reset", ~r[j].done PROVE FALSE
    BY DEF ResetComing
  <2>1. j # k /\ q[j] = r[j]
    BY <1>1 DEF Effect
  <2>2. q[j].next = "reset"
    BY <1>1, <2>1 DEF Calls
  <2> QED  BY <1>1, <2>1, <2>2 DEF InLine
<1>6. \A j \in DOMAIN r : ~LastSave(r, j)
  BY <1>3 DEF NoSave, LastSave
<1> QED  BY <1>3, <1>4, <1>5, <1>6 DEF LeadsTo, Outcome

\* While a view is shown and no reset is under way, an order may be made.
LEMMA NoBar ==
  ASSUME SettingsTypes, CallInv, Shown, ~Busy("reset")
  PROVE  /\ \A j \in DOMAIN calls : ~Bars(calls[j], view.id) /\ calls[j].next # "reset"
         /\ ~ResetComing(calls)
<1>1. \A j \in DOMAIN calls : calls[j].next # "reset" /\ calls[j].kind # "reset"
  BY DEF Busy
<1>2. \A j \in DOMAIN calls : ~Loads(calls[j], view.id)
  BY DEF Loads, CallInv, Here
<1> QED  BY <1>1, <1>2 DEF Bars, ResetComing

\* A call takes effect.
LEMMA GoStep ==
  ASSUME SettingsAssumption, Calm, SettingsTypes, SettingsInv, NEW k \in DOMAIN calls, Go(k)
  PROVE  SettingsInv'
<1>1. /\ calls \in Seq(Calls) /\ DOMAIN calls = 1 .. Len(calls) /\ Len(calls) \in Nat
      /\ InLine(calls, view.id) /\ LeadsTo(calls, store, wanted)
  BY DEF SettingsTypes, SettingsInv
<1>2. ~calls[k].done /\ InTurn(k) /\ view' = view /\ wanted' = wanted
  BY GoIs
<1>3. PICK arg \in Config, ok \in BOOLEAN :
        calls' = [calls EXCEPT ![k] = [calls[k] EXCEPT !.done = TRUE, !.arg = arg, !.ok = ok]]
  BY GoIs
<1>4. /\ calls' \in Seq(Calls) /\ DOMAIN calls' = DOMAIN calls
      /\ \A j \in DOMAIN calls : j # k => calls'[j] = calls[j]
      /\ calls'[k].done /\ calls'[k].kind = calls[k].kind /\ calls'[k].next = calls[k].next
      /\ calls'[k].view = calls[k].view
  BY <1>3, DoneCalls
<1>5. Effect(calls, calls', k)
  <2>1. \A j \in DOMAIN calls : j < k => calls[j].done
    BY <1>1, <1>2 DEF InTurn
  <2> QED  BY <1>2, <1>4, <2>1 DEF Effect
<1>6. InLine(calls', view.id)
  BY <1>1, <1>4, <1>5, LineGoes
<1>7. LeadsTo(calls', store', wanted)
  <2>1. CASE calls[k].kind = "get" /\ store' = store
    BY <1>1, <1>4, <1>5, <2>1, GetLeads
  <2>2. CASE calls[k].kind = "save" /\ store' = calls[k].arg
    BY <1>1, <1>4, <1>5, <2>2, SaveGoes
  <2>3. CASE calls[k].kind = "reset" /\ store' = [store EXCEPT !.lines = DefaultLines]
    BY <1>1, <1>4, <1>5, <2>3, ResetGoes
  <2> QED  BY <2>1, <2>2, <2>3, GoIs
<1>8. \A j \in DOMAIN calls : /\ calls'[j].view = calls[j].view /\ calls'[j].next = calls[j].next
                              /\ calls'[j].kind = calls[j].kind
  BY <1>4
<1>9. CallInv'
  <2> SUFFICES ASSUME NEW j \in DOMAIN calls
               PROVE  /\ calls'[j].view <= view.id
                      /\ Here(j) =>
                           /\ calls'[j].next = "load" => ~Shown
                           /\ calls'[j].next \in {"reset", "saved"} => OnSettings
                           /\ calls'[j].next = "saved" => calls'[j].arg.sources = wanted.sources
                           /\ calls'[j].kind = "get" /\ calls'[j].next \in {"load", "reset"}
                                /\ calls'[j].done => calls'[j].arg = wanted
    BY <1>2, <1>4, <1>8 DEF CallInv, Here, Shown, OnSettings
  <2>1. CASE j # k
    BY <1>4, <2>1 DEF SettingsInv, CallInv
  <2>2. ASSUME j = k, Here(j), calls[j].next = "saved" PROVE calls'[j].arg = calls[j].arg
    <3>1. calls[k].kind = "save"
      BY <1>1, <2>2 DEF Calls
    <3> QED  BY <2>2, <3>1, GoIs
  <2>3. ASSUME j = k, Here(j), calls[j].kind = "get", calls[j].next \in {"load", "reset"}
        PROVE  calls'[j].arg = wanted
    <3>1. calls'[k].arg = store
      BY <2>3, GoIs
    <3>2. Bars(calls[k], view.id)
      BY <2>3 DEF Bars, Loads, Here
    <3>3. ASSUME NEW i \in DOMAIN calls PROVE calls[i].kind = "get" \/ calls[i].done
      <4>1. CASE i < k
        BY <1>5, <4>1 DEF Effect
      <4>2. CASE k < i
        BY <1>1, <3>2, <4>2 DEF InLine
      <4>3. CASE i = k
        BY <2>3, <4>3
      <4> QED  BY <1>1, <4>1, <4>2, <4>3
    <3>4. NoSave(calls) /\ ~ResetComing(calls)
      BY <3>3 DEF NoSave, Coming, ResetComing
    <3>5. store = wanted
      BY <1>1, <3>4 DEF LeadsTo, Outcome
    <3> QED  BY <2>3, <3>1, <3>5
  <2> QED  BY <1>8, <2>1, <2>2, <2>3 DEF SettingsInv, CallInv
<1>10. Resetting' <=> Resetting
  BY <1>2, <1>4, <1>8 DEF Resetting, Here
<1>11. ViewInv'
  BY <1>2, <1>10 DEF SettingsInv, ViewInv, OnSources, OnSettings, Shown, Cfg
<1> QED
  BY <1>2, <1>6, <1>7, <1>9, <1>11 DEF SettingsInv, WantedInv

\* A call that was answered is taken out, the mounted view stays the same one.
LEMMA CallsAfter ==
  ASSUME SettingsAssumption, SettingsTypes, SettingsInv, NEW k \in DOMAIN calls, calls[k].done,
         Answered(k), UNCHANGED <<store, wanted>>, view'.id = view.id, view'.kind = view.kind,
         \A j \in DOMAIN calls : j # k /\ Here(j) /\ calls[j].next = "load" => ~Shown',
         Shown => Shown'
  PROVE  /\ InLine(calls', view'.id) /\ LeadsTo(calls', store', wanted') /\ CallInv' /\ WantedInv'
         /\ Resetting' => Resetting
         /\ Resetting /\ (~Here(k) \/ calls[k].next # "reset") => Resetting'
<1>1. calls \in Seq(Calls) /\ InLine(calls, view.id) /\ LeadsTo(calls, store, wanted) /\ CallInv
      /\ calls' = RemoveAt(calls, k)
  BY DEF SettingsTypes, SettingsInv, Answered
<1>2. /\ InLine(calls', view.id) /\ LeadsTo(calls', store, wanted)
      /\ \A i \in DOMAIN calls' : \E j \in DOMAIN calls : j # k /\ calls'[i] = calls[j]
      /\ \A j \in DOMAIN calls : j # k => \E i \in DOMAIN calls' : calls'[i] = calls[j]
  BY <1>1, TakenOut
<1>3. CallInv'
  <2> SUFFICES ASSUME NEW i \in DOMAIN calls'
               PROVE  /\ calls'[i].view <= view.id
                      /\ Here(i)' =>
                           /\ calls'[i].next = "load" => ~Shown'
                           /\ calls'[i].next \in {"reset", "saved"} => OnSettings'
                           /\ calls'[i].next = "saved" => calls'[i].arg.sources = wanted.sources
                           /\ calls'[i].kind = "get" /\ calls'[i].next \in {"load", "reset"}
                                /\ calls'[i].done => calls'[i].arg = wanted
    BY DEF CallInv
  <2>1. PICK j \in DOMAIN calls : j # k /\ calls'[i] = calls[j]
    BY <1>2
  <2>2. Here(i)' <=> Here(j)
    BY <2>1 DEF Here
  <2>3. OnSettings => OnSettings'
    BY DEF OnSettings
  <2> QED  BY <1>1, <2>1, <2>2, <2>3 DEF CallInv
<1>4. Resetting' => Resetting
  BY <1>2 DEF Resetting, Here
<1>5. Resetting /\ (~Here(k) \/ calls[k].next # "reset") => Resetting'
  <2> SUFFICES ASSUME NEW j \in DOMAIN calls, Here(j), calls[j].next = "reset",
                      ~Here(k) \/ calls[k].next # "reset"
               PROVE  Resetting'
    BY DEF Resetting
  <2>1. j # k
    OBVIOUS
  <2>2. PICK i \in DOMAIN calls' : calls'[i] = calls[j]
    BY <1>2, <2>1
  <2> QED  BY <2>2 DEF Resetting, Here
<1> QED  BY <1>2, <1>3, <1>4, <1>5 DEF SettingsInv, WantedInv

-----------------------------------------------------------------------------
\* The types are kept

LEMMA GoTypes ==
  ASSUME SettingsAssumption, SettingsTypes, NEW k \in DOMAIN calls, Go(k)
  PROVE  SettingsTypes'
<1>1. store' \in Config /\ UNCHANGED <<wanted, view, language, acts>>
  BY GoIs
<1>2. PICK arg \in Config, ok \in BOOLEAN :
        calls' = [calls EXCEPT ![k] = [calls[k] EXCEPT !.done = TRUE, !.arg = arg, !.ok = ok]]
  BY GoIs
<1>3. calls' \in Seq(Calls) /\ Len(calls') <= MaxCalls
  BY <1>2, DoneCalls
<1> QED  BY <1>1, <1>3 DEF SettingsTypes

LEMMA StepTypes ==
  ASSUME SettingsAssumption, SettingsTypes, [Next]_vars
  PROVE  SettingsTypes'
<1>1. CASE UNCHANGED vars
  BY <1>1 DEF SettingsTypes, vars
<1>2. ASSUME NEW k \in DOMAIN calls, Go(k) PROVE SettingsTypes'
  BY <1>2, GoTypes
<1>3. ASSUME NEW k \in DOMAIN calls, Handle(k) PROVE SettingsTypes'
  BY <1>3, HandleTypes
<1>4. CASE User
  BY <1>4, UserTypes
<1> QED  BY <1>1, <1>2, <1>3, <1>4 DEF Next

LEMMA InitTypes ==
  ASSUME SettingsAssumption, Init
  PROVE  SettingsTypes
<1>1. store \in Config
  BY SettingsAssumption DEF Init, Config
<1>2. Call("get", 0, store, "startup") \in Calls
  BY <1>1, IsCall
<1>3. calls \in Seq(Calls) /\ Len(calls) <= MaxCalls
  <2>1. calls = <<Call("get", 0, store, "startup")>>
    BY DEF Init
  <2>2. \A c \in Calls : <<c>> \in Seq(Calls) /\ Len(<<c>>) = 1
    OBVIOUS
  <2> QED  BY <1>2, <2>1, <2>2, SettingsAssumption
<1>4. view \in Views
  <2>1. NoForm \in Form
    BY SettingsAssumption DEF NoForm, Form
  <2>2. 0 \in 0 .. MaxViews
    BY SettingsAssumption
  <2> QED  BY <2>1, <2>2 DEF Init, Fresh, Views, Kinds
<1>5. language \in Languages /\ acts \in 0 .. MaxActs
  BY SettingsAssumption DEF Init
<1> QED  BY <1>1, <1>3, <1>4, <1>5 DEF Init, SettingsTypes

\* The calls, the views and the configuration have the types of the model,
\* whatever the user does and in whatever order the calls take effect: a view
\* never sends back a configuration with a line that is a comment.
THEOREM SettingsTypeCorrect == Spec => []SettingsTypeOK
<1>1. Init => SettingsTypes
  BY InitTypes, SettingsAssumption
<1>2. SettingsTypes /\ [Next]_vars => SettingsTypes'
  BY StepTypes, SettingsAssumption
<1>3. SettingsTypes => SettingsTypeOK
  <2> SUFFICES ASSUME SettingsTypes PROVE SettingsTypeOK
    OBVIOUS
  <2>1. \A k \in DOMAIN calls : calls[k].arg \in Config
    BY DEF SettingsTypes, Calls
  <2>2. Len(view.cfg) <= 1 /\ ToSet(view.cfg) \subseteq Config
    BY DEF SettingsTypes, Views, ToSet
  <2>3. view.touched \subseteq Fields /\ {view.saving, view.adding} \subseteq BOOLEAN
        /\ view.deleting \in Nat /\ view.form \in Form /\ view.id \in 0 .. MaxViews
        /\ view.kind \in {"sources", "settings", "none"}
    BY DEF SettingsTypes, Views, Kinds
  <2>4. {store, wanted} \cup {calls[k].arg : k \in DOMAIN calls} \subseteq Config
    BY <2>1 DEF SettingsTypes
  <2> QED  BY <2>2, <2>3, <2>4 DEF SettingsTypes, SettingsTypeOK
<1> QED  BY <1>1, <1>2, <1>3, PTL DEF Spec

-----------------------------------------------------------------------------
\* The answers

\* The answer changes what is shown in no way.
LEMMA SameShown ==
  ASSUME SettingsAssumption, SettingsTypes, SettingsInv, NEW k \in DOMAIN calls, calls[k].done,
         Answered(k), UNCHANGED <<store, wanted>>,
         view'.id = view.id, view'.kind = view.kind, view'.cfg = view.cfg,
         view'.form = view.form, view'.touched = view.touched,
         ~Here(k) \/ calls[k].next # "reset"
  PROVE  SettingsInv'
<1>1. Shown' <=> Shown
  BY DEF Shown
<1>2. \A j \in DOMAIN calls : j # k /\ Here(j) /\ calls[j].next = "load" => ~Shown'
  BY <1>1 DEF SettingsInv, CallInv
<1>3. /\ InLine(calls', view'.id) /\ LeadsTo(calls', store', wanted') /\ CallInv' /\ WantedInv'
      /\ Resetting => Resetting'
  BY <1>1, <1>2, CallsAfter
<1>4. ViewInv'
  BY <1>3 DEF SettingsInv, ViewInv, OnSources, OnSettings, Shown, Cfg
<1> QED  BY <1>3, <1>4 DEF SettingsInv

\* What is loaded into the form is what it is parsed to.
LEMMA LoadedForm ==
  ASSUME SettingsAssumption, NEW c \in Config, c.ttl % 2 = 0
  PROVE  /\ Parsed(Loaded(c)).ttl = c.ttl /\ Parsed(Loaded(c)).lines = c.lines
         /\ Parsed(Loaded(c)).language = c.language
<1>1. Loaded(c).ttl = (c.ttl + 1) \div 2 /\ Loaded(c).lines = c.lines /\ Loaded(c).language = c.language
  BY LoadedIs
<1>2. c.ttl \in Nat /\ c.lines \subseteq Lines /\ Comment \notin Lines
  BY SettingsAssumption DEF Config
<1>3. 2 * ((c.ttl + 1) \div 2) = c.ttl
  BY <1>2
<1>4. c.lines \ {Comment} = c.lines
  BY <1>2
<1> QED  BY <1>1, <1>3, <1>4 DEF Parsed

LEMMA LoadStep ==
  ASSUME SettingsAssumption, SettingsTypes, SettingsInv, NEW k \in DOMAIN calls, HandleLoad(k)
  PROVE  SettingsInv'
<1>1. /\ calls \in Seq(Calls) /\ calls[k].done /\ Answered(k) /\ UNCHANGED <<store, wanted>>
      /\ calls[k].kind = "get" /\ calls[k].next \in {"load", "reset"}
      /\ wanted \in Config /\ view \in Views
      /\ InLine(calls, view.id) /\ CallInv /\ WantedInv
  BY DEF HandleLoad, Answer, SettingsTypes, SettingsInv
<1>2. CASE ~Here(k)
  BY <1>1, <1>2, SameShown DEF HandleLoad
<1>3. CASE Here(k)
  <2>1. calls[k].arg = wanted
    BY <1>1, <1>3 DEF CallInv
  <2>2. /\ view'.id = view.id /\ view'.kind = view.kind /\ view'.cfg = <<wanted>>
        /\ view'.kind = "settings" => view'.form = Loaded(wanted)
    BY <1>1, <1>3, <2>1 DEF HandleLoad, Views
  <2>3. Shown' /\ Cfg' = wanted
    BY <2>2 DEF Shown, Cfg
  <2>4. \A j \in DOMAIN calls : j # k /\ Here(j) /\ calls[j].next = "load" => ~Shown'
    <3> SUFFICES ASSUME NEW j \in DOMAIN calls, j # k, Here(j), calls[j].next = "load"
                 PROVE  FALSE
      OBVIOUS
    <3>1. CASE calls[k].next = "load"
      BY <1>1, <1>3, <3>1 DEF InLine, Loads, Here
    <3>2. CASE calls[k].next = "reset"
      BY <1>1, <1>3, <3>2 DEF CallInv, OnSettings
    <3> QED  BY <1>1, <3>1, <3>2
  <2>5. InLine(calls', view'.id) /\ LeadsTo(calls', store', wanted') /\ CallInv' /\ WantedInv'
    BY <1>1, <2>2, <2>3, <2>4, CallsAfter
  <2>6. /\ Parsed(Loaded(wanted)).ttl = wanted.ttl /\ Parsed(Loaded(wanted)).lines = wanted.lines
        /\ Parsed(Loaded(wanted)).language = wanted.language
    BY <1>1, LoadedForm DEF WantedInv
  <2>7. ViewInv'
    <3>1. wanted' = wanted
      BY <1>1
    <3>2. (OnSources => Cfg = wanted)'
      BY <2>3, <3>1
    <3>3. (OnSettings => Cfg.sources = wanted.sources)'
      BY <2>3, <3>1
    <3>4. OnSettings' => view'.form = Loaded(wanted)
      BY <2>2 DEF OnSettings
    <3>5. OnSettings' => Parsed(view.form)' = Parsed(Loaded(wanted))
      BY <3>4 DEF Parsed
    <3> QED  BY <2>6, <3>1, <3>2, <3>3, <3>5 DEF ViewInv
  <2> QED  BY <2>5, <2>7 DEF SettingsInv
<1> QED  BY <1>2, <1>3

LEMMA SourcesStep ==
  ASSUME SettingsAssumption, SettingsTypes, SettingsInv, NEW k \in DOMAIN calls, HandleSources(k)
  PROVE  SettingsInv'
<1>1. /\ calls[k].done /\ Answered(k) /\ UNCHANGED <<store, wanted>> /\ calls[k].next # "reset"
      /\ view \in Views
  BY DEF HandleSources, Answer, SettingsTypes
<1>2. /\ view'.id = view.id /\ view'.kind = view.kind /\ view'.cfg = view.cfg
      /\ view'.form = view.form /\ view'.touched = view.touched
  BY <1>1 DEF HandleSources, AfterSources, Views
<1> QED  BY <1>1, <1>2, SameShown

LEMMA SaveStep ==
  ASSUME SettingsAssumption, SettingsTypes, SettingsInv, NEW k \in DOMAIN calls, HandleSave(k)
  PROVE  SettingsInv'
<1>1. /\ calls[k].done /\ Answered(k) /\ UNCHANGED <<store, wanted>> /\ calls[k].next = "saved"
      /\ view \in Views /\ CallInv /\ ViewInv /\ WantedInv /\ InLine(calls, view.id)
  BY DEF HandleSave, Answer, SettingsTypes, SettingsInv
<1>2. /\ view'.id = view.id /\ view'.kind = view.kind
      /\ view'.form = view.form /\ view'.touched = view.touched
      /\ view'.cfg = IF Here(k) /\ calls[k].ok THEN <<calls[k].arg>> ELSE view.cfg
  BY <1>1 DEF HandleSave, AfterSave, Views
<1>3. CASE ~(Here(k) /\ calls[k].ok)
  BY <1>1, <1>2, <1>3, SameShown
<1>4. CASE Here(k) /\ calls[k].ok
  <2>1. OnSettings /\ calls[k].arg.sources = wanted.sources
    BY <1>1, <1>4 DEF CallInv
  <2>2. Shown' /\ Cfg' = calls[k].arg /\ OnSettings' /\ ~OnSources'
    BY <1>2, <1>4, <2>1 DEF Shown, Cfg, OnSettings, OnSources
  <2>3. \A j \in DOMAIN calls : Here(j) => calls[j].next # "load"
    BY <1>1, <2>1 DEF CallInv, OnSettings
  <2>4. /\ InLine(calls', view'.id) /\ LeadsTo(calls', store', wanted') /\ CallInv' /\ WantedInv'
        /\ Resetting => Resetting'
    BY <1>1, <1>2, <2>2, <2>3, CallsAfter
  <2>5. ViewInv'
    BY <1>1, <1>2, <2>1, <2>2, <2>4 DEF ViewInv
  <2> QED  BY <2>4, <2>5 DEF SettingsInv
<1> QED  BY <1>3, <1>4

\* The answer to a reset: the loading that follows it takes its place.
LEMMA ResetStep ==
  ASSUME SettingsAssumption, SettingsTypes, SettingsInv, NEW k \in DOMAIN calls, HandleReset(k)
  PROVE  SettingsInv'
<1>1. /\ calls \in Seq(Calls) /\ calls[k].done /\ UNCHANGED <<store, wanted>>
      /\ calls[k].next = "reset" /\ calls[k].kind = "reset" /\ Reload(k)
      /\ view \in Views /\ store \in Config
      /\ CallInv /\ ViewInv /\ WantedInv /\ InLine(calls, view.id) /\ LeadsTo(calls, store, wanted)
  BY DEF HandleReset, Answer, SettingsTypes, SettingsInv
<1>2. CASE ~Here(k)
  <2>1. Answered(k) /\ view' = view
    BY <1>1, <1>2 DEF HandleReset, Reload, Answered
  <2> QED  BY <1>1, <1>2, <2>1, SameShown
<1>3. CASE Here(k) /\ ~calls[k].ok
  <2>1. Answered(k) /\ view' = [view EXCEPT !.touched = @ \cup {"lines"}]
    BY <1>1, <1>3 DEF HandleReset, Reload, Answered
  <2>2. /\ view'.id = view.id /\ view'.kind = view.kind /\ view'.cfg = view.cfg
        /\ view'.form = view.form /\ view'.touched = view.touched \cup {"lines"}
    BY <1>1, <2>1 DEF Views
  <2>3. OnSettings /\ (Shown' <=> Shown)
    BY <1>1, <1>3, <2>2 DEF CallInv, Shown
  <2>4. \A j \in DOMAIN calls : Here(j) => calls[j].next # "load"
    BY <1>1, <2>3 DEF CallInv, OnSettings
  <2>5. InLine(calls', view'.id) /\ LeadsTo(calls', store', wanted') /\ CallInv' /\ WantedInv'
    BY <1>1, <2>1, <2>2, <2>3, <2>4, CallsAfter
  <2>6. ViewInv'
    BY <1>1, <2>2 DEF ViewInv, OnSettings, OnSources, Shown, Cfg
  <2> QED  BY <2>5, <2>6 DEF SettingsInv
<1>4. CASE Here(k) /\ calls[k].ok
  <2> DEFINE r == RemoveAt(calls, k)
             c == Call("get", view.id, store, "reset")
  <2>1. calls' = Append(r, c) /\ view' = view /\ wanted' = wanted /\ store' = store
    BY <1>1, <1>4 DEF HandleReset, Reload
  <2>2. OnSettings
    BY <1>1, <1>4 DEF CallInv
  <2>3. r \in Seq(Calls)
    BY <1>1, RemoveAtIs
  <2>4. /\ InLine(r, view.id) /\ LeadsTo(r, store, wanted)
        /\ \A i \in DOMAIN r : \E j \in DOMAIN calls : j # k /\ r[i] = calls[j]
        /\ \A j \in DOMAIN calls : j # k => \E i \in DOMAIN r : r[i] = calls[j]
    BY <1>1, TakenOut
  <2>5. c \in Calls /\ c.kind = "get" /\ c.view = view.id /\ c.next = "reset" /\ c.done = FALSE
    <3>1. view.id \in Nat
      BY <1>1 DEF Views
    <3>2. c \in Calls
      BY <1>1, <3>1, IsCall
    <3> QED  BY <3>2 DEF Call
  <2> HIDE DEF r, c
  <2>6. \A i \in DOMAIN r : r[i].next # "reset"
    BY <1>1, <2>4 DEF InLine
  <2>7. InLine(Append(r, c), view.id)
    BY <2>3, <2>4, <2>5, <2>6, LineGrows DEF Loads
  <2>8. LeadsTo(Append(r, c), store, wanted)
    BY <2>3, <2>4, <2>5, OtherLeads
  <2> DEFINE n == Len(r) + 1
  <2>9. /\ DOMAIN calls' = 1 .. n /\ n \in DOMAIN calls' /\ calls'[n] = c
        /\ \A i \in DOMAIN calls' : i # n => i \in DOMAIN r /\ calls'[i] = r[i]
    BY <2>1, <2>3, <2>5, Appended
  <2> HIDE DEF n
  <2>10. CallInv'
    <3> SUFFICES ASSUME NEW i \in DOMAIN calls'
                 PROVE  /\ calls'[i].view <= view.id
                        /\ calls'[i].view = view.id =>
                             /\ calls'[i].next = "load" => ~Shown
                             /\ calls'[i].next \in {"reset", "saved"} => OnSettings
                             /\ calls'[i].next = "saved" => calls'[i].arg.sources = wanted.sources
                             /\ calls'[i].kind = "get" /\ calls'[i].next \in {"load", "reset"}
                                  /\ calls'[i].done => calls'[i].arg = wanted
      BY <2>1 DEF CallInv, Here, Shown, OnSettings
    <3>1. CASE i = n
      BY <1>1, <2>2, <2>5, <2>9, <3>1 DEF Views
    <3>2. CASE i # n
      <4>1. PICK j \in DOMAIN calls : calls'[i] = calls[j]
        BY <2>4, <2>9, <3>2
      <4> QED  BY <1>1, <4>1 DEF CallInv, Here
    <3> QED  BY <3>1, <3>2
  <2>11. Resetting'
    BY <2>1, <2>5, <2>9 DEF Resetting, Here
  <2>12. ViewInv'
    BY <1>1, <2>1, <2>11 DEF ViewInv, OnSources, OnSettings, Shown, Cfg
  <2> QED  BY <1>1, <2>1, <2>7, <2>8, <2>10, <2>12 DEF SettingsInv, WantedInv
<1> QED  BY <1>2, <1>3, <1>4

LEMMA HandleStep ==
  ASSUME SettingsAssumption, SettingsTypes, SettingsInv, NEW k \in DOMAIN calls, Handle(k)
  PROVE  SettingsInv'
<1>1. CASE HandleLanguage(k)
  BY <1>1, SameShown DEF HandleLanguage, Answer
<1>2. CASE HandleLoad(k)
  BY <1>2, LoadStep
<1>3. CASE HandleSources(k)
  BY <1>3, SourcesStep
<1>4. CASE HandleSave(k)
  BY <1>4, SaveStep
<1>5. CASE HandleReset(k)
  BY <1>5, ResetStep
<1> QED  BY <1>1, <1>2, <1>3, <1>4, <1>5 DEF Handle

-----------------------------------------------------------------------------
\* The orders of the user

\* A call is made from the view that is shown.
LEMMA CallMade ==
  ASSUME SettingsTypes, CallInv, Shown, ~Busy("reset"), NEW c \in Calls,
         calls' = Append(calls, c), c.view = view.id, ~c.done, c.next # "load",
         c.next \in {"reset", "saved"} => OnSettings,
         c.next = "saved" => c.arg.sources = wanted'.sources,
         view'.id = view.id, view'.kind = view.kind, Shown',
         OnSources \/ wanted'.sources = wanted.sources
  PROVE  CallInv' /\ (Resetting' <=> c.next = "reset")
<1> DEFINE n == Len(calls) + 1
<1>1. /\ calls \in Seq(Calls) /\ view.id \in Nat
      /\ \A j \in DOMAIN calls : calls[j].next # "reset" /\ ~Loads(calls[j], view.id)
  BY NoBar DEF SettingsTypes, Views, Bars
<1>2. /\ n \in DOMAIN calls' /\ calls'[n] = c
      /\ \A i \in DOMAIN calls' : i = n \/ (i \in DOMAIN calls /\ calls'[i] = calls[i])
  BY <1>1, Appended
<1> HIDE DEF n
<1>3. OnSettings => OnSettings'
  BY DEF OnSettings
<1>4. CallInv'
  <2> SUFFICES ASSUME NEW i \in DOMAIN calls'
               PROVE  /\ calls'[i].view <= view.id
                      /\ calls'[i].view = view.id =>
                           /\ calls'[i].next # "load"
                           /\ calls'[i].next \in {"reset", "saved"} => OnSettings
                           /\ calls'[i].next = "saved" => calls'[i].arg.sources = wanted'.sources
                           /\ calls'[i].next = "reset" => ~calls'[i].done
    BY <1>3 DEF CallInv, Here
  <2>1. CASE i = n
    BY <1>1, <1>2, <2>1
  <2>2. CASE i # n
    <3>1. i \in DOMAIN calls /\ calls'[i] = calls[i] /\ calls[i].next # "reset"
          /\ ~Loads(calls[i], view.id)
      BY <1>1, <1>2, <2>2
    <3>2. OnSettings => wanted'.sources = wanted.sources
      BY DEF OnSettings, OnSources
    <3> QED  BY <3>1, <3>2 DEF CallInv, Here, Loads
  <2> QED  BY <2>1, <2>2
<1>5. Resetting' <=> c.next = "reset"
  BY <1>1, <1>2 DEF Resetting, Here
<1> QED  BY <1>4, <1>5

\* The user orders other sources.
LEMMA SourcesOrder ==
  ASSUME SettingsTypes, SettingsInv, OnSources, ~Busy("reset"), NEW s \in Seq(Source), Distinct(s),
         NEW next \in {"toggled", "added", "deleted"}, SaveSources(s, next),
         wanted' = [wanted EXCEPT !.sources = s], store' = store
  PROVE  SettingsInv'
<1> DEFINE u == [Cfg EXCEPT !.sources = s]
           c == Call("save", view.id, u, next)
<1>1. /\ Shown /\ Cfg = wanted /\ calls \in Seq(Calls) /\ wanted \in Config /\ view \in Views
      /\ InLine(calls, view.id) /\ CallInv /\ WantedInv
  BY DEF OnSources, SettingsInv, SettingsTypes, ViewInv
<1>2. /\ u \in Config /\ u.sources = s /\ calls' = Append(calls, c) /\ c \in Calls
      /\ view' = [view EXCEPT !.cfg = <<u>>, !.saving = TRUE]
  BY <1>1, SaveSourcesIs
<1>3. wanted' = u /\ u.ttl = wanted.ttl
  BY <1>1 DEF Config
<1>4. c.kind = "save" /\ c.view = view.id /\ c.arg = u /\ c.next = next /\ c.done = FALSE
  BY DEF Call
<1> HIDE DEF u, c
<1>5. /\ view'.id = view.id /\ view'.kind = view.kind /\ view'.cfg = <<u>>
  BY <1>1, <1>2 DEF Views
<1>6. Shown' /\ Cfg' = u /\ ~OnSettings'
  BY <1>5 DEF Shown, Cfg, OnSettings, OnSources
<1>7. /\ \A j \in DOMAIN calls : ~Bars(calls[j], view.id) /\ calls[j].next # "reset"
      /\ ~ResetComing(calls)
  BY <1>1, NoBar
<1>8. InLine(calls', view.id)
  BY <1>1, <1>2, <1>4, <1>7, LineGrows DEF Loads
<1>9. LeadsTo(calls', store, wanted')
  <2>1. Coming(c)
    BY <1>4 DEF Coming
  <2>2. LeadsTo(Append(calls, c), store, c.arg)
    BY <1>1, <1>2, <1>7, <2>1, SaveLeads
  <2> QED  BY <1>2, <1>3, <1>4, <2>2
<1>10. CallInv'
  BY <1>1, <1>2, <1>4, <1>5, <1>6, CallMade
<1>11. ViewInv'
  BY <1>3, <1>6 DEF ViewInv
<1>12. WantedInv'
  BY <1>1, <1>2, <1>3 DEF WantedInv
<1> QED  BY <1>5, <1>8, <1>9, <1>10, <1>11, <1>12 DEF SettingsInv

LEMMA ToggleStep ==
  ASSUME Calm, SettingsTypes, SettingsInv, OnSources, NEW i \in DOMAIN Cfg.sources, ToggleSource(i)
  PROVE  SettingsInv'
<1> DEFINE t == wanted.sources
           e == [t[i] EXCEPT !.enabled = ~t[i].enabled]
           s == [t EXCEPT ![i] = e]
           w == [j \in DOMAIN t |-> IF t[j].name = t[i].name
                                    THEN [t[j] EXCEPT !.enabled = ~t[i].enabled] ELSE t[j]]
<1>1. Cfg = wanted /\ Distinct(t) /\ t \in Seq(Source) /\ i \in DOMAIN t /\ ~Busy("reset")
  BY DEF SettingsInv, ViewInv, WantedInv, SettingsTypes, Config, ToggleSource, Order
<1>2. [t EXCEPT ![i].enabled = ~@] = s
  OBVIOUS
<1>3. SaveSources(s, "toggled") /\ wanted' = [wanted EXCEPT !.sources = w] /\ store' = store
  BY <1>1, <1>2 DEF ToggleSource
<1>4. t[i] \in Source /\ e \in Source /\ e.name = t[i].name
  <2>1. t[i] \in Source
    BY <1>1
  <2> QED  BY <2>1 DEF Source
<1>5. s \in Seq(Source) /\ DOMAIN s = DOMAIN t /\ s[i] = e /\ \A j \in DOMAIN t : j # i => s[j] = t[j]
  BY <1>1, <1>4
<1>6. \A j \in DOMAIN t : t[j].name = t[i].name <=> j = i
  BY <1>1 DEF Distinct
<1>7. w = s
  <2>1. \A j \in DOMAIN t : w[j] = s[j]
    BY <1>5, <1>6
  <2> QED  BY <1>5, <2>1
<1>8. Distinct(s)
  BY <1>1, <1>4, <1>5 DEF Distinct
<1> HIDE DEF s, w
<1> QED  BY <1>1, <1>3, <1>5, <1>7, <1>8, SourcesOrder

LEMMA AddStep ==
  ASSUME Calm, SettingsTypes, SettingsInv, SubmitSource
  PROVE  SettingsInv'
<1> DEFINE t == wanted.sources
<1>1. OnSources /\ Cfg = wanted /\ Distinct(t) /\ t \in Seq(Source)
  BY DEF SettingsInv, ViewInv, WantedInv, SettingsTypes, Config, SubmitSource
<1>2. PICK name \in Names : (\A i \in DOMAIN t : t[i].name # name) /\ HandleAdd(name)
  BY <1>1 DEF SubmitSource
<1> DEFINE e == NewSource([name |-> name, enabled |-> TRUE])
           s == Append(t, e)
<1>3. e \in Source /\ e.name = name
  BY DEF NewSource, Source
<1>4. SaveSources(s, "added") /\ wanted' = [wanted EXCEPT !.sources = s] /\ store' = store
      /\ ~Busy("reset")
  BY <1>1, <1>2 DEF HandleAdd, Order
<1> HIDE DEF e
<1>5. s \in Seq(Source) /\ DOMAIN s = 1 .. Len(t) + 1 /\ s[Len(t) + 1] = e
      /\ DOMAIN t = 1 .. Len(t) /\ Len(t) \in Nat /\ \A i \in DOMAIN t : s[i] = t[i]
  BY <1>1, <1>3
<1> HIDE DEF s
<1>6. Distinct(s)
  <2> SUFFICES ASSUME NEW i \in DOMAIN s, NEW j \in DOMAIN s, s[i].name = s[j].name
               PROVE  i = j
    BY DEF Distinct
  <2>1. \A m \in DOMAIN s : m = Len(t) + 1 \/ m \in DOMAIN t
    BY <1>5
  <2>2. \A m \in DOMAIN t : s[m].name # e.name
    BY <1>2, <1>3, <1>5
  <2>3. CASE i \in DOMAIN t /\ j \in DOMAIN t
    BY <1>1, <1>5, <2>3 DEF Distinct
  <2> QED  BY <1>5, <2>1, <2>2, <2>3
<1> QED  BY <1>1, <1>4, <1>5, <1>6, SourcesOrder

LEMMA DeleteStep ==
  ASSUME Calm, SettingsTypes, SettingsInv, HandleDelete
  PROVE  SettingsInv'
<1> DEFINE t == wanted.sources
           d == view.deleting
           s == RemoveAt(t, d)
<1>1. OnSources /\ Cfg = wanted /\ Distinct(t) /\ t \in Seq(Source) /\ d \in DOMAIN t
      /\ ~Busy("reset")
  BY DEF SettingsInv, ViewInv, WantedInv, SettingsTypes, Config, HandleDelete, Order
<1>2. Without(t, t[d].name) = s
  <2>1. \A i \in DOMAIN t : t[i].name = t[d].name <=> i = d
    BY <1>1 DEF Distinct
  <2>2. (CHOOSE i \in DOMAIN t : t[i].name = t[d].name) = d
    BY <1>1, <2>1
  <2>3. \E i \in DOMAIN t : t[i].name = t[d].name
    BY <1>1
  <2> QED  BY <2>2, <2>3 DEF Without
<1>3. SaveSources(s, "deleted") /\ wanted' = [wanted EXCEPT !.sources = s] /\ store' = store
  BY <1>1, <1>2 DEF HandleDelete
<1>4. /\ s \in Seq(Source) /\ Len(s) = Len(t) - 1
      /\ \A i \in 1 .. Len(t) - 1 : s[i] = t[IF i < d THEN i ELSE i + 1]
  BY <1>1, RemoveAtIs
<1>5. d \in Nat /\ Len(t) \in Nat /\ DOMAIN t = 1 .. Len(t) /\ DOMAIN s = 1 .. Len(t) - 1
  BY <1>1, <1>4
<1> HIDE DEF s
<1>6. Distinct(s)
  <2> SUFFICES ASSUME NEW i \in DOMAIN s, NEW j \in DOMAIN s, s[i].name = s[j].name
               PROVE  i = j
    BY DEF Distinct
  <2> DEFINE Was(m) == IF m < d THEN m ELSE m + 1
  <2>1. s[i] = t[Was(i)] /\ s[j] = t[Was(j)] /\ Was(i) \in DOMAIN t /\ Was(j) \in DOMAIN t
    BY <1>4, <1>5
  <2>2. Was(i) = Was(j)
    BY <1>1, <2>1 DEF Distinct
  <2> QED  BY <1>5, <2>2
<1> QED  BY <1>1, <1>3, <1>4, <1>6, SourcesOrder

\* What is shown changes, the configuration and the calls do not.
LEMMA CallsSame ==
  ASSUME SettingsInv, UNCHANGED <<store, wanted, calls>>, view'.id = view.id,
         view'.kind = view.kind, view'.cfg = view.cfg
  PROVE  /\ InLine(calls', view'.id) /\ LeadsTo(calls', store', wanted') /\ CallInv' /\ WantedInv'
         /\ (Resetting' <=> Resetting) /\ (OnSources' <=> OnSources)
         /\ (OnSettings' <=> OnSettings) /\ Cfg' = Cfg
<1>1. (Shown' <=> Shown) /\ (OnSettings' <=> OnSettings) /\ (OnSources' <=> OnSources) /\ Cfg' = Cfg
  BY DEF Shown, OnSettings, OnSources, Cfg
<1>2. CallInv'
  BY <1>1 DEF SettingsInv, CallInv, Here
<1> QED  BY <1>1, <1>2 DEF SettingsInv, WantedInv, Resetting, Here

LEMMA DialogMoves ==
  ASSUME SettingsTypes, SettingsInv, OpenDialog \/ CancelDialog
  PROVE  SettingsInv'
<1>1. view \in Views
  BY DEF SettingsTypes
<1>2. /\ UNCHANGED <<store, wanted, calls>> /\ view'.id = view.id /\ view'.kind = view.kind
      /\ view'.cfg = view.cfg /\ view'.form = view.form /\ view'.touched = view.touched
  <2>1. CASE OpenDialog
    BY <1>1, <2>1 DEF OpenDialog, Views
  <2>2. CASE CancelDialog
    BY <1>1, <2>2 DEF CancelDialog, Views
  <2> QED  BY <2>1, <2>2
<1>3. /\ InLine(calls', view'.id) /\ LeadsTo(calls', store', wanted') /\ CallInv' /\ WantedInv'
      /\ (Resetting' <=> Resetting) /\ (OnSources' <=> OnSources)
      /\ (OnSettings' <=> OnSettings) /\ Cfg' = Cfg
  BY <1>2, CallsSame
<1>4. ViewInv'
  BY <1>2, <1>3 DEF SettingsInv, ViewInv
<1> QED  BY <1>3, <1>4 DEF SettingsInv

LEMMA EditStep ==
  ASSUME SettingsTypes, SettingsInv, NEW f \in Fields, NEW x, Edit(f, x)
  PROVE  SettingsInv'
<1>1. view \in Views /\ OnSettings /\ view.form \in Form
  BY DEF SettingsTypes, Edit, Views
<1>2. /\ UNCHANGED <<store, wanted, calls>>
      /\ view' = [view EXCEPT !.form = [view.form EXCEPT ![f] = x], !.touched = view.touched \cup {f}]
  BY <1>1 DEF Edit, Views
<1>3. /\ view'.id = view.id /\ view'.kind = view.kind /\ view'.cfg = view.cfg
      /\ view'.form = [view.form EXCEPT ![f] = x] /\ view'.touched = view.touched \cup {f}
  BY <1>1, <1>2 DEF Views
<1>4. /\ InLine(calls', view'.id) /\ LeadsTo(calls', store', wanted') /\ CallInv' /\ WantedInv'
      /\ (Resetting' <=> Resetting) /\ (OnSources' <=> OnSources)
      /\ (OnSettings' <=> OnSettings) /\ Cfg' = Cfg
  BY <1>2, <1>3, CallsSame
<1>5. /\ f # "ttl" => view'.form.ttl = view.form.ttl
      /\ f # "lines" => view'.form.lines = view.form.lines
      /\ f # "language" => view'.form.language = view.form.language
  BY <1>1, <1>3 DEF Form, Fields
<1>6. ViewInv'
  BY <1>1, <1>2, <1>3, <1>4, <1>5 DEF SettingsInv, ViewInv, Parsed, OnSources, OnSettings
<1> QED  BY <1>4, <1>6 DEF SettingsInv

\* A new view is mounted: nothing is ordered before it has been loaded.
LEMMA OpenStep ==
  ASSUME SettingsTypes, SettingsInv, NEW kind \in Kinds, OpenTab(kind)
  PROVE  SettingsInv'
<1> DEFINE id == view.id + 1
           c == Call("get", id, store, "load")
<1>1. /\ view \in Views /\ view.id \in Nat /\ calls \in Seq(Calls) /\ store \in Config
      /\ InLine(calls, view.id) /\ LeadsTo(calls, store, wanted) /\ CallInv /\ WantedInv
  BY DEF SettingsTypes, Views, SettingsInv
<1>2. view'.id = id /\ ~Shown' /\ wanted' = wanted /\ store' = store /\ id \in Nat
  BY <1>1 DEF OpenTab, Fresh, Shown
<1>3. \A j \in DOMAIN calls : calls[j].view < id
  <2> SUFFICES ASSUME NEW j \in DOMAIN calls PROVE calls[j].view < id
    OBVIOUS
  <2>1. calls[j].view \in Nat /\ calls[j].view <= view.id
    BY <1>1 DEF Calls, CallInv
  <2> QED  BY <1>1, <2>1
<1>4. c \in Calls /\ c.kind = "get" /\ c.view = id /\ c.next = "load" /\ c.done = FALSE
  <2>1. c \in Calls
    BY <1>1, <1>2, IsCall
  <2> QED  BY <2>1 DEF Call
<1> HIDE DEF id, c
<1>5. \A j \in DOMAIN calls : ~Loads(calls[j], id)
  <2> SUFFICES ASSUME NEW j \in DOMAIN calls, calls[j].view = id PROVE FALSE
    BY DEF Loads
  <2> QED  BY <1>2, <1>3
<1>6. InLine(calls, id)
  <2>1. \A j \in DOMAIN calls : Bars(calls[j], id) => Bars(calls[j], view.id)
    BY <1>5 DEF Bars
  <2> QED  BY <1>1, <1>5, <2>1 DEF InLine
<1>7. ~OnSources' /\ ~OnSettings'
  BY <1>2 DEF OnSources, OnSettings
<1>8. ViewInv'
  BY <1>7 DEF ViewInv
<1>9. ASSUME NEW q \in Seq(Calls), calls' = q,
             \A i \in DOMAIN q : (i \in DOMAIN calls /\ q[i] = calls[i]) \/ q[i] = c
      PROVE  CallInv'
  <2> SUFFICES ASSUME NEW i \in DOMAIN q
               PROVE  /\ q[i].view <= id
                      /\ q[i].view = id => q[i].next \notin {"reset", "saved"} /\ ~q[i].done
    BY <1>2, <1>9 DEF CallInv, Here
  <2>1. CASE q[i] = c
    BY <1>2, <1>4, <2>1
  <2>2. CASE i \in DOMAIN calls /\ q[i] = calls[i]
    <3>1. calls[i].view \in Nat /\ calls[i].view < id
      BY <1>1, <1>3, <2>2 DEF Calls
    <3> QED  BY <1>2, <2>2, <3>1
  <2> QED  BY <1>9, <2>1, <2>2
<1>10. CASE calls' = calls
  <2>1. CallInv'
    BY <1>1, <1>9, <1>10
  <2> QED  BY <1>1, <1>2, <1>6, <1>8, <1>10, <2>1 DEF SettingsInv, WantedInv
<1>11. CASE calls' = Append(calls, c)
  <2>1. InLine(Append(calls, c), id)
    BY <1>1, <1>4, <1>5, <1>6, LineGrows
  <2>2. LeadsTo(Append(calls, c), store, wanted)
    BY <1>1, <1>4, OtherLeads
  <2>3. Append(calls, c) \in Seq(Calls)
        /\ \A i \in DOMAIN Append(calls, c) :
             (i \in DOMAIN calls /\ Append(calls, c)[i] = calls[i]) \/ Append(calls, c)[i] = c
    BY <1>1, <1>4, Appended
  <2>4. CallInv'
    BY <1>9, <1>11, <2>3
  <2> QED  BY <1>1, <1>2, <1>8, <1>11, <2>1, <2>2, <2>4 DEF SettingsInv, WantedInv
<1>12. calls' = calls \/ calls' = Append(calls, c)
  BY DEF OpenTab, Ask, c, id
<1> QED  BY <1>10, <1>11, <1>12

\* The form is ordered as a whole.
LEMMA OrderStep ==
  ASSUME Calm, SettingsTypes, SettingsInv, Save
  PROVE  SettingsInv'
<1> DEFINE m == view.form
           a == [sources |-> Cfg.sources, ttl |-> Parsed(m).ttl, lines |-> Parsed(m).lines,
                 language |-> m.language]
           c == Call("save", view.id, a, "saved")
<1>1. /\ OnSettings /\ Shown /\ view \in Views /\ view.id \in Nat /\ m \in Form /\ wanted \in Config
      /\ calls \in Seq(Calls) /\ ~Busy("reset")
      /\ InLine(calls, view.id) /\ CallInv /\ ViewInv /\ WantedInv
  BY DEF Save, OnSettings, Order, SettingsTypes, SettingsInv, Views
<1>2. /\ Parsed(m) \in [ttl : Nat, lines : SUBSET Lines, language : Languages]
      /\ Parsed(m).language = m.language /\ Parsed(m).ttl = 2 * m.ttl /\ m.ttl \in Nat
  BY <1>1, ParsedIs DEF Parsed, Form
<1>3. a \in Config /\ NewConfig(a) = a
  <2>1. Cfg.sources \in Seq(Source)
    BY <1>1, CfgIs
  <2>2. a \in Config
    BY <1>2, <2>1 DEF Config
  <2> QED  BY <2>2, NewConfigIs
<1>4. calls' = Append(calls, c) /\ view' = [view EXCEPT !.saving = TRUE] /\ store' = store
  BY <1>3 DEF Save, Ask, FromForm
<1>5. /\ \A j \in DOMAIN calls : ~Bars(calls[j], view.id) /\ calls[j].next # "reset"
      /\ ~ResetComing(calls)
  BY <1>1, NoBar
<1>6. ~Resetting
  BY <1>5 DEF Resetting
<1>7. Ordered("ttl") = Parsed(m).ttl
  BY <1>1 DEF Ordered, ViewInv
<1>8. Ordered("lines") = Parsed(m).lines
  BY <1>1, <1>6 DEF Ordered, ViewInv
<1>9. Ordered("language") = m.language
  BY <1>1, <1>2 DEF Ordered, ViewInv
<1>10. wanted' = a
  <2>1. wanted' = [wanted EXCEPT !.ttl = Parsed(m).ttl, !.lines = Parsed(m).lines,
                                 !.language = m.language]
    BY <1>7, <1>8, <1>9 DEF Save
  <2>2. Cfg.sources = wanted.sources
    BY <1>1 DEF ViewInv
  <2> QED  BY <1>1, <2>1, <2>2 DEF Config
<1>11. c \in Calls
  BY <1>1, <1>3, IsCall
<1>12. c.kind = "save" /\ c.view = view.id /\ c.arg = a /\ c.next = "saved" /\ c.done = FALSE
  BY DEF Call
<1>13. /\ a.sources = wanted.sources /\ a.ttl = Parsed(m).ttl /\ a.lines = Parsed(m).lines
       /\ a.language = Parsed(m).language /\ Cfg.sources = wanted.sources
  BY <1>1, <1>2 DEF ViewInv
<1> HIDE DEF a, c
<1>14. /\ view'.id = view.id /\ view'.kind = view.kind /\ view'.cfg = view.cfg
       /\ view'.form = m /\ view'.touched = view.touched
  BY <1>1, <1>4 DEF Views
<1>15. Shown' /\ Cfg' = Cfg /\ OnSettings' /\ ~OnSources'
  BY <1>1, <1>14 DEF Shown, Cfg, OnSettings, OnSources
<1>16. InLine(calls', view.id)
  BY <1>1, <1>4, <1>5, <1>11, <1>12, LineGrows DEF Loads
<1>17. LeadsTo(calls', store, wanted')
  <2>1. Coming(c)
    BY <1>12 DEF Coming
  <2>2. LeadsTo(Append(calls, c), store, c.arg)
    BY <1>1, <1>5, <1>11, <2>1, SaveLeads
  <2> QED  BY <1>4, <1>10, <1>12, <2>2
<1>18. CallInv'
  BY <1>1, <1>4, <1>10, <1>11, <1>12, <1>13, <1>14, <1>15, CallMade
<1>19. ViewInv'
  BY <1>10, <1>13, <1>14, <1>15 DEF ViewInv, Parsed
<1>20. WantedInv'
  BY <1>1, <1>2, <1>10, <1>13 DEF WantedInv
<1> QED  BY <1>4, <1>14, <1>16, <1>17, <1>18, <1>19, <1>20 DEF SettingsInv

\* The reset of the allowlist.
LEMMA AskReset ==
  ASSUME Calm, SettingsTypes, SettingsInv, Reset
  PROVE  SettingsInv'
<1> DEFINE c == Call("reset", view.id, store, "reset")
<1>1. /\ OnSettings /\ Shown /\ view.id \in Nat /\ wanted \in Config /\ store \in Config
      /\ calls \in Seq(Calls) /\ ~Busy("reset") /\ LeadsTo(calls, store, wanted)
      /\ InLine(calls, view.id) /\ CallInv /\ ViewInv /\ WantedInv
  BY DEF Reset, OnSettings, Order, SettingsTypes, SettingsInv, Views
<1>2. /\ calls' = Append(calls, c) /\ view' = view /\ store' = store
      /\ wanted' = [wanted EXCEPT !.lines = DefaultLines]
  BY DEF Reset, Ask
<1>3. c \in Calls
  BY <1>1, IsCall
<1>4. c.kind = "reset" /\ c.view = view.id /\ c.next = "reset" /\ c.done = FALSE
  BY DEF Call
<1> HIDE DEF c
<1>5. /\ wanted'.sources = wanted.sources /\ wanted'.ttl = wanted.ttl
      /\ wanted'.language = wanted.language
  BY <1>1, <1>2 DEF Config
<1>6. /\ \A j \in DOMAIN calls : ~Bars(calls[j], view.id) /\ calls[j].next # "reset"
      /\ ~ResetComing(calls)
  BY <1>1, NoBar
<1>7. Shown' /\ Cfg' = Cfg /\ OnSettings' /\ ~OnSources'
  BY <1>1, <1>2 DEF Shown, Cfg, OnSettings, OnSources
<1>8. InLine(calls', view.id)
  BY <1>1, <1>2, <1>3, <1>4, <1>6, LineGrows DEF Loads
<1>9. LeadsTo(calls', store, wanted')
  <2>1. LeadsTo(Append(calls, c), store, [wanted EXCEPT !.lines = DefaultLines])
    BY <1>1, <1>3, <1>4, <1>6, OtherLeads
  <2> QED  BY <1>2, <2>1
<1>10. CallInv' /\ Resetting'
  BY <1>1, <1>2, <1>3, <1>4, <1>5, <1>7, CallMade
<1>11. ViewInv'
  BY <1>1, <1>2, <1>5, <1>7, <1>10 DEF ViewInv
<1>12. WantedInv'
  BY <1>1, <1>5 DEF WantedInv
<1> QED  BY <1>2, <1>8, <1>9, <1>10, <1>11, <1>12 DEF SettingsInv

LEMMA UserStep ==
  ASSUME Calm, SettingsAssumption, SettingsTypes, SettingsInv, User
  PROVE  SettingsInv'
<1>1. ASSUME NEW kind \in {"sources", "settings", "none"}, OpenTab(kind) PROVE SettingsInv'
  BY <1>1, OpenStep DEF Kinds
<1>2. ASSUME OnSources, NEW i \in DOMAIN Cfg.sources, ToggleSource(i) PROVE SettingsInv'
  BY <1>2, ToggleStep
<1>3. CASE OpenDialog \/ CancelDialog
  BY <1>3, DialogMoves
<1>4. CASE SubmitSource
  BY <1>4, AddStep
<1>5. CASE HandleDelete
  BY <1>5, DeleteStep
<1>6. ASSUME NEW f \in Fields, NEW x, Edit(f, x) PROVE SettingsInv'
  BY <1>6, EditStep
<1>7. CASE \/ \E n \in Minutes : Edit("ttl", n)
           \/ \E s \in SUBSET (Lines \cup {Comment}) : Edit("lines", s)
           \/ \E l \in Languages : Edit("language", l)
  BY <1>6, <1>7 DEF Fields
<1>8. CASE Save
  BY <1>8, OrderStep
<1>9. CASE Reset
  BY <1>9, AskReset
<1> QED  BY <1>1, <1>2, <1>3, <1>4, <1>5, <1>7, <1>8, <1>9 DEF User

LEMMA SettingsStep ==
  ASSUME Calm, SettingsAssumption, SettingsTypes, SettingsInv, [Next]_vars
  PROVE  SettingsInv'
<1>1. CASE UNCHANGED vars
  BY <1>1 DEF vars, SettingsInv, CallInv, ViewInv, WantedInv, Resetting, Here, Shown, OnSources,
              OnSettings, Cfg
<1>2. ASSUME NEW k \in DOMAIN calls, Go(k) PROVE SettingsInv'
  BY <1>2, GoStep
<1>3. ASSUME NEW k \in DOMAIN calls, Handle(k) PROVE SettingsInv'
  BY <1>3, HandleStep
<1>4. CASE User
  BY <1>4, UserStep
<1> QED  BY <1>1, <1>2, <1>3, <1>4 DEF Next

LEMMA SettingsStart ==
  ASSUME SettingsAssumption, StartTtl % 2 = 0, Distinct(StartSources), Init
  PROVE  SettingsInv
<1> DEFINE c == Call("get", 0, store, "startup")
<1>1. /\ wanted = store /\ calls = <<c>> /\ view = Fresh(0, "none")
      /\ store.ttl = StartTtl /\ store.sources = StartSources
  BY DEF Init
<1>2. c.kind = "get" /\ c.view = 0 /\ c.next = "startup" /\ c.done = FALSE
  BY DEF Call
<1> HIDE DEF c
<1>3. DOMAIN calls = {1} /\ calls[1] = c
  BY <1>1
<1>4. view.id = 0 /\ view.kind = "none"
  BY <1>1 DEF Fresh
<1>5. InLine(calls, view.id)
  BY <1>2, <1>3 DEF InLine
<1>6. LeadsTo(calls, store, wanted)
  BY <1>1, <1>2, <1>3 DEF LeadsTo, NoSave, Coming, LastSave, ResetComing, Outcome
<1>7. CallInv
  BY <1>2, <1>3, <1>4 DEF CallInv
<1>8. ViewInv /\ WantedInv
  BY <1>1, <1>4 DEF ViewInv, WantedInv, OnSources, OnSettings
<1> QED  BY <1>5, <1>6, <1>7, <1>8 DEF SettingsInv

\* No edit is lost: although every save sends back a copy of the whole
\* configuration that was taken earlier, and the user goes from tab to tab while
\* calls are under way, the configuration that the calls leave behind is what the
\* user ordered last, field by field - provided that calls take effect in order
\* and no button is pressed twice (Calm), that the number the program starts with
\* is one the form can show, and that no two sources have the same name.
THEOREM NoEditIsLost ==
  ASSUME Calm, StartTtl % 2 = 0, Distinct(StartSources)
  PROVE  Spec => []NoLostEdit
<1>1. Init => SettingsTypes /\ SettingsInv
  BY InitTypes, SettingsStart, SettingsAssumption
<1>2. SettingsTypes /\ SettingsInv /\ [Next]_vars => (SettingsTypes /\ SettingsInv)'
  BY StepTypes, SettingsStep, SettingsAssumption
<1>3. SettingsInv => NoLostEdit
  BY DEF SettingsInv, NoLostEdit, Quiet, LeadsTo, NoSave, ResetComing, Outcome
<1> QED  BY <1>1, <1>2, <1>3, PTL DEF Spec

=============================================================================
