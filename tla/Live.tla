--------------------------------- MODULE Live ---------------------------------
(***************************************************************************)
(* What the window shows of the running filter: the samples of the chart   *)
(* (App.tsx, the "stats" event), the log and the list of blocked packets   *)
(* (the "log" event, refresh) and the dialog that names the lists a        *)
(* blocked address is on (ChartsView.tsx), with the Go side that feeds     *)
(* them (eventsEmitter, the log's forwarding goroutine, GetLogs and        *)
(* LookupBlockSource in app.go).                                           *)
(*                                                                         *)
(* inbox is the queue of messages from Go to the window, as in Window.     *)
(* Time is abstract: a sample may always turn out too old for the chart,   *)
(* and two events may always come too close together.                      *)
(***************************************************************************)
EXTENDS Integers, Sequences, SequencesExt

CONSTANTS
  IPs,         \* destination addresses of blocked packets
  Nobody,      \* no address
  Limit,       \* the log entries the window keeps and asks for (200)
  BlockLimit,  \* the blocked packets the window keeps (500)
  Protocols,   \* what the log calls the protocols of packets
  MaxEvents    \* bound: how many packets, ticks and clicks there are

ASSUME LiveAssumption ==
  /\ Nobody \notin IPs
  /\ Limit \in Nat \ {0} /\ BlockLimit \in Nat \ {0}
  /\ MaxEvents \in Nat

VARIABLES
  events,   \* the number of packets, ticks and clicks so far
  inbox,    \* the messages on their way to the window
  count,    \* the counters of the running pipeline
  since,    \* history: the packets really decided since the last stats event
  log,      \* the log: what the ring has been given, the oldest first
  sent,     \* how many of them were emitted as "log" events
  mounted,  \* the listeners are registered
  charts,   \* the charts tab is open, collectingRef.current
  prev,     \* prevStatsRef.current, <<>> before the first event
  history,  \* history of App.tsx, with what really happened in each interval
  refresh,  \* refresh's call of GetLogs: where it is, and the entries it read
  logs,     \* logs of App.tsx, the newest first
  fresh,    \* history: the "log" events handled since logs was last replaced
  blocked,  \* blockedEntries
  dialog,   \* ChartsView: dialogIP, dialogSources, loadingSource
  lookup,   \* the calls of LookupBlockSource so far
  orderly   \* history: the calls of this ChartsView were answered in order

packets == <<count, since>>
entries == <<log, sent>>
samples == <<prev, history>>
lists == <<logs, fresh, blocked>>
search == <<dialog, lookup, orderly>>
liveVars == <<events, inbox, packets, entries, mounted, charts, samples, refresh, lists, search>>

None == [blocked |-> 0, allowed |-> 0]
Closed == [ip |-> Nobody, sources |-> {}, loading |-> FALSE]
Newest(s, n) == SubSeq(s, 1, IF Len(s) < n THEN Len(s) ELSE n)

LiveInit ==
  /\ events = 0 /\ inbox = <<>>
  /\ count = None /\ since = None
  /\ log = <<>> /\ sent = 0
  /\ mounted = FALSE /\ charts = FALSE
  /\ prev = <<>> /\ history = <<>>
  /\ refresh = [pc |-> "called", read |-> <<>>]
  /\ logs = <<>> /\ fresh = 0 /\ blocked = <<>>
  /\ dialog = Closed /\ lookup = <<>> /\ orderly = TRUE

Receive(kind) == inbox # <<>> /\ Head(inbox)[1] = kind /\ inbox' = Tail(inbox)
Post(m) == inbox' = Append(inbox, m)
Emit(m) == inbox' = IF mounted THEN Append(inbox, m) ELSE inbox
Message == Head(inbox)[2]
Event == events < MaxEvents /\ events' = events + 1

\* The effect that runs once sets the listeners; refresh, called just before,
\* comes to GetLogs after its other calls.
Mount ==
  /\ ~mounted /\ mounted' = TRUE
  /\ UNCHANGED <<events, inbox, packets, entries, charts, samples, refresh, lists, search>>

-----------------------------------------------------------------------------
\* The filter: packets are decided and entries logged.  The name of a protocol
\* other than TCP, UDP and ICMP is "?".

Entry(kind, ip, proto) == [n |-> Len(log) + 1, kind |-> kind, ip |-> ip, proto |-> proto]

BlockPacket(ip, proto) ==
  /\ Event
  /\ count' = [count EXCEPT !.blocked = @ + 1]
  /\ since' = [since EXCEPT !.blocked = @ + 1]
  /\ log' = Append(log, Entry("BLOCK", ip, proto))
  /\ UNCHANGED <<inbox, sent, mounted, charts, samples, refresh, lists, search>>

AllowPacket ==
  /\ Event
  /\ count' = [count EXCEPT !.allowed = @ + 1]
  /\ since' = [since EXCEPT !.allowed = @ + 1]
  /\ UNCHANGED <<inbox, entries, mounted, charts, samples, refresh, lists, search>>

\* Protection is switched off and on, which may fail: the new pipeline, or none
\* at all, counts from zero.
RestartProtection ==
  /\ Event
  /\ count' = None
  /\ \E kind \in {"INFO", "ERROR"} : log' = Append(log, Entry(kind, Nobody, "-"))
  /\ UNCHANGED <<inbox, since, sent, mounted, charts, samples, refresh, lists, search>>

\* The goroutine of startup that forwards the entries of its subscription; it
\* keeps up, as a subscription holds 256 entries.
ForwardEntry ==
  /\ sent < Len(log)
  /\ sent' = sent + 1
  /\ Emit(<<"log", log[sent + 1]>>)
  /\ UNCHANGED <<events, packets, log, mounted, charts, samples, refresh, lists, search>>

\* eventsEmitter, once a second.
EmitStats ==
  /\ Event
  /\ Emit(<<"stats", [count |-> count, real |-> since]>>)
  /\ since' = None
  /\ UNCHANGED <<count, entries, mounted, charts, samples, refresh, lists, search>>

-----------------------------------------------------------------------------
\* The chart's samples.

\* prevStatsRef.current = s, whatever tab is open.
PrevAfter(s) == <<s>>

\* A smaller counter is that of another pipeline.
AnyDelta(d) == TRUE                     \* mutant: no test
Usable(d) == d.blocked >= 0 /\ d.allowed >= 0

Delta(s, p) == [blocked |-> s.blocked - p.blocked, allowed |-> s.allowed - p.allowed]

HandleStats ==
  /\ Receive("stats")
  /\ \E apart \in BOOLEAN, old \in 0 .. Len(history) :
       history' = IF charts /\ prev # <<>> /\ apart /\ Usable(Delta(Message.count, prev[1]))
                  THEN SubSeq(Append(history, [delta |-> Delta(Message.count, prev[1]),
                                               real |-> Message.real]),
                              old + 1, Len(history) + 1)
                  ELSE history
  /\ prev' = PrevAfter(Message.count)
  /\ UNCHANGED <<events, packets, entries, mounted, charts, refresh, lists, search>>

-----------------------------------------------------------------------------
\* The log and the list of blocked packets.

\* GetLogs reads the ring; its answer is posted after that.
ReadLogs ==
  /\ mounted /\ refresh.pc = "called"
  /\ refresh' = [pc |-> "answer", read |-> log]
  /\ UNCHANGED <<events, inbox, packets, entries, mounted, charts, samples, lists, search>>

AnswerLogs ==
  /\ refresh.pc = "answer"
  /\ refresh' = [pc |-> "answered", read |-> <<>>]
  /\ Post(<<"logs", Newest(Reverse(refresh.read), Limit)>>)
  /\ UNCHANGED <<events, packets, entries, mounted, charts, samples, lists, search>>

HandleLogs ==
  /\ Receive("logs")
  /\ logs' = Message /\ fresh' = 0
  /\ UNCHANGED <<events, packets, entries, mounted, charts, samples, refresh, blocked, search>>

\* The entry comes first, the oldest goes.
OldestStays(e) == <<e>> \o Newest(logs, Limit)   \* mutant: off by one
Prepended(e) == Newest(<<e>> \o logs, Limit)

\* The pattern of App.tsx: \w+ does not match "?".
Listed(e) == e.kind = "BLOCK" /\ e.proto # "?"

HandleLog ==
  /\ Receive("log")
  /\ logs' = Prepended(Message) /\ fresh' = fresh + 1
  /\ blocked' = IF Listed(Message) THEN Newest(<<Message>> \o blocked, BlockLimit) ELSE blocked
  /\ UNCHANGED <<events, packets, entries, mounted, charts, samples, refresh, search>>

ClearLogs ==
  /\ mounted /\ Event
  /\ logs' = <<>> /\ fresh' = 0 /\ blocked' = <<>>
  /\ UNCHANGED <<inbox, packets, entries, mounted, charts, samples, refresh, search>>

-----------------------------------------------------------------------------
\* ChartsView: opening it makes a new one, closing it forgets its dialog.

SwitchTab ==
  /\ mounted /\ Event
  /\ charts' = ~charts
  /\ dialog' = Closed /\ orderly' = TRUE
  /\ lookup' = [k \in DOMAIN lookup |-> [lookup[k] EXCEPT !.mounted = FALSE]]
  /\ UNCHANGED <<inbox, packets, entries, mounted, samples, refresh, lists>>

\* The dialog lies over the list: one entry is clicked at a time.
BlockClick(e) ==
  /\ charts /\ dialog.ip = Nobody
  /\ Event
  /\ dialog' = [ip |-> e.ip, sources |-> {}, loading |-> TRUE]
  /\ lookup' = Append(lookup, [ip |-> e.ip, asked |-> TRUE, mounted |-> TRUE])
  /\ UNCHANGED <<inbox, packets, entries, mounted, charts, samples, refresh, lists, orderly>>

\* LookupBlockSource: the lists that contain ip are abstracted to {ip}.  The
\* calls are goroutines of their own and end in any order; one may fail.
AnswerLookup(k) ==
  /\ lookup[k].asked
  /\ lookup' = [lookup EXCEPT ![k].asked = FALSE]
  /\ orderly' = (orderly /\ (lookup[k].mounted =>
                   \A j \in 1 .. k - 1 : ~(lookup[j].asked /\ lookup[j].mounted)))
  /\ \E ok \in BOOLEAN : Post(<<"sources", [call |-> k, ok |-> ok]>>)
  /\ UNCHANGED <<events, packets, entries, mounted, charts, samples, refresh, lists, dialog>>

\* sources || [], or [] in the catch.
KeptOnError(m) == IF m.ok THEN {lookup[m.call].ip} ELSE dialog.sources  \* mutant
Found(m) == IF m.ok THEN {lookup[m.call].ip} ELSE {}

HandleLookup ==
  /\ Receive("sources")
  /\ dialog' = IF lookup[Message.call].mounted
               THEN [dialog EXCEPT !.sources = Found(Message), !.loading = FALSE]
               ELSE dialog
  /\ UNCHANGED <<events, packets, entries, mounted, charts, samples, refresh, lists,
                 lookup, orderly>>

CloseDialog ==
  /\ dialog.ip # Nobody
  /\ dialog' = [dialog EXCEPT !.ip = Nobody, !.sources = {}]
  /\ UNCHANGED <<events, inbox, packets, entries, mounted, charts, samples, refresh, lists,
                 lookup, orderly>>

-----------------------------------------------------------------------------

LiveNext ==
  \/ Mount \/ AllowPacket \/ RestartProtection \/ ForwardEntry \/ EmitStats
  \/ \E ip \in IPs, proto \in Protocols : BlockPacket(ip, proto)
  \/ HandleStats \/ ReadLogs \/ AnswerLogs \/ HandleLogs \/ HandleLog
  \/ ClearLogs \/ SwitchTab \/ CloseDialog \/ HandleLookup
  \/ \E i \in DOMAIN blocked : BlockClick(blocked[i])
  \/ \E k \in DOMAIN lookup : AnswerLookup(k)

LiveSpec == LiveInit /\ [][LiveNext]_liveVars

-----------------------------------------------------------------------------

Packets == [blocked : Int, allowed : Int]

\* Type invariant.
LiveTypeOK ==
  /\ {count, since} \subseteq Packets
  /\ events \in 0 .. MaxEvents /\ sent \in 0 .. Len(log)
  /\ {mounted, charts, orderly} \subseteq BOOLEAN
  /\ fresh \in Nat
  /\ Len(prev) <= 1 /\ ToSet(prev) \subseteq Packets
  /\ refresh.pc \in {"called", "answer", "answered"}
  /\ Len(logs) <= Limit /\ Len(blocked) <= BlockLimit
  /\ ToSet(logs) \cup ToSet(blocked) \subseteq ToSet(log)
  /\ dialog \in [ip : IPs \cup {Nobody}, sources : SUBSET IPs, loading : BOOLEAN]

\* The chart does not invent packets: a sample shows at most what was really
\* blocked and allowed between the two stats events it lies between, although
\* protection was restarted or the tab was closed in the meantime.
SamplesAreReal ==
  \A i \in DOMAIN history :
    /\ history[i].delta.blocked \in 0 .. history[i].real.blocked
    /\ history[i].delta.allowed \in 0 .. history[i].real.allowed

Idle == mounted /\ inbox = <<>> /\ refresh.pc = "answered" /\ sent = Len(log)

\* The window's log heals: refresh's answer may overwrite entries or repeat
\* them, but once Limit entries have come since, the window has exactly the
\* newest Limit entries of the log, the newest first.
LogsHeal == Idle /\ fresh >= Limit => logs = Newest(Reverse(log), Limit)

\* The dialog ends up with the sources of the address it names, or none when
\* the lookup failed, if the lookups are answered in the order they were made.
DialogSettles ==
  /\ inbox = <<>> /\ \A k \in DOMAIN lookup : ~lookup[k].asked
  /\ dialog.ip # Nobody /\ orderly
  => ~dialog.loading /\ dialog.sources \subseteq {dialog.ip}

\* The log is complete and in order ("newest first, matching event prepend").
LogsInOrder == Idle => IsPrefix(logs, Reverse(log))

\* The dialog names the lists of its own address ("Blocked by:").
DialogIsRight == ~dialog.loading /\ dialog.ip # Nobody => dialog.sources \subseteq {dialog.ip}

\* "click any blocked IP to see which blocklists contain it" (README): a blocked
\* packet that the log shows as it comes is also in the list of the chart.
EveryBlockIsListed ==
  \A i \in 1 .. (IF fresh < Len(logs) THEN fresh ELSE Len(logs)) :
    logs[i].kind = "BLOCK" /\ Len(blocked) < BlockLimit => logs[i] \in ToSet(blocked)

=============================================================================
