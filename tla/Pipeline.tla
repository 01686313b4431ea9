------------------------------- MODULE Pipeline -------------------------------
(***************************************************************************)
(* filter/pipeline.go: one recvLoop, some workers and one sendLoop joined  *)
(* by two bounded channels, and the goroutines that start and close it.    *)
(*                                                                         *)
(*   driver -> recvLoop -> packetCh -> workers -> sendCh -> sendLoop -> net *)
(*                 |                      |                    |           *)
(*              dropped                blocked              dropped        *)
(*                                                                         *)
(* Each action runs a goroutine from one point where others can interfere  *)
(* to the next.  shouldBlock is a free choice here; BlockDecision models   *)
(* how it is made.  WinDivert is external: Recv on an open handle returns  *)
(* a captured packet or an error, Send succeeds or fails, and both fail    *)
(* once the handle is closed.                                              *)
(***************************************************************************)
EXTENDS Naturals, Sequences, FiniteSets

CONSTANTS
  Packets,     \* the packets that WinDivert may capture, each once
  Impostors,   \* those that carry the impostor flag
  Workers,     \* the worker goroutines
  Cap,         \* the capacity of packetCh and sendCh (4096 in the code)
  Closers,     \* the goroutines that call Close
  NoPacket     \* the hand of a goroutine that holds no packet

ASSUME PipelineAssumption ==
  /\ Impostors \subseteq Packets
  /\ Workers # {}
  /\ Cap \in Nat \ {0}
  /\ NoPacket \notin Packets

VARIABLES
  outside,   \* the packets not captured yet
  recv,      \* recvLoop: [pc, pkt]
  packetCh,
  worker,    \* worker[w]: [pc, pkt]
  sendCh,
  sender,    \* sendLoop: [pc, pkt]
  starter,   \* the goroutine in startProtection: where it is in Start
  closer,    \* closer[c]: where c is in Close
  started,   \* atomic.Bool
  open,      \* WinDivert.open, atomic.Bool
  closes,    \* the number of WinDivertClose calls on the handle
  done,      \* the channel done is closed
  panicked,  \* a Go panic took the process down
  raced,     \* history: the pairs of calls that had both read started before
             \* either of them reset it
  allowed, blocked, dropped,  \* the packets each counter counts
  sent       \* the packets that were handed back to the network

hands == <<recv, worker, sender>>
channels == <<packetCh, sendCh>>
counters == <<allowed, blocked, dropped>>
lifecycle == <<starter, closer, started, open, closes, done, panicked, raced>>
vars == <<outside, hands, channels, lifecycle, counters, sent>>

Hand(pc, p) == [pc |-> pc, pkt |-> p]
Off == Hand("off", NoPacket)
Idle == Hand("idle", NoPacket)
Exited == Hand("exited", NoPacket)

Init ==
  /\ outside = Packets
  /\ recv = Off
  /\ worker = [w \in Workers |-> Off]
  /\ sender = Off
  /\ packetCh = <<>> /\ sendCh = <<>>
  /\ starter = "created"
  /\ closer = [c \in Closers |-> "outside"]
  /\ started = FALSE /\ open = TRUE /\ closes = 0
  /\ done = FALSE /\ panicked = FALSE /\ raced = {}
  /\ allowed = {} /\ blocked = {} /\ dropped = {}
  /\ sent = {}

-----------------------------------------------------------------------------
\* Where a goroutine is; after a panic none of them runs any more.
RecvAt(pc) == ~panicked /\ recv.pc = pc
WorkerAt(w, pcs) == ~panicked /\ worker[w].pc \in pcs
SenderAt(pc) == ~panicked /\ sender.pc = pc
StarterAt(pc) == ~panicked /\ starter = pc
At(c, pc) == ~panicked /\ closer[c] = pc

-----------------------------------------------------------------------------
\* recvLoop

\* The select at the top of the loop.
RecvTop ==
  /\ RecvAt("idle")
  /\ recv' = IF done THEN Exited ELSE Hand("recv", NoPacket)
  /\ UNCHANGED <<outside, worker, sender, channels, lifecycle, counters, sent>>

\* Recv returns a packet.
RecvPacket(p) ==
  /\ RecvAt("recv")
  /\ closes = 0
  /\ p \in outside
  /\ outside' = outside \ {p}
  /\ recv' = Hand("have", p)
  /\ UNCHANGED <<worker, sender, channels, lifecycle, counters, sent>>

\* Recv returns an error; the second select decides between return and continue.
RecvError ==
  /\ RecvAt("recv")
  /\ recv' = IF done THEN Exited ELSE Idle
  /\ UNCHANGED <<outside, worker, sender, channels, lifecycle, counters, sent>>

\* WinDivert Send, with the counting of its error.
Send(p) ==
  \/ closes = 0 /\ sent' = sent \cup {p} /\ dropped' = dropped
  \/ dropped' = dropped \cup {p} /\ sent' = sent

\* An impostor goes straight back.
RecvReinject ==
  /\ RecvAt("have") /\ recv.pkt \in Impostors
  /\ Send(recv.pkt)
  /\ recv' = Idle
  /\ UNCHANGED <<outside, worker, sender, channels, lifecycle, allowed, blocked>>

\* Room in a channel; what a full packetCh makes recvLoop count as dropped.
Room(ch) == Len(ch) < Cap
OverflowSilent(p) == {}                 \* mutant: the drop is not counted
Overflow(p) == {p}

\* The non-blocking send on packetCh.
RecvEnqueue ==
  /\ RecvAt("have") /\ recv.pkt \notin Impostors
  /\ \/ /\ Room(packetCh)
        /\ packetCh' = Append(packetCh, recv.pkt)
        /\ dropped' = dropped
     \/ /\ ~Room(packetCh)
        /\ dropped' = dropped \cup Overflow(recv.pkt)
        /\ packetCh' = packetCh
  /\ recv' = Idle
  /\ UNCHANGED <<outside, worker, sender, sendCh, lifecycle, allowed, blocked, sent>>

RecvLoop ==
  RecvTop \/ (\E p \in Packets : RecvPacket(p)) \/ RecvError \/ RecvReinject \/ RecvEnqueue

-----------------------------------------------------------------------------
\* worker

WorkerTake(w) ==
  /\ WorkerAt(w, {"idle"})
  /\ packetCh # <<>>
  /\ worker' = [worker EXCEPT ![w] = Hand("decide", Head(packetCh))]
  /\ packetCh' = Tail(packetCh)
  /\ UNCHANGED <<outside, recv, sender, sendCh, lifecycle, counters, sent>>

\* The goroutine of w after it blocked a packet.
AfterBlockFall(p) == Hand("offer", p)   \* mutant: the continue is missing
AfterBlock(p) == Idle

\* shouldBlock said yes; the callback onBlock only logs.
WorkerBlock(w) ==
  /\ WorkerAt(w, {"decide"})
  /\ blocked' = blocked \cup {worker[w].pkt}
  /\ worker' = [worker EXCEPT ![w] = AfterBlock(worker[w].pkt)]
  /\ UNCHANGED <<outside, recv, sender, channels, lifecycle, allowed, dropped, sent>>

WorkerAllow(w) ==
  /\ WorkerAt(w, {"decide"})
  /\ allowed' = allowed \cup {worker[w].pkt}
  /\ worker' = [worker EXCEPT ![w] = Hand("offer", worker[w].pkt)]
  /\ UNCHANGED <<outside, recv, sender, channels, lifecycle, blocked, dropped, sent>>

\* The blocking send on sendCh.
WorkerOffer(w) ==
  /\ WorkerAt(w, {"offer"})
  /\ Room(sendCh)
  /\ sendCh' = Append(sendCh, worker[w].pkt)
  /\ worker' = [worker EXCEPT ![w] = Idle]
  /\ UNCHANGED <<outside, recv, sender, packetCh, lifecycle, counters, sent>>

\* The done case of the worker's two selects.
ListensWhileIdle == {"idle"}            \* mutant: plain send on sendCh
Listens == {"idle", "offer"}

WorkerExit(w) ==
  /\ WorkerAt(w, Listens)
  /\ done
  /\ worker' = [worker EXCEPT ![w] = Exited]
  /\ UNCHANGED <<outside, recv, sender, channels, lifecycle, counters, sent>>

Worker(w) ==
  WorkerTake(w) \/ WorkerBlock(w) \/ WorkerAllow(w) \/ WorkerOffer(w) \/ WorkerExit(w)

-----------------------------------------------------------------------------
\* sendLoop

SenderTake ==
  /\ SenderAt("idle")
  /\ sendCh # <<>>
  /\ sender' = Hand("send", Head(sendCh))
  /\ sendCh' = Tail(sendCh)
  /\ UNCHANGED <<outside, recv, worker, packetCh, lifecycle, counters, sent>>

SenderSend ==
  /\ SenderAt("send")
  /\ Send(sender.pkt)
  /\ sender' = Idle
  /\ UNCHANGED <<outside, recv, worker, channels, lifecycle, allowed, blocked>>

SenderExit ==
  /\ SenderAt("idle")
  /\ done
  /\ sender' = Exited
  /\ UNCHANGED <<outside, recv, worker, channels, lifecycle, counters, sent>>

SendLoop == SenderTake \/ SenderSend \/ SenderExit

-----------------------------------------------------------------------------
\* Start, called once by the goroutine that created the pipeline.

UnchangedTraffic == UNCHANGED <<outside, hands, channels, counters, sent>>

StartStore ==
  /\ StarterAt("created")
  /\ starter' = "storing"
  /\ started' = TRUE
  /\ UNCHANGED <<closer, open, closes, done, panicked, raced>> /\ UnchangedTraffic

StartSpawn ==
  /\ StarterAt("storing")
  /\ starter' = "returned"
  /\ recv' = Idle /\ worker' = [w \in Workers |-> Idle] /\ sender' = Idle
  /\ UNCHANGED <<outside, channels, counters, sent>>
  /\ UNCHANGED <<closer, started, open, closes, done, panicked, raced>>

Starter == StartStore \/ StartSpawn

-----------------------------------------------------------------------------
\* Close: Stop, then wd.Close once more.  app.go does not keep two calls from
\* overlapping, nor one from coming before or during Start.

GoTo(c, pc) == closer' = [closer EXCEPT ![c] = pc]

\* The check of started.
StopCheck(c) ==
  /\ At(c, "outside")
  /\ \/ /\ started
        /\ GoTo(c, "stop")
        /\ raced' = raced \cup {{c, d} : d \in {x \in Closers : closer[x] = "stop"}}
     \/ /\ ~started
        /\ GoTo(c, "close")
        /\ raced' = raced
  /\ UNCHANGED <<starter, started, open, closes, done, panicked>> /\ UnchangedTraffic

StillStarted == started                 \* mutant: the flag is not reset
Stopped == FALSE

StopStore(c) ==
  /\ At(c, "stop")
  /\ started' = Stopped
  /\ GoTo(c, "ifopen")
  /\ UNCHANGED <<starter, open, closes, done, panicked, raced>> /\ UnchangedTraffic

StopIfOpen(c) ==
  /\ At(c, "ifopen")
  /\ GoTo(c, IF open THEN "stopclose" ELSE "done")
  /\ UNCHANGED <<starter, started, open, closes, done, panicked, raced>> /\ UnchangedTraffic

\* wd.Close, first half: open.Store(false).  Stop and Close both call it.
CloseFlag(c, here, next) ==
  /\ At(c, here)
  /\ open' = FALSE
  /\ GoTo(c, next)
  /\ UNCHANGED <<starter, started, closes, done, panicked, raced>> /\ UnchangedTraffic

\* wd.Close, second half: WinDivertClose, whether or not it was called before.
CloseHandle(c, here, next) ==
  /\ At(c, here)
  /\ closes' = closes + 1
  /\ GoTo(c, next)
  /\ UNCHANGED <<starter, started, open, done, panicked, raced>> /\ UnchangedTraffic

\* close(p.done); closing a closed channel panics.
CloseDone(c) ==
  /\ At(c, "done")
  /\ panicked' = done
  /\ done' = TRUE
  /\ GoTo(c, IF done THEN "panicked" ELSE "close")
  /\ UNCHANGED <<starter, started, open, closes, raced>> /\ UnchangedTraffic

Closer(c) ==
  \/ StopCheck(c) \/ StopStore(c) \/ StopIfOpen(c)
  \/ CloseFlag(c, "stopclose", "stophandle") \/ CloseHandle(c, "stophandle", "done")
  \/ CloseDone(c)
  \/ CloseFlag(c, "close", "closehandle") \/ CloseHandle(c, "closehandle", "closed")

-----------------------------------------------------------------------------

Next ==
  \/ RecvLoop
  \/ \E w \in Workers : Worker(w)
  \/ SendLoop
  \/ Starter
  \/ \E c \in Closers : Closer(c)

Spec == Init /\ [][Next]_vars

\* The Go scheduler runs every goroutine that can run.  Whether Close is ever
\* called is the user's choice, so a closer gets fairness once it has begun.
\* RecvError while the handle is open is the driver's choice: recvLoop is
\* only obliged to move on when it has something to do.
Fairness ==
  /\ WF_vars(RecvLoop)
  /\ \A w \in Workers : WF_vars(Worker(w))
  /\ WF_vars(SendLoop)
  /\ WF_vars(Starter)
  /\ \A c \in Closers : WF_vars(closer[c] # "outside" /\ Closer(c))

FairSpec == Spec /\ Fairness

-----------------------------------------------------------------------------

RecvPCs == {"off", "idle", "recv", "have", "exited"}
WorkerPCs == {"off", "idle", "decide", "offer", "exited"}
SenderPCs == {"off", "idle", "send", "exited"}
CloserPCs == {"outside", "stop", "ifopen", "stopclose", "stophandle", "done",
              "panicked", "close", "closehandle", "closed"}
MaybePacket == Packets \cup {NoPacket}

\* Type invariant; a goroutine holds a packet exactly when it says so.
PipelineTypeOK ==
  /\ outside \subseteq Packets
  /\ recv \in [pc : RecvPCs, pkt : MaybePacket]
  /\ worker \in [Workers -> [pc : WorkerPCs, pkt : MaybePacket]]
  /\ sender \in [pc : SenderPCs, pkt : MaybePacket]
  /\ packetCh \in Seq(Packets) /\ Len(packetCh) <= Cap
  /\ sendCh \in Seq(Packets) /\ Len(sendCh) <= Cap
  /\ starter \in {"created", "storing", "returned"}
  /\ closer \in [Closers -> CloserPCs]
  /\ {started, open, done, panicked} \subseteq BOOLEAN
  /\ closes \in Nat
  /\ raced \subseteq SUBSET Closers
  /\ {allowed, blocked, dropped, sent} \subseteq SUBSET Packets
  /\ recv.pkt # NoPacket <=> recv.pc = "have"
  /\ \A w \in Workers : worker[w].pkt # NoPacket <=> worker[w].pc \in {"decide", "offer"}
  /\ sender.pkt # NoPacket <=> sender.pc = "send"

\* Where the packet p is, counting every copy.
Places(p) ==
  UNION {{<<"outside">> : x \in {p} \cap outside},
         {<<"recv">> : x \in {p} \cap {recv.pkt}},
         {<<"packetCh", i>> : i \in {j \in DOMAIN packetCh : packetCh[j] = p}},
         {<<"worker", w>> : w \in {u \in Workers : worker[u].pkt = p}},
         {<<"sendCh", i>> : i \in {j \in DOMAIN sendCh : sendCh[j] = p}},
         {<<"sender">> : x \in {p} \cap {sender.pkt}},
         {<<"blocked">> : x \in {p} \cap blocked},
         {<<"dropped">> : x \in {p} \cap dropped},
         {<<"sent">> : x \in {p} \cap sent}}

\* Conservation: every packet is in exactly one place, so none is handled by
\* two goroutines, sent twice or lost without being counted, until done is
\* closed; then a worker may throw away the packet it cannot queue.
PacketsConserved ==
  \A p \in Packets :
    \/ Cardinality(Places(p)) = 1
    \/ done /\ p \in allowed /\ Places(p) = {}

\* The filter filters: a blocked packet never goes back to the network, nor
\* does a packet that was neither allowed nor an impostor.
OnlyAllowedIsSent ==
  /\ sent \subseteq allowed \cup Impostors
  /\ blocked \cap (sent \cup allowed) = {}

\* "Stop gracefully shuts down the pipeline" (the comment on Stop): it does
\* not take the process down.  It does when two calls overlap at the start.
NeverPanics == ~panicked

\* A call of Stop panics only if it raced with another between the check of
\* started and its reset.  Calls that overlap later, at the handle, at done or
\* in the second wd.Close, or that meet Start, in any number, do no harm.
OnlyRacesPanic ==
  \A c \in Closers :
    closer[c] = "panicked" => \E d \in Closers \ {c} : {c, d} \in raced

\* "Close shuts down the pipeline and closes the WinDivert handle" (the
\* comment on Close): once it has returned, the pipeline is not running.  It is
\* when Close comes before Start.
ClosedStaysDown == \A c \in Closers : closer[c] = "closed" => ~started

AllExited ==
  /\ recv.pc = "exited"
  /\ \A w \in Workers : worker[w].pc = "exited"
  /\ sender.pc = "exited"

\* No goroutine leaks: a Close that finds the pipeline started, be it before
\* Start has spawned anything and whatever other calls do, makes every goroutine
\* return, also one waiting in Recv and a worker waiting for room in sendCh.
CloseEndsGoroutines == (\E c \in Closers : closer[c] = "stop") ~> AllExited \/ panicked

\* The packets that were captured and are neither blocked, dropped nor sent.
InFlight == Packets \ (outside \cup blocked \cup dropped \cup sent)

\* While nobody closes the pipeline, it never holds on to a packet (each comes
\* once, so that all are settled in the end if each of them is).
PacketSettles == InFlight # {} ~> InFlight = {} \/ done

=============================================================================
