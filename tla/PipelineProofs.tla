----------------------------- MODULE PipelineProofs -----------------------------
(***************************************************************************)
(* Proofs about Pipeline, for every set of packets and workers and every   *)
(* capacity: type correctness, that the filter filters, that packets are   *)
(* conserved, and the one way in which Close panics.                       *)
(*                                                                         *)
(* OnlyAllowedIsSent is not inductive: that a packet is not decided twice  *)
(* depends on there being one undecided copy of it, and that what is sent  *)
(* was allowed on everything past a worker having been allowed.            *)
(***************************************************************************)
EXTENDS Pipeline, TLAPS, SequenceTheorems, FiniteSetTheorems

Queued == {packetCh[i] : i \in DOMAIN packetCh}
Offered == {sendCh[i] : i \in DOMAIN sendCh}
Decided == allowed \cup blocked
Deciding(w, p) == worker[w].pc = "decide" /\ worker[w].pkt = p

\* There is at most one undecided copy of a packet, and no decided one.
OneCopy ==
  /\ outside \cap Decided = {}
  /\ recv.pkt \notin outside \cup Decided
  /\ \A i \in DOMAIN packetCh :
       /\ packetCh[i] \notin outside \cup Decided \cup {recv.pkt}
       /\ \A j \in DOMAIN packetCh : packetCh[i] = packetCh[j] => i = j
  /\ \A w \in Workers : worker[w].pc = "decide" =>
       /\ worker[w].pkt \notin outside \cup Decided \cup {recv.pkt} \cup Queued
       /\ \A u \in Workers : Deciding(u, worker[w].pkt) => u = w

\* Impostors never reach a worker; what is past a worker has been allowed.
Filtered ==
  /\ Queued \cap Impostors = {}
  /\ \A w \in Workers : worker[w].pc = "decide" => worker[w].pkt \notin Impostors
  /\ \A w \in Workers : worker[w].pc = "offer" => worker[w].pkt \in allowed
  /\ Offered \subseteq allowed
  /\ sender.pc = "send" => sender.pkt \in allowed
  /\ blocked \cap (allowed \cup Impostors) = {}

PipelineInv == PipelineTypeOK /\ OneCopy /\ Filtered /\ OnlyAllowedIsSent

-----------------------------------------------------------------------------

LEMMA PipelineInitInv == Init => PipelineInv
<1> SUFFICES ASSUME Init PROVE PipelineInv OBVIOUS
<1>1. /\ recv = Off /\ sender = Off /\ Off \in [pc : {"off"}, pkt : {NoPacket}]
      /\ \A w \in Workers : worker[w] = Off
  BY DEF Init, Off, Hand
<1>2. packetCh = <<>> /\ sendCh = <<>> /\ Queued = {} /\ Offered = {} /\ Decided = {}
  BY DEF Init, Queued, Offered, Decided
<1>3. PipelineTypeOK
  <2>1. packetCh \in Seq(Packets) /\ Len(packetCh) <= Cap /\ sendCh \in Seq(Packets) /\ Len(sendCh) <= Cap
    BY <1>2, PipelineAssumption
  <2>2. /\ recv \in [pc : RecvPCs, pkt : MaybePacket] /\ recv.pkt = NoPacket /\ recv.pc = "off"
        /\ sender \in [pc : SenderPCs, pkt : MaybePacket] /\ sender.pkt = NoPacket /\ sender.pc = "off"
    BY <1>1 DEF RecvPCs, SenderPCs, MaybePacket
  <2>3. /\ worker \in [Workers -> [pc : WorkerPCs, pkt : MaybePacket]]
        /\ \A w \in Workers : worker[w].pkt = NoPacket /\ worker[w].pc = "off"
    BY <1>1 DEF Init, WorkerPCs, MaybePacket
  <2>4. closer \in [Closers -> CloserPCs]
    BY DEF Init, CloserPCs
  <2> QED  BY <2>1, <2>2, <2>3, <2>4 DEF Init, PipelineTypeOK
<1>4. OneCopy
  BY <1>1, <1>2, PipelineAssumption DEF Init, OneCopy
<1>5. Filtered /\ OnlyAllowedIsSent
  BY <1>1, <1>2 DEF Init, Filtered, OnlyAllowedIsSent
<1> QED  BY <1>3, <1>4, <1>5 DEF PipelineInv

\* recvLoop

LEMMA RecvTopInv == ASSUME PipelineInv, RecvTop PROVE PipelineInv'
  BY PipelineAssumption
  DEF RecvTop, RecvAt, Idle, Exited, Hand, PipelineInv, PipelineTypeOK, OneCopy, Filtered,
      OnlyAllowedIsSent, Queued, Offered, Decided, Deciding, RecvPCs, MaybePacket, channels,
      lifecycle, counters

LEMMA RecvPacketInv ==
  ASSUME PipelineInv, NEW p \in Packets, RecvPacket(p) PROVE PipelineInv'
  BY PipelineAssumption
  DEF RecvPacket, RecvAt, Hand, PipelineInv, PipelineTypeOK, OneCopy, Filtered,
      OnlyAllowedIsSent, Queued, Offered, Decided, Deciding, RecvPCs, MaybePacket, channels,
      lifecycle, counters

LEMMA RecvErrorInv == ASSUME PipelineInv, RecvError PROVE PipelineInv'
  BY PipelineAssumption
  DEF RecvError, RecvAt, Idle, Exited, Hand, PipelineInv, PipelineTypeOK, OneCopy, Filtered,
      OnlyAllowedIsSent, Queued, Offered, Decided, Deciding, RecvPCs, MaybePacket, channels,
      lifecycle, counters

LEMMA RecvReinjectInv == ASSUME PipelineInv, RecvReinject PROVE PipelineInv'
  BY PipelineAssumption
  DEF RecvReinject, Send, RecvAt, Idle, Hand, PipelineInv, PipelineTypeOK, OneCopy, Filtered,
      OnlyAllowedIsSent, Queued, Offered, Decided, Deciding, RecvPCs, MaybePacket, channels,
      lifecycle, counters

LEMMA RecvEnqueueInv == ASSUME PipelineInv, RecvEnqueue PROVE PipelineInv'
<1> DEFINE p == recv.pkt
<1>1. /\ p \in Packets /\ p \notin Impostors /\ recv' = Idle
      /\ UNCHANGED <<outside, worker, sender, sendCh, lifecycle, allowed, blocked, sent>>
  BY DEF RecvEnqueue, RecvAt, PipelineInv, PipelineTypeOK, MaybePacket
<1>2. /\ Idle \in [pc : RecvPCs, pkt : MaybePacket] /\ Idle.pkt = NoPacket /\ Idle.pc = "idle"
      /\ NoPacket \notin Packets
  BY PipelineAssumption DEF Idle, Hand, RecvPCs, MaybePacket
<1>3. CASE Room(packetCh) /\ packetCh' = Append(packetCh, p) /\ dropped' = dropped
  <2>1. /\ packetCh \in Seq(Packets) /\ packetCh' \in Seq(Packets)
        /\ Len(packetCh') = Len(packetCh) + 1 /\ Len(packetCh') <= Cap
        /\ DOMAIN packetCh' = DOMAIN packetCh \cup {Len(packetCh) + 1}
        /\ Len(packetCh) + 1 \notin DOMAIN packetCh
        /\ \A i \in DOMAIN packetCh : packetCh'[i] = packetCh[i]
        /\ packetCh'[Len(packetCh) + 1] = p
    BY <1>1, <1>3, PipelineAssumption DEF Room, PipelineInv, PipelineTypeOK
  <2>2. Queued' = Queued \cup {p}
    BY <2>1 DEF Queued
  <2>3. PipelineTypeOK'
    BY <1>1, <1>2, <1>3, <2>1 DEF PipelineInv, PipelineTypeOK, lifecycle
  <2>4. OneCopy'
    BY <1>1, <1>2, <2>1, <2>2 DEF PipelineInv, PipelineTypeOK, OneCopy, Queued, Decided, Deciding,
       MaybePacket
  <2>5. Filtered' /\ OnlyAllowedIsSent'
    BY <1>1, <2>2 DEF PipelineInv, Filtered, OnlyAllowedIsSent, Offered
  <2> QED  BY <2>3, <2>4, <2>5 DEF PipelineInv
<1>4. CASE packetCh' = packetCh /\ dropped' = dropped \cup Overflow(p)
  <2>1. PipelineTypeOK'
    BY <1>1, <1>2, <1>4 DEF PipelineInv, PipelineTypeOK, lifecycle, Overflow
  <2>2. OneCopy'
    BY <1>1, <1>2, <1>4 DEF PipelineInv, PipelineTypeOK, OneCopy, Queued, Decided, Deciding,
       MaybePacket
  <2>3. Filtered' /\ OnlyAllowedIsSent'
    BY <1>1, <1>4 DEF PipelineInv, Filtered, OnlyAllowedIsSent, Queued, Offered
  <2> QED  BY <2>1, <2>2, <2>3 DEF PipelineInv
<1> QED  BY <1>3, <1>4 DEF RecvEnqueue

-----------------------------------------------------------------------------
\* worker

LEMMA WorkerTakeInv ==
  ASSUME PipelineInv, NEW w \in Workers, WorkerTake(w) PROVE PipelineInv'
<1> DEFINE p == packetCh[1]
<1>1. /\ worker[w].pc = "idle" /\ p \in Packets /\ p \in Queued
      /\ packetCh \in Seq(Packets) /\ packetCh' \in Seq(Packets)
      /\ Len(packetCh') = Len(packetCh) - 1 /\ Len(packetCh') <= Cap
      /\ 1 \in DOMAIN packetCh
      /\ \A i \in DOMAIN packetCh' : /\ i + 1 \in DOMAIN packetCh /\ i + 1 # 1 /\ i \in Nat
                                    /\ packetCh'[i] = packetCh[i + 1]
      /\ worker' = [worker EXCEPT ![w] = Hand("decide", p)]
      /\ UNCHANGED <<outside, recv, sender, sendCh, lifecycle, counters, sent>>
  BY PipelineAssumption DEF WorkerTake, WorkerAt, PipelineInv, PipelineTypeOK, Queued
<1>2. /\ Hand("decide", p) \in [pc : WorkerPCs, pkt : MaybePacket]
      /\ Hand("decide", p).pc = "decide" /\ Hand("decide", p).pkt = p /\ p # NoPacket
  BY <1>1, PipelineAssumption DEF Hand, WorkerPCs, MaybePacket
<1>3. Queued' \subseteq Queued \ {p}
  BY <1>1 DEF PipelineInv, OneCopy, Queued
<1>4. PipelineTypeOK'
  BY <1>1, <1>2 DEF PipelineInv, PipelineTypeOK, lifecycle, counters
<1>5. OneCopy'
  <2>1. worker'[w] = Hand("decide", p) /\ \A u \in Workers : u # w => worker'[u] = worker[u]
    BY <1>1 DEF PipelineInv, PipelineTypeOK
  <2>2. \A i \in DOMAIN packetCh' :
          /\ packetCh'[i] \notin outside \cup Decided \cup {recv.pkt}
          /\ \A j \in DOMAIN packetCh' : packetCh'[i] = packetCh'[j] => i = j
    BY <1>1 DEF PipelineInv, OneCopy
  <2>3. p \notin outside \cup Decided \cup {recv.pkt} \cup Queued'
    BY <1>1, <1>3 DEF PipelineInv, OneCopy
  <2>4. \A u \in Workers : u # w /\ worker[u].pc = "decide" =>
          /\ worker[u].pkt \notin outside \cup Decided \cup {recv.pkt} \cup Queued'
          /\ worker[u].pkt # p
          /\ \A v \in Workers : Deciding(v, worker[u].pkt) => v = u
    BY <1>1, <1>3 DEF PipelineInv, OneCopy
  <2>5. \A u \in Workers : worker'[u].pc = "decide" =>
          /\ worker'[u].pkt \notin outside \cup Decided \cup {recv.pkt} \cup Queued'
          /\ \A v \in Workers :
               worker'[v].pc = "decide" /\ worker'[v].pkt = worker'[u].pkt => v = u
    BY <1>2, <2>1, <2>3, <2>4 DEF Deciding
  <2>6. outside \cap Decided = {} /\ recv.pkt \notin outside \cup Decided
    BY DEF PipelineInv, OneCopy
  <2>7. outside' = outside /\ recv' = recv /\ Decided' = Decided
    BY <1>1 DEF Decided, counters
  <2> QED  BY <2>2, <2>5, <2>6, <2>7 DEF OneCopy, Deciding
<1>6. Filtered' /\ OnlyAllowedIsSent'
  BY <1>1, <1>2, <1>3 DEF PipelineInv, PipelineTypeOK, Filtered, OnlyAllowedIsSent, Offered, counters
<1> QED  BY <1>4, <1>5, <1>6 DEF PipelineInv

LEMMA WorkerBlockInv ==
  ASSUME PipelineInv, NEW w \in Workers, WorkerBlock(w) PROVE PipelineInv'
  BY PipelineAssumption
  DEF WorkerBlock, WorkerAt, AfterBlock, Idle, Hand, PipelineInv, PipelineTypeOK, OneCopy, Filtered, OnlyAllowedIsSent, Queued,
      Offered, Decided, Deciding, WorkerPCs, MaybePacket,
      channels, lifecycle

LEMMA WorkerAllowInv ==
  ASSUME PipelineInv, NEW w \in Workers, WorkerAllow(w) PROVE PipelineInv'
  BY PipelineAssumption
  DEF WorkerAllow, WorkerAt, Hand, PipelineInv, PipelineTypeOK, OneCopy, Filtered, OnlyAllowedIsSent, Queued,
      Offered, Decided, Deciding, WorkerPCs, MaybePacket,
      channels, lifecycle

LEMMA WorkerOfferInv ==
  ASSUME PipelineInv, NEW w \in Workers, WorkerOffer(w) PROVE PipelineInv'
<1> DEFINE p == worker[w].pkt
<1>1. /\ worker[w].pc = "offer" /\ p \in Packets /\ p \in allowed
      /\ sendCh' \in Seq(Packets) /\ Len(sendCh') <= Cap
      /\ worker' = [worker EXCEPT ![w] = Idle]
      /\ UNCHANGED <<outside, recv, sender, packetCh, lifecycle, counters, sent>>
  BY PipelineAssumption
  DEF WorkerOffer, WorkerAt, Room, PipelineInv, PipelineTypeOK, Filtered, MaybePacket
<1>2. Offered' \subseteq Offered \cup {p}
  <2>1. sendCh \in Seq(Packets) /\ sendCh' = Append(sendCh, p)
    BY DEF WorkerOffer, PipelineInv, PipelineTypeOK
  <2> QED  BY <1>1, <2>1 DEF Offered
<1>3. PipelineTypeOK'
  BY <1>1, PipelineAssumption
  DEF PipelineInv, PipelineTypeOK, Idle, Hand, WorkerPCs, MaybePacket, lifecycle, counters
<1>4. OneCopy'
  BY <1>1 DEF PipelineInv, PipelineTypeOK, OneCopy, Queued, Decided, Deciding, Idle, Hand, counters
<1>5. Filtered' /\ OnlyAllowedIsSent'
  BY <1>1, <1>2
  DEF PipelineInv, PipelineTypeOK, Filtered, OnlyAllowedIsSent, Queued, Idle, Hand, counters
<1> QED  BY <1>3, <1>4, <1>5 DEF PipelineInv

LEMMA WorkerExitInv ==
  ASSUME PipelineInv, NEW w \in Workers, WorkerExit(w) PROVE PipelineInv'
  BY PipelineAssumption
  DEF WorkerExit, WorkerAt, Listens, Exited, Hand, PipelineInv, PipelineTypeOK, OneCopy, Filtered, OnlyAllowedIsSent, Queued,
      Offered, Decided, Deciding, WorkerPCs, MaybePacket,
      channels, lifecycle, counters

-----------------------------------------------------------------------------
\* sendLoop

LEMMA SenderTakeInv == ASSUME PipelineInv, SenderTake PROVE PipelineInv'
<1> DEFINE p == sendCh[1]
<1>1. /\ p \in Packets /\ p \in Offered
      /\ sendCh' \in Seq(Packets) /\ Len(sendCh') <= Cap
      /\ \A i \in DOMAIN sendCh' : i + 1 \in DOMAIN sendCh /\ sendCh'[i] = sendCh[i + 1]
      /\ sender' = Hand("send", p)
      /\ UNCHANGED <<outside, recv, worker, packetCh, lifecycle, counters, sent>>
  BY PipelineAssumption DEF SenderTake, SenderAt, PipelineInv, PipelineTypeOK, Offered
<1>2. Offered' \subseteq Offered
  BY <1>1 DEF Offered
<1>3. PipelineTypeOK'
  BY <1>1, PipelineAssumption
  DEF PipelineInv, PipelineTypeOK, Hand, SenderPCs, MaybePacket, lifecycle, counters
<1>4. OneCopy'
  BY <1>1 DEF PipelineInv, OneCopy, Queued, Decided, Deciding, counters
<1>5. Filtered' /\ OnlyAllowedIsSent'
  BY <1>1, <1>2 DEF PipelineInv, Filtered, OnlyAllowedIsSent, Queued, Hand, counters
<1> QED  BY <1>3, <1>4, <1>5 DEF PipelineInv

LEMMA SenderSendInv == ASSUME PipelineInv, SenderSend PROVE PipelineInv'
  BY PipelineAssumption
  DEF SenderSend, Send, SenderAt, Idle, Hand, PipelineInv, PipelineTypeOK, OneCopy, Filtered, OnlyAllowedIsSent, Queued,
      Offered, Decided, Deciding, SenderPCs, MaybePacket,
      channels, lifecycle

LEMMA SenderExitInv == ASSUME PipelineInv, SenderExit PROVE PipelineInv'
  BY PipelineAssumption
  DEF SenderExit, SenderAt, Exited, Hand, PipelineInv, PipelineTypeOK, OneCopy, Filtered, OnlyAllowedIsSent, Queued,
      Offered, Decided, Deciding, SenderPCs, MaybePacket,
      channels, lifecycle, counters

-----------------------------------------------------------------------------
\* Start and Close leave the traffic alone, but for the goroutines that Start
\* spawns.

LEMMA StarterInv == ASSUME PipelineInv, Starter PROVE PipelineInv'
<1>1. CASE StartStore
  BY <1>1 DEF StartStore, StarterAt, UnchangedTraffic, PipelineInv, PipelineTypeOK, OneCopy, Filtered, OnlyAllowedIsSent, Queued,
      Offered, Decided, Deciding,
     hands, channels, counters
<1>2. CASE StartSpawn
  BY <1>2, PipelineAssumption
  DEF StartSpawn, StarterAt, Idle, Hand, PipelineInv, PipelineTypeOK, OneCopy, Filtered, OnlyAllowedIsSent, Queued,
      Offered, Decided, Deciding, RecvPCs, WorkerPCs, SenderPCs,
      MaybePacket, channels, counters
<1> QED  BY <1>1, <1>2 DEF Starter

LEMMA CloserInv == ASSUME PipelineInv, NEW c \in Closers, Closer(c) PROVE PipelineInv'
<1>1. UnchangedTraffic /\ UNCHANGED starter
  BY DEF Closer, StopCheck, StopStore, StopIfOpen, CloseFlag, CloseHandle, CloseDone
<1>2. /\ closer \in [Closers -> CloserPCs] /\ closes \in Nat
      /\ started \in BOOLEAN /\ open \in BOOLEAN /\ done \in BOOLEAN /\ panicked \in BOOLEAN
  BY DEF PipelineInv, PipelineTypeOK
<1>3. \E pc \in CloserPCs : closer' = [closer EXCEPT ![c] = pc]
  BY DEF Closer, StopCheck, StopStore, StopIfOpen, CloseFlag, CloseHandle, CloseDone, GoTo, CloserPCs
<1>4. closer' \in [Closers -> CloserPCs]
  BY <1>2, <1>3
<1>5. started' \in BOOLEAN /\ open' \in BOOLEAN /\ done' \in BOOLEAN /\ panicked' \in BOOLEAN
  BY <1>2 DEF Closer, StopCheck, StopStore, StopIfOpen, CloseFlag, CloseHandle, CloseDone, Stopped
<1>6. closes' \in Nat
  BY <1>2 DEF Closer, StopCheck, StopStore, StopIfOpen, CloseFlag, CloseHandle, CloseDone
<1>7. raced' \subseteq SUBSET Closers
  <2>1. CASE StopCheck(c)
    <3>1. raced' \subseteq raced \cup {{c, d} : d \in {x \in Closers : closer[x] = "stop"}}
      BY <2>1 DEF StopCheck
    <3> QED  BY <3>1 DEF PipelineInv, PipelineTypeOK
  <2>2. CASE UNCHANGED raced
    BY <2>2 DEF PipelineInv, PipelineTypeOK
  <2> QED
    BY <2>1, <2>2 DEF Closer, StopStore, StopIfOpen, CloseFlag, CloseHandle, CloseDone
<1> QED
  BY <1>1, <1>4, <1>5, <1>6, <1>7 DEF UnchangedTraffic, PipelineInv, PipelineTypeOK, OneCopy, Filtered, OnlyAllowedIsSent, Queued,
      Offered, Decided, Deciding, hands, channels, counters

-----------------------------------------------------------------------------

LEMMA PipelineStutterInv == ASSUME PipelineInv, UNCHANGED vars PROVE PipelineInv'
  BY DEF vars, PipelineInv, PipelineTypeOK, OneCopy, Filtered, OnlyAllowedIsSent, Queued,
      Offered, Decided, Deciding, hands, channels, counters, lifecycle

THEOREM PipelineInvariance == Spec => []PipelineInv
<1>1. PipelineInv /\ [Next]_vars => PipelineInv'
  <2> SUFFICES ASSUME PipelineInv, [Next]_vars PROVE PipelineInv'  OBVIOUS
  <2>1. CASE RecvLoop
    BY <2>1, RecvTopInv, RecvPacketInv, RecvErrorInv, RecvReinjectInv, RecvEnqueueInv DEF RecvLoop
  <2>2. CASE \E w \in Workers : Worker(w)
    BY <2>2, WorkerTakeInv, WorkerBlockInv, WorkerAllowInv, WorkerOfferInv, WorkerExitInv DEF Worker
  <2>3. CASE SendLoop
    BY <2>3, SenderTakeInv, SenderSendInv, SenderExitInv DEF SendLoop
  <2>4. CASE Starter
    BY <2>4, StarterInv
  <2>5. CASE \E c \in Closers : Closer(c)
    BY <2>5, CloserInv
  <2>6. CASE UNCHANGED vars
    BY <2>6, PipelineStutterInv
  <2> QED  BY <2>1, <2>2, <2>3, <2>4, <2>5, <2>6 DEF Next
<1> QED  BY <1>1, PipelineInitInv, PTL DEF Spec

\* Type correctness: every goroutine is where its code can be and holds a
\* packet exactly when it says so, and no channel overflows.
THEOREM PipelineTypeCorrect == Spec => []PipelineTypeOK
<1>1. PipelineInv => PipelineTypeOK
  BY DEF PipelineInv
<1> QED  BY <1>1, PipelineInvariance, PTL

\* The filter filters, however Close calls overlap with the traffic: only
\* packets a worker has allowed, or impostors, go back to the network, and no
\* packet is both blocked and allowed.
THEOREM OnlyAllowedPacketsAreSent == Spec => []OnlyAllowedIsSent
<1>1. PipelineInv => OnlyAllowedIsSent
  BY DEF PipelineInv
<1> QED  BY <1>1, PipelineInvariance, PTL

-----------------------------------------------------------------------------
(***************************************************************************)
(* Conservation.  PacketsConserved counts the places of a packet; the      *)
(* proof says instead, from the network backwards, that what a goroutine   *)
(* or a channel holds is nowhere further on, and that it holds it once.    *)
(***************************************************************************)
Gone == blocked \cup dropped \cup sent
AfterSendCh == Gone \cup {sender.pkt}
AfterWorkers == AfterSendCh \cup Offered
AfterPacketCh == AfterWorkers \cup {worker[w].pkt : w \in Workers}
AfterRecv == AfterPacketCh \cup Queued
Captured == AfterRecv \cup {recv.pkt}

\* No packet is in two places.
OnePlace ==
  /\ blocked \cap dropped = {} /\ blocked \cap sent = {} /\ dropped \cap sent = {}
  /\ sender.pkt \notin Gone
  /\ \A i \in DOMAIN sendCh :
       /\ sendCh[i] \notin AfterSendCh
       /\ \A j \in DOMAIN sendCh : sendCh[i] = sendCh[j] => i = j
  /\ \A w \in Workers : worker[w].pkt # NoPacket =>
       /\ worker[w].pkt \notin AfterWorkers
       /\ \A u \in Workers : worker[u].pkt = worker[w].pkt => u = w
  /\ \A i \in DOMAIN packetCh : packetCh[i] \notin AfterPacketCh
  /\ recv.pkt # NoPacket => recv.pkt \notin AfterRecv
  /\ outside \cap Captured = {}

\* Every packet is somewhere, unless a worker threw it away after the close.
SomePlace == \A p \in Packets : p \in outside \cup Captured \/ (done /\ p \in allowed)

\* Start spawns the goroutines, so no packet is in a hand that it empties.
NoHandBeforeStart ==
  starter # "returned" => recv = Off /\ sender = Off /\ worker = [w \in Workers |-> Off]

PlacesInv == OnePlace /\ SomePlace /\ NoHandBeforeStart

\* While a goroutine is past "off", Start has returned.
LEMMA RunningAfterStart ==
  ASSUME PlacesInv, recv.pc # "off" \/ sender.pc # "off" \/ \E w \in Workers : worker[w].pc # "off",
         UNCHANGED starter
  PROVE  starter = "returned" /\ NoHandBeforeStart'
  BY DEF PlacesInv, NoHandBeforeStart, Off, Hand

LEMMA InitPlaces == Init => PlacesInv
<1> SUFFICES ASSUME Init PROVE PlacesInv OBVIOUS
<1>1. /\ recv.pkt = NoPacket /\ sender.pkt = NoPacket
      /\ \A w \in Workers : worker[w].pkt = NoPacket
      /\ packetCh = <<>> /\ sendCh = <<>> /\ Queued = {} /\ Offered = {} /\ Gone = {}
      /\ outside = Packets
  BY DEF Init, Off, Hand, Queued, Offered, Gone
<1>2. Captured = {NoPacket}
  BY <1>1 DEF AfterSendCh, AfterWorkers, AfterPacketCh, AfterRecv, Captured
<1>3. OnePlace
  BY <1>1, <1>2, PipelineAssumption DEF Init, OnePlace
<1> QED  BY <1>1, <1>3 DEF Init, PlacesInv, SomePlace, NoHandBeforeStart

\* Whatever leaves the traffic alone.
LEMMA TrafficUntouchedPlaces ==
  ASSUME PlacesInv, UnchangedTraffic, done => done', starter' # "returned" => starter # "returned"
  PROVE  PlacesInv'
  BY DEF UnchangedTraffic, PlacesInv, OnePlace, SomePlace, NoHandBeforeStart, Gone, AfterSendCh,
     AfterWorkers, AfterPacketCh, AfterRecv, Captured, Queued, Offered, hands, channels, counters

\* recvLoop

LEMMA RecvTopPlaces == ASSUME PipelineInv, PlacesInv, RecvTop \/ RecvError PROVE PlacesInv'
<1>1. NoHandBeforeStart'
  BY RunningAfterStart DEF RecvTop, RecvError, RecvAt, lifecycle
<1>2. /\ recv.pkt = NoPacket /\ recv'.pkt = NoPacket
      /\ UNCHANGED <<outside, worker, sender, channels, lifecycle, counters, sent>>
  BY DEF RecvTop, RecvError, RecvAt, PipelineInv, PipelineTypeOK, Exited, Idle, Hand
<1> QED
  BY <1>1, <1>2
  DEF PlacesInv, OnePlace, SomePlace, Gone, AfterSendCh, AfterWorkers, AfterPacketCh, AfterRecv,
      Captured, Queued, Offered, channels, counters, lifecycle

LEMMA RecvPacketPlaces ==
  ASSUME PipelineInv, PlacesInv, NEW p \in Packets, RecvPacket(p) PROVE PlacesInv'
<1>1. NoHandBeforeStart'
  BY RunningAfterStart DEF RecvPacket, RecvAt, lifecycle
<1>2. /\ p \in outside /\ outside' = outside \ {p}
      /\ recv.pkt = NoPacket /\ recv'.pkt = p /\ NoPacket \notin Packets /\ outside \subseteq Packets
      /\ UNCHANGED <<worker, sender, channels, lifecycle, counters, sent>>
  BY PipelineAssumption DEF RecvPacket, RecvAt, PipelineInv, PipelineTypeOK, Hand
<1>3. UNCHANGED <<Gone, AfterSendCh, AfterWorkers, AfterPacketCh, AfterRecv>>
  BY <1>2 DEF Gone, AfterSendCh, AfterWorkers, AfterPacketCh, AfterRecv, Queued, Offered, channels, counters
<1> QED
  BY <1>1, <1>2, <1>3 DEF PlacesInv, OnePlace, SomePlace, Captured, channels, counters, lifecycle

\* A packet leaves the hand of recvLoop for one of the counters or the net.
LEMMA RecvReinjectPlaces == ASSUME PipelineInv, PlacesInv, RecvReinject PROVE PlacesInv'
<1> DEFINE p == recv.pkt
<1>1. NoHandBeforeStart'
  BY RunningAfterStart DEF RecvReinject, RecvAt, lifecycle
<1>2. /\ p # NoPacket /\ recv'.pkt = NoPacket /\ NoPacket \notin outside
      /\ blocked' = blocked
      /\ \/ sent' = sent \cup {p} /\ dropped' = dropped
         \/ dropped' = dropped \cup {p} /\ sent' = sent
      /\ UNCHANGED <<outside, worker, sender, channels, lifecycle, allowed>>
  BY PipelineAssumption
  DEF RecvReinject, RecvAt, Send, PipelineInv, PipelineTypeOK, Idle, Hand
<1>3. p \notin AfterRecv /\ p \notin outside
  BY <1>2 DEF PlacesInv, OnePlace, Captured
<1> QED
  BY <1>1, <1>2, <1>3
  DEF PlacesInv, OnePlace, SomePlace, Gone, AfterSendCh, AfterWorkers, AfterPacketCh, AfterRecv,
      Captured, Queued, Offered, channels, lifecycle

LEMMA RecvEnqueuePlaces == ASSUME PipelineInv, PlacesInv, RecvEnqueue PROVE PlacesInv'
<1> DEFINE p == recv.pkt
<1>1. NoHandBeforeStart'
  BY RunningAfterStart DEF RecvEnqueue, RecvAt, lifecycle
<1>2. /\ p # NoPacket /\ recv'.pkt = NoPacket /\ NoPacket \notin outside
      /\ UNCHANGED <<outside, worker, sender, sendCh, lifecycle, allowed, blocked, sent>>
  BY PipelineAssumption
  DEF RecvEnqueue, RecvAt, PipelineInv, PipelineTypeOK, Idle, Hand
<1>3. p \notin AfterRecv /\ p \notin outside
  BY <1>2 DEF PlacesInv, OnePlace, Captured
<1>4. CASE packetCh' = Append(packetCh, p) /\ dropped' = dropped
  <2>1. UNCHANGED <<Gone, AfterSendCh, AfterWorkers, AfterPacketCh>>
    BY <1>2, <1>4 DEF Gone, AfterSendCh, AfterWorkers, AfterPacketCh, Offered
  <2>2. packetCh \in Seq(Packets)
    BY DEF PipelineInv, PipelineTypeOK
  <2>3. Queued' = Queued \cup {p} /\ \A i \in DOMAIN packetCh' : packetCh'[i] = p \/ packetCh'[i] \in Queued
    BY <1>4, <2>2 DEF Queued
  <2>4. \A q \in Queued : q \notin AfterPacketCh
    BY DEF PlacesInv, OnePlace, Queued
  <2>5. AfterRecv' = AfterRecv \cup {p} /\ Captured' = Captured \cup {NoPacket}
    BY <1>2, <2>1, <2>3 DEF AfterRecv, Captured
  <2>6. \A i \in DOMAIN packetCh' : packetCh'[i] \notin AfterPacketCh'
    BY <1>3, <2>1, <2>3, <2>4 DEF AfterRecv
  <2>7. OnePlace'
    BY <1>2, <1>3, <1>4, <2>1, <2>5, <2>6 DEF PlacesInv, OnePlace
  <2>8. SomePlace'
    BY <1>2, <2>5 DEF PlacesInv, SomePlace, lifecycle
  <2> QED  BY <1>1, <2>7, <2>8 DEF PlacesInv
<1>5. CASE packetCh' = packetCh /\ dropped' = dropped \cup {p}
  BY <1>1, <1>2, <1>3, <1>5
  DEF PlacesInv, OnePlace, SomePlace, Gone, AfterSendCh, AfterWorkers, AfterPacketCh, AfterRecv,
      Captured, Queued, Offered, lifecycle
<1> QED  BY <1>4, <1>5 DEF RecvEnqueue, Overflow

\* worker

LEMMA WorkerTakePlaces ==
  ASSUME PipelineInv, PlacesInv, NEW w \in Workers, WorkerTake(w) PROVE PlacesInv'
<1> DEFINE p == packetCh[1]
<1>1. NoHandBeforeStart'
  BY RunningAfterStart DEF WorkerTake, WorkerAt, lifecycle
<1>2. /\ worker[w].pkt = NoPacket /\ p \in Packets /\ NoPacket \notin Packets
      /\ packetCh \in Seq(Packets) /\ packetCh # <<>> /\ packetCh' = Tail(packetCh)
      /\ worker'[w].pkt = p /\ \A u \in Workers : u # w => worker'[u] = worker[u]
      /\ UNCHANGED <<outside, recv, sender, sendCh, lifecycle, counters, sent>>
  BY PipelineAssumption
  DEF WorkerTake, WorkerAt, PipelineInv, PipelineTypeOK, Hand
<1>3. /\ 1 \in DOMAIN packetCh
      /\ \A i \in DOMAIN packetCh' : i + 1 \in DOMAIN packetCh /\ i + 1 # 1 /\ packetCh'[i] = packetCh[i + 1]
      /\ \A i \in DOMAIN packetCh : i # 1 => i - 1 \in DOMAIN packetCh' /\ packetCh'[i - 1] = packetCh[i]
  BY <1>2
<1>4. p \in Queued /\ Queued' = Queued \ {p}
  <2>1. Queued' \subseteq Queued \ {p}
    BY <1>3 DEF PipelineInv, OneCopy, Queued
  <2>2. Queued \ {p} \subseteq Queued'
    BY <1>3 DEF Queued
  <2> QED  BY <1>3, <2>1, <2>2 DEF Queued
<1>5. UNCHANGED <<Gone, AfterSendCh, AfterWorkers>>
  BY <1>2 DEF Gone, AfterSendCh, AfterWorkers, Offered, counters
<1>6. AfterPacketCh' \subseteq AfterPacketCh \cup {p} /\ AfterPacketCh \ {NoPacket} \subseteq AfterPacketCh'
      /\ p \in AfterPacketCh'
  BY <1>2, <1>5 DEF AfterPacketCh
<1>7. p \notin AfterPacketCh /\ NoPacket \notin Queued /\ p \notin outside
      /\ \A q \in Queued : q \notin AfterPacketCh
  <2>1. \A q \in Queued : q \notin AfterPacketCh /\ q \in Packets
    BY <1>2 DEF PlacesInv, OnePlace, Queued
  <2>2. Queued \subseteq Captured
    BY DEF Captured, AfterRecv
  <2> QED  BY <1>2, <1>4, <2>1, <2>2 DEF PlacesInv, OnePlace
<1>8. AfterRecv' \subseteq AfterRecv /\ AfterRecv \ {NoPacket} \subseteq AfterRecv'
  BY <1>4, <1>6 DEF AfterRecv
<1>9. OnePlace'
  <2>1. \A i \in DOMAIN packetCh' : packetCh'[i] \notin AfterPacketCh'
    <3>1. \A i \in DOMAIN packetCh' : packetCh'[i] \in Queued'
      BY DEF Queued
    <3> QED  BY <3>1, <1>4, <1>6, <1>7
  <2>2. \A u \in Workers : worker'[u].pkt # NoPacket =>
          /\ worker'[u].pkt \notin AfterWorkers'
          /\ \A v \in Workers : worker'[v].pkt = worker'[u].pkt => v = u
    <3>1. p \notin AfterWorkers /\ \A u \in Workers : worker[u].pkt # p
      BY <1>7 DEF AfterPacketCh
    <3> QED  BY <3>1, <1>2, <1>5 DEF PlacesInv, OnePlace
  <2>3. recv'.pkt # NoPacket => recv'.pkt \notin AfterRecv'
    BY <1>2, <1>8 DEF PlacesInv, OnePlace
  <2>4. outside' \cap Captured' = {}
    BY <1>2, <1>8 DEF PlacesInv, OnePlace, Captured
  <2> QED  BY <1>2, <1>5, <2>1, <2>2, <2>3, <2>4 DEF PlacesInv, OnePlace, counters
<1>10. SomePlace'
  BY <1>2, <1>8 DEF PlacesInv, SomePlace, Captured, lifecycle, counters
<1> QED  BY <1>1, <1>9, <1>10 DEF PlacesInv

LEMMA WorkerBlockPlaces ==
  ASSUME PipelineInv, PlacesInv, NEW w \in Workers, WorkerBlock(w) PROVE PlacesInv'
<1> DEFINE p == worker[w].pkt
<1>1. NoHandBeforeStart'
  BY RunningAfterStart DEF WorkerBlock, WorkerAt, lifecycle
<1>2. /\ p # NoPacket /\ NoPacket \notin Packets /\ outside \subseteq Packets
      /\ worker'[w].pkt = NoPacket /\ \A u \in Workers : u # w => worker'[u] = worker[u]
      /\ blocked' = blocked \cup {p}
      /\ UNCHANGED <<outside, recv, sender, channels, lifecycle, allowed, dropped, sent>>
  BY PipelineAssumption
  DEF WorkerBlock, WorkerAt, AfterBlock, Idle, PipelineInv, PipelineTypeOK, Hand
<1>3. p \notin AfterWorkers /\ p \notin outside /\ \A u \in Workers : worker[u].pkt = p => u = w
  BY <1>2 DEF PlacesInv, OnePlace, Captured, AfterRecv, AfterPacketCh
<1>4. /\ Gone' = Gone \cup {p} /\ AfterSendCh' = AfterSendCh \cup {p} /\ AfterWorkers' = AfterWorkers \cup {p}
      /\ AfterPacketCh' \subseteq AfterPacketCh \cup {NoPacket} /\ AfterPacketCh \subseteq AfterPacketCh'
  BY <1>2 DEF Gone, AfterSendCh, AfterWorkers, AfterPacketCh, Offered, channels
<1>5. /\ AfterRecv' \subseteq AfterRecv \cup {NoPacket} /\ AfterRecv \subseteq AfterRecv'
  BY <1>2, <1>4 DEF AfterRecv, Queued, channels
<1>6. OnePlace'
  <2>1. \A i \in DOMAIN packetCh : packetCh[i] \notin AfterPacketCh'
    BY <1>2, <1>4 DEF PlacesInv, OnePlace, PipelineInv, PipelineTypeOK
  <2>2. \A i \in DOMAIN sendCh : sendCh[i] \notin AfterSendCh'
    BY <1>3, <1>4 DEF PlacesInv, OnePlace, AfterWorkers, Offered
  <2>3. \A u \in Workers : worker'[u].pkt # NoPacket =>
          /\ worker'[u].pkt \notin AfterWorkers'
          /\ \A v \in Workers : worker'[v].pkt = worker'[u].pkt => v = u
    BY <1>2, <1>3, <1>4 DEF PlacesInv, OnePlace
  <2>4. recv'.pkt # NoPacket => recv'.pkt \notin AfterRecv'
    BY <1>2, <1>5 DEF PlacesInv, OnePlace
  <2>5. outside' \cap Captured' = {}
    BY <1>2, <1>5 DEF PlacesInv, OnePlace, Captured
  <2>6. blocked' \cap dropped' = {} /\ blocked' \cap sent' = {} /\ dropped' \cap sent' = {} /\ sender'.pkt \notin Gone'
    BY <1>2, <1>3, <1>4 DEF PlacesInv, OnePlace, AfterWorkers, AfterSendCh, Gone
  <2> QED  BY <1>2, <2>1, <2>2, <2>3, <2>4, <2>5, <2>6 DEF PlacesInv, OnePlace, channels
<1>7. SomePlace'
  BY <1>2, <1>5 DEF PlacesInv, SomePlace, Captured, lifecycle
<1> QED  BY <1>1, <1>6, <1>7 DEF PlacesInv

LEMMA WorkerAllowPlaces ==
  ASSUME PipelineInv, PlacesInv, NEW w \in Workers, WorkerAllow(w) PROVE PlacesInv'
<1>1. NoHandBeforeStart'
  BY RunningAfterStart DEF WorkerAllow, WorkerAt, lifecycle
<1>2. /\ \A u \in Workers : worker'[u].pkt = worker[u].pkt
      /\ allowed \subseteq allowed'
      /\ UNCHANGED <<outside, recv, sender, channels, lifecycle, blocked, dropped, sent>>
  BY DEF WorkerAllow, WorkerAt, PipelineInv, PipelineTypeOK, Hand
<1>3. UNCHANGED <<Gone, AfterSendCh, AfterWorkers, AfterPacketCh, AfterRecv, Captured>>
  BY <1>2 DEF Gone, AfterSendCh, AfterWorkers, AfterPacketCh, AfterRecv, Captured, Queued, Offered, channels
<1>4. OnePlace'
  BY <1>2, <1>3 DEF PlacesInv, OnePlace, channels
<1>5. SomePlace'
  BY <1>2, <1>3 DEF PlacesInv, SomePlace, lifecycle
<1> QED  BY <1>1, <1>4, <1>5 DEF PlacesInv

LEMMA WorkerOfferPlaces ==
  ASSUME PipelineInv, PlacesInv, NEW w \in Workers, WorkerOffer(w) PROVE PlacesInv'
<1> DEFINE p == worker[w].pkt
<1>1. NoHandBeforeStart'
  BY RunningAfterStart DEF WorkerOffer, WorkerAt, lifecycle
<1>2. /\ p # NoPacket /\ NoPacket \notin Packets /\ outside \subseteq Packets
      /\ worker'[w].pkt = NoPacket /\ \A u \in Workers : u # w => worker'[u] = worker[u]
      /\ sendCh \in Seq(Packets) /\ sendCh' = Append(sendCh, p) /\ p \in Packets
      /\ UNCHANGED <<outside, recv, sender, packetCh, lifecycle, counters, sent>>
  BY PipelineAssumption
  DEF WorkerOffer, WorkerAt, Idle, PipelineInv, PipelineTypeOK, Hand, MaybePacket
<1>3. p \notin AfterWorkers /\ p \notin outside /\ \A u \in Workers : worker[u].pkt = p => u = w
  BY <1>2 DEF PlacesInv, OnePlace, Captured, AfterRecv, AfterPacketCh
<1>4. /\ Offered' = Offered \cup {p}
      /\ DOMAIN sendCh' = DOMAIN sendCh \cup {Len(sendCh) + 1}
      /\ Len(sendCh) + 1 \notin DOMAIN sendCh
      /\ \A i \in DOMAIN sendCh : sendCh'[i] = sendCh[i]
      /\ sendCh'[Len(sendCh) + 1] = p
  BY <1>2 DEF Offered
<1>5. /\ UNCHANGED <<Gone, AfterSendCh>> /\ AfterWorkers' = AfterWorkers \cup {p}
      /\ AfterPacketCh' \subseteq AfterPacketCh \cup {NoPacket} /\ AfterPacketCh \subseteq AfterPacketCh'
  BY <1>2, <1>4 DEF Gone, AfterSendCh, AfterWorkers, AfterPacketCh, counters
<1>6. /\ AfterRecv' \subseteq AfterRecv \cup {NoPacket} /\ AfterRecv \subseteq AfterRecv'
  BY <1>2, <1>5 DEF AfterRecv, Queued
<1>7. OnePlace'
  <2>1. \A i \in DOMAIN packetCh : packetCh[i] \notin AfterPacketCh'
    BY <1>2, <1>5 DEF PlacesInv, OnePlace, PipelineInv, PipelineTypeOK
  <2>2. \A i \in DOMAIN sendCh' :
          /\ sendCh'[i] \notin AfterSendCh'
          /\ \A j \in DOMAIN sendCh' : sendCh'[i] = sendCh'[j] => i = j
    <3>1. p \notin AfterSendCh /\ \A i \in DOMAIN sendCh : sendCh[i] # p
      BY <1>3 DEF AfterWorkers, Offered
    <3> QED  BY <3>1, <1>4, <1>5 DEF PlacesInv, OnePlace
  <2>3. \A u \in Workers : worker'[u].pkt # NoPacket =>
          /\ worker'[u].pkt \notin AfterWorkers'
          /\ \A v \in Workers : worker'[v].pkt = worker'[u].pkt => v = u
    BY <1>2, <1>3, <1>5 DEF PlacesInv, OnePlace
  <2>4. recv'.pkt # NoPacket => recv'.pkt \notin AfterRecv'
    BY <1>2, <1>6 DEF PlacesInv, OnePlace
  <2>5. outside' \cap Captured' = {}
    BY <1>2, <1>6 DEF PlacesInv, OnePlace, Captured
  <2> QED  BY <1>2, <1>5, <2>1, <2>2, <2>3, <2>4, <2>5 DEF PlacesInv, OnePlace, counters
<1>8. SomePlace'
  BY <1>2, <1>6 DEF PlacesInv, SomePlace, Captured, lifecycle, counters
<1> QED  BY <1>1, <1>7, <1>8 DEF PlacesInv

\* The only packet that goes nowhere: a worker leaves with the packet it has
\* allowed and cannot queue.
LEMMA WorkerExitPlaces ==
  ASSUME PipelineInv, PlacesInv, NEW w \in Workers, WorkerExit(w) PROVE PlacesInv'
<1> DEFINE p == worker[w].pkt
<1>1. NoHandBeforeStart'
  BY RunningAfterStart DEF WorkerExit, WorkerAt, Listens, lifecycle
<1>2. /\ p = NoPacket \/ p \in allowed
      /\ done /\ NoPacket \notin Packets /\ outside \subseteq Packets
      /\ worker'[w].pkt = NoPacket /\ \A u \in Workers : u # w => worker'[u] = worker[u]
      /\ UNCHANGED <<outside, recv, sender, channels, lifecycle, counters, sent>>
  BY PipelineAssumption
  DEF WorkerExit, WorkerAt, Listens, Exited, PipelineInv, PipelineTypeOK, Filtered, Hand
<1>3. /\ UNCHANGED <<Gone, AfterSendCh, AfterWorkers>>
      /\ AfterPacketCh' \subseteq AfterPacketCh \cup {NoPacket} /\ AfterPacketCh \subseteq AfterPacketCh' \cup {p}
  BY <1>2 DEF Gone, AfterSendCh, AfterWorkers, AfterPacketCh, Offered, channels, counters
<1>4. /\ AfterRecv' \subseteq AfterRecv \cup {NoPacket} /\ AfterRecv \subseteq AfterRecv' \cup {p}
  BY <1>2, <1>3 DEF AfterRecv, Queued, channels
<1>5. OnePlace'
  <2>1. \A i \in DOMAIN packetCh : packetCh[i] \notin AfterPacketCh'
    BY <1>2, <1>3 DEF PlacesInv, OnePlace, PipelineInv, PipelineTypeOK
  <2>2. \A u \in Workers : worker'[u].pkt # NoPacket =>
          /\ worker'[u].pkt \notin AfterWorkers'
          /\ \A v \in Workers : worker'[v].pkt = worker'[u].pkt => v = u
    BY <1>2, <1>3 DEF PlacesInv, OnePlace
  <2>3. recv'.pkt # NoPacket => recv'.pkt \notin AfterRecv'
    BY <1>2, <1>4 DEF PlacesInv, OnePlace
  <2>4. outside' \cap Captured' = {}
    BY <1>2, <1>4 DEF PlacesInv, OnePlace, Captured
  <2> QED  BY <1>2, <1>3, <2>1, <2>2, <2>3, <2>4 DEF PlacesInv, OnePlace, channels, counters
<1>6. SomePlace'
  BY <1>2, <1>4 DEF PlacesInv, SomePlace, Captured, lifecycle, counters
<1> QED  BY <1>1, <1>5, <1>6 DEF PlacesInv

\* sendLoop

LEMMA SenderTakePlaces == ASSUME PipelineInv, PlacesInv, SenderTake PROVE PlacesInv'
<1> DEFINE p == sendCh[1]
<1>1. NoHandBeforeStart'
  BY RunningAfterStart DEF SenderTake, SenderAt, lifecycle
<1>2. /\ sender.pkt = NoPacket /\ p \in Packets /\ NoPacket \notin Packets /\ outside \subseteq Packets
      /\ sendCh \in Seq(Packets) /\ sendCh # <<>> /\ sendCh' = Tail(sendCh)
      /\ sender'.pkt = p
      /\ UNCHANGED <<outside, recv, worker, packetCh, lifecycle, counters, sent>>
  BY PipelineAssumption
  DEF SenderTake, SenderAt, PipelineInv, PipelineTypeOK, Hand
<1>3. /\ 1 \in DOMAIN sendCh
      /\ \A i \in DOMAIN sendCh' : /\ i + 1 \in DOMAIN sendCh /\ i + 1 # 1 /\ i \in Nat
                                  /\ sendCh'[i] = sendCh[i + 1]
      /\ \A i \in DOMAIN sendCh : i # 1 => i - 1 \in DOMAIN sendCh' /\ sendCh'[i - 1] = sendCh[i]
  BY <1>2
<1>4. p \in Offered /\ Offered' = Offered \ {p}
  <2>1. Offered' \subseteq Offered \ {p}
    BY <1>3 DEF PlacesInv, OnePlace, Offered
  <2>2. Offered \ {p} \subseteq Offered'
    BY <1>3 DEF Offered
  <2> QED  BY <1>3, <2>1, <2>2 DEF Offered
<1>5. /\ Gone' = Gone /\ AfterSendCh' \subseteq AfterSendCh \cup {p}
      /\ AfterWorkers' \subseteq AfterWorkers /\ AfterWorkers \ {NoPacket} \subseteq AfterWorkers'
  BY <1>2, <1>4 DEF Gone, AfterSendCh, AfterWorkers, counters
<1>6. /\ AfterPacketCh' \subseteq AfterPacketCh /\ AfterPacketCh \ {NoPacket} \subseteq AfterPacketCh'
      /\ AfterRecv' \subseteq AfterRecv /\ AfterRecv \ {NoPacket} \subseteq AfterRecv'
      /\ Captured' \subseteq Captured /\ Captured \ {NoPacket} \subseteq Captured'
  BY <1>2, <1>5 DEF AfterPacketCh, AfterRecv, Captured, Queued
<1>7. OnePlace'
  <2>1. p \notin AfterSendCh
    BY <1>3 DEF PlacesInv, OnePlace
  <2>2. \A i \in DOMAIN sendCh' :
          /\ sendCh'[i] \notin AfterSendCh'
          /\ \A j \in DOMAIN sendCh' : sendCh'[i] = sendCh'[j] => i = j
    BY <1>3, <1>5 DEF PlacesInv, OnePlace
  <2> QED  BY <1>2, <1>5, <1>6, <2>1, <2>2 DEF PlacesInv, OnePlace, AfterSendCh, counters
<1>8. SomePlace'
  BY <1>2, <1>6 DEF PlacesInv, SomePlace, lifecycle, counters
<1> QED  BY <1>1, <1>7, <1>8 DEF PlacesInv

LEMMA SenderSendPlaces == ASSUME PipelineInv, PlacesInv, SenderSend PROVE PlacesInv'
<1> DEFINE p == sender.pkt
<1>1. NoHandBeforeStart'
  BY RunningAfterStart DEF SenderSend, SenderAt, lifecycle
<1>2. /\ p # NoPacket /\ sender'.pkt = NoPacket /\ NoPacket \notin Packets /\ outside \subseteq Packets
      /\ blocked' = blocked
      /\ \/ sent' = sent \cup {p} /\ dropped' = dropped
         \/ dropped' = dropped \cup {p} /\ sent' = sent
      /\ UNCHANGED <<outside, recv, worker, channels, lifecycle, allowed>>
  BY PipelineAssumption
  DEF SenderSend, SenderAt, Send, PipelineInv, PipelineTypeOK, Idle, Hand
<1>3. p \notin Gone
  BY DEF PlacesInv, OnePlace
<1>4. /\ Gone' = Gone \cup {p} /\ AfterSendCh' = AfterSendCh \cup {NoPacket}
      /\ UNCHANGED <<Offered, Queued>>
  BY <1>2 DEF Gone, AfterSendCh, Offered, Queued, channels
<1>5. /\ AfterWorkers' = AfterWorkers \cup {NoPacket} /\ AfterPacketCh' = AfterPacketCh \cup {NoPacket}
      /\ AfterRecv' = AfterRecv \cup {NoPacket} /\ Captured' = Captured \cup {NoPacket}
  BY <1>2, <1>4 DEF AfterWorkers, AfterPacketCh, AfterRecv, Captured
<1>6. OnePlace'
  <2>1. \A i \in DOMAIN sendCh : sendCh[i] # NoPacket
    BY <1>2 DEF PipelineInv, PipelineTypeOK
  <2>2. \A i \in DOMAIN packetCh : packetCh[i] # NoPacket
    BY <1>2 DEF PipelineInv, PipelineTypeOK
  <2>3. /\ blocked' \cap dropped' = {} /\ blocked' \cap sent' = {} /\ dropped' \cap sent' = {}
        /\ NoPacket \notin Gone'
    BY <1>2, <1>3 DEF PlacesInv, OnePlace, Gone, PipelineInv, PipelineTypeOK, MaybePacket
  <2> QED  BY <1>2, <1>4, <1>5, <2>1, <2>2, <2>3 DEF PlacesInv, OnePlace, channels
<1>7. SomePlace'
  BY <1>2, <1>5 DEF PlacesInv, SomePlace, lifecycle
<1> QED  BY <1>1, <1>6, <1>7 DEF PlacesInv

LEMMA SenderExitPlaces == ASSUME PipelineInv, PlacesInv, SenderExit PROVE PlacesInv'
<1>1. NoHandBeforeStart'
  BY RunningAfterStart DEF SenderExit, SenderAt, lifecycle
<1>2. /\ sender.pkt = NoPacket /\ sender'.pkt = NoPacket
      /\ UNCHANGED <<outside, recv, worker, channels, lifecycle, counters, sent>>
  BY DEF SenderExit, SenderAt, PipelineInv, PipelineTypeOK, Exited, Hand
<1> QED
  BY <1>1, <1>2
  DEF PlacesInv, OnePlace, SomePlace, Gone, AfterSendCh, AfterWorkers, AfterPacketCh, AfterRecv,
      Captured, Queued, Offered, channels, counters, lifecycle

\* Start and Close

LEMMA StarterPlaces == ASSUME PipelineInv, PlacesInv, Starter PROVE PlacesInv'
<1>1. CASE StartStore
  BY <1>1, TrafficUntouchedPlaces DEF StartStore, StarterAt
<1>2. CASE StartSpawn
  <2>1. /\ recv.pkt = NoPacket /\ recv'.pkt = NoPacket
        /\ sender.pkt = NoPacket /\ sender'.pkt = NoPacket
        /\ \A w \in Workers : worker[w].pkt = NoPacket /\ worker'[w].pkt = NoPacket
        /\ starter' = "returned"
        /\ UNCHANGED <<outside, channels, counters, sent, done>>
    BY <1>2 DEF StartSpawn, StarterAt, PlacesInv, NoHandBeforeStart, Off, Idle, Hand
  <2>2. UNCHANGED <<Gone, AfterSendCh, AfterWorkers, AfterPacketCh, AfterRecv, Captured>>
    BY <2>1 DEF Gone, AfterSendCh, AfterWorkers, AfterPacketCh, AfterRecv, Captured, Queued, Offered,
       channels, counters
  <2> QED
    BY <2>1, <2>2 DEF PlacesInv, OnePlace, SomePlace, NoHandBeforeStart, channels, counters
<1> QED  BY <1>1, <1>2 DEF Starter

LEMMA CloserPlaces == ASSUME PipelineInv, PlacesInv, NEW c \in Closers, Closer(c) PROVE PlacesInv'
<1>1. UnchangedTraffic /\ UNCHANGED starter /\ (done => done')
  BY DEF Closer, StopCheck, StopStore, StopIfOpen, CloseFlag, CloseHandle, CloseDone
<1> QED  BY <1>1, TrafficUntouchedPlaces

LEMMA PlacesInvariance == Spec => [](PipelineInv /\ PlacesInv)
<1>1. PipelineInv /\ PlacesInv /\ [Next]_vars => PlacesInv'
  <2> SUFFICES ASSUME PipelineInv, PlacesInv, [Next]_vars PROVE PlacesInv'  OBVIOUS
  <2>1. CASE RecvLoop
    BY <2>1, RecvTopPlaces, RecvPacketPlaces, RecvReinjectPlaces, RecvEnqueuePlaces DEF RecvLoop
  <2>2. CASE \E w \in Workers : Worker(w)
    BY <2>2, WorkerTakePlaces, WorkerBlockPlaces, WorkerAllowPlaces, WorkerOfferPlaces,
       WorkerExitPlaces DEF Worker
  <2>3. CASE SendLoop
    BY <2>3, SenderTakePlaces, SenderSendPlaces, SenderExitPlaces DEF SendLoop
  <2>4. CASE Starter
    BY <2>4, StarterPlaces
  <2>5. CASE \E c \in Closers : Closer(c)
    BY <2>5, CloserPlaces
  <2>6. CASE UNCHANGED vars
    BY <2>6, TrafficUntouchedPlaces DEF vars, UnchangedTraffic, lifecycle
  <2> QED  BY <2>1, <2>2, <2>3, <2>4, <2>5, <2>6 DEF Next
<1> QED  BY <1>1, InitPlaces, PipelineInvariance, PTL DEF Spec

\* A packet in exactly one place: the union of the places is a singleton.
LEMMA OnePlaceOnly ==
  ASSUME PipelineInv, OnePlace, NEW p \in Packets, p \in outside \cup Captured
  PROVE  \E x : Places(p) = {x}
<1>1. /\ NoPacket \notin Packets /\ p # NoPacket
      /\ Gone \subseteq AfterSendCh /\ AfterSendCh \subseteq AfterWorkers
      /\ AfterWorkers \subseteq AfterPacketCh /\ AfterPacketCh \subseteq AfterRecv
      /\ AfterRecv \subseteq Captured
  BY PipelineAssumption DEF AfterSendCh, AfterWorkers, AfterPacketCh, AfterRecv, Captured
<1>2. CASE p \in outside
  <2>1. p \notin Captured
    BY <1>2 DEF OnePlace
  <2>2. /\ p # recv.pkt /\ p # sender.pkt /\ p \notin blocked /\ p \notin dropped /\ p \notin sent
        /\ \A j \in DOMAIN packetCh : packetCh[j] # p
        /\ \A j \in DOMAIN sendCh : sendCh[j] # p
        /\ \A w \in Workers : worker[w].pkt # p
    BY <2>1 DEF Captured, AfterRecv, AfterPacketCh, AfterWorkers, AfterSendCh, Gone, Queued, Offered
  <2>3. {p} \cap outside = {p}
    BY <1>2
  <2>4. Places(p) = {<<"outside">>}
    BY <2>2, <2>3 DEF Places
  <2> QED  BY <2>4
<1>3. CASE p = recv.pkt
  <2>1. p \notin AfterRecv /\ p \notin outside
    BY <1>1, <1>3 DEF OnePlace, Captured
  <2>2. /\ p # sender.pkt /\ p \notin blocked /\ p \notin dropped /\ p \notin sent
        /\ \A j \in DOMAIN packetCh : packetCh[j] # p
        /\ \A j \in DOMAIN sendCh : sendCh[j] # p
        /\ \A w \in Workers : worker[w].pkt # p
    BY <2>1 DEF AfterRecv, AfterPacketCh, AfterWorkers, AfterSendCh, Gone, Queued, Offered
  <2>3. {p} \cap {recv.pkt} = {p}
    BY <1>3
  <2>4. Places(p) = {<<"recv">>}
    BY <2>1, <2>2, <2>3 DEF Places
  <2> QED  BY <2>4
<1>4. CASE p \in Queued
  <2>1. PICK k \in DOMAIN packetCh : packetCh[k] = p
    BY <1>4 DEF Queued
  <2>2. p \notin AfterPacketCh /\ p \in AfterRecv /\ p \notin outside /\ p # recv.pkt
        /\ \A j \in DOMAIN packetCh : packetCh[j] = p => j = k
    BY <1>1, <1>4, <2>1 DEF OnePlace, AfterRecv, PipelineInv, OneCopy
  <2>3. /\ p # sender.pkt /\ p \notin blocked /\ p \notin dropped /\ p \notin sent
        /\ \A j \in DOMAIN sendCh : sendCh[j] # p
        /\ \A w \in Workers : worker[w].pkt # p
    BY <2>2 DEF AfterPacketCh, AfterWorkers, AfterSendCh, Gone, Offered
  <2>4. {j \in DOMAIN packetCh : packetCh[j] = p} = {k}
    BY <2>1, <2>2
  <2>5. Places(p) = {<<"packetCh", k>>}
    BY <2>2, <2>3, <2>4 DEF Places
  <2> QED  BY <2>5
<1>5. CASE \E w \in Workers : worker[w].pkt = p
  <2>1. PICK k \in Workers : worker[k].pkt = p
    BY <1>5
  <2>2. p \in AfterPacketCh /\ p \notin AfterWorkers /\ \A u \in Workers : worker[u].pkt = p => u = k
    BY <1>1, <2>1 DEF OnePlace, AfterPacketCh
  <2>3. p \notin outside /\ p # recv.pkt /\ \A j \in DOMAIN packetCh : packetCh[j] # p
    BY <1>1, <2>2 DEF OnePlace
  <2>4. /\ p # sender.pkt /\ p \notin blocked /\ p \notin dropped /\ p \notin sent
        /\ \A j \in DOMAIN sendCh : sendCh[j] # p
    BY <2>2 DEF AfterWorkers, AfterSendCh, Gone, Offered
  <2>5. {u \in Workers : worker[u].pkt = p} = {k}
    BY <2>1, <2>2
  <2>6. Places(p) = {<<"worker", k>>}
    BY <2>3, <2>4, <2>5 DEF Places
  <2> QED  BY <2>6
<1>6. CASE p \in Offered
  <2>1. PICK k \in DOMAIN sendCh : sendCh[k] = p
    BY <1>6 DEF Offered
  <2>2. p \in AfterWorkers /\ p \notin AfterSendCh /\ \A j \in DOMAIN sendCh : sendCh[j] = p => j = k
    BY <1>6, <2>1 DEF OnePlace, AfterWorkers
  <2>3. /\ p \notin outside /\ p # recv.pkt /\ \A j \in DOMAIN packetCh : packetCh[j] # p
        /\ \A w \in Workers : worker[w].pkt # p
    BY <1>1, <2>2 DEF OnePlace
  <2>4. p # sender.pkt /\ p \notin blocked /\ p \notin dropped /\ p \notin sent
    BY <2>2 DEF AfterSendCh, Gone
  <2>5. {j \in DOMAIN sendCh : sendCh[j] = p} = {k}
    BY <2>1, <2>2
  <2>6. Places(p) = {<<"sendCh", k>>}
    BY <2>3, <2>4, <2>5 DEF Places
  <2> QED  BY <2>6
<1>7. CASE p \in AfterSendCh
  <2>1. /\ p \notin outside /\ p # recv.pkt /\ \A j \in DOMAIN packetCh : packetCh[j] # p
        /\ \A w \in Workers : worker[w].pkt # p
        /\ \A j \in DOMAIN sendCh : sendCh[j] # p
    BY <1>1, <1>7 DEF OnePlace
  <2>2. CASE p = sender.pkt
    <3>1. p \notin blocked /\ p \notin dropped /\ p \notin sent
      BY <2>2 DEF OnePlace, Gone
    <3>2. {p} \cap {sender.pkt} = {p}
      BY <2>2
    <3>3. Places(p) = {<<"sender">>}
      BY <2>1, <3>1, <3>2 DEF Places
    <3> QED  BY <3>3
  <2>3. CASE p \in blocked
    <3>1. p # sender.pkt /\ p \notin dropped /\ p \notin sent
      BY <2>3 DEF OnePlace, Gone
    <3>2. {p} \cap blocked = {p}
      BY <2>3
    <3>3. Places(p) = {<<"blocked">>}
      BY <2>1, <3>1, <3>2 DEF Places
    <3> QED  BY <3>3
  <2>4. CASE p \in dropped
    <3>1. p # sender.pkt /\ p \notin blocked /\ p \notin sent
      BY <2>4 DEF OnePlace, Gone
    <3>2. {p} \cap dropped = {p}
      BY <2>4
    <3>3. Places(p) = {<<"dropped">>}
      BY <2>1, <3>1, <3>2 DEF Places
    <3> QED  BY <3>3
  <2>5. CASE p \in sent
    <3>1. p # sender.pkt /\ p \notin blocked /\ p \notin dropped
      BY <2>5 DEF OnePlace, Gone
    <3>2. {p} \cap sent = {p}
      BY <2>5
    <3>3. Places(p) = {<<"sent">>}
      BY <2>1, <3>1, <3>2 DEF Places
    <3> QED  BY <3>3
  <2> QED  BY <1>7, <2>2, <2>3, <2>4, <2>5 DEF AfterSendCh, Gone
<1> QED
  BY <1>2, <1>3, <1>4, <1>5, <1>6, <1>7 DEF Captured, AfterRecv, AfterPacketCh, AfterWorkers

LEMMA NoPlace ==
  ASSUME NEW p \in Packets, p \notin outside \cup Captured
  PROVE  Places(p) = {}
<1>1. /\ p # recv.pkt /\ p # sender.pkt /\ p \notin blocked /\ p \notin dropped /\ p \notin sent
      /\ p \notin outside
      /\ \A j \in DOMAIN packetCh : packetCh[j] # p
      /\ \A j \in DOMAIN sendCh : sendCh[j] # p
      /\ \A w \in Workers : worker[w].pkt # p
  BY DEF Captured, AfterRecv, AfterPacketCh, AfterWorkers, AfterSendCh, Gone, Queued, Offered
<1> QED  BY <1>1 DEF Places

\* Conservation, for any number of packets and workers, any capacity and any
\* overlap of Close calls: recvLoop, the workers and sendLoop never duplicate
\* a packet, hand it to two goroutines or lose it without counting it, except
\* that after done is closed a worker may leave with a packet it has allowed.
THEOREM PacketsAreConserved == Spec => []PacketsConserved
<1>1. PipelineInv /\ PlacesInv => PacketsConserved
  <2> SUFFICES ASSUME PipelineInv, PlacesInv, NEW p \in Packets
               PROVE  Cardinality(Places(p)) = 1 \/ (done /\ p \in allowed /\ Places(p) = {})
    BY DEF PacketsConserved
  <2>1. CASE p \in outside \cup Captured
    <3>1. PICK x : Places(p) = {x}
      BY <2>1, OnePlaceOnly DEF PlacesInv
    <3> QED  BY <3>1, FS_Singleton
  <2>2. CASE p \notin outside \cup Captured
    BY <2>2, NoPlace DEF PlacesInv, SomePlace
  <2> QED  BY <2>1, <2>2
<1> QED  BY <1>1, PlacesInvariance, PTL

-----------------------------------------------------------------------------
\* Close.  Every call that gets past the check of started does so before the
\* first reset, for done is closed, and started true, at most once: so any two
\* of them had read started before either reset it.

StopPCs == {"stop", "ifopen", "stopclose", "stophandle", "done"}
PastPCs == {"panicked", "close", "closehandle", "closed"}
InStop(c) == closer[c] \in StopPCs

CloseInv ==
  /\ starter = "created" => ~started /\ ~done /\ \A c \in Closers : ~InStop(c)
  /\ done => ~started
  /\ \A c \in Closers : InStop(c) /\ closer[c] # "stop" => ~started
  /\ \A c, d \in Closers : InStop(c) /\ InStop(d) /\ c # d => {c, d} \in raced
  /\ done => \E d \in Closers : /\ closer[d] \in PastPCs
                                /\ \A c \in Closers : InStop(c) => {c, d} \in raced
  /\ OnlyRacesPanic

\* A step of a call that is past the check, but for closing done.
LEMMA WithinClose ==
  ASSUME PipelineInv, CloseInv, NEW c \in Closers, NEW pc \in CloserPCs, GoTo(c, pc),
         UNCHANGED <<starter, done, raced>>, started' => started,
         \/ InStop(c) /\ pc \in StopPCs \ {"stop"} /\ ~started'
         \/ closer[c] \in PastPCs /\ pc \in PastPCs \ {"panicked"}
         \/ closer[c] = "outside" /\ pc = "close"
  PROVE  CloseInv'
<1>1. /\ closer \in [Closers -> CloserPCs] /\ closer'[c] = pc
      /\ \A d \in Closers : d # c => closer'[d] = closer[d]
  BY DEF PipelineInv, PipelineTypeOK, GoTo
<1>2. \A d \in Closers : InStop(d)' => InStop(d)
  BY <1>1 DEF InStop, StopPCs, PastPCs
<1>3. \A d \in Closers : closer[d] \in PastPCs => closer'[d] \in PastPCs
  BY <1>1 DEF InStop, StopPCs, PastPCs
<1>4. \A d \in Closers : closer'[d] = "panicked" => closer[d] = "panicked"
  BY <1>1 DEF StopPCs, PastPCs
<1>5. \A d \in Closers : InStop(d)' /\ closer'[d] # "stop" => ~started'
  BY <1>1, <1>2 DEF CloseInv, InStop, StopPCs, PastPCs
<1>6. done' => \E d \in Closers : /\ closer'[d] \in PastPCs
                                  /\ \A x \in Closers : InStop(x)' => {x, d} \in raced'
  BY <1>2, <1>3 DEF CloseInv
<1>7. OnlyRacesPanic'
  BY <1>4 DEF CloseInv, OnlyRacesPanic
<1>8. /\ starter' = "created" => ~started' /\ ~done' /\ \A d \in Closers : ~InStop(d)'
      /\ done' => ~started'
  BY <1>2 DEF CloseInv
<1>9. \A d, e \in Closers : InStop(d)' /\ InStop(e)' /\ d # e => {d, e} \in raced'
  BY <1>2 DEF CloseInv
<1> QED  BY <1>5, <1>6, <1>7, <1>8, <1>9 DEF CloseInv

LEMMA CheckClose ==
  ASSUME PipelineInv, CloseInv, NEW c \in Closers, StopCheck(c), started  PROVE CloseInv'
<1>1. /\ closer \in [Closers -> CloserPCs] /\ closer[c] = "outside" /\ closer'[c] = "stop"
      /\ \A d \in Closers : d # c => closer'[d] = closer[d]
      /\ UNCHANGED <<starter, done, started>>
      /\ raced' = raced \cup {{c, d} : d \in {x \in Closers : closer[x] = "stop"}}
  BY DEF PipelineInv, PipelineTypeOK, StopCheck, At, GoTo
<1>2. ~done /\ starter # "created"
  BY DEF CloseInv
<1>3. \A d \in Closers : InStop(d) => closer[d] = "stop"
  BY DEF CloseInv
<1>4. \A d \in Closers : d # c /\ InStop(d)' => closer[d] = "stop" /\ closer'[d] = "stop" /\ {c, d} \in raced'
  BY <1>1, <1>3 DEF InStop
<1>5. ASSUME NEW d \in Closers, NEW e \in Closers, InStop(d)', InStop(e)', d # e
      PROVE  {d, e} \in raced'
  <2>1. CASE d = c
    BY <1>4, <1>5, <2>1
  <2>2. CASE e = c
    <3>1. {d, e} = {c, d}
      BY <2>2
    <3> QED  BY <1>4, <1>5, <2>2, <3>1
  <2>3. CASE d # c /\ e # c
    <3>1. InStop(d) /\ InStop(e)
      BY <1>1, <1>5, <2>3 DEF InStop
    <3> QED  BY <1>1, <1>5, <3>1 DEF CloseInv
  <2> QED  BY <2>1, <2>2, <2>3
<1>6. OnlyRacesPanic'
  BY <1>1 DEF CloseInv, OnlyRacesPanic
<1>7. \A d \in Closers : InStop(d)' => closer'[d] = "stop"
  BY <1>1, <1>4
<1> QED  BY <1>1, <1>2, <1>5, <1>6, <1>7 DEF CloseInv

LEMMA DoneClose ==
  ASSUME PipelineInv, CloseInv, NEW c \in Closers, CloseDone(c)  PROVE CloseInv'
<1>1. /\ closer \in [Closers -> CloserPCs] /\ closer[c] = "done"
      /\ closer'[c] = IF done THEN "panicked" ELSE "close"
      /\ \A d \in Closers : d # c => closer'[d] = closer[d]
      /\ done' /\ UNCHANGED <<starter, started, raced>>
  BY DEF PipelineInv, PipelineTypeOK, CloseDone, At, GoTo
<1>2. InStop(c) /\ closer[c] \notin PastPCs /\ closer'[c] \in PastPCs /\ ~InStop(c)'
  BY <1>1 DEF InStop, StopPCs, PastPCs
<1>3. ~started /\ starter # "created"
  BY <1>1, <1>2 DEF CloseInv
<1>4. \A d \in Closers : InStop(d)' => d # c /\ InStop(d)
  BY <1>1, <1>2 DEF InStop
<1>5. CASE ~done
  <2>1. \A d \in Closers : InStop(d)' => {d, c} \in raced'
    BY <1>1, <1>2, <1>4 DEF CloseInv
  <2>2. OnlyRacesPanic'
    BY <1>1, <1>5 DEF CloseInv, OnlyRacesPanic
  <2> QED  BY <1>1, <1>2, <1>3, <1>4, <2>1, <2>2 DEF CloseInv
<1>6. CASE done
  <2>1. PICK d \in Closers : /\ closer[d] \in PastPCs
                             /\ \A x \in Closers : InStop(x) => {x, d} \in raced
    BY <1>6 DEF CloseInv
  <2>2. d # c /\ {c, d} \in raced' /\ closer'[d] \in PastPCs
    BY <1>1, <1>2, <2>1
  <2>3. OnlyRacesPanic'
    BY <1>1, <2>2 DEF CloseInv, OnlyRacesPanic
  <2> QED  BY <1>1, <1>3, <1>4, <2>1, <2>2, <2>3 DEF CloseInv
<1> QED  BY <1>5, <1>6

LEMMA CloserClose ==
  ASSUME PipelineInv, CloseInv, NEW c \in Closers, Closer(c) PROVE CloseInv'
<1> USE DEF CloserPCs
<1>1. CASE StopCheck(c)
  <2>1. CASE ~started
    BY <1>1, <2>1, WithinClose DEF StopCheck, At
  <2> QED  BY <1>1, <2>1, CheckClose
<1>2. CASE StopStore(c)
  BY <1>2, WithinClose DEF StopStore, Stopped, At, InStop, StopPCs
<1>3. CASE StopIfOpen(c)
  <2>1. ~started
    BY <1>3 DEF CloseInv, StopIfOpen, At, InStop, StopPCs
  <2>2. CASE open
    BY <1>3, <2>1, <2>2, WithinClose DEF StopIfOpen, At, InStop, StopPCs
  <2>3. CASE ~open
    BY <1>3, <2>1, <2>3, WithinClose DEF StopIfOpen, At, InStop, StopPCs
  <2> QED  BY <2>2, <2>3
<1>4. CASE CloseFlag(c, "stopclose", "stophandle")
  <2>1. ~started
    BY <1>4 DEF CloseInv, CloseFlag, At, InStop, StopPCs
  <2> QED  BY <1>4, <2>1, WithinClose DEF CloseFlag, At, InStop, StopPCs
<1>5. CASE CloseHandle(c, "stophandle", "done")
  <2>1. ~started
    BY <1>5 DEF CloseInv, CloseHandle, At, InStop, StopPCs
  <2> QED  BY <1>5, <2>1, WithinClose DEF CloseHandle, At, InStop, StopPCs
<1>6. CASE CloseDone(c)
  BY <1>6, DoneClose
<1>7. CASE CloseFlag(c, "close", "closehandle")
  BY <1>7, WithinClose DEF CloseFlag, At, PastPCs
<1>8. CASE CloseHandle(c, "closehandle", "closed")
  BY <1>8, WithinClose DEF CloseHandle, At, PastPCs
<1> QED  BY <1>1, <1>2, <1>3, <1>4, <1>5, <1>6, <1>7, <1>8 DEF Closer

LEMMA CloseInvariance == Spec => []CloseInv
<1>1. Init => CloseInv
  BY DEF Init, CloseInv, InStop, StopPCs, OnlyRacesPanic
<1>2. PipelineInv /\ CloseInv /\ [Next]_vars => CloseInv'
  <2> SUFFICES ASSUME PipelineInv, CloseInv, [Next]_vars PROVE CloseInv'  OBVIOUS
  <2>1. CASE RecvLoop \/ (\E w \in Workers : Worker(w)) \/ SendLoop \/ UNCHANGED vars
    <3>1. UNCHANGED lifecycle
      BY <2>1 DEF RecvLoop, RecvTop, RecvPacket, RecvError, RecvReinject, RecvEnqueue, Worker,
         WorkerTake, WorkerBlock, WorkerAllow, WorkerOffer, WorkerExit, SendLoop, SenderTake,
         SenderSend, SenderExit, vars
    <3> QED  BY <3>1 DEF CloseInv, InStop, OnlyRacesPanic, lifecycle
  <2>2. CASE Starter
    <3>1. UNCHANGED <<closer, done, raced>> /\ starter' # "created"
      BY <2>2 DEF Starter, StartStore, StartSpawn, StarterAt
    <3>2. started' = started \/ starter = "created"
      BY <2>2 DEF Starter, StartStore, StartSpawn, StarterAt
    <3> QED  BY <3>1, <3>2 DEF CloseInv, InStop, OnlyRacesPanic
  <2>3. CASE \E c \in Closers : Closer(c)
    BY <2>3, CloserClose
  <2> QED  BY <2>1, <2>2, <2>3 DEF Next
<1> QED  BY <1>1, <1>2, PipelineInvariance, PTL DEF Spec

\* The one way in which Stop panics, for any number of calls of Close and any
\* interleaving with Start: two calls have read started before either reset it.
THEOREM OnlyRacingStopsPanic == Spec => []OnlyRacesPanic
<1>1. CloseInv => OnlyRacesPanic
  BY DEF CloseInv
<1> QED  BY <1>1, CloseInvariance, PTL

=============================================================================
