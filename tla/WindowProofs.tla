------------------------------ MODULE WindowProofs ------------------------------
(***************************************************************************)
(* Proofs about Window, for any number of clicks, calls, updates and       *)
(* configurations: type correctness, that notifications are due, and when  *)
(* the window shows the state that protection has, however switches by the *)
(* window, the tray and startup, their events and answers cross.           *)
(***************************************************************************)
EXTENDS Window, FiniteSets, TLAPS, SequenceTheorems, FunctionTheorems, FiniteSetTheorems

Messages == {<<"protection", b>> : b \in BOOLEAN}
            \cup {<<"answer", c>> : c \in Callers} \cup {<<"triggered">>}
            \cup {<<"update-status", n>> : n \in 0 .. 1}
            \cup {<<"config", b>> : b \in BOOLEAN} \cup {<<"close-request">>}

\* The messages on their way that may end in a notification.
ToastKinds == {"update-status", "config"}
Coming(box) == {i \in 1 .. Len(box) : box[i][1] \in ToastKinds}

\* Every notification sent, or still possible, has an update of its own that has
\* ended, and so has the first event, which gets none.  Configuration read for
\* a notification says what the configuration is.
ToastInv ==
  /\ IF startup
     THEN /\ toasts = 0 /\ lookups = 0
          /\ \A i \in 1 .. Len(inbox) : inbox[i][1] # "config"
          /\ Cardinality(Coming(inbox)) <= rounds
     ELSE toasts + lookups + Cardinality(Coming(inbox)) + 1 <= rounds
  /\ \A i \in 1 .. Len(inbox) : inbox[i][1] = "config" => inbox[i][2] = cfg.notifications
  /\ ~cfg.notifications => toasts = 0

\* The messages on their way that set what the window shows, the last of them,
\* and what one of them sets.
ShowKinds == {"protection", "answer"}
Nothing == \A i \in 1 .. Len(inbox) : inbox[i][1] \notin ShowKinds
LastShow(i) ==
  inbox[i][1] \in ShowKinds /\ \A j \in 1 .. Len(inbox) : j > i => inbox[j][1] \notin ShowKinds
ValueOf(m) == IF m[1] = "protection" THEN m[2] ELSE Answered(m[2])

\* Where a call is that has an event to emit, or one that has put protection on
\* or off and has still to tell, and one that answers.
Emitting == {"emitTrue", "emitFalse"}
Owing == {"clearing", "opening"} \cup Emitting
Answering == {"answer", "answered"}

\* Who switches and who answers, and that nobody does before the window is there.
CallInv ==
  /\ \A c \in Callers : call[c].pc \in Answering => c \in Clicks \cup {Refresh}
  /\ call[Refresh].pc \in {"idle", "called", "done"} \cup Answering
  /\ ~mounted => Nothing /\ \A c \in Clicks \cup {Refresh} : call[c].pc = "idle"

\* An answer on its way is that of one call, whose value stays as it is.
MessageInv ==
  /\ \A i \in 1 .. Len(inbox) : inbox[i][1] = "answer" => call[inbox[i][2]].pc = "answered"
  /\ \A i, j \in 1 .. Len(inbox) :
       inbox[i][1] = "answer" /\ inbox[j][1] = "answer" /\ inbox[i][2] = inbox[j][2] => i = j

\* Nobody tells of a turn that has not come.
TurnInv ==
  /\ turn > 0 /\ told <= turn
  /\ \A c \in Callers : call[c].about <= turn
  /\ \A c \in Callers : call[c].pc \in {"idle", "called", "stopping", "starting", "done"} => call[c].about = 0

\* Who tells of the present turn tells the state that protection is in.
TellsInv ==
  \A c \in Callers : call[c].about = turn =>
    /\ call[c].pc = "emitTrue" => pipe
    /\ call[c].pc = "emitFalse" => ~pipe
    /\ call[c].pc \in Answering => Answered(c) = pipe

\* The window has been told of the present turn, or is going to be.
PendingInv ==
  mounted =>
    \/ told = turn
    \/ \E c \in Callers : call[c].pc \in Owing /\ call[c].about = turn
    \/ call[Refresh].pc = "called"
    \/ call[Refresh].pc = "answer" /\ call[Refresh].about = turn

\* When what was posted last is of the present turn, it sets the state that
\* protection is in, and when it has been handled the window shows that.
LastInv ==
  ~misled /\ told = turn =>
    /\ Nothing => shown = pipe
    /\ \A i \in 1 .. Len(inbox) : LastShow(i) => ValueOf(inbox[i]) = pipe

ShowInv == CallInv /\ MessageInv /\ TurnInv /\ TellsInv /\ PendingInv /\ LastInv

-----------------------------------------------------------------------------
\* The queue

LEMMA MessageShapes ==
  /\ \A b \in BOOLEAN : <<"protection", b>> \in Messages
  /\ \A c \in Callers : <<"answer", c>> \in Messages
  /\ <<"triggered">> \in Messages /\ <<"close-request">> \in Messages
  /\ \A n \in 0 .. 1 : <<"update-status", n>> \in Messages
  /\ \A b \in BOOLEAN : <<"config", b>> \in Messages
BY DEF Messages

LEMMA MessageParts ==
  ASSUME NEW m \in Messages
  PROVE  /\ m[1] = "protection" => m[2] \in BOOLEAN
         /\ m[1] = "answer" => m[2] \in Callers
         /\ m[1] = "update-status" => m[2] \in 0 .. 1
         /\ m[1] = "config" => m[2] \in BOOLEAN
<1>1. CASE m \in {<<"protection", b>> : b \in BOOLEAN}
  BY <1>1
<1>2. CASE m \in {<<"answer", c>> : c \in Callers}
  BY <1>2
<1>3. CASE m \in {<<"triggered">>, <<"close-request">>}
  BY <1>3
<1>4. CASE m \in {<<"update-status", n>> : n \in 0 .. 1}
  BY <1>4
<1>5. CASE m \in {<<"config", b>> : b \in BOOLEAN}
  BY <1>5
<1> QED  BY <1>1, <1>2, <1>3, <1>4, <1>5 DEF Messages

\* What a step may do to the queue: nothing, post m, or take the head.
Posts(m) == m \in Messages /\ inbox' = Append(inbox, m)
Takes == inbox # <<>> /\ inbox' = Tail(inbox)

LEMMA AfterPost ==
  ASSUME inbox \in Seq(Messages), NEW m, Posts(m)
  PROVE  /\ inbox' \in Seq(Messages) /\ inbox' # <<>>
         /\ Len(inbox) \in Nat /\ Len(inbox') = Len(inbox) + 1
         /\ \A i \in 1 .. Len(inbox) : inbox'[i] = inbox[i]
         /\ inbox'[Len(inbox) + 1] = m
<1> HIDE DEF Messages
<1> QED  BY AppendProperties DEF Posts

LEMMA AfterTake ==
  ASSUME inbox \in Seq(Messages), Takes
  PROVE  /\ inbox' \in Seq(Messages)
         /\ Len(inbox) \in Nat \ {0} /\ Len(inbox') = Len(inbox) - 1
         /\ \A i \in 1 .. Len(inbox') : inbox'[i] = inbox[i + 1] /\ i + 1 \in 1 .. Len(inbox)
         /\ Head(inbox) = inbox[1] /\ inbox[1] \in Messages
<1>1. Head(inbox) \in Messages /\ inbox' \in Seq(Messages) /\ Len(inbox') = Len(inbox) - 1
      /\ \A i \in 1 .. Len(inbox') : inbox'[i] = inbox[i+1]
  BY HeadTailProperties DEF Takes
<1>2. Len(inbox) \in Nat \ {0} /\ Head(inbox) = inbox[1]
  BY DEF Takes
<1> QED  BY <1>1, <1>2

LEMMA ComingSize ==
  ASSUME NEW box \in Seq(Messages)
  PROVE  IsFiniteSet(Coming(box)) /\ Cardinality(Coming(box)) \in Nat
<1>1. IsFiniteSet(1 .. Len(box))
  BY FS_Interval
<1>2. IsFiniteSet(Coming(box))
  BY <1>1, FS_Subset DEF Coming
<1> QED  BY <1>2, FS_CardinalityType

LEMMA ComingEmpty == Cardinality(Coming(<<>>)) = 0
<1>1. Coming(<<>>) = {}
  BY DEF Coming
<1> QED  BY <1>1, FS_EmptySet

LEMMA ComingAfterPost ==
  ASSUME inbox \in Seq(Messages), NEW m, Posts(m)
  PROVE  Cardinality(Coming(inbox')) =
           Cardinality(Coming(inbox)) + (IF m[1] \in ToastKinds THEN 1 ELSE 0)
<1> DEFINE n == Len(inbox) + 1
<1>1. /\ Len(inbox) \in Nat /\ Len(inbox') = n /\ inbox'[n] = m
      /\ \A i \in 1 .. Len(inbox) : inbox'[i] = inbox[i]
  BY AfterPost
<1>2. Coming(inbox') = IF m[1] \in ToastKinds THEN Coming(inbox) \cup {n} ELSE Coming(inbox)
  BY <1>1 DEF Coming
<1>3. n \notin Coming(inbox)
  BY <1>1 DEF Coming
<1>4. IsFiniteSet(Coming(inbox)) /\ Cardinality(Coming(inbox)) \in Nat
  BY ComingSize
<1> HIDE DEF n
<1>5. Cardinality(Coming(inbox) \cup {n}) = Cardinality(Coming(inbox)) + 1
  BY <1>3, <1>4, FS_AddElement
<1> QED  BY <1>2, <1>4, <1>5

LEMMA ComingAfterTake ==
  ASSUME inbox \in Seq(Messages), Takes
  PROVE  Cardinality(Coming(inbox')) =
           Cardinality(Coming(inbox)) - (IF Head(inbox)[1] \in ToastKinds THEN 1 ELSE 0)
<1> DEFINE S == Coming(inbox')
           T == Coming(inbox) \ {1}
           f == [i \in S |-> i + 1]
<1>1. /\ Len(inbox) \in Nat \ {0} /\ Len(inbox') = Len(inbox) - 1 /\ Head(inbox) = inbox[1]
      /\ inbox' \in Seq(Messages)
      /\ \A i \in 1 .. Len(inbox') : inbox'[i] = inbox[i + 1] /\ i + 1 \in 1 .. Len(inbox)
  BY AfterTake
<1>2. IsFiniteSet(S) /\ Cardinality(S) \in Nat
  BY <1>1, ComingSize
<1>3. IsFiniteSet(Coming(inbox)) /\ Cardinality(Coming(inbox)) \in Nat
  BY ComingSize
<1>4. \A i \in S : i \in Nat /\ i + 1 \in T
  BY <1>1 DEF Coming
<1>5. \A j \in T : j - 1 \in S /\ j = (j - 1) + 1
  <2> SUFFICES ASSUME NEW j \in T PROVE j - 1 \in S /\ j = (j - 1) + 1  OBVIOUS
  <2>1. j \in 1 .. Len(inbox) /\ j # 1 /\ inbox[j][1] \in ToastKinds
    BY DEF Coming
  <2>2. j - 1 \in 1 .. Len(inbox') /\ j = (j - 1) + 1
    BY <1>1, <2>1
  <2>3. inbox'[j - 1] = inbox[j]
    BY <1>1, <2>2
  <2> QED  BY <2>1, <2>2, <2>3 DEF Coming
<1>6. f \in Bijection(S, T)
  <2>1. f \in [S -> T]
    BY <1>4
  <2>2. \A a, b \in S : f[a] = f[b] => a = b
    BY <1>4
  <2>3. \A j \in T : \E i \in S : f[i] = j
    BY <1>5
  <2> HIDE DEF f, S, T
  <2> QED  BY <2>1, <2>2, <2>3 DEF Bijection, Injection, Surjection, IsInjective
<1>7. Cardinality(T) = Cardinality(S)
  <2> HIDE DEF f, S, T
  <2> QED  BY <1>2, <1>6, FS_Bijection DEF ExistsBijection
<1>8. Cardinality(T) = IF 1 \in Coming(inbox) THEN Cardinality(Coming(inbox)) - 1
                                              ELSE Cardinality(Coming(inbox))
  BY <1>3, FS_RemoveElement
<1>9. 1 \in Coming(inbox) <=> Head(inbox)[1] \in ToastKinds
  BY <1>1 DEF Coming
<1> QED  BY <1>3, <1>7, <1>8, <1>9

-----------------------------------------------------------------------------
\* The steps, by what they are about

Switching ==
  \/ Mount \/ ReadState \/ HandleProtection \/ HandleAnswer
  \/ \E c \in Callers : ToggleCheck(c) \/ ClosePipeline(c) \/ ClearField(c) \/ StartPipeline(c)
                          \/ StartFails(c) \/ EmitProtection(c) \/ AnswerCall(c)
  \/ \E c \in Clicks : ClickToggle(c)
  \/ \E c \in TrayToggles : TrayToggle(c)

Updating ==
  \/ ClickUpdate \/ TriggerUpdate \/ TriggerManual \/ HandleTriggered \/ TimerFires
  \/ BeginUpdate \/ EndUpdate \/ HandleUpdateStatus \/ AnswerConfig \/ HandleConfig

Closing ==
  \/ CloseWindow \/ HandleCloseRequest \/ HeaderMinimize \/ MinimizeToTray \/ QuitApp \/ Quit
  \/ Choose({"MinimizeToTray"}) \/ Choose({"QuitApp"}) \/ Choose({})
  \/ TrayShow \/ TrayQuit

LEMMA NextIs == Next => Switching \/ Updating \/ Closing
BY DEF Next, Handle, Calls, User, Switching, Updating, Closing

LEMMA SwitchingKeeps == Switching => UNCHANGED <<cfg, update, closing>> /\ acts' \in {acts, acts + 1}
BY DEF Switching, Mount, ReadState, HandleProtection, HandleAnswer, ToggleCheck, ClosePipeline,
       ClearField, StartPipeline, Switches, StartFails, EmitProtection, AnswerCall, ClickToggle, TrayToggle, ClickPage, ClickTray,
       Click

LEMMA UpdatingKeeps ==
  Updating => UNCHANGED <<cfg, mounted, protection, closing>> /\ acts' \in {acts, acts + 1}
BY DEF Updating, ClickUpdate, TriggerUpdate, TriggerManual, HandleTriggered, TimerFires, BeginUpdate,
       EndUpdate, HandleUpdateStatus, AnswerConfig, HandleConfig, ClickPage, Click

LEMMA ClosingKeeps ==
  Closing => UNCHANGED <<cfg, mounted, protection, update>> /\ acts' \in {acts, acts + 1}
BY DEF Closing, CloseWindow, HandleCloseRequest, Choose, HeaderMinimize, MinimizeToTray, QuitApp, Quit,
       TrayShow, TrayQuit, ClickPage, ClickTray, Click

\* The queue is left alone, or a message of other kinds than these is posted or
\* taken.
BoxStep(kinds) ==
  \/ inbox' = inbox
  \/ \E m \in Messages : Posts(m) /\ m[1] \notin kinds
  \/ Takes /\ Head(inbox)[1] \notin kinds

LEMMA ReceiveIs == ASSUME NEW kind, Receive(kind) PROVE Takes /\ Head(inbox)[1] = kind
BY DEF Receive, Next1, Takes

LEMMA EmitIs == ASSUME NEW m \in Messages, Emit(m) PROVE inbox' = inbox \/ Posts(m)
BY DEF Emit, Posts

LEMMA SwitchingBox == Switching => BoxStep(ToastKinds)
<1> SUFFICES ASSUME Switching PROVE BoxStep(ToastKinds)  OBVIOUS
<1> USE DEF ToastKinds
<1>1. CASE HandleProtection \/ HandleAnswer
  BY <1>1, ReceiveIs DEF HandleProtection, HandleAnswer, BoxStep
<1>2. ASSUME NEW c \in Callers, EmitProtection(c) PROVE BoxStep(ToastKinds)
  <2> DEFINE b == call[c].pc = "emitTrue"
             m == <<"protection", b>>
  <2>1. Emit(m)
    BY <1>2 DEF EmitProtection
  <2>2. b \in BOOLEAN
    OBVIOUS
  <2> HIDE DEF b
  <2>3. m \in Messages /\ m[1] = "protection"
    BY <2>2, MessageShapes
  <2> HIDE DEF m
  <2> QED  BY <2>1, <2>3, EmitIs DEF BoxStep
<1>3. ASSUME NEW c \in Callers, AnswerCall(c) PROVE BoxStep(ToastKinds)
  <2> DEFINE m == <<"answer", c>>
  <2>1. m \in Messages /\ m[1] = "answer" /\ Posts(m)
    BY <1>3, MessageShapes DEF AnswerCall, Post, Posts
  <2> HIDE DEF m
  <2> QED  BY <2>1 DEF BoxStep
<1> QED  BY <1>1, <1>2, <1>3
         DEF Switching, Mount, ReadState, ToggleCheck, ClosePipeline, ClearField, StartPipeline,
             Switches, StartFails, ClickToggle, TrayToggle, BoxStep

LEMMA UpdatingBox == cfg \in Configs /\ Updating => BoxStep(ShowKinds)
<1> SUFFICES ASSUME cfg \in Configs, Updating PROVE BoxStep(ShowKinds)  OBVIOUS
<1> USE DEF ShowKinds
<1>1. CASE HandleTriggered \/ HandleUpdateStatus \/ HandleConfig
  BY <1>1, ReceiveIs DEF HandleTriggered, HandleUpdateStatus, HandleConfig, BoxStep
<1>2. CASE TriggerUpdate
  <2>1. Posts(<<"triggered">>)
    BY <1>2, MessageShapes DEF TriggerUpdate, Post, Posts
  <2> QED  BY <2>1, MessageShapes DEF BoxStep
<1>3. CASE EndUpdate
  <2>1. PICK n \in 0 .. 1 : Emit(<<"update-status", n>>)
    BY <1>3 DEF EndUpdate
  <2>2. <<"update-status", n>> \in Messages
    BY MessageShapes
  <2>3. inbox' = inbox \/ Posts(<<"update-status", n>>)
    BY <2>1, <2>2, EmitIs
  <2> QED  BY <2>2, <2>3 DEF BoxStep
<1>4. CASE AnswerConfig
  <2> DEFINE m == <<"config", cfg.notifications>>
  <2>1. m \in Messages /\ m[1] = "config"
    BY MessageShapes DEF Configs
  <2>2. Posts(m)
    BY <1>4, <2>1 DEF AnswerConfig, Post, Posts
  <2> HIDE DEF m
  <2> QED  BY <2>1, <2>2 DEF BoxStep
<1> QED  BY <1>1, <1>2, <1>3, <1>4
         DEF Updating, ClickUpdate, TriggerManual, TimerFires, BeginUpdate, BoxStep

LEMMA ClosingBox == Closing => BoxStep(ShowKinds \cup ToastKinds)
<1> SUFFICES ASSUME Closing PROVE BoxStep(ShowKinds \cup ToastKinds)  OBVIOUS
<1> USE DEF ShowKinds, ToastKinds
<1>1. CASE HandleCloseRequest
  BY <1>1, ReceiveIs DEF HandleCloseRequest, BoxStep
<1>2. CASE OnBeforeClose
  <2>1. inbox' = inbox \/ Emit(<<"close-request">>)
    BY <1>2 DEF OnBeforeClose
  <2>2. inbox' = inbox \/ Posts(<<"close-request">>)
    BY <2>1, EmitIs, MessageShapes
  <2> QED  BY <2>2, MessageShapes DEF BoxStep
<1> QED  BY <1>1, <1>2
         DEF Closing, CloseWindow, Choose, HeaderMinimize, MinimizeToTray, QuitApp, Quit, TrayShow,
             TrayQuit, BoxStep

-----------------------------------------------------------------------------
\* Types, part by part

BaseOK == cfg \in Configs /\ inbox \in Seq(Messages)
FlagsOK == mounted \in BOOLEAN /\ acts \in 0 .. MaxActs[cfg]
ProtectionOK ==
  /\ pipe \in BOOLEAN /\ shown \in BOOLEAN /\ misled \in BOOLEAN
  /\ turn \in Nat /\ told \in Nat
  /\ call \in [Callers -> [pc : PCs, captured : BOOLEAN, about : Nat]]
UpdateOK ==
  /\ updating \in BOOLEAN /\ startup \in BOOLEAN /\ asked \in BOOLEAN
  /\ updater \in {"first", "running", "waiting"}
  /\ rounds \in 0 .. MaxRounds[cfg] /\ (updater = "running" => rounds < MaxRounds[cfg])
  /\ calling \in Nat /\ sending \in Nat /\ timers \in Nat /\ lookups \in Nat /\ toasts \in Nat
ClosingOK ==
  /\ visible \in BOOLEAN /\ dialog \in BOOLEAN /\ quitting \in BOOLEAN
  /\ tray \in BOOLEAN /\ alive \in BOOLEAN
  /\ pending \subseteq {"MinimizeToTray", "QuitApp", "Quit"}
WindowOK == BaseOK /\ FlagsOK /\ ProtectionOK /\ UpdateOK /\ ClosingOK

LEMMA WindowOKIs == WindowOK => WindowTypeOK
BY DEF WindowOK, WindowTypeOK, BaseOK, FlagsOK, ProtectionOK, UpdateOK, ClosingOK, Messages

LEMMA Bounds ==
  /\ StartConfigs \subseteq Configs
  /\ \A c \in Configs : MaxActs[c] \in Nat /\ MaxRounds[c] \in Nat
BY WindowAssumption

LEMMA InitType == Init => WindowOK
<1> SUFFICES ASSUME Init PROVE WindowOK  OBVIOUS
<1> USE Bounds
<1>1. cfg \in Configs /\ inbox = <<>> /\ mounted \in BOOLEAN /\ acts = 0
  BY DEF Init
<1>2. BaseOK /\ FlagsOK
  BY <1>1 DEF BaseOK, FlagsOK
<1>3. ProtectionOK
  BY DEF Init, ProtectionOK, PCs
<1>4. UpdateOK
  <2>1. /\ updating = FALSE /\ startup = TRUE /\ asked = FALSE /\ updater = "first" /\ rounds = 0
        /\ calling = 0 /\ sending = 0 /\ timers = 0 /\ lookups = 0 /\ toasts = 0
    BY DEF Init
  <2>2. updating \in BOOLEAN /\ startup \in BOOLEAN /\ asked \in BOOLEAN
    BY <2>1, Zenon
  <2>3. rounds \in 0 .. MaxRounds[cfg]
    BY <1>1, <2>1
  <2> QED  BY <2>1, <2>2, <2>3 DEF UpdateOK
<1>5. ClosingOK
  <2>1. /\ visible = TRUE /\ dialog = FALSE /\ quitting = FALSE /\ pending = {} /\ tray = TRUE
        /\ alive = TRUE
    BY DEF Init
  <2> QED  BY <2>1 DEF ClosingOK
<1> QED  BY <1>2, <1>3, <1>4, <1>5 DEF WindowOK

LEMMA BoxType == ASSUME inbox \in Seq(Messages), NEW kinds, BoxStep(kinds) PROVE inbox' \in Seq(Messages)
<1> HIDE DEF Messages
<1> QED  BY AfterPost, AfterTake DEF BoxStep

LEMMA ActsType ==
  ASSUME BaseOK, FlagsOK, Switching \/ Updating \/ Closing
  PROVE  FlagsOK'
<1> cfg' = cfg
  BY SwitchingKeeps, UpdatingKeeps, ClosingKeeps
<1>1. CASE acts' = acts
  <2>1. mounted' \in BOOLEAN
    BY SwitchingKeeps, UpdatingKeeps, ClosingKeeps
       DEF FlagsOK, Switching, Mount, ReadState, HandleProtection, HandleAnswer, ToggleCheck, ClosePipeline,
           ClearField, StartPipeline, Switches, StartFails, EmitProtection, AnswerCall, ClickToggle, TrayToggle
  <2> QED  BY <1>1, <2>1 DEF FlagsOK
<1>2. CASE Click \/ ClickTray
  <2>1. acts' \in 0 .. MaxActs[cfg]
    BY <1>2, Bounds DEF BaseOK, FlagsOK, Click, ClickTray
  <2>2. mounted' = mounted \/ mounted' = TRUE
    BY SwitchingKeeps, UpdatingKeeps, ClosingKeeps
       DEF Switching, Mount, ReadState, HandleProtection, HandleAnswer, ToggleCheck, ClosePipeline,
           ClearField, StartPipeline, Switches, StartFails, EmitProtection, AnswerCall, ClickToggle, TrayToggle
  <2> QED  BY <2>1, <2>2 DEF FlagsOK
<1>3. acts' = acts \/ Click \/ ClickTray
  <2>1. CASE Switching
    BY <2>1 DEF Switching, Mount, ReadState, HandleProtection, HandleAnswer, ToggleCheck,
                ClosePipeline, ClearField, StartPipeline, Switches, StartFails, EmitProtection,
                AnswerCall, ClickToggle,
                TrayToggle, ClickPage
  <2>2. CASE Updating
    BY <2>2 DEF Updating, ClickUpdate, TriggerUpdate, TriggerManual, HandleTriggered, TimerFires,
                BeginUpdate, EndUpdate, HandleUpdateStatus, AnswerConfig, HandleConfig, ClickPage
  <2>3. CASE Closing
    BY <2>3 DEF Closing, CloseWindow, HandleCloseRequest, Choose, HeaderMinimize, MinimizeToTray,
                QuitApp, Quit, TrayShow, TrayQuit, ClickPage
  <2> QED  BY <2>1, <2>2, <2>3
<1> QED  BY <1>1, <1>2, <1>3

\* A call has moved; the others stay.
CallSet == [pc : PCs, captured : BOOLEAN, about : Nat]
Moved(c, pc, v, t) ==
  /\ call' \in [Callers -> CallSet]
  /\ call'[c].pc = pc /\ call'[c].captured = v /\ call'[c].about = t
  /\ \A d \in Callers : d # c => call'[d] = call[d]

LEMMA MovesTo ==
  ASSUME ProtectionOK, NEW c \in Callers, NEW pc \in PCs, NEW v \in BOOLEAN, NEW t \in Nat,
         Moves(c, pc, v, t)
  PROVE  Moved(c, pc, v, t)
<1> DEFINE r == [pc |-> pc, captured |-> v, about |-> t]
<1>1. r \in CallSet /\ r.pc = pc /\ r.captured = v /\ r.about = t
  BY DEF CallSet
<1>2. call' = [call EXCEPT ![c] = r] /\ call \in [Callers -> CallSet]
  BY DEF Moves, ProtectionOK, CallSet
<1> HIDE DEF r
<1> QED  BY <1>1, <1>2 DEF Moved

LEMMA CallType ==
  ASSUME ProtectionOK, NEW c \in Callers
  PROVE  call[c].pc \in PCs /\ call[c].captured \in BOOLEAN /\ call[c].about \in Nat
BY DEF ProtectionOK

LEMMA GoesTo ==
  ASSUME ProtectionOK, NEW c \in Callers, NEW pc \in PCs, Goes(c, pc)
  PROVE  Moved(c, pc, call[c].captured, call[c].about)
BY CallType, MovesTo DEF Goes

LEMMA EndsTo ==
  ASSUME ProtectionOK, NEW c \in Callers, Ends(c)
  PROVE  Moved(c, "done", call[c].captured, 0)
BY CallType, MovesTo DEF Ends, PCs

LEMMA SwitchesTo ==
  ASSUME ProtectionOK, NEW c \in Callers, NEW pc \in PCs, NEW on \in BOOLEAN, Switches(c, pc, on)
  PROVE  /\ Moved(c, pc, call[c].captured, turn')
         /\ pipe' = on /\ turn' = (IF on = pipe THEN turn ELSE turn + 1) /\ turn' \in Nat
         /\ UNCHANGED <<mounted, inbox, shown, told, misled>>
<1>1. turn' = (IF on = pipe THEN turn ELSE turn + 1) /\ turn' \in Nat
  BY DEF Switches, ProtectionOK
<1>2. Moves(c, pc, call[c].captured, turn')
  BY DEF Switches
<1>3. Moved(c, pc, call[c].captured, turn')
  BY <1>1, <1>2, CallType, MovesTo
<1> QED  BY <1>1, <1>3 DEF Switches

\* The steps that switch: where they are and where they go.
Switch(c, here, pc, on) ==
  /\ AtPC(c, here) /\ Switches(c, pc, on)
  /\ here \in {"stopping", "clearing", "starting", "opening"}
  /\ \/ pc \in {"clearing", "opening"}
     \/ pc = "emitTrue" /\ on
     \/ pc = "emitFalse" /\ ~on

LEMMA SwitchIs ==
  ASSUME NEW c \in Callers, ClosePipeline(c) \/ ClearField(c) \/ StartPipeline(c)
  PROVE  \E here, pc \in PCs, on \in BOOLEAN : Switch(c, here, pc, on)
<1>1. {"stopping", "clearing", "starting", "opening", "emitTrue", "emitFalse"} \subseteq PCs
  BY DEF PCs
<1>2. CASE AtPC(c, "stopping") /\ Switches(c, "clearing", FALSE)
  BY <1>1, <1>2 DEF Switch
<1>3. CASE AtPC(c, "starting") /\ Switches(c, "opening", FALSE)
  BY <1>1, <1>3 DEF Switch
<1>4. CASE ClearField(c)
  BY <1>1, <1>4 DEF ClearField, Switch
<1>5. CASE StartPipeline(c)
  BY <1>1, <1>5 DEF StartPipeline, Switch
<1> QED  BY <1>2, <1>3, <1>4, <1>5 DEF ClosePipeline

\* What each step does to the calls.
LEMMA MountMoves ==
  ASSUME ProtectionOK, Mount
  PROVE  Moved(Refresh, "called", call[Refresh].captured, call[Refresh].about)
BY GoesTo DEF Mount, PCs, Callers

LEMMA ReadMoves ==
  ASSUME ProtectionOK, ReadState
  PROVE  Moved(Refresh, "answer", pipe, turn)
<1>1. Refresh \in Callers /\ pipe \in BOOLEAN /\ turn \in Nat
  BY DEF Callers, ProtectionOK
<1> QED  BY <1>1, MovesTo DEF ReadState, PCs

LEMMA ClickMoves ==
  ASSUME ProtectionOK, NEW c \in Clicks, ClickToggle(c)
  PROVE  Moved(c, "called", shown, 0)
<1>1. c \in Callers /\ shown \in BOOLEAN
  BY DEF Callers, ProtectionOK
<1> QED  BY <1>1, MovesTo DEF ClickToggle, PCs

LEMMA TrayMoves ==
  ASSUME ProtectionOK, NEW c \in TrayToggles, TrayToggle(c)
  PROVE  Moved(c, "called", call[c].captured, call[c].about)
BY GoesTo DEF TrayToggle, PCs, Callers

LEMMA CheckMoves ==
  ASSUME ProtectionOK, NEW c \in Callers, ToggleCheck(c)
  PROVE  \E pc \in {"stopping", "starting"} : Moved(c, pc, call[c].captured, call[c].about)
BY GoesTo DEF ToggleCheck, PCs

LEMMA FailsMoves ==
  ASSUME ProtectionOK, NEW c \in Callers, StartFails(c)
  PROVE  Moved(c, IF c \in Clicks THEN "answer" ELSE "done", call[c].captured, 0)
BY CallType, MovesTo DEF StartFails, PCs

LEMMA EmitMoves ==
  ASSUME ProtectionOK, NEW c \in Callers, EmitProtection(c)
  PROVE  \/ /\ c \in Clicks /\ call[c].captured # (call[c].pc = "emitTrue")
            /\ Moved(c, "answer", call[c].captured, call[c].about)
         \/ /\ c \in Clicks
            /\ Moved(c, "answer", call[c].captured, 0)
         \/ /\ c \notin Clicks
            /\ Moved(c, "done", call[c].captured, 0)
<1> DEFINE on == call[c].pc = "emitTrue"
<1>1. CASE c \in Clicks /\ call[c].captured # on /\ Goes(c, "answer")
  BY <1>1, GoesTo DEF PCs
<1>2. CASE c \in Clicks /\ call[c].captured = on /\ Moves(c, "answer", on, 0)
  <2>1. Moves(c, "answer", call[c].captured, 0)
    BY <1>2
  <2> QED  BY <1>2, <2>1, CallType, MovesTo DEF PCs
<1>3. CASE c \notin Clicks /\ Ends(c)
  BY <1>3, EndsTo
<1> QED  BY <1>1, <1>2, <1>3 DEF EmitProtection

LEMMA AnswerMoves ==
  ASSUME ProtectionOK, NEW c \in Callers, AnswerCall(c)
  PROVE  Moved(c, "answered", call[c].captured, call[c].about)
BY GoesTo DEF AnswerCall, PCs

LEMMA HandleAnswerMoves ==
  ASSUME BaseOK, ProtectionOK, HandleAnswer
  PROVE  /\ Head(inbox)[2] \in Callers
         /\ shown' = Answered(Head(inbox)[2])
         /\ Moved(Head(inbox)[2], "done", call[Head(inbox)[2]].captured, 0)
<1> DEFINE c == Head(inbox)[2]
<1>1. Head(inbox) \in Messages /\ Head(inbox)[1] = "answer"
  BY ReceiveIs, AfterTake DEF HandleAnswer, BaseOK
<1>2. c \in Callers
  BY <1>1, MessageParts
<1>3. shown' = Answered(c) /\ Ends(c)
  BY DEF HandleAnswer
<1> HIDE DEF c
<1>4. Moved(c, "done", call[c].captured, 0)
  BY <1>2, <1>3, EndsTo
<1> QED  BY <1>2, <1>3, <1>4 DEF c

LEMMA TellsType ==
  ASSUME ProtectionOK, NEW t \in Nat, Tells(t) \/ Misses(t)
  PROVE  turn' \in Nat /\ told' \in Nat /\ misled' \in BOOLEAN
<1>1. turn' = turn /\ told' = (IF t > told THEN t ELSE told)
  BY DEF Tells, Misses
<1>2. CASE Tells(t)
  BY <1>1, <1>2 DEF Tells, ProtectionOK
<1>3. CASE Misses(t)
  <2>1. misled' = TRUE \/ misled' = FALSE
    BY <1>3, Zenon DEF Misses
  <2> QED  BY <1>1, <2>1 DEF ProtectionOK
<1> QED  BY <1>2, <1>3

LEMMA SwitchingType ==
  ASSUME BaseOK, ProtectionOK, Switching
  PROVE  ProtectionOK'
<1> USE DEF Moved, CallSet
<1>1. CASE Mount
  BY <1>1, MountMoves DEF Mount, telling, ProtectionOK
<1>2. CASE ReadState
  BY <1>2, ReadMoves DEF ReadState, telling, ProtectionOK
<1>3. CASE HandleProtection
  <2>1. Head(inbox) \in Messages /\ Head(inbox)[1] = "protection"
    BY <1>3, ReceiveIs, AfterTake DEF HandleProtection, BaseOK
  <2>2. Head(inbox)[2] \in BOOLEAN
    BY <2>1, MessageParts
  <2> QED  BY <1>3, <2>2 DEF HandleProtection, telling, ProtectionOK
<1>4. CASE HandleAnswer
  <2> DEFINE c == Head(inbox)[2]
  <2>1. /\ c \in Callers /\ shown' = Answered(c)
        /\ Moved(c, "done", call[c].captured, 0) /\ UNCHANGED <<pipe, telling>>
    BY <1>4, HandleAnswerMoves DEF HandleAnswer
  <2> HIDE DEF c
  <2>2. Answered(c) \in BOOLEAN
    BY <2>1 DEF Answered, ProtectionOK
  <2> QED  BY <2>1, <2>2 DEF telling, ProtectionOK
<1>5. ASSUME NEW c \in Callers, ClosePipeline(c) \/ ClearField(c) \/ StartPipeline(c) PROVE ProtectionOK'
  <2>1. PICK here \in PCs, pc \in PCs, on \in BOOLEAN : Switch(c, here, pc, on)
    BY <1>5, SwitchIs
  <2> QED  BY <2>1, SwitchesTo DEF Switch, ProtectionOK
<1>6. ASSUME NEW c \in Callers, ToggleCheck(c) \/ StartFails(c) PROVE ProtectionOK'
  <2>1. CASE ToggleCheck(c)
    BY <2>1, CheckMoves DEF ToggleCheck, telling, ProtectionOK
  <2>2. CASE StartFails(c)
    BY <2>2, CallType, FailsMoves, TellsType DEF StartFails, ProtectionOK
  <2> QED  BY <1>6, <2>1, <2>2
<1>7. ASSUME NEW c \in Callers, EmitProtection(c) \/ AnswerCall(c) PROVE ProtectionOK'
  <2>1. call[c].about \in Nat
    BY DEF ProtectionOK
  <2>2. Tells(call[c].about) \/ UNCHANGED telling
    BY <1>7 DEF EmitProtection, AnswerCall
  <2>3. turn' \in Nat /\ told' \in Nat /\ misled' \in BOOLEAN
    BY <2>1, <2>2, TellsType DEF telling, ProtectionOK
  <2>4. call' \in [Callers -> CallSet]
    BY <1>7, EmitMoves, AnswerMoves
  <2> QED  BY <1>7, <2>3, <2>4 DEF EmitProtection, AnswerCall, ProtectionOK
<1>8. ASSUME NEW c \in Clicks, ClickToggle(c) PROVE ProtectionOK'
  BY <1>8, ClickMoves DEF ClickToggle, telling, ProtectionOK
<1>9. ASSUME NEW c \in TrayToggles, TrayToggle(c) PROVE ProtectionOK'
  BY <1>9, TrayMoves DEF TrayToggle, telling, ProtectionOK
<1> QED  BY <1>1, <1>2, <1>3, <1>4, <1>5, <1>6, <1>7, <1>8, <1>9
         DEF Switching

LEMMA UpdatingType ==
  ASSUME BaseOK, UpdateOK, Updating
  PROVE  UpdateOK'
<1> USE DEF UpdateOK, runs, button, toast
<1>1. CASE ClickUpdate
  BY <1>1 DEF ClickUpdate
<1>2. CASE TriggerUpdate
  BY <1>2 DEF TriggerUpdate
<1>3. CASE TriggerManual
  BY <1>3 DEF TriggerManual
<1>4. CASE HandleTriggered
  BY <1>4 DEF HandleTriggered, TimersAfter
<1>5. CASE TimerFires
  <2>1. updating' \in BOOLEAN
    BY <1>5, Zenon DEF TimerFires
  <2> QED  BY <1>5, <2>1 DEF TimerFires
<1>6. CASE BeginUpdate
  BY <1>6 DEF BeginUpdate
<1>7. CASE EndUpdate
  <2>1. MaxRounds[cfg] \in Nat /\ cfg' = cfg
    BY <1>7, Bounds DEF EndUpdate, BaseOK
  <2> QED  BY <1>7, <2>1 DEF EndUpdate
<1>8. CASE HandleUpdateStatus
  <2>1. updating' \in BOOLEAN /\ startup' \in BOOLEAN
    BY <1>8, Zenon DEF HandleUpdateStatus
  <2> QED  BY <1>8, <2>1 DEF HandleUpdateStatus
<1>9. CASE AnswerConfig
  BY <1>9 DEF AnswerConfig
<1>10. CASE HandleConfig
  BY <1>10 DEF HandleConfig
<1> QED  BY <1>1, <1>2, <1>3, <1>4, <1>5, <1>6, <1>7, <1>8, <1>9, <1>10 DEF Updating

LEMMA ClosingType ==
  ASSUME ClosingOK, Closing
  PROVE  ClosingOK'
<1>1. CASE CloseWindow \/ Quit \/ TrayQuit
  <2>1. visible' \in BOOLEAN /\ alive' \in BOOLEAN
    BY <1>1 DEF CloseWindow, Quit, TrayQuit, OnBeforeClose, ClosingOK
  <2> QED  BY <1>1, <2>1 DEF CloseWindow, Quit, TrayQuit, ClosingOK
<1>2. CASE HandleCloseRequest \/ HeaderMinimize \/ MinimizeToTray \/ QuitApp \/ TrayShow
  BY <1>2 DEF HandleCloseRequest, HeaderMinimize, MinimizeToTray, QuitApp, TrayShow, ClosingOK
<1>3. CASE Choose({"MinimizeToTray"}) \/ Choose({"QuitApp"}) \/ Choose({})
  BY <1>3 DEF Choose, ClosingOK
<1> QED  BY <1>1, <1>2, <1>3 DEF Closing

LEMMA NextType == WindowOK /\ [Next]_vars => WindowOK'
<1> SUFFICES ASSUME WindowOK, [Next]_vars PROVE WindowOK'  OBVIOUS
<1> USE DEF WindowOK
<1>1. CASE Switching
  <2>1. BaseOK'
    BY <1>1, SwitchingBox, BoxType, SwitchingKeeps DEF BaseOK
  <2>2. UpdateOK' /\ ClosingOK'
    BY <1>1, SwitchingKeeps DEF UpdateOK, ClosingOK, update, button, runs, toast, closing
  <2> QED  BY <1>1, <2>1, <2>2, ActsType, SwitchingType
<1>2. CASE Updating
  <2>1. BaseOK'
    BY <1>2, UpdatingBox, BoxType, UpdatingKeeps DEF BaseOK
  <2>2. ProtectionOK' /\ ClosingOK'
    BY <1>2, UpdatingKeeps DEF ProtectionOK, ClosingOK, protection, telling, closing
  <2> QED  BY <1>2, <2>1, <2>2, ActsType, UpdatingType
<1>3. CASE Closing
  <2>1. BaseOK'
    BY <1>3, ClosingBox, BoxType, ClosingKeeps DEF BaseOK
  <2>2. ProtectionOK' /\ UpdateOK'
    BY <1>3, ClosingKeeps DEF ProtectionOK, UpdateOK, protection, telling, update, button, runs, toast
  <2> QED  BY <1>3, <2>1, <2>2, ActsType, ClosingType
<1>4. CASE UNCHANGED vars
  BY <1>4 DEF vars, protection, telling, update, button, runs, toast, closing, BaseOK, FlagsOK,
              ProtectionOK, UpdateOK, ClosingOK
<1> QED  BY <1>1, <1>2, <1>3, <1>4, NextIs

\* Every variable keeps its type.  In particular every message the window takes
\* from the queue is one of those its listeners know, with the arguments they
\* read, and an answer is that of a call that was made.
THEOREM WindowTypeCorrect == Spec => []WindowTypeOK
<1>1. Spec => []WindowOK
  BY InitType, NextType, PTL DEF Spec
<1> QED  BY <1>1, WindowOKIs, PTL

-----------------------------------------------------------------------------
\* Notifications

LEMMA InitToast == Init => ToastInv
<1> SUFFICES ASSUME Init PROVE ToastInv  OBVIOUS
<1>1. startup /\ toasts = 0 /\ lookups = 0 /\ rounds = 0 /\ inbox = <<>>
  BY DEF Init
<1>2. Len(inbox) = 0 /\ Cardinality(Coming(inbox)) = 0
  BY <1>1, ComingEmpty
<1> QED  BY <1>1, <1>2 DEF ToastInv

\* Messages of other kinds leave the count and the configurations alone.
LEMMA OtherBox ==
  ASSUME BaseOK, NEW kinds, ToastKinds \subseteq kinds, BoxStep(kinds)
  PROVE  /\ Cardinality(Coming(inbox')) = Cardinality(Coming(inbox))
         /\ \A i \in 1 .. Len(inbox') : inbox'[i][1] = "config" =>
              \E j \in 1 .. Len(inbox) : inbox[j] = inbox'[i]
<1>1. Cardinality(Coming(inbox)) \in Nat
  BY ComingSize DEF BaseOK
<1>2. CASE inbox' = inbox
  BY <1>2
<1>3. CASE \E m \in Messages : Posts(m) /\ m[1] \notin kinds
  <2>1. PICK m \in Messages : Posts(m) /\ m[1] \notin kinds
    BY <1>3
  <2>2. m[1] \notin ToastKinds /\ m[1] # "config"
    BY <2>1 DEF ToastKinds
  <2>3. Cardinality(Coming(inbox')) = Cardinality(Coming(inbox))
    BY <1>1, <2>1, <2>2, ComingAfterPost DEF BaseOK
  <2>4. /\ Len(inbox) \in Nat /\ Len(inbox') = Len(inbox) + 1 /\ inbox'[Len(inbox) + 1] = m
        /\ \A i \in 1 .. Len(inbox) : inbox'[i] = inbox[i]
    BY <2>1, AfterPost DEF BaseOK
  <2>5. \A i \in 1 .. Len(inbox') : i \in 1 .. Len(inbox) \/ i = Len(inbox) + 1
    BY <2>4
  <2> QED  BY <2>2, <2>3, <2>4, <2>5
<1>4. CASE Takes /\ Head(inbox)[1] \notin kinds
  <2>1. Cardinality(Coming(inbox')) = Cardinality(Coming(inbox))
    BY <1>1, <1>4, ComingAfterTake DEF BaseOK
  <2>2. \A i \in 1 .. Len(inbox') : inbox'[i] = inbox[i + 1] /\ i + 1 \in 1 .. Len(inbox)
    BY <1>4, AfterTake DEF BaseOK
  <2> QED  BY <2>1, <2>2
<1> QED  BY <1>2, <1>3, <1>4 DEF BoxStep

LEMMA OtherToast ==
  ASSUME BaseOK, ToastInv, NEW kinds, ToastKinds \subseteq kinds, BoxStep(kinds),
         UNCHANGED <<cfg, startup, lookups, toasts, rounds>>
  PROVE  ToastInv'
<1>1. /\ Cardinality(Coming(inbox')) = Cardinality(Coming(inbox))
      /\ \A i \in 1 .. Len(inbox') : inbox'[i][1] = "config" =>
           \E j \in 1 .. Len(inbox) : inbox[j] = inbox'[i]
  BY OtherBox
<1> HIDE DEF Coming
<1>2. \A i \in 1 .. Len(inbox') : inbox'[i][1] = "config" => inbox'[i][2] = cfg.notifications
  BY <1>1 DEF ToastInv
<1>3. startup => \A i \in 1 .. Len(inbox') : inbox'[i][1] # "config"
  BY <1>1 DEF ToastInv
<1> QED  BY <1>1, <1>2, <1>3 DEF ToastInv

LEMMA EndUpdateToast ==
  ASSUME BaseOK, UpdateOK, ToastInv, EndUpdate
  PROVE  ToastInv'
<1>1. /\ UNCHANGED <<cfg, startup, lookups, toasts>> /\ rounds' = rounds + 1
      /\ \E n \in 0 .. 1 : Emit(<<"update-status", n>>)
  BY DEF EndUpdate, toast
<1>2. PICK n \in 0 .. 1 : Emit(<<"update-status", n>>)
  BY <1>1
<1> DEFINE m == <<"update-status", n>>
           N == Cardinality(Coming(inbox))
<1>3. m \in Messages /\ m[1] = "update-status"
  BY MessageShapes
<1> HIDE DEF m
<1>4. inbox' = inbox \/ Posts(m)
  BY <1>2, <1>3, EmitIs DEF m
<1>5. N \in Nat
  BY ComingSize DEF BaseOK
<1>6. Cardinality(Coming(inbox')) \in {N, N + 1}
      /\ \A i \in 1 .. Len(inbox') : inbox'[i][1] = "config" =>
           \E j \in 1 .. Len(inbox) : inbox[j] = inbox'[i]
  <2>1. CASE inbox' = inbox
    BY <1>5, <2>1
  <2>2. CASE Posts(m)
    <3>1. Cardinality(Coming(inbox')) = N + 1
      BY <1>3, <1>5, <2>2, ComingAfterPost DEF BaseOK, ToastKinds
    <3>2. /\ Len(inbox) \in Nat /\ Len(inbox') = Len(inbox) + 1 /\ inbox'[Len(inbox) + 1] = m
          /\ \A i \in 1 .. Len(inbox) : inbox'[i] = inbox[i]
      BY <2>2, AfterPost DEF BaseOK
    <3>3. \A i \in 1 .. Len(inbox') : i \in 1 .. Len(inbox) \/ i = Len(inbox) + 1
      BY <3>2
    <3> QED  BY <1>3, <3>1, <3>2, <3>3
  <2> QED  BY <1>4, <2>1, <2>2
<1>7. \A i \in 1 .. Len(inbox') : inbox'[i][1] = "config" => inbox'[i][2] = cfg.notifications
  BY <1>6 DEF ToastInv
<1>8. startup => \A i \in 1 .. Len(inbox') : inbox'[i][1] # "config"
  BY <1>6 DEF ToastInv
<1>9. IF startup THEN N <= rounds /\ toasts = 0 /\ lookups = 0 ELSE toasts + lookups + N + 1 <= rounds
  BY DEF ToastInv
<1>10. rounds \in Nat /\ toasts \in Nat /\ lookups \in Nat /\ startup \in BOOLEAN
  BY DEF UpdateOK
<1> DEFINE M == Cardinality(Coming(inbox'))
<1>11. M \in {N, N + 1}
  BY <1>6
<1>12. IF startup THEN M <= rounds' /\ toasts' = 0 /\ lookups' = 0
                  ELSE toasts' + lookups' + M + 1 <= rounds'
  <2> HIDE DEF M, N
  <2> QED  BY <1>1, <1>5, <1>9, <1>10, <1>11
<1> QED  BY <1>1, <1>7, <1>8, <1>12 DEF ToastInv

LEMMA AnswerConfigToast ==
  ASSUME BaseOK, UpdateOK, ToastInv, AnswerConfig
  PROVE  ToastInv'
<1> DEFINE m == <<"config", cfg.notifications>>
           N == Cardinality(Coming(inbox))
           M == Cardinality(Coming(inbox'))
<1>1. /\ UNCHANGED <<cfg, startup, toasts, rounds>> /\ lookups > 0 /\ lookups' = lookups - 1
      /\ inbox' = Append(inbox, m)
  BY DEF AnswerConfig, runs, Post
<1>2. m \in Messages /\ m[1] = "config" /\ m[2] = cfg.notifications
  BY MessageShapes DEF BaseOK, Configs
<1> HIDE DEF m
<1>3. Posts(m)
  BY <1>1, <1>2 DEF Posts
<1>4. N \in Nat /\ M = N + 1
  BY <1>2, <1>3, ComingSize, ComingAfterPost DEF BaseOK, ToastKinds
<1>5. /\ Len(inbox) \in Nat /\ Len(inbox') = Len(inbox) + 1 /\ inbox'[Len(inbox) + 1] = m
      /\ \A i \in 1 .. Len(inbox) : inbox'[i] = inbox[i]
  BY <1>3, AfterPost DEF BaseOK
<1>6. \A i \in 1 .. Len(inbox') : i \in 1 .. Len(inbox) \/ i = Len(inbox) + 1
  BY <1>5
<1>7. \A i \in 1 .. Len(inbox') : inbox'[i][1] = "config" => inbox'[i][2] = cfg.notifications
  BY <1>2, <1>5, <1>6 DEF ToastInv
<1>8. rounds \in Nat /\ toasts \in Nat /\ lookups \in Nat
  BY DEF UpdateOK
<1>9. ~startup /\ toasts + lookups + N + 1 <= rounds
  BY <1>1, <1>8 DEF ToastInv
<1>10. toasts' + lookups' + M + 1 <= rounds'
  <2> HIDE DEF M, N
  <2> QED  BY <1>1, <1>4, <1>8, <1>9
<1> QED  BY <1>1, <1>7, <1>9, <1>10 DEF ToastInv

\* The head leaves the queue.
LEMMA TakesToast ==
  ASSUME BaseOK, ToastInv, Takes, Head(inbox)[1] \in ToastKinds
  PROVE  /\ Cardinality(Coming(inbox)) \in Nat \ {0}
         /\ Cardinality(Coming(inbox')) = Cardinality(Coming(inbox)) - 1
         /\ \A i \in 1 .. Len(inbox') : inbox'[i][1] = "config" => inbox'[i][2] = cfg.notifications
         /\ startup => \A i \in 1 .. Len(inbox') : inbox'[i][1] # "config"
         /\ startup => Head(inbox)[1] # "config"
         /\ Head(inbox)[1] = "config" => Head(inbox)[2] = cfg.notifications
<1>1. /\ inbox' \in Seq(Messages) /\ Len(inbox) \in Nat \ {0} /\ Head(inbox) = inbox[1]
      /\ \A i \in 1 .. Len(inbox') : inbox'[i] = inbox[i + 1] /\ i + 1 \in 1 .. Len(inbox)
  BY AfterTake DEF BaseOK
<1>2. /\ Cardinality(Coming(inbox)) \in Nat /\ Cardinality(Coming(inbox')) \in Nat
      /\ Cardinality(Coming(inbox')) = Cardinality(Coming(inbox)) - 1
  BY <1>1, ComingSize, ComingAfterTake DEF BaseOK
<1>3. Cardinality(Coming(inbox)) # 0
  BY <1>2
<1>4. 1 \in 1 .. Len(inbox)
  BY <1>1
<1> QED  BY <1>1, <1>2, <1>3, <1>4 DEF ToastInv

LEMMA HandleStatusToast ==
  ASSUME BaseOK, UpdateOK, ToastInv, HandleUpdateStatus
  PROVE  ToastInv'
<1> DEFINE N == Cardinality(Coming(inbox))
           M == Cardinality(Coming(inbox'))
<1>1. Takes /\ Head(inbox)[1] = "update-status"
  BY ReceiveIs DEF HandleUpdateStatus
<1>2. /\ UNCHANGED <<cfg, toasts, rounds>> /\ ~startup'
      /\ lookups' = lookups \/ (~startup /\ lookups' = lookups + 1)
  BY DEF HandleUpdateStatus, runs, FirstEvent
<1>3. N \in Nat \ {0} /\ M = N - 1
      /\ \A i \in 1 .. Len(inbox') : inbox'[i][1] = "config" => inbox'[i][2] = cfg.notifications
  BY <1>1, TakesToast DEF ToastKinds
<1>4. rounds \in Nat /\ toasts \in Nat /\ lookups \in Nat /\ startup \in BOOLEAN
  BY DEF UpdateOK
<1>5. IF startup THEN N <= rounds /\ toasts = 0 /\ lookups = 0 ELSE toasts + lookups + N + 1 <= rounds
  BY DEF ToastInv
<1>6. toasts' + lookups' + M + 1 <= rounds'
  <2> HIDE DEF M, N
  <2> QED  BY <1>2, <1>3, <1>4, <1>5
<1> QED  BY <1>2, <1>3, <1>6 DEF ToastInv

LEMMA HandleConfigToast ==
  ASSUME BaseOK, UpdateOK, ToastInv, HandleConfig
  PROVE  ToastInv'
<1> DEFINE N == Cardinality(Coming(inbox))
           M == Cardinality(Coming(inbox'))
<1>1. Takes /\ Head(inbox)[1] = "config"
  BY ReceiveIs DEF HandleConfig
<1>2. /\ N \in Nat \ {0} /\ M = N - 1 /\ Head(inbox)[2] = cfg.notifications /\ ~startup
      /\ \A i \in 1 .. Len(inbox') : inbox'[i][1] = "config" => inbox'[i][2] = cfg.notifications
  BY <1>1, TakesToast DEF ToastKinds
<1>3. /\ UNCHANGED <<cfg, startup, lookups, rounds>>
      /\ toasts' = IF cfg.notifications THEN toasts + 1 ELSE toasts
  BY <1>2 DEF HandleConfig, runs
<1>4. rounds \in Nat /\ toasts \in Nat /\ lookups \in Nat
  BY DEF UpdateOK
<1>5. toasts + lookups + N + 1 <= rounds /\ (~cfg.notifications => toasts = 0)
  BY <1>2 DEF ToastInv
<1>6. toasts' + lookups' + M + 1 <= rounds' /\ (~cfg'.notifications => toasts' = 0)
  <2> HIDE DEF M, N
  <2> QED  BY <1>2, <1>3, <1>4, <1>5
<1> QED  BY <1>2, <1>3, <1>6 DEF ToastInv

LEMMA NextToast == WindowOK /\ ToastInv /\ [Next]_vars => ToastInv'
<1> SUFFICES ASSUME BaseOK, UpdateOK, ToastInv, [Next]_vars PROVE ToastInv'
  BY DEF WindowOK
<1>1. CASE Switching
  BY <1>1, SwitchingBox, SwitchingKeeps, OtherToast DEF update, toast, runs
<1>2. CASE Closing
  BY <1>2, ClosingBox, ClosingKeeps, OtherToast DEF update, toast, runs
<1>3. CASE EndUpdate \/ AnswerConfig \/ HandleUpdateStatus \/ HandleConfig
  BY <1>3, EndUpdateToast, AnswerConfigToast, HandleStatusToast, HandleConfigToast
<1>4. CASE ClickUpdate \/ TriggerUpdate \/ TriggerManual \/ HandleTriggered \/ TimerFires \/ BeginUpdate
  <2>1. UNCHANGED <<cfg, startup, lookups, toasts, rounds>>
    BY <1>4 DEF ClickUpdate, TriggerUpdate, TriggerManual, HandleTriggered, TimerFires, BeginUpdate,
                toast, runs
  <2>2. BoxStep(ToastKinds)
    <3>1. CASE HandleTriggered
      BY <3>1, ReceiveIs DEF HandleTriggered, BoxStep, ToastKinds
    <3>2. CASE TriggerUpdate
      <4>1. Posts(<<"triggered">>)
        BY <3>2, MessageShapes DEF TriggerUpdate, Post, Posts
      <4> QED  BY <4>1, MessageShapes DEF BoxStep, ToastKinds
    <3> QED  BY <1>4, <3>1, <3>2 DEF ClickUpdate, TriggerManual, TimerFires, BeginUpdate, BoxStep
  <2> QED  BY <2>1, <2>2, OtherToast
<1>5. CASE UNCHANGED vars
  BY <1>5, OtherToast DEF vars, update, toast, runs, BoxStep
<1> QED  BY <1>1, <1>2, <1>3, <1>4, <1>5, NextIs DEF Updating

\* At most one notification is sent for each update that has ended after the
\* first, and none when notifications are off: however updates, clicks and late
\* answers are interleaved, for every number of updates, also when startup's
\* event comes before the window listens, and however long GetConfig takes.
THEOREM NotificationsAreDue == Spec => []ToastsAreDue
<1> DEFINE IInv == WindowOK /\ ToastInv
<1>1. Init => IInv
  BY InitType, InitToast
<1>2. IInv /\ [Next]_vars => IInv'
  BY NextType, NextToast
<1>3. IInv => ToastsAreDue
  <2> SUFFICES ASSUME BaseOK, UpdateOK, ToastInv PROVE ToastsAreDue
    BY DEF WindowOK
  <2>1. Cardinality(Coming(inbox)) \in Nat
    BY ComingSize DEF BaseOK
  <2>2. rounds \in Nat /\ toasts \in Nat /\ lookups \in Nat /\ startup \in BOOLEAN
    BY DEF UpdateOK
  <2>3. /\ IF startup THEN toasts = 0
                      ELSE toasts + lookups + Cardinality(Coming(inbox)) + 1 <= rounds
        /\ ~cfg.notifications => toasts = 0
    BY DEF ToastInv
  <2>4. CASE cfg.notifications /\ rounds > 0
    BY <2>1, <2>2, <2>3, <2>4 DEF ToastsAreDue
  <2>5. CASE ~(cfg.notifications /\ rounds > 0)
    <3>1. toasts = 0
      BY <2>1, <2>2, <2>3, <2>5
    <3> QED  BY <2>5, <3>1 DEF ToastsAreDue
  <2> QED  BY <2>4, <2>5
<1> QED  BY <1>1, <1>2, <1>3, PTL DEF Spec

-----------------------------------------------------------------------------
\* What the window shows

LEMMA CallerKinds ==
  /\ Startup \in Callers /\ Refresh \in Callers /\ Startup # Refresh
  /\ Startup \notin Clicks /\ Refresh \notin Clicks /\ Clicks \subseteq Callers
  /\ Startup \notin TrayToggles /\ Refresh \notin TrayToggles /\ TrayToggles \subseteq Callers
  /\ \A c \in Clicks : c \notin TrayToggles
BY WindowAssumption DEF Callers

LEMMA InitShow == Init => ShowInv
<1> SUFFICES ASSUME Init PROVE ShowInv  OBVIOUS
<1>1. /\ ~mounted /\ pipe = FALSE /\ shown = FALSE /\ Len(inbox) = 0 /\ turn = 1 /\ told = 1
      /\ \A c \in Callers : call[c].pc \in {"idle", "done", "starting"} /\ call[c].about = 0
                            /\ (call[c].pc # "idle" => c = Startup)
  <2>1. inbox = <<>> /\ ~mounted /\ pipe = FALSE /\ shown = FALSE /\ turn = 1 /\ told = 1
    BY DEF Init
  <2>2. \A c \in Callers : call[c].pc \in {"idle", "done", "starting"} /\ call[c].about = 0
                           /\ (call[c].pc # "idle" => c = Startup)
    BY DEF Init
  <2> QED  BY <2>1, <2>2
<1> HIDE DEF Init
<1>2. Nothing
  BY <1>1 DEF Nothing
<1>3. CallInv
  BY <1>1, <1>2, CallerKinds DEF CallInv, Answering, Emitting
<1>4. MessageInv
  BY <1>1 DEF MessageInv
<1>5. TurnInv /\ TellsInv
  BY <1>1 DEF TurnInv, TellsInv
<1>6. PendingInv /\ LastInv
  <2>1. shown = pipe
    BY <1>1, Zenon
  <2>2. \A i \in 1 .. Len(inbox) : FALSE
    BY <1>1
  <2> QED  BY <1>1, <2>1, <2>2 DEF PendingInv, LastInv
<1> QED  BY <1>3, <1>4, <1>5, <1>6 DEF ShowInv

-----------------------------------------------------------------------------
\* What becomes of the last message

\* The queue is as it was, and answers on their way keep their values.
LEMMA SameBox ==
  ASSUME BaseOK, MessageInv, inbox' = inbox,
         \A d \in Callers : call[d].pc = "answered" => call'[d] = call[d]
  PROVE  /\ MessageInv' /\ Nothing' = Nothing
         /\ \A i \in 1 .. Len(inbox') : LastShow(i)' =>
              LastShow(i) /\ ValueOf(inbox[i])' = ValueOf(inbox[i])
<1>1. \A i \in 1 .. Len(inbox) : inbox[i][1] = "answer" => inbox[i][2] \in Callers
  BY MessageParts DEF BaseOK
<1>2. \A i \in 1 .. Len(inbox) : inbox[i][1] = "answer" => call'[inbox[i][2]] = call[inbox[i][2]]
  BY <1>1 DEF MessageInv
<1>3. MessageInv'
  BY <1>2 DEF MessageInv
<1>4. Nothing' = Nothing
  BY DEF Nothing
<1>5. \A i \in 1 .. Len(inbox') : LastShow(i)' => LastShow(i) /\ inbox[i][1] \in ShowKinds
  BY DEF LastShow
<1>6. \A i \in 1 .. Len(inbox) : inbox[i][1] \in ShowKinds => ValueOf(inbox[i])' = ValueOf(inbox[i])
  BY <1>2 DEF ShowKinds, ValueOf, Answered
<1> QED  BY <1>3, <1>4, <1>5, <1>6

\* m is posted: it is the last.
LEMMA PostLast ==
  ASSUME BaseOK, NEW m, Posts(m), m[1] \in ShowKinds
  PROVE  ~Nothing' /\ \A i \in 1 .. Len(inbox') : LastShow(i)' => inbox'[i] = m
<1>1. /\ Len(inbox) \in Nat /\ Len(inbox') = Len(inbox) + 1 /\ inbox'[Len(inbox) + 1] = m
      /\ \A i \in 1 .. Len(inbox) : inbox'[i] = inbox[i]
  BY AfterPost DEF BaseOK
<1>2. Len(inbox) + 1 \in 1 .. Len(inbox')
      /\ \A i \in 1 .. Len(inbox') : i = Len(inbox) + 1 \/ i < Len(inbox) + 1
  BY <1>1
<1> QED  BY <1>1, <1>2 DEF Nothing, LastShow

\* m is posted: it is the answer of a call that had none on its way.
LEMMA PostMessages ==
  ASSUME BaseOK, MessageInv, NEW m, Posts(m),
         \A d \in Callers : call[d].pc = "answered" => call'[d] = call[d],
         m[1] = "answer" => m[2] \in Callers /\ call[m[2]].pc # "answered"
                            /\ call'[m[2]].pc = "answered"
  PROVE  MessageInv'
<1>1. /\ Len(inbox) \in Nat /\ Len(inbox') = Len(inbox) + 1 /\ inbox'[Len(inbox) + 1] = m
      /\ \A i \in 1 .. Len(inbox) : inbox'[i] = inbox[i] /\ inbox[i] \in Messages
  BY AfterPost DEF BaseOK
<1>2. \A i \in 1 .. Len(inbox') : i = Len(inbox) + 1 \/ i \in 1 .. Len(inbox)
  BY <1>1
<1>3. \A i \in 1 .. Len(inbox) : inbox[i][1] = "answer" =>
        inbox[i][2] \in Callers /\ call[inbox[i][2]].pc = "answered"
        /\ call'[inbox[i][2]].pc = "answered"
  BY <1>1, MessageParts DEF MessageInv
<1>4. \A i \in 1 .. Len(inbox') : inbox'[i][1] = "answer" => call'[inbox'[i][2]].pc = "answered"
  BY <1>1, <1>2, <1>3
<1>5. \A i \in 1 .. Len(inbox) : inbox[i][1] = "answer" /\ m[1] = "answer" => inbox[i][2] # m[2]
  BY <1>3
<1>6. ASSUME NEW i \in 1 .. Len(inbox'), NEW j \in 1 .. Len(inbox'),
             inbox'[i][1] = "answer", inbox'[j][1] = "answer", inbox'[i][2] = inbox'[j][2]
      PROVE  i = j
  <2>1. CASE i \in 1 .. Len(inbox) /\ j \in 1 .. Len(inbox)
    BY <1>1, <1>6, <2>1 DEF MessageInv
  <2>2. CASE i = Len(inbox) + 1 /\ j \in 1 .. Len(inbox)
    BY <1>1, <1>5, <1>6, <2>2
  <2>3. CASE j = Len(inbox) + 1 /\ i \in 1 .. Len(inbox)
    BY <1>1, <1>5, <1>6, <2>3
  <2> QED  BY <1>2, <2>1, <2>2, <2>3
<1> QED  BY <1>4, <1>6 DEF MessageInv

\* The head is taken: what is last stays last, unless it was the head.
LEMMA TakeLast ==
  ASSUME BaseOK, Takes
  PROVE  /\ Head(inbox) = inbox[1] /\ 1 \in 1 .. Len(inbox) /\ Head(inbox) \in Messages
         /\ \A i \in 1 .. Len(inbox') : inbox'[i] = inbox[i + 1] /\ i + 1 \in 1 .. Len(inbox)
         /\ Nothing' => \A i \in 1 .. Len(inbox) : inbox[i][1] \in ShowKinds => i = 1
         /\ \A i \in 1 .. Len(inbox') : LastShow(i)' => LastShow(i + 1)
         /\ Nothing => Nothing'
<1>1. /\ Len(inbox) \in Nat \ {0} /\ Len(inbox') = Len(inbox) - 1
      /\ Head(inbox) = inbox[1] /\ Head(inbox) \in Messages
      /\ \A i \in 1 .. Len(inbox') : inbox'[i] = inbox[i + 1] /\ i + 1 \in 1 .. Len(inbox)
  BY AfterTake DEF BaseOK
<1>2. 1 \in 1 .. Len(inbox)
  BY <1>1
<1>3. \A i \in 1 .. Len(inbox) : i # 1 =>
        i - 1 \in 1 .. Len(inbox') /\ (i - 1) + 1 = i /\ inbox'[i - 1] = inbox[i]
  <2> SUFFICES ASSUME NEW i \in 1 .. Len(inbox), i # 1
               PROVE  i - 1 \in 1 .. Len(inbox') /\ (i - 1) + 1 = i /\ inbox'[i - 1] = inbox[i]
    OBVIOUS
  <2>1. i - 1 \in 1 .. Len(inbox') /\ (i - 1) + 1 = i
    BY <1>1
  <2> QED  BY <1>1, <2>1
<1>4. Nothing' => \A i \in 1 .. Len(inbox) : inbox[i][1] \in ShowKinds => i = 1
  BY <1>3 DEF Nothing
<1>5. ASSUME NEW i \in 1 .. Len(inbox'), LastShow(i)' PROVE LastShow(i + 1)
  <2>1. inbox[i + 1][1] \in ShowKinds
    BY <1>1, <1>5 DEF LastShow
  <2>2. ASSUME NEW j \in 1 .. Len(inbox), j > i + 1 PROVE inbox[j][1] \notin ShowKinds
    <3>1. j # 1 /\ j - 1 > i
      BY <2>2, <1>1
    <3>2. j - 1 \in 1 .. Len(inbox') /\ inbox'[j - 1] = inbox[j]
      BY <1>3, <3>1
    <3> QED  BY <1>5, <3>1, <3>2 DEF LastShow
  <2> QED  BY <2>1, <2>2 DEF LastShow
<1>6. Nothing => Nothing'
  BY <1>1 DEF Nothing
<1> QED  BY <1>1, <1>2, <1>4, <1>5, <1>6

\* The head is taken: the answers behind it are others.
LEMMA TakeMessages ==
  ASSUME BaseOK, MessageInv, Takes,
         \A d \in Callers : call'[d] = call[d] \/ (Head(inbox)[1] = "answer" /\ d = Head(inbox)[2])
  PROVE  /\ MessageInv'
         /\ \A i \in 1 .. Len(inbox') : inbox'[i][1] \in ShowKinds =>
              ValueOf(inbox[i])' = ValueOf(inbox[i + 1])
<1>1. /\ Head(inbox) = inbox[1] /\ 1 \in 1 .. Len(inbox) /\ Head(inbox) \in Messages
      /\ \A i \in 1 .. Len(inbox') : inbox'[i] = inbox[i + 1] /\ i + 1 \in 1 .. Len(inbox)
  BY TakeLast
<1>2. \A i \in 1 .. Len(inbox') : inbox'[i][1] = "answer" =>
        inbox'[i][2] \in Callers /\ call'[inbox'[i][2]] = call[inbox'[i][2]]
  <2> SUFFICES ASSUME NEW i \in 1 .. Len(inbox'), inbox'[i][1] = "answer"
               PROVE  inbox'[i][2] \in Callers /\ call'[inbox'[i][2]] = call[inbox'[i][2]]
    OBVIOUS
  <2>1. inbox'[i][2] \in Callers
    BY <1>1, MessageParts DEF BaseOK
  <2>2. i + 1 # 1
    OBVIOUS
  <2>3. ~(Head(inbox)[1] = "answer" /\ inbox'[i][2] = Head(inbox)[2])
    BY <1>1, <2>2 DEF MessageInv
  <2> QED  BY <2>1, <2>3
<1>3. \A i \in 1 .. Len(inbox') : inbox'[i][1] = "answer" => call'[inbox'[i][2]].pc = "answered"
  BY <1>1, <1>2 DEF MessageInv
<1>4. ASSUME NEW i \in 1 .. Len(inbox'), NEW j \in 1 .. Len(inbox'),
             inbox'[i][1] = "answer", inbox'[j][1] = "answer", inbox'[i][2] = inbox'[j][2]
      PROVE  i = j
  <2>1. i + 1 = j + 1
    BY <1>1, <1>4 DEF MessageInv
  <2> QED  BY <2>1
<1>5. \A i \in 1 .. Len(inbox') : inbox'[i][1] \in ShowKinds =>
        ValueOf(inbox[i])' = ValueOf(inbox[i + 1])
  BY <1>1, <1>2 DEF ShowKinds, ValueOf, Answered
<1> QED  BY <1>3, <1>4, <1>5 DEF MessageInv

-----------------------------------------------------------------------------
\* The steps

\* Messages of other kinds.
LEMMA OtherShow ==
  ASSUME BaseOK, ShowInv, NEW kinds, ShowKinds \subseteq kinds, BoxStep(kinds),
         UNCHANGED <<mounted, pipe, call, shown, turn, told, misled>>
  PROVE  ShowInv'
<1>1. /\ MessageInv' /\ (Nothing => Nothing') /\ (Nothing' => Nothing)
      /\ \A i \in 1 .. Len(inbox') : LastShow(i)' =>
           \E j \in 1 .. Len(inbox) : LastShow(j) /\ ValueOf(inbox[i])' = ValueOf(inbox[j])
  <2>1. CASE inbox' = inbox
    BY <2>1, SameBox DEF ShowInv
  <2>2. ASSUME NEW m \in Messages, Posts(m), m[1] \notin kinds
        PROVE  /\ MessageInv' /\ (Nothing => Nothing') /\ (Nothing' => Nothing)
               /\ \A i \in 1 .. Len(inbox') : LastShow(i)' =>
                    \E j \in 1 .. Len(inbox) : LastShow(j) /\ ValueOf(inbox[i])' = ValueOf(inbox[j])
    <3>1. /\ Len(inbox) \in Nat /\ Len(inbox') = Len(inbox) + 1 /\ inbox'[Len(inbox) + 1] = m
          /\ \A i \in 1 .. Len(inbox) : inbox'[i] = inbox[i] /\ i \in 1 .. Len(inbox')
      BY <2>2, AfterPost DEF BaseOK
    <3>2. \A i \in 1 .. Len(inbox') : i = Len(inbox) + 1 \/ i \in 1 .. Len(inbox)
      BY <3>1
    <3>3. m[1] \notin ShowKinds
      BY <2>2
    <3>4. MessageInv'
      BY <2>2, <3>3, PostMessages DEF ShowInv, ShowKinds
    <3>5. (Nothing => Nothing') /\ (Nothing' => Nothing)
      BY <3>1, <3>2, <3>3 DEF Nothing
    <3>6. ASSUME NEW i \in 1 .. Len(inbox'), LastShow(i)'
          PROVE  i \in 1 .. Len(inbox) /\ LastShow(i) /\ ValueOf(inbox[i])' = ValueOf(inbox[i])
      <4>1. i \in 1 .. Len(inbox)
        BY <3>1, <3>2, <3>3, <3>6 DEF LastShow
      <4>2. LastShow(i)
        BY <3>1, <3>6, <4>1 DEF LastShow
      <4> QED  BY <3>1, <4>1, <4>2 DEF ValueOf, Answered
    <3> QED  BY <3>4, <3>5, <3>6
  <2>3. CASE Takes /\ Head(inbox)[1] \notin kinds
    <3>1. /\ Head(inbox) = inbox[1] /\ 1 \in 1 .. Len(inbox)
          /\ \A i \in 1 .. Len(inbox') : inbox'[i] = inbox[i + 1] /\ i + 1 \in 1 .. Len(inbox)
          /\ Nothing' => \A i \in 1 .. Len(inbox) : inbox[i][1] \in ShowKinds => i = 1
          /\ \A i \in 1 .. Len(inbox') : LastShow(i)' => LastShow(i + 1)
          /\ Nothing => Nothing'
      BY <2>3, TakeLast
    <3>2. Nothing' => Nothing
      BY <2>3, <3>1 DEF Nothing
    <3>3. /\ MessageInv'
          /\ \A i \in 1 .. Len(inbox') : inbox'[i][1] \in ShowKinds =>
               ValueOf(inbox[i])' = ValueOf(inbox[i + 1])
      BY <2>3, TakeMessages DEF ShowInv
    <3>4. \A i \in 1 .. Len(inbox') : LastShow(i)' => inbox'[i][1] \in ShowKinds
      BY DEF LastShow
    <3> QED  BY <3>1, <3>2, <3>3, <3>4
  <2> QED  BY <2>1, <2>2, <2>3 DEF BoxStep
<1>2. CallInv'
  BY <1>1 DEF ShowInv, CallInv
<1>3. TurnInv' /\ TellsInv' /\ PendingInv'
  BY DEF ShowInv, TurnInv, TellsInv, PendingInv, Answered
<1>4. LastInv'
  BY <1>1 DEF ShowInv, LastInv
<1> QED  BY <1>1, <1>2, <1>3, <1>4 DEF ShowInv

\* A call that tells nothing is made: by a click, or the tray, or refresh.
LEMMA CallShow ==
  ASSUME BaseOK, ProtectionOK, ShowInv, NEW c \in Callers, NEW v \in BOOLEAN,
         call[c].pc = "idle", Moved(c, "called", v, 0),
         mounted' = (IF c = Refresh THEN TRUE ELSE mounted),
         c = Refresh \/ mounted \/ c \in TrayToggles,
         UNCHANGED <<inbox, pipe, shown, turn, told, misled>>
  PROVE  ShowInv'
<1> USE DEF Moved
<1>1. MessageInv' /\ Nothing' = Nothing
      /\ \A i \in 1 .. Len(inbox') : LastShow(i)' => LastShow(i) /\ ValueOf(inbox[i])' = ValueOf(inbox[i])
  BY SameBox DEF ShowInv
<1>2. CallInv'
  BY <1>1, CallerKinds DEF ShowInv, CallInv, Answering, Emitting
<1>3. TurnInv' /\ TellsInv'
  BY DEF ShowInv, TurnInv, TellsInv, Answering, Answered, ProtectionOK
<1>4. PendingInv'
  <2>1. CASE c = Refresh
    BY <2>1 DEF PendingInv
  <2>2. CASE c # Refresh
    BY <2>2, CallerKinds DEF ShowInv, PendingInv, Owing, Emitting
  <2> QED  BY <2>1, <2>2
<1>5. LastInv'
  BY <1>1 DEF ShowInv, LastInv
<1> QED  BY <1>1, <1>2, <1>3, <1>4, <1>5 DEF ShowInv

LEMMA MakeCallShow ==
  ASSUME BaseOK, ProtectionOK, ShowInv,
         Mount \/ (\E c \in Clicks : ClickToggle(c)) \/ (\E c \in TrayToggles : TrayToggle(c))
  PROVE  ShowInv'
<1>1. CASE Mount
  <2>1. ~mounted /\ mounted' = TRUE /\ UNCHANGED <<inbox, pipe, shown, turn, told, misled>>
    BY <1>1 DEF Mount, telling
  <2>2. call[Refresh].pc = "idle" /\ call[Refresh].about = 0
    BY <2>1, CallerKinds DEF ShowInv, CallInv, TurnInv
  <2>3. Moved(Refresh, "called", call[Refresh].captured, 0)
    BY <1>1, <2>2, MountMoves
  <2> QED  BY <2>1, <2>2, <2>3, CallerKinds, CallType, CallShow
<1>2. ASSUME NEW c \in Clicks, ClickToggle(c) PROVE ShowInv'
  <2>1. mounted /\ call[c].pc = "idle" /\ UNCHANGED <<mounted, inbox, pipe, shown, turn, told, misled>>
    BY <1>2 DEF ClickToggle, ClickPage, Click, telling
  <2>2. Moved(c, "called", shown, 0) /\ shown \in BOOLEAN /\ c \in Callers /\ c # Refresh
    BY <1>2, ClickMoves, CallerKinds DEF ProtectionOK
  <2> QED  BY <2>1, <2>2, CallShow DEF ProtectionOK
<1>3. ASSUME NEW c \in TrayToggles, TrayToggle(c) PROVE ShowInv'
  <2>1. call[c].pc = "idle" /\ UNCHANGED <<mounted, inbox, pipe, shown, turn, told, misled>>
    BY <1>3 DEF TrayToggle, telling
  <2>2. c \in Callers /\ c # Refresh /\ call[c].about = 0
    BY <2>1, CallerKinds DEF ShowInv, TurnInv
  <2>3. Moved(c, "called", call[c].captured, 0)
    BY <1>3, <2>2, TrayMoves
  <2> QED  BY <1>3, <2>1, <2>2, <2>3, CallType, CallShow
<1> QED  BY <1>1, <1>2, <1>3

\* Refresh reads the state that protection is in.
LEMMA ReadShow ==
  ASSUME BaseOK, ProtectionOK, ShowInv, ReadState
  PROVE  ShowInv'
<1> USE DEF Moved
<1>1. call[Refresh].pc = "called" /\ UNCHANGED <<mounted, inbox, pipe, shown, turn, told, misled>>
  BY DEF ReadState, AtPC, telling
<1>2. Moved(Refresh, "answer", pipe, turn) /\ Refresh \in Callers
  BY ReadMoves, CallerKinds
<1>3. MessageInv' /\ Nothing' = Nothing
      /\ \A i \in 1 .. Len(inbox') : LastShow(i)' => LastShow(i) /\ ValueOf(inbox[i])' = ValueOf(inbox[i])
  BY <1>1, <1>2, SameBox DEF ShowInv
<1>4. CallInv'
  BY <1>1, <1>2, <1>3, CallerKinds DEF ShowInv, CallInv, Answering, Emitting
<1>5. TurnInv'
  BY <1>1, <1>2 DEF ShowInv, TurnInv, ProtectionOK
<1>6. TellsInv'
  BY <1>1, <1>2 DEF ShowInv, TellsInv, Answering, Answered
<1>7. PendingInv' /\ LastInv'
  BY <1>1, <1>2, <1>3 DEF ShowInv, PendingInv, LastInv
<1> QED  BY <1>3, <1>4, <1>5, <1>6, <1>7 DEF ShowInv

\* A call looks whether to stop or to start.
LEMMA CheckShow ==
  ASSUME BaseOK, ProtectionOK, ShowInv, NEW c \in Callers, ToggleCheck(c)
  PROVE  ShowInv'
<1> USE DEF Moved
<1>1. call[c].pc = "called" /\ c # Refresh /\ UNCHANGED <<mounted, inbox, pipe, shown, turn, told, misled>>
  BY DEF ToggleCheck, AtPC, telling
<1>2. PICK pc \in {"stopping", "starting"} : Moved(c, pc, call[c].captured, 0)
  BY <1>1, CheckMoves DEF ShowInv, TurnInv
<1>3. MessageInv' /\ Nothing' = Nothing
      /\ \A i \in 1 .. Len(inbox') : LastShow(i)' => LastShow(i) /\ ValueOf(inbox[i])' = ValueOf(inbox[i])
  BY <1>1, <1>2, SameBox DEF ShowInv
<1>4. CallInv'
  BY <1>1, <1>2, <1>3, CallerKinds DEF ShowInv, CallInv, Answering
<1>5. TurnInv'
  BY <1>1, <1>2 DEF ShowInv, TurnInv, ProtectionOK
<1>6. TellsInv'
  BY <1>1, <1>2 DEF ShowInv, TellsInv, Answering, Answered
<1>7. PendingInv' /\ LastInv'
  BY <1>1, <1>2, <1>3, CallerKinds DEF ShowInv, PendingInv, LastInv, Owing, Emitting
<1> QED  BY <1>3, <1>4, <1>5, <1>6, <1>7 DEF ShowInv

\* Protection is put on or off: if that changes anything there is a new turn, of
\* which nobody has told.
LEMMA SwitchShow ==
  ASSUME BaseOK, ProtectionOK, ShowInv, NEW c \in Callers, NEW here \in PCs, NEW pc \in PCs,
         NEW on \in BOOLEAN, Switch(c, here, pc, on)
  PROVE  ShowInv'
<1> USE DEF Moved
<1>1. /\ call[c].pc \in {"stopping", "clearing", "starting", "opening"}
      /\ pipe' = on /\ turn' = (IF on = pipe THEN turn ELSE turn + 1)
      /\ UNCHANGED <<mounted, inbox, shown, told, misled>>
      /\ Moved(c, pc, call[c].captured, turn')
      /\ pc \in Owing /\ (pc = "emitTrue" => on) /\ (pc = "emitFalse" => ~on)
  BY SwitchesTo DEF Switch, AtPC, Owing, Emitting
<1>2. /\ MessageInv' /\ Nothing' = Nothing
      /\ \A i \in 1 .. Len(inbox') : LastShow(i)' => LastShow(i) /\ ValueOf(inbox[i])' = ValueOf(inbox[i])
  BY <1>1, SameBox DEF ShowInv
<1>3. turn \in Nat /\ told \in Nat /\ turn > 0 /\ told <= turn /\ pipe \in BOOLEAN
      /\ \A d \in Callers : call[d].about \in Nat /\ call[d].about <= turn
  BY DEF ShowInv, TurnInv, ProtectionOK
<1>4. turn' \in Nat /\ turn' >= turn /\ c # Refresh /\ c \in Callers
  BY <1>1, <1>3 DEF ShowInv, CallInv, Answering
<1>5. CallInv'
  BY <1>1, <1>2, <1>4, CallerKinds DEF ShowInv, CallInv, Answering, Owing, Emitting
<1>6. TurnInv'
  BY <1>1, <1>3, <1>4 DEF ShowInv, TurnInv, Owing, Emitting
<1>7. TellsInv'
  <2>1. CASE on = pipe
    <3>1. turn' = turn /\ pipe' = pipe
      BY <1>1, <2>1
    <3>2. \A d \in Callers : d # c => call'[d] = call[d]
      BY <1>1
    <3>3. call'[c].pc = pc /\ pc \notin Answering
      BY <1>1 DEF Owing, Emitting, Answering
    <3> QED  BY <1>1, <3>1, <3>2, <3>3 DEF ShowInv, TellsInv, Answered
  <2>2. CASE on # pipe
    <3>1. \A d \in Callers : d # c => call'[d].about # turn'
      BY <1>1, <1>3, <2>2
    <3>2. call'[c].pc = pc /\ pc \notin Answering
      BY <1>1 DEF Owing, Emitting, Answering
    <3> QED  BY <1>1, <3>1, <3>2 DEF TellsInv
  <2> QED  BY <2>1, <2>2
<1>8. PendingInv'
  BY <1>1 DEF PendingInv
<1>9. LastInv'
  <2>1. CASE on = pipe
    BY <1>1, <1>2, <2>1 DEF ShowInv, LastInv
  <2>2. CASE on # pipe
    BY <1>1, <1>3, <2>2 DEF LastInv
  <2> QED  BY <2>1, <2>2
<1> QED  BY <1>2, <1>5, <1>6, <1>7, <1>8, <1>9 DEF ShowInv

\* A start fails; if it had closed a pipeline, the window misses that.
LEMMA FailShow ==
  ASSUME BaseOK, ProtectionOK, ShowInv, NEW c \in Callers, StartFails(c)
  PROVE  ShowInv'
<1> USE DEF Moved
<1> DEFINE t == call[c].about
<1>1. /\ call[c].pc = "opening" /\ UNCHANGED <<mounted, inbox, pipe, shown, turn>>
      /\ told' = (IF t > told THEN t ELSE told) /\ misled' = (misled \/ t > told)
  BY DEF StartFails, AtPC, Misses
<1>2. Moved(c, IF c \in Clicks THEN "answer" ELSE "done", call[c].captured, 0)
  BY FailsMoves
<1>3. MessageInv' /\ Nothing' = Nothing
      /\ \A i \in 1 .. Len(inbox') : LastShow(i)' => LastShow(i) /\ ValueOf(inbox[i])' = ValueOf(inbox[i])
  BY <1>1, <1>2, SameBox DEF ShowInv
<1>4. turn \in Nat /\ told \in Nat /\ turn > 0 /\ told <= turn /\ t \in Nat /\ t <= turn /\ c # Refresh
  BY <1>1 DEF ShowInv, CallInv, TurnInv, ProtectionOK, Answering
<1> HIDE DEF t
<1>5. told' \in Nat /\ told' <= turn /\ (told = turn => told' = turn) /\ (t = turn => told' = turn)
  BY <1>1, <1>4
<1>6. CallInv'
  BY <1>1, <1>2, <1>3, <1>4, CallerKinds DEF ShowInv, CallInv, Answering, Emitting
<1>7. TurnInv'
  BY <1>1, <1>2, <1>4, <1>5 DEF ShowInv, TurnInv
<1>8. TellsInv'
  BY <1>1, <1>2, <1>4 DEF ShowInv, TellsInv, Answering, Answered
<1>9. PendingInv'
  <2> SUFFICES ASSUME told' # turn PROVE PendingInv'
    BY <1>1 DEF PendingInv
  <2>1. told # turn /\ t # turn
    BY <1>5
  <2> QED  BY <1>1, <1>2, <1>4, <2>1, CallerKinds DEF ShowInv, PendingInv, t
<1>10. LastInv'
  <2> SUFFICES ASSUME ~misled', told' = turn PROVE LastInv'
    BY <1>1 DEF LastInv
  <2>1. ~misled /\ ~(t > told)
    BY <1>1, Zenon
  <2>2. told = turn
    BY <1>1, <2>1
  <2> QED  BY <1>1, <1>3, <2>1, <2>2 DEF ShowInv, LastInv
<1> QED  BY <1>3, <1>6, <1>7, <1>8, <1>9, <1>10 DEF ShowInv

\* What posting a message that tells turn t does to what has been told.
LEMMA TellsFacts ==
  ASSUME ProtectionOK, TurnInv, NEW t \in Nat, t <= turn, Tells(t)
  PROVE  /\ turn' = turn /\ told' \in Nat /\ told' <= turn
         /\ told = turn => told' = turn
         /\ t = turn => told' = turn
         /\ ~misled' /\ told' = turn => t = turn
<1>1. told' = (IF t > told THEN t ELSE told) /\ turn' = turn
  BY DEF Tells
<1>2. ~misled' => ~(t < told)
  BY Zenon DEF Tells
<1> QED  BY <1>1, <1>2 DEF ProtectionOK, TurnInv

\* runtime.EventsEmit: the event is posted, or lost before the window listens.
LEMMA EmitShow ==
  ASSUME BaseOK, ProtectionOK, ShowInv, NEW c \in Callers, EmitProtection(c)
  PROVE  ShowInv'
<1> DEFINE b == call[c].pc = "emitTrue"
           t == call[c].about
           m == <<"protection", b>>
<1>1. /\ call[c].pc \in Emitting /\ UNCHANGED <<mounted, pipe, shown>>
      /\ Emit(m) /\ IF mounted THEN Tells(t) ELSE UNCHANGED <<turn, told, misled>>
  BY DEF EmitProtection, Emitting, telling
<1>2. /\ call' \in [Callers -> CallSet] /\ \A d \in Callers : d # c => call'[d] = call[d]
      /\ call'[c].pc \in {"answer", "done"} /\ (call'[c].pc = "answer" => c \in Clicks)
      /\ call'[c].captured = call[c].captured
      /\ call'[c].about = 0 \/ (call'[c].about = t /\ call'[c].pc = "answer" /\ call[c].captured # b)
  BY EmitMoves DEF Moved
<1>3. t \in Nat /\ t <= turn /\ turn \in Nat /\ turn > 0 /\ call[c].captured \in BOOLEAN /\ pipe \in BOOLEAN
  BY DEF ShowInv, TurnInv, ProtectionOK
<1>4. t = turn => b = pipe
  BY <1>1, <1>3 DEF ShowInv, TellsInv, Emitting
<1>5. b \in BOOLEAN /\ c # Refresh
  BY <1>1 DEF ShowInv, CallInv, Emitting, Answering
<1> HIDE DEF b
<1>6. m \in Messages /\ m[1] = "protection" /\ m[2] = b
  BY <1>5, MessageShapes
<1> HIDE DEF m, t
<1>7. /\ turn' = turn /\ told' \in Nat /\ told' <= turn
      /\ told = turn => told' = turn
      /\ mounted /\ t = turn => told' = turn
      /\ mounted /\ ~misled' /\ told' = turn => t = turn
  BY <1>1, <1>3, TellsFacts DEF ShowInv, TurnInv, ProtectionOK
<1>8. \A d \in Callers : call[d].pc = "answered" => call'[d] = call[d]
  BY <1>1, <1>2 DEF Emitting
<1>9. IF mounted THEN Posts(m) ELSE inbox' = inbox
  BY <1>1, <1>6 DEF Emit, Posts
<1>10. MessageInv'
  <2>1. CASE mounted
    BY <1>6, <1>8, <1>9, <2>1, PostMessages DEF ShowInv
  <2>2. CASE ~mounted
    BY <1>8, <1>9, <2>2, SameBox DEF ShowInv
  <2> QED  BY <2>1, <2>2
<1>11. CallInv'
  <2>1. ~mounted => Nothing'
    BY <1>8, <1>9, SameBox DEF ShowInv, CallInv
  <2>2. ~mounted => c \notin Clicks
    BY <1>1 DEF ShowInv, CallInv, Emitting
  <2> QED  BY <1>1, <1>2, <1>5, <2>1, <2>2, CallerKinds DEF ShowInv, CallInv, Answering, Emitting
<1>12. TurnInv'
  BY <1>2, <1>3, <1>7 DEF ShowInv, TurnInv
<1>13. TellsInv'
  <2>1. ASSUME call'[c].about = turn' PROVE call'[c].pc = "answer" /\ Answered(c)' = pipe'
    <3>1. call'[c].pc = "answer" /\ call[c].captured # b /\ t = turn
      BY <1>2, <1>3, <1>7, <2>1
    <3>2. (~call[c].captured) = pipe
      BY <1>3, <1>4, <1>5, <3>1
    <3> QED  BY <1>1, <1>2, <1>5, <3>1, <3>2 DEF Answered
  <2> QED  BY <1>1, <1>2, <1>7, <2>1 DEF ShowInv, TellsInv, Answering, Answered
<1>14. PendingInv'
  <2> SUFFICES ASSUME mounted, told' # turn PROVE PendingInv'
    BY <1>1, <1>7 DEF PendingInv
  <2>1. told # turn /\ t # turn
    BY <1>7
  <2> QED  BY <1>1, <1>2, <1>5, <1>7, <2>1, CallerKinds DEF ShowInv, PendingInv, t
<1>15. LastInv'
  <2>1. CASE mounted
    <3>1. ~Nothing' /\ \A i \in 1 .. Len(inbox') : LastShow(i)' => inbox'[i] = m
      BY <1>6, <1>9, <2>1, PostLast DEF ShowKinds
    <3>2. \A i \in 1 .. Len(inbox') : inbox'[i] = m => ValueOf(inbox[i])' = b
      BY <1>6 DEF ValueOf
    <3> QED  BY <1>1, <1>4, <1>7, <2>1, <3>1, <3>2 DEF LastInv
  <2>2. CASE ~mounted
    <3>1. Nothing' = Nothing
          /\ \A i \in 1 .. Len(inbox') :
               LastShow(i)' => LastShow(i) /\ ValueOf(inbox[i])' = ValueOf(inbox[i])
      BY <1>8, <1>9, <2>2, SameBox DEF ShowInv
    <3> QED  BY <1>1, <1>9, <2>2, <3>1 DEF ShowInv, LastInv
  <2> QED  BY <2>1, <2>2
<1> QED  BY <1>10, <1>11, <1>12, <1>13, <1>14, <1>15 DEF ShowInv

\* A call answers: its answer is the last message now.
LEMMA AnswerShow ==
  ASSUME BaseOK, ProtectionOK, ShowInv, NEW c \in Callers, AnswerCall(c)
  PROVE  ShowInv'
<1> DEFINE t == call[c].about
           m == <<"answer", c>>
<1>1. call[c].pc = "answer" /\ UNCHANGED <<mounted, pipe, shown>> /\ Tells(t)
  BY DEF AnswerCall, AtPC
<1>2. m \in Messages /\ m[1] = "answer" /\ m[2] = c /\ Posts(m)
  BY MessageShapes DEF AnswerCall, Post, Posts
<1>3. Moved(c, "answered", call[c].captured, t)
  BY AnswerMoves
<1>4. t \in Nat /\ t <= turn /\ turn \in Nat /\ turn > 0
  BY DEF ShowInv, TurnInv, ProtectionOK
<1>5. t = turn => Answered(c) = pipe
  BY <1>1 DEF ShowInv, TellsInv, Answering
<1>6. Answered(c)' = Answered(c)
  BY <1>3 DEF Moved, Answered
<1>7. mounted /\ c \in Clicks \cup {Refresh}
  BY <1>1 DEF ShowInv, CallInv, Answering
<1> HIDE DEF m, t
<1>8. /\ turn' = turn /\ told' \in Nat /\ told' <= turn
      /\ told = turn => told' = turn
      /\ t = turn => told' = turn
      /\ ~misled' /\ told' = turn => t = turn
  BY <1>1, <1>4, TellsFacts DEF ShowInv
<1> USE DEF Moved
<1>9. MessageInv'
  BY <1>1, <1>2, <1>3, PostMessages DEF ShowInv
<1>10. CallInv'
  BY <1>1, <1>3, <1>7, CallerKinds DEF ShowInv, CallInv, Answering, Emitting
<1>11. TurnInv'
  BY <1>3, <1>4, <1>8 DEF ShowInv, TurnInv
<1>12. TellsInv'
  <2>1. \A d \in Callers : Answered(d)' = Answered(d) /\ call'[d].about = call[d].about
    BY <1>3, <1>6 DEF Answered, t
  <2>2. \A d \in Callers : call'[d].pc = call[d].pc \/ call[d].pc \in Answering
    BY <1>1, <1>3 DEF Answering
  <2>3. call'[c].pc \notin Emitting
    BY <1>3 DEF Emitting
  <2> QED  BY <1>1, <1>3, <1>8, <2>1, <2>2, <2>3 DEF ShowInv, TellsInv, Emitting, Answering
<1>13. PendingInv'
  <2> SUFFICES ASSUME told' # turn PROVE PendingInv'
    BY <1>8 DEF PendingInv
  <2>1. told # turn /\ t # turn
    BY <1>8
  <2> QED  BY <1>1, <1>3, <1>8, <2>1, CallerKinds DEF ShowInv, PendingInv, Owing, Emitting, t
<1>14. LastInv'
  <2>1. ~Nothing' /\ \A i \in 1 .. Len(inbox') : LastShow(i)' => inbox'[i] = m
    BY <1>2, PostLast DEF BaseOK, ShowKinds
  <2>2. \A i \in 1 .. Len(inbox') : inbox'[i] = m => ValueOf(inbox[i])' = Answered(c)'
    BY <1>2 DEF ValueOf
  <2> QED  BY <1>1, <1>5, <1>6, <1>8, <2>1, <2>2 DEF LastInv
<1> QED  BY <1>9, <1>10, <1>11, <1>12, <1>13, <1>14 DEF ShowInv

\* The window handles the event or the answer: if it was the last, the window
\* shows its value.
LEMMA HandleShow ==
  ASSUME BaseOK, ProtectionOK, ShowInv, Takes, Head(inbox)[1] \in ShowKinds,
         shown' = ValueOf(Head(inbox)), UNCHANGED <<pipe, turn, told, misled>>,
         \A d \in Callers : call'[d] = call[d] \/ (Head(inbox)[1] = "answer" /\ d = Head(inbox)[2])
  PROVE  MessageInv' /\ LastInv' /\ mounted
<1>1. /\ Head(inbox) = inbox[1] /\ 1 \in 1 .. Len(inbox)
      /\ \A i \in 1 .. Len(inbox') : inbox'[i] = inbox[i + 1] /\ i + 1 \in 1 .. Len(inbox)
      /\ Nothing' => \A i \in 1 .. Len(inbox) : inbox[i][1] \in ShowKinds => i = 1
      /\ \A i \in 1 .. Len(inbox') : LastShow(i)' => LastShow(i + 1)
  BY TakeLast
<1>2. /\ MessageInv'
      /\ \A i \in 1 .. Len(inbox') : inbox'[i][1] \in ShowKinds =>
           ValueOf(inbox[i])' = ValueOf(inbox[i + 1])
  BY TakeMessages DEF ShowInv
<1>3. \A i \in 1 .. Len(inbox') : LastShow(i)' => inbox'[i][1] \in ShowKinds
  BY DEF LastShow
<1>4. Nothing' => LastShow(1)
  <2> SUFFICES ASSUME Nothing', NEW j \in 1 .. Len(inbox), j > 1, inbox[j][1] \in ShowKinds PROVE FALSE
    BY <1>1 DEF LastShow
  <2>1. j = 1
    BY <1>1
  <2> QED  BY <2>1
<1>5. LastInv'
  <2> SUFFICES ASSUME ~misled, told = turn
               PROVE  /\ Nothing' => shown' = pipe
                      /\ \A i \in 1 .. Len(inbox') : LastShow(i)' => ValueOf(inbox[i])' = pipe
    BY DEF LastInv
  <2>1. \A i \in 1 .. Len(inbox) : LastShow(i) => ValueOf(inbox[i]) = pipe
    BY DEF ShowInv, LastInv
  <2> QED  BY <1>1, <1>2, <1>3, <1>4, <2>1
<1>6. mounted
  BY <1>1 DEF ShowInv, CallInv, Nothing
<1> QED  BY <1>2, <1>5, <1>6

LEMMA HandleProtectionShow ==
  ASSUME BaseOK, ProtectionOK, ShowInv, HandleProtection
  PROVE  ShowInv'
<1>1. /\ Takes /\ Head(inbox)[1] = "protection" /\ shown' = ValueOf(Head(inbox))
      /\ UNCHANGED <<mounted, pipe, call, turn, told, misled>>
  BY ReceiveIs DEF HandleProtection, telling, ValueOf
<1>2. MessageInv' /\ LastInv' /\ mounted
  BY <1>1, HandleShow DEF ShowKinds
<1>3. CallInv' /\ TurnInv' /\ TellsInv' /\ PendingInv'
  BY <1>1, <1>2 DEF ShowInv, CallInv, TurnInv, TellsInv, PendingInv, Answered
<1> QED  BY <1>2, <1>3 DEF ShowInv

LEMMA HandleAnswerShow ==
  ASSUME BaseOK, ProtectionOK, ShowInv, HandleAnswer
  PROVE  ShowInv'
<1> DEFINE c == Head(inbox)[2]
<1>1. /\ Takes /\ Head(inbox)[1] = "answer" /\ UNCHANGED <<mounted, pipe, turn, told, misled>>
      /\ shown' = Answered(c) /\ c \in Callers /\ Moved(c, "done", call[c].captured, 0)
  BY ReceiveIs, HandleAnswerMoves DEF HandleAnswer, telling
<1>2. shown' = ValueOf(Head(inbox))
  BY <1>1 DEF ValueOf
<1>3. MessageInv' /\ LastInv' /\ mounted
  BY <1>1, <1>2, HandleShow DEF ShowKinds, Moved
<1>4. call[c].pc = "answered"
  BY <1>1, TakeLast DEF ShowInv, MessageInv
<1> HIDE DEF c
<1> USE DEF Moved
<1>5. CallInv'
  BY <1>1, <1>3, CallerKinds DEF ShowInv, CallInv, Answering, Emitting
<1>6. TurnInv'
  BY <1>1 DEF ShowInv, TurnInv, ProtectionOK
<1>7. TellsInv'
  BY <1>1 DEF ShowInv, TurnInv, TellsInv, Answering, Answered, ProtectionOK
<1>8. PendingInv'
  BY <1>1, <1>4, CallerKinds DEF ShowInv, PendingInv, Owing, Emitting
<1> QED  BY <1>3, <1>5, <1>6, <1>7, <1>8 DEF ShowInv

LEMMA NextShow == WindowOK /\ ShowInv /\ [Next]_vars => ShowInv'
<1> SUFFICES ASSUME BaseOK, ProtectionOK, ShowInv, [Next]_vars PROVE ShowInv'
  BY DEF WindowOK
<1>1. CASE Switching
  <2>1. ASSUME NEW c \in Callers, ClosePipeline(c) \/ ClearField(c) \/ StartPipeline(c) PROVE ShowInv'
    BY <2>1, SwitchIs, SwitchShow
  <2> QED  BY <1>1, <2>1, MakeCallShow, ReadShow, CheckShow, FailShow, EmitShow, AnswerShow,
              HandleProtectionShow, HandleAnswerShow DEF Switching
<1>2. CASE Updating
  BY <1>2, UpdatingBox, UpdatingKeeps, OtherShow DEF protection, telling, BaseOK
<1>3. CASE Closing
  BY <1>3, ClosingBox, ClosingKeeps, OtherShow DEF protection, telling
<1>4. CASE UNCHANGED vars
  BY <1>4, OtherShow DEF vars, protection, telling, BoxStep
<1> QED  BY <1>1, <1>2, <1>3, <1>4, NextIs

\* However switches by the window, the tray and startup cross one another, their
\* events, their answers and the window's first refresh, for any number of
\* clicks and failed starts: when nothing is under way the window shows what
\* protection does, unless the last that it was told came out of turn.  So the
\* order of the messages is all that can make it wrong: an event that is lost
\* before the window listens, or one in the middle, never does.
THEOREM IndicatorTellsTheTruth == Spec => []IndicatorIsRight
<1> DEFINE IInv == WindowOK /\ ShowInv
<1>1. Init => IInv
  BY InitType, InitShow
<1>2. IInv /\ [Next]_vars => IInv'
  BY NextType, NextShow
<1>3. IInv => IndicatorIsRight
  <2> SUFFICES ASSUME ShowInv, Quiet, ~misled PROVE shown = pipe
    BY DEF IndicatorIsRight
  <2>1. inbox = <<>> /\ mounted /\ \A c \in Callers : call[c].pc \in {"idle", "done"}
    BY DEF Quiet, AllSettled
  <2>2. told = turn
    BY <2>1, CallerKinds DEF ShowInv, PendingInv, Owing, Emitting
  <2>3. Nothing
    BY <2>1 DEF Nothing
  <2> QED  BY <2>2, <2>3 DEF ShowInv, LastInv
<1> QED  BY <1>1, <1>2, <1>3, PTL DEF Spec

=============================================================================
