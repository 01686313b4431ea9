-------------------------------- MODULE Window --------------------------------
(***************************************************************************)
(* The window (frontend/src/App.tsx, AppInner) and what it talks to: the   *)
(* exported methods of app.go, the closing handler of main.go and the menu *)
(* of systray/tray.go.                                                     *)
(*                                                                         *)
(* A method called by the window runs in a goroutine of its own; its       *)
(* answer and the events emitted by Go reach the window one by one, in the *)
(* order in which they were posted: inbox is that queue (Wails, external). *)
(* The code after an await is the handling of the answer.  Between any two *)
(* steps of a handler other messages, clicks and goroutines come in.       *)
(***************************************************************************)
EXTENDS Naturals, Sequences

CONSTANTS
  Clicks,       \* clicks on the protection button, each a call of its own
  TrayToggles,  \* clicks on the tray's toggle entry
  Startup,      \* startup's call of startProtection
  Refresh,      \* the first refresh of the window
  MayFail,      \* TRUE: filter.Open may fail
  StartConfigs, \* the configurations the program may be started with
  ToggleConfigs,\* bound: the configurations with which protection is switched by hand
  MaxActs,      \* bound, for each configuration: how often the user clicks anything
  MaxRounds     \* bound, for each configuration: how many updates are run

Configs == [protection : BOOLEAN, notifications : BOOLEAN, minimize : BOOLEAN]
Callers == Clicks \cup TrayToggles \cup {Startup, Refresh}

ASSUME WindowAssumption ==
  /\ MayFail \in BOOLEAN
  /\ StartConfigs \subseteq Configs
  /\ ToggleConfigs \subseteq Configs
  /\ MaxActs \in [Configs -> Nat] /\ MaxRounds \in [Configs -> Nat]
  /\ {Startup, Refresh} \cap (Clicks \cup TrayToggles) = {}
  /\ Clicks \cap TrayToggles = {} /\ Startup # Refresh

VARIABLES
  cfg,        \* a.cfg: ProtectionEnabled, NotificationsEnabled, MinimizeToTrayOnClose
  mounted,    \* the listeners are registered; earlier events are lost
  inbox,      \* answers and events on their way to the window
  acts,       \* the number of clicks so far
  pipe,       \* a.pipeline is there and running
  turn,       \* history: the number of the state that protection is in
  call,       \* call[c]: where the call is; captured, a value it carries; and
              \* about, history: the turn its next message tells, 0 for none
  shown,      \* protected_, the state of protection the window shows
  told,       \* history: the latest turn the window has been told, or has missed
  misled,     \* history: the last that the window was told is about no turn, or
              \* an earlier one than it had been told before
  updating,   \* updating, the update button is disabled
  calling,    \* the calls of TriggerUpdate that have not begun
  sending,    \* the goroutines of TriggerManual that have not sent
  timers,     \* the safety timers not yet fired
  startup,    \* startupRef.current
  updater,    \* the updater's goroutine: "first", "running" or "waiting"
  asked,      \* manualTrigger holds a request
  rounds,     \* history: the updates that have ended
  lookups,    \* the GetConfig calls of update-status handlers under way
  toasts,     \* history: the notifications sent
  visible,    \* the window is on the screen
  dialog,     \* closeDialog
  quitting,   \* a.quitting
  pending,    \* the calls of the window about itself under way
  tray,       \* the tray icon is there
  alive       \* wails.Run has not returned

telling == <<turn, told, misled>>
protection == <<pipe, call, shown, telling>>
button == <<updating, calling, sending, timers>>
runs == <<updater, asked, rounds>>
toast == <<startup, lookups, toasts>>
update == <<button, runs, toast>>
closing == <<visible, dialog, quitting, pending, tray, alive>>
vars == <<cfg, mounted, inbox, acts, protection, update, closing>>

Init ==
  /\ cfg \in StartConfigs
  /\ mounted = FALSE /\ inbox = <<>> /\ acts = 0
  /\ pipe = FALSE /\ shown = FALSE
  /\ turn = 1 /\ told = 1 /\ misled = FALSE
  /\ call = [c \in Callers |->
               [pc |-> IF c # Startup THEN "idle" ELSE IF cfg.protection THEN "starting" ELSE "done",
                captured |-> FALSE, about |-> 0]]
  /\ updating = FALSE /\ calling = 0 /\ sending = 0 /\ timers = 0 /\ startup = TRUE
  /\ updater = "first" /\ asked = FALSE /\ rounds = 0
  /\ lookups = 0 /\ toasts = 0
  /\ visible = TRUE /\ dialog = FALSE
  /\ quitting = FALSE /\ pending = {} /\ tray = TRUE /\ alive = TRUE

-----------------------------------------------------------------------------

Post(m) == inbox' = Append(inbox, m)

\* An event that is emitted before the window listens is lost.
Emit(m) == inbox' = IF mounted THEN Append(inbox, m) ELSE inbox

\* The window handles the next message, which is of this kind.
Next1(kind) == alive /\ inbox # <<>> /\ Head(inbox)[1] = kind
Receive(kind) == Next1(kind) /\ inbox' = Tail(inbox)

\* The user clicks somewhere in the window.
Click == alive /\ mounted /\ visible /\ acts < MaxActs[cfg] /\ acts' = acts + 1
ClickPage == Click /\ ~dialog       \* the dialog lies over the page
ClickTray == alive /\ tray /\ acts < MaxActs[cfg] /\ acts' = acts + 1

-----------------------------------------------------------------------------
\* Protection: the toggle button, the tray's entry, startup, and refresh.

\* Call c is at pc now, with value v, and its next message tells turn t.
Moves(c, pc, v, t) == call' = [call EXCEPT ![c] = [pc |-> pc, captured |-> v, about |-> t]]
Goes(c, pc) == Moves(c, pc, call[c].captured, call[c].about)
Ends(c) == Moves(c, "done", call[c].captured, 0)
AtPC(c, pc) == alive /\ call[c].pc = pc
AllSettled == \A c \in Callers : call[c].pc \in {"idle", "done"}
Quiet == mounted /\ inbox = <<>> /\ AllSettled

\* A message that tells turn t is posted to the window.
Tells(t) == told' = (IF t > told THEN t ELSE told) /\ misled' = (t < told) /\ turn' = turn

\* Nothing is posted of turn t, which the window has not been told before.
Misses(t) == told' = (IF t > told THEN t ELSE told) /\ misled' = (misled \/ t > told) /\ turn' = turn

\* The effect that runs once: refresh is called, then the listeners are set.
Mount ==
  /\ alive /\ ~mounted
  /\ mounted' = TRUE
  /\ Goes(Refresh, "called")
  /\ UNCHANGED <<cfg, inbox, acts, pipe, shown, telling, update, closing>>

\* IsProtectionEnabled reads the state; its answer is posted after that.
ReadState ==
  /\ AtPC(Refresh, "called")
  /\ Moves(Refresh, "answer", pipe, turn)
  /\ UNCHANGED <<cfg, mounted, inbox, acts, pipe, shown, telling, update, closing>>

\* handleToggle: the value of protected_ is that of the click's rendering.
ClickToggle(c) ==
  /\ ClickPage /\ cfg \in ToggleConfigs /\ c \in Clicks /\ call[c].pc = "idle"
  /\ Moves(c, "called", shown, 0)
  /\ UNCHANGED <<cfg, mounted, inbox, pipe, shown, telling, update, closing>>

TrayToggle(c) ==
  /\ ClickTray /\ cfg \in ToggleConfigs /\ c \in TrayToggles /\ call[c].pc = "idle"
  /\ Goes(c, "called")
  /\ UNCHANGED <<cfg, mounted, inbox, pipe, shown, telling, update, closing>>

\* ToggleProtection looks whether a pipeline runs; when it goes on, others may
\* have switched.  startup's call starts without looking.
ToggleCheck(c) ==
  /\ AtPC(c, "called") /\ c # Refresh
  /\ Goes(c, IF pipe THEN "stopping" ELSE "starting")
  /\ UNCHANGED <<cfg, mounted, inbox, acts, pipe, shown, telling, update, closing>>

\* Call c puts protection on or off, of which it is going to tell.
Switches(c, pc, on) ==
  /\ pipe' = on
  /\ turn' = IF on = pipe THEN turn ELSE turn + 1
  /\ Moves(c, pc, call[c].captured, turn')
  /\ UNCHANGED <<cfg, mounted, inbox, acts, shown, told, misled, update, closing>>

\* To stop is to close the pipeline and then to clear the field, whatever it
\* holds by then.  startProtection first closes a pipeline that is there.
ClosePipeline(c) ==
  \/ AtPC(c, "stopping") /\ Switches(c, "clearing", FALSE)
  \/ AtPC(c, "starting") /\ Switches(c, "opening", FALSE)

ClearField(c) == AtPC(c, "clearing") /\ Switches(c, "emitFalse", FALSE)
StartPipeline(c) == AtPC(c, "opening") /\ Switches(c, "emitTrue", TRUE)

\* filter.Open fails: the error is logged and nothing is emitted, although a
\* pipeline may have been closed.
StartFails(c) ==
  /\ AtPC(c, "opening") /\ MayFail
  /\ Misses(call[c].about)
  /\ Moves(c, IF c \in Clicks THEN "answer" ELSE "done", call[c].captured, 0)
  /\ UNCHANGED <<cfg, mounted, inbox, acts, pipe, shown, update, closing>>

\* runtime.EventsEmit(a.ctx, "protection", ...).  The answer that follows to a
\* click is the opposite of what the click has captured.
EmitProtection(c) ==
  /\ alive /\ call[c].pc \in {"emitTrue", "emitFalse"}
  /\ LET on == call[c].pc = "emitTrue"
     IN  /\ Emit(<<"protection", on>>)
         /\ IF mounted THEN Tells(call[c].about) ELSE UNCHANGED telling
         /\ \/ c \in Clicks /\ call[c].captured # on /\ Goes(c, "answer")
            \/ c \in Clicks /\ call[c].captured = on /\ Moves(c, "answer", on, 0)
            \/ c \notin Clicks /\ Ends(c)
  /\ UNCHANGED <<cfg, mounted, acts, pipe, shown, update, closing>>

AnswerCall(c) ==
  /\ AtPC(c, "answer")
  /\ Post(<<"answer", c>>)
  /\ Tells(call[c].about)
  /\ Goes(c, "answered")
  /\ UNCHANGED <<cfg, mounted, acts, pipe, shown, update, closing>>

HandleProtection ==
  /\ Receive("protection")
  /\ shown' = Head(inbox)[2]
  /\ UNCHANGED <<cfg, mounted, acts, pipe, call, telling, update, closing>>

\* setProtected_(!protected_), with the value captured by the closure.
NotTheLatest(c) == ~shown               \* mutant: the value shown by now
Answered(c) == IF c = Refresh THEN call[c].captured ELSE ~call[c].captured

HandleAnswer ==
  /\ Receive("answer")
  /\ LET c == Head(inbox)[2] IN shown' = Answered(c) /\ Ends(c)
  /\ UNCHANGED <<cfg, mounted, acts, pipe, telling, update, closing>>

-----------------------------------------------------------------------------
\* The update button, in the header and in the source view.

ClickUpdate ==
  /\ ClickPage /\ ~updating
  /\ updating' = TRUE
  /\ calling' = calling + 1
  /\ UNCHANGED <<cfg, mounted, inbox, protection, sending, timers, toast, runs, closing>>

\* TriggerUpdate starts a goroutine and returns.
TriggerUpdate ==
  /\ alive /\ calling > 0
  /\ calling' = calling - 1 /\ sending' = sending + 1
  /\ Post(<<"triggered">>)
  /\ UNCHANGED <<cfg, mounted, acts, protection, updating, timers, toast, runs, closing>>

TriggerManual ==
  /\ alive /\ sending > 0
  /\ sending' = sending - 1 /\ asked' = TRUE
  /\ UNCHANGED <<cfg, mounted, inbox, acts, protection, updating, calling, timers, toast,
                 updater, rounds, closing>>

\* The code after the await: setTimeout(..., 60_000).
NoTimer == 0                            \* mutant: relies on the event
TimersAfter == timers + 1

HandleTriggered ==
  /\ Receive("triggered")
  /\ timers' = TimersAfter
  /\ UNCHANGED <<cfg, mounted, acts, protection, updating, calling, sending, toast, runs, closing>>

\* Nothing clears a timer when the update ends.
TimerFires ==
  /\ alive /\ timers > 0
  /\ timers' = timers - 1
  /\ updating' = FALSE
  /\ UNCHANGED <<cfg, mounted, inbox, acts, protection, calling, sending, toast, runs, closing>>

\* Run: the update at startup, then those asked for and those of the ticker.
BeginUpdate ==
  /\ alive /\ updater \in {"first", "waiting"} /\ rounds < MaxRounds[cfg]
  /\ updater' = "running"
  /\ asked' \in (IF updater = "first" THEN {asked} ELSE {asked, FALSE})
  /\ UNCHANGED <<cfg, mounted, inbox, acts, protection, button, toast, rounds, closing>>

\* onReload's last line; the filter may have got no range at all.
EndUpdate ==
  /\ alive /\ updater = "running"
  /\ updater' = "waiting" /\ rounds' = rounds + 1
  /\ \E ranges \in 0 .. 1 : Emit(<<"update-status", ranges>>)
  /\ UNCHANGED <<cfg, mounted, acts, protection, button, toast, asked, closing>>

\* The first event is that of the startup update; no toast for it.
EveryEvent == FALSE                     \* mutant: nothing is skipped
FirstEvent == startup

HandleUpdateStatus ==
  /\ Receive("update-status")
  /\ updating' = FALSE
  /\ startup' = FALSE
  /\ lookups' = IF ~FirstEvent /\ Head(inbox)[2] > 0 THEN lookups + 1 ELSE lookups
  /\ UNCHANGED <<cfg, mounted, acts, protection, calling, sending, timers, runs, toasts, closing>>

AnswerConfig ==
  /\ alive /\ lookups > 0
  /\ lookups' = lookups - 1
  /\ Post(<<"config", cfg.notifications>>)
  /\ UNCHANGED <<cfg, mounted, acts, protection, button, startup, runs, toasts, closing>>

HandleConfig ==
  /\ Receive("config")
  /\ toasts' = IF Head(inbox)[2] THEN toasts + 1 ELSE toasts
  /\ UNCHANGED <<cfg, mounted, acts, protection, button, startup, runs, lookups, closing>>

-----------------------------------------------------------------------------
\* Closing.

\* Wails asks OnBeforeClose before it closes the window or obeys Quit.
AlwaysAsk == FALSE                      \* mutant: the flag is not looked at
IsQuitting == quitting

OnBeforeClose ==
  \/ /\ IsQuitting
     /\ alive' = FALSE
     /\ UNCHANGED <<inbox, visible>>
  \/ /\ ~IsQuitting /\ cfg.minimize
     /\ visible' = FALSE
     /\ UNCHANGED <<inbox, alive>>
  \/ /\ ~IsQuitting /\ ~cfg.minimize
     /\ Emit(<<"close-request">>)
     /\ UNCHANGED <<visible, alive>>

CloseWindow ==
  /\ Click
  /\ OnBeforeClose
  /\ UNCHANGED <<cfg, mounted, protection, update, dialog, quitting, pending, tray>>

HandleCloseRequest ==
  /\ Receive("close-request")
  /\ dialog' = TRUE
  /\ UNCHANGED <<cfg, mounted, acts, protection, update, visible, quitting, pending, tray, alive>>

\* The buttons of the dialog: the method is called after the dialog is closed.
Choose(method) ==
  /\ Click /\ dialog
  /\ dialog' = FALSE
  /\ pending' = pending \cup method
  /\ UNCHANGED <<cfg, mounted, inbox, protection, update, visible, quitting, tray, alive>>

HeaderMinimize ==
  /\ ClickPage
  /\ pending' = pending \cup {"MinimizeToTray"}
  /\ UNCHANGED <<cfg, mounted, inbox, protection, update, visible, dialog, quitting, tray, alive>>

MinimizeToTray ==
  /\ alive /\ "MinimizeToTray" \in pending
  /\ pending' = pending \ {"MinimizeToTray"}
  /\ visible' = FALSE
  /\ UNCHANGED <<cfg, mounted, inbox, acts, protection, update, dialog, quitting, tray, alive>>

\* QuitApp stores the flag and then calls runtime.Quit.
QuitApp ==
  /\ alive /\ "QuitApp" \in pending
  /\ pending' = (pending \ {"QuitApp"}) \cup {"Quit"}
  /\ quitting' = TRUE
  /\ UNCHANGED <<cfg, mounted, inbox, acts, protection, update, visible, dialog, tray, alive>>

Quit ==
  /\ alive /\ "Quit" \in pending
  /\ pending' = pending \ {"Quit"}
  /\ OnBeforeClose
  /\ UNCHANGED <<cfg, mounted, acts, protection, update, dialog, quitting, tray>>

TrayShow ==
  /\ ClickTray
  /\ visible' = TRUE
  /\ UNCHANGED <<cfg, mounted, inbox, protection, update, dialog, quitting, pending, tray, alive>>

\* runtime.Quit, which may be refused, and systray.Quit, which is not.
TrayQuit ==
  /\ ClickTray
  /\ OnBeforeClose
  /\ tray' = FALSE
  /\ UNCHANGED <<cfg, mounted, protection, update, dialog, quitting, pending>>

-----------------------------------------------------------------------------

Handle ==
  \/ HandleProtection \/ HandleAnswer \/ HandleTriggered
  \/ HandleUpdateStatus \/ HandleConfig \/ HandleCloseRequest

Calls ==
  \/ Mount \/ ReadState
  \/ \E c \in Callers : ToggleCheck(c) \/ ClosePipeline(c) \/ ClearField(c) \/ StartPipeline(c)
                          \/ StartFails(c) \/ EmitProtection(c) \/ AnswerCall(c)
  \/ TriggerUpdate \/ TriggerManual \/ AnswerConfig
  \/ MinimizeToTray \/ QuitApp \/ Quit

User ==
  \/ \E c \in Clicks : ClickToggle(c)
  \/ \E c \in TrayToggles : TrayToggle(c)
  \/ ClickUpdate \/ CloseWindow \/ HeaderMinimize
  \/ Choose({"MinimizeToTray"}) \/ Choose({"QuitApp"}) \/ Choose({})
  \/ TrayShow \/ TrayQuit

Next == Handle \/ Calls \/ User \/ TimerFires \/ BeginUpdate \/ EndUpdate

Spec == Init /\ [][Next]_vars

\* The window works through its messages, the methods it called go on, a timer
\* fires.  The updater and the user may stop at any point.
FairSpec == Spec /\ WF_vars(Handle) /\ WF_vars(TimerFires)
                 /\ WF_vars(TriggerUpdate) /\ WF_vars(QuitApp) /\ WF_vars(Quit)

-----------------------------------------------------------------------------

PCs == {"idle", "called", "stopping", "clearing", "starting", "opening",
        "emitTrue", "emitFalse", "answer", "answered", "done"}

\* Type invariant.
WindowTypeOK ==
  /\ cfg \in Configs
  /\ {mounted, pipe, shown, misled, updating, startup, asked,
      visible, dialog, quitting, tray, alive} \subseteq BOOLEAN
  /\ inbox \in Seq({<<"protection", b>> : b \in BOOLEAN}
                   \cup {<<"answer", c>> : c \in Callers} \cup {<<"triggered">>}
                   \cup {<<"update-status", n>> : n \in 0 .. 1}
                   \cup {<<"config", b>> : b \in BOOLEAN} \cup {<<"close-request">>})
  /\ call \in [Callers -> [pc : PCs, captured : BOOLEAN, about : Nat]]
  /\ {turn, told} \subseteq Nat
  /\ updater \in {"first", "running", "waiting"}
  /\ acts \in 0 .. MaxActs[cfg] /\ rounds \in 0 .. MaxRounds[cfg]
  /\ {calling, sending, timers, lookups, toasts} \subseteq Nat
  /\ pending \subseteq {"MinimizeToTray", "QuitApp", "Quit"}

\* However clicks, the tray, startup and refresh cross, the window tells the
\* truth about protection whenever nothing is under way, unless the last that it
\* was told came out of turn: an event or answer overtaken by one of a later
\* change, or the answer to a click whose start failed or which had captured
\* a state that was no longer so.  (Or unless a start failed that had closed a
\* pipeline: nothing tells the window of that.)
IndicatorIsRight == Quiet /\ ~misled => shown = pipe

\* "protection" as the window shows it is always that of the program.
IndicatorIsTrue == Quiet => shown = pipe

\* The update button comes back, although the updater may never report.
ButtonComesBack == updating ~> ~updating \/ ~alive

\* Toasts are for updates after that of startup, one at most for each, even if
\* startup's event was emitted before the window listened, and none is sent
\* when notifications are off.
ToastsAreDue == toasts <= (IF cfg.notifications /\ rounds > 0 THEN rounds - 1 ELSE 0)

\* Who chooses Quit in the dialog has quit, whatever the window or the tray are
\* told in the meantime.
QuitQuits == "QuitApp" \in pending ~> ~alive

\* A program that lives can be reached by its window or its tray icon.
Reachable == alive => visible \/ tray

\* The button is disabled as long as the update asked for is not done.
BusyMeansBusy == asked => updating

=============================================================================
