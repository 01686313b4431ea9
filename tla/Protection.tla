------------------------------ MODULE Protection ------------------------------
(***************************************************************************)
(* app.go: switching protection on and off.  The field a.pipeline is read  *)
(* and written without a lock by the goroutines of the window's calls, by  *)
(* the tray's goroutine, by startup and shutdown, and is read once a       *)
(* second by eventsEmitter.  Each mention of the field in the code is one  *)
(* read here, so that another goroutine may change it between a check for  *)
(* nil and the use.                                                        *)
(*                                                                         *)
(* A pipeline is reduced to what its life depends on: its started flag,    *)
(* its WinDivert handle, its done channel and whether its goroutines run;  *)
(* the Pipeline module has the rest.  Windows is external: a handle is a   *)
(* number that is given to somebody else once it has been closed, and      *)
(* WinDivertClose closes whatever its argument stands for at that moment.  *)
(***************************************************************************)
EXTENDS Naturals, FiniteSets

CONSTANTS
  Threads,      \* the goroutines that call the application
  Ops,          \* Ops[t]: the operations t calls
  SerialCalls,  \* TRUE: the operations but Look are called one at a time
  MaxOpens,     \* bound: how many pipelines are ever created
  Handles,      \* the handle values of the process
  MaxOthers,    \* bound: how many handles other code of the process opens
  Nil

AllOps == {"Startup", "Toggle", "TrayToggle", "Enable", "Disable", "Look", "Shutdown"}
Pipelines == 1 .. MaxOpens

ASSUME ProtectionAssumption ==
  /\ Ops \in [Threads -> SUBSET AllOps]
  /\ SerialCalls \in BOOLEAN
  /\ MaxOpens \in Nat /\ MaxOthers \in Nat
  /\ Nil \notin Nat

VARIABLES
  pipeline,   \* a.pipeline
  pipe,       \* pipe[p]: the state of the p-th pipeline
  opened,     \* the number of pipelines created
  owner,      \* owner[h]: what the handle value h stands for
  others,     \* the number of handles other code has opened
  robbed,     \* history: a handle of other code was closed
  life,       \* the program: "new", "starting", "up" or "down"
  enabled,    \* a.cfg.ProtectionEnabled
  call,       \* call[t]: the operation of t, where it is and its local
  panicked    \* a Go panic took the process down

windows == <<owner, others, robbed>>
app == <<life, enabled>>
vars == <<pipeline, pipe, opened, windows, app, call, panicked>>

OfPipeline(p) == <<"pipeline", p>>
OfOther == <<"other", 0>>
Free == <<"free", 0>>

NotCreated == [handle |-> Nil, open |-> FALSE, started |-> FALSE, running |-> FALSE, done |-> FALSE]
NoCall == [op |-> "none", pc |-> "idle", p |-> Nil, then |-> "end"]

Init ==
  /\ pipeline = Nil
  /\ pipe = [p \in Pipelines |-> NotCreated]
  /\ opened = 0
  /\ owner = [h \in Handles |-> Free]
  /\ others = 0 /\ robbed = FALSE
  /\ life = "new"
  /\ enabled \in BOOLEAN
  /\ call = [t \in Threads |-> NoCall]
  /\ panicked = FALSE

-----------------------------------------------------------------------------

At(t, pc) == call[t].pc = pc /\ ~panicked
Moves(t, c) == call' = [call EXCEPT ![t] = IF c.pc = "idle" THEN NoCall ELSE c]
GoTo(t, pc) == Moves(t, [call[t] EXCEPT !.pc = pc])
Resting == \A t \in Threads : call[t].pc = "idle"

\* When op can be called: the window works between OnStartup and OnShutdown,
\* eventsEmitter is started in the course of startup, the tray before it.
Callable(op) ==
  CASE op = "Startup" -> life = "new"
    [] op = "Look" -> life \in {"starting", "up"}
    [] op = "TrayToggle" -> TRUE
    [] OTHER -> life = "up"

Entry(op) ==
  CASE op \in {"Toggle", "TrayToggle"} -> "toggle"
    [] op = "Startup" -> IF enabled THEN "start" ELSE "end"
    [] op = "Enable" -> "start"
    [] op \in {"Disable", "Shutdown"} -> "stop"
    [] op = "Look" -> "look"

Call(t, op) ==
  /\ At(t, "idle") /\ op \in Ops[t]
  /\ Callable(op)
  /\ SerialCalls => op = "Look" \/ \A u \in Threads : call[u].op \in {"none", "Look"}
  /\ Moves(t, [NoCall EXCEPT !.op = op, !.pc = Entry(op)])
  /\ life' = CASE op = "Startup" -> "starting" [] op = "Shutdown" -> "down" [] OTHER -> life
  /\ UNCHANGED <<pipeline, pipe, opened, windows, enabled, panicked>>

\* if a.pipeline != nil; then says what follows the closing.
Check(t, pc, isSet, next, then, ifNil) ==
  /\ At(t, pc)
  /\ Moves(t, [call[t] EXCEPT !.pc = IF isSet THEN next ELSE ifNil, !.then = then])
  /\ UNCHANGED <<pipeline, pipe, opened, windows, app, panicked>>

\* startProtection closes the pipeline there is.
ReplacesNone == FALSE                   \* mutant: the old pipeline is forgotten
Replaces == pipeline # Nil

ToggleCheck(t) == Check(t, "toggle", pipeline # Nil, "isrunning", "end", "start")
StopCheck(t) == Check(t, "stop", pipeline # Nil, "close", "end", "end")
StartCheck(t) == Check(t, "start", Replaces, "close", "open", "open")
LookCheck(t) == Check(t, "look", pipeline # Nil, "looking", "idle", "idle")

\* a.pipeline.M(), or a.pipeline.Start(): the field is read again and a nil
\* pipeline panics.
Uses == {"isrunning", "close", "setonblock", "startcheck", "looking"}

NilPanic(t) ==
  /\ ~panicked /\ call[t].pc \in Uses
  /\ pipeline = Nil
  /\ panicked' = TRUE
  /\ UNCHANGED <<pipeline, pipe, opened, windows, app, call>>

UseField(t, pc, next) ==
  /\ At(t, pc)
  /\ pipeline # Nil
  /\ Moves(t, [call[t] EXCEPT !.pc = next, !.p = pipeline])
  /\ UNCHANGED <<pipeline, pipe, opened, windows, app, panicked>>

Started == pipeline # Nil /\ pipe[pipeline].started

ToggleIsRunning(t) == UseField(t, "isrunning", IF Started THEN "close" ELSE "start")
Look(t) == UseField(t, "looking", "idle")

-----------------------------------------------------------------------------
\* Pipeline.Close of the pipeline the goroutine got from the field.

Mine(t) == call[t].p

\* WinDivertClose, with Windows' part of it.
WinDivertClose(h) ==
  /\ owner' = [owner EXCEPT ![h] = Free]
  /\ robbed' = (robbed \/ owner[h] = OfOther)
  /\ UNCHANGED others

CloseField(t) == UseField(t, "close", IF Started THEN "stopset" ELSE "wdclose")

StopStore(t) ==
  /\ At(t, "stopset")
  /\ pipe' = [pipe EXCEPT ![Mine(t)].started = FALSE]
  /\ GoTo(t, "stopwd")
  /\ UNCHANGED <<pipeline, opened, windows, app, panicked>>

StopHandle(t) ==
  /\ At(t, "stopwd")
  /\ \/ /\ pipe[Mine(t)].open
        /\ pipe' = [pipe EXCEPT ![Mine(t)].open = FALSE]
        /\ WinDivertClose(pipe[Mine(t)].handle)
     \/ ~pipe[Mine(t)].open /\ UNCHANGED <<pipe, windows>>
  /\ GoTo(t, "done")
  /\ UNCHANGED <<pipeline, opened, app, panicked>>

\* The channel done after close(p.done).
DoneClosed == TRUE

StopDone(t) ==
  /\ At(t, "done")
  /\ panicked' = pipe[Mine(t)].done
  /\ pipe' = [pipe EXCEPT ![Mine(t)].done = DoneClosed]
  /\ GoTo(t, "wdclose")
  /\ UNCHANGED <<pipeline, opened, windows, app>>

CloseHandle(t) ==
  /\ At(t, "wdclose")
  /\ pipe' = [pipe EXCEPT ![Mine(t)].open = FALSE]
  /\ WinDivertClose(pipe[Mine(t)].handle)
  /\ GoTo(t, "clear")
  /\ UNCHANGED <<pipeline, opened, app, panicked>>

\* a.pipeline = nil
NotCleared == pipeline                  \* mutant: the field is left alone
Cleared == Nil

ClearField(t) ==
  /\ At(t, "clear")
  /\ pipeline' = Cleared
  /\ GoTo(t, call[t].then)
  /\ UNCHANGED <<pipe, opened, windows, app, panicked>>

Close(t) ==
  CloseField(t) \/ StopStore(t) \/ StopHandle(t) \/ StopDone(t) \/ CloseHandle(t) \/ ClearField(t)

-----------------------------------------------------------------------------
\* startProtection from filter.Open on.

\* Before startup has loaded the configuration a.cfg is nil.
ConfigPanic(t) ==
  /\ At(t, "open") /\ life = "new"
  /\ panicked' = TRUE
  /\ UNCHANGED <<pipeline, pipe, opened, windows, app, call>>

OpenFails(t) ==
  /\ At(t, "open") /\ life # "new"
  /\ GoTo(t, "end")
  /\ UNCHANGED <<pipeline, pipe, opened, windows, app, panicked>>

NextPipeline == opened + 1

OpenSucceeds(t) ==
  /\ At(t, "open") /\ life # "new"
  /\ opened < MaxOpens
  /\ \E h \in Handles :
       /\ owner[h] = Free
       /\ owner' = [owner EXCEPT ![h] = OfPipeline(opened + 1)]
       /\ pipe' = [pipe EXCEPT ![NextPipeline] = [NotCreated EXCEPT !.handle = h, !.open = TRUE]]
  /\ opened' = opened + 1
  /\ Moves(t, [call[t] EXCEPT !.pc = "assign", !.p = NextPipeline])
  /\ UNCHANGED <<pipeline, others, robbed, app, panicked>>

AssignField(t) ==
  /\ At(t, "assign")
  /\ pipeline' = Mine(t)
  /\ GoTo(t, "setonblock")
  /\ UNCHANGED <<pipe, opened, windows, app, panicked>>

SetOnBlock(t) == UseField(t, "setonblock", "startcheck")
PipelineStartCheck(t) == UseField(t, "startcheck", IF Started THEN "end" ELSE "startset")

PipelineStart(t) ==
  /\ At(t, "startset")
  /\ pipe' = [pipe EXCEPT ![Mine(t)].started = TRUE, ![Mine(t)].running = TRUE]
  /\ GoTo(t, "end")
  /\ UNCHANGED <<pipeline, opened, windows, app, panicked>>

Start(t) ==
  \/ ConfigPanic(t) \/ OpenFails(t) \/ OpenSucceeds(t) \/ AssignField(t)
  \/ SetOnBlock(t) \/ PipelineStartCheck(t) \/ PipelineStart(t)

-----------------------------------------------------------------------------

\* The rest: SetProtectionEnabled notes the choice, startup returns, the tray
\* asks IsProtectionEnabled for its label.
Return(t) ==
  /\ At(t, "end")
  /\ enabled' = CASE call[t].op = "Enable" -> TRUE
                  [] call[t].op = "Disable" -> FALSE
                  [] OTHER -> enabled
  /\ life' = IF call[t].op = "Startup" THEN "up" ELSE life
  /\ GoTo(t, IF call[t].op = "TrayToggle" THEN "look" ELSE "idle")
  /\ UNCHANGED <<pipeline, pipe, opened, windows, panicked>>

Step(t) ==
  \/ ToggleCheck(t) \/ StopCheck(t) \/ StartCheck(t) \/ LookCheck(t)
  \/ ToggleIsRunning(t) \/ Look(t) \/ NilPanic(t)
  \/ Close(t) \/ Start(t) \/ Return(t)

\* Other code of the process opens a handle, which Windows may give any value
\* that is free.
OtherOpens(h) ==
  /\ ~panicked
  /\ others < MaxOthers /\ owner[h] = Free
  /\ owner' = [owner EXCEPT ![h] = OfOther]
  /\ others' = others + 1
  /\ UNCHANGED <<pipeline, pipe, opened, robbed, app, call, panicked>>

Next ==
  \/ \E t \in Threads, op \in AllOps : Call(t, op)
  \/ \E t \in Threads : Step(t)
  \/ \E h \in Handles : OtherOpens(h)

Spec == Init /\ [][Next]_vars

-----------------------------------------------------------------------------

PCs == {"idle", "toggle", "start", "stop", "look", "isrunning", "close", "setonblock",
        "startcheck", "looking", "stopset", "stopwd", "done", "wdclose", "clear", "open",
        "assign", "startset", "end"}
Owners == {OfPipeline(p) : p \in Pipelines} \cup {OfOther, Free}
PipeState == [handle : Handles \cup {Nil}, open : BOOLEAN, started : BOOLEAN,
              running : BOOLEAN, done : BOOLEAN]

\* Type invariant; only a pipeline that was created is ever referred to.
ProtectionTypeOK ==
  /\ pipeline \in (1 .. opened) \cup {Nil}
  /\ pipe \in [Pipelines -> PipeState]
  /\ opened \in 0 .. MaxOpens
  /\ owner \in [Handles -> Owners]
  /\ others \in 0 .. MaxOthers
  /\ life \in {"new", "starting", "up", "down"}
  /\ {robbed, enabled, panicked} \subseteq BOOLEAN
  /\ call \in [Threads -> [op : AllOps \cup {"none"}, pc : PCs,
                           p : (1 .. opened) \cup {Nil}, then : {"end", "open", "idle"}]]

\* "startProtection(): closes existing pipeline before creating a new one
\* (prevents duplicate WinDivert handles)" (CHANGELOG).
OneHandle ==
  Cardinality({h \in Handles : owner[h] \in {OfPipeline(p) : p \in Pipelines}}) <= 1

Alive(p) == pipe[p].running /\ ~pipe[p].done
Holds(p) == \E h \in Handles : owner[h] = OfPipeline(p)

\* Nothing leaks: once all calls have returned, a pipeline that a.pipeline no
\* longer refers to has no handle and no goroutines, for no later call can
\* reach it.
NothingLeaks ==
  Resting /\ ~panicked => \A p \in 1 .. opened : p # pipeline => ~Alive(p) /\ ~Holds(p)

\* The program's handles are accounted for: there is one at most, at any time,
\* and none that no call can reach once all calls have returned.
HandlesAccountedFor == OneHandle /\ NothingLeaks

\* Protection is what it says: once all calls have returned, IsRunning means
\* that the goroutines run, on a handle that is open and theirs.
ProtectionIsReal ==
  Resting /\ ~panicked /\ pipeline # Nil =>
    /\ pipe[pipeline].started /\ Alive(pipeline)
    /\ owner[pipe[pipeline].handle] = OfPipeline(pipeline)

\* Closing the pipeline closes the WinDivert handle, and no other.
OthersKeepTheirHandles == ~robbed

\* Switching protection and looking at it never take the process down.
NoPanic == ~panicked

=============================================================================
