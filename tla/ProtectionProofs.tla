---------------------------- MODULE ProtectionProofs ----------------------------
(***************************************************************************)
(* Proofs about Protection, for every number of goroutines, pipelines and  *)
(* handles, and whatever handles other code of the process opens: type     *)
(* correctness, and, when the operations other than Look come one at a     *)
(* time, that handles are accounted for and protection is what it says.    *)
(***************************************************************************)
EXTENDS Protection, TLAPS, FiniteSetTheorems

\* What a pipeline comes to be, from filter.Open to the end of Close.
Fresh(p) == pipe[p].open /\ ~pipe[p].started /\ ~pipe[p].running /\ ~pipe[p].done
Running(p) == pipe[p].open /\ pipe[p].started /\ Alive(p)
Halted(p) == pipe[p].open /\ ~pipe[p].started /\ Alive(p)
Dead(p) == ~pipe[p].open /\ ~Alive(p)

\* A goroutine in an operation that may change something.
Busy(t) == call[t].op \notin {"none", "Look"}

\* Where a goroutine works on the pipeline in its local, which is then one.
Using == {"stopset", "stopwd", "done", "wdclose", "clear", "assign", "startset"}
LocalsSet == \A t \in Threads : call[t].pc \in Using => call[t].p # Nil

\* A handle stands for a pipeline exactly while the pipeline has it open.
OwnerInv ==
  /\ \A p \in 1 .. opened : pipe[p].handle \in Handles
  /\ \A h \in Handles, p \in Pipelines :
       owner[h] = OfPipeline(p) => p <= opened /\ pipe[p].handle = h /\ pipe[p].open
  /\ \A p \in 1 .. opened : pipe[p].open => owner[pipe[p].handle] = OfPipeline(p)

\* One goroutine is busy at a time, and one that looks only looks.
CallInv ==
  /\ \A t \in Threads : call[t].pc = "idle" <=> call[t].op = "none"
  /\ \A t \in Threads : call[t].op = "Look" => call[t].pc \in {"look", "looking"}
  /\ \A t, u \in Threads : Busy(t) /\ Busy(u) => t = u

\* What a goroutine that is busy at pc, with the local p, knows of a.pipeline.
Settled == pipeline # Nil => Running(pipeline)
Stage(pc, p) ==
  /\ pc \in {"toggle", "stop", "start", "look", "looking", "end"} => Settled
  /\ pc \in {"isrunning", "close", "stopset"} => pipeline # Nil /\ Running(pipeline)
  /\ pc \in {"stopset", "stopwd", "done", "wdclose", "clear", "startset"} => pipeline = p
  /\ pc = "stopwd" => Halted(pipeline)
  /\ pc = "done" => ~pipe[pipeline].open /\ Alive(pipeline)
  /\ pc \in {"wdclose", "clear"} => Dead(pipeline)
  /\ pc \in {"open", "assign"} => pipeline = Nil
  /\ pc = "assign" => Fresh(p)
  /\ pc \in {"setonblock", "startcheck", "startset"} => pipeline # Nil /\ Fresh(pipeline)

PhaseInv ==
  /\ (\A t \in Threads : ~Busy(t)) => Settled
  /\ \A t \in Threads : Busy(t) => Stage(call[t].pc, call[t].p)

\* Every pipeline but the one in the field, or on its way there, is closed.
Arriving(p) == \E t \in Threads : Busy(t) /\ call[t].pc = "assign" /\ call[t].p = p
DeadInv == \A p \in 1 .. opened : p = pipeline \/ Arriving(p) \/ Dead(p)

SerialInv == OwnerInv /\ CallInv /\ PhaseInv /\ DeadInv

-----------------------------------------------------------------------------
\* Types

Calls(n) == [op : AllOps \cup {"none"}, pc : PCs, p : (1 .. n) \cup {Nil},
             then : {"end", "open", "idle"}]

LEMMA CallsFacts ==
  ASSUME NEW n \in Nat
  PROVE  /\ NoCall \in Calls(n)
         /\ \A c \in Calls(n), pc \in PCs : [c EXCEPT !.pc = pc] \in Calls(n)
         /\ \A c \in Calls(n) : c \in Calls(n + 1)
BY DEF Calls, NoCall, PCs

\* A goroutine that moves stays within its type, and the others do not move.
LEMMA MovesTo ==
  ASSUME NEW n \in Nat, call \in [Threads -> Calls(n)],
         NEW t \in Threads, NEW c \in Calls(n), Moves(t, c)
  PROVE  /\ call' \in [Threads -> Calls(n)]
         /\ call'[t] = IF c.pc = "idle" THEN NoCall ELSE c
         /\ \A u \in Threads : u # t => call'[u] = call[u]
<1>1. NoCall \in Calls(n)
  BY CallsFacts
<1> QED  BY <1>1 DEF Moves

LEMMA GoesTo ==
  ASSUME NEW n \in Nat, call \in [Threads -> Calls(n)],
         NEW t \in Threads, NEW pc \in PCs, GoTo(t, pc)
  PROVE  /\ call' \in [Threads -> Calls(n)]
         /\ call'[t] = IF pc = "idle" THEN NoCall ELSE [call[t] EXCEPT !.pc = pc]
         /\ \A u \in Threads : u # t => call'[u] = call[u]
<1> DEFINE c == [call[t] EXCEPT !.pc = pc]
<1>1. c \in Calls(n) /\ c.pc = pc
  BY CallsFacts DEF Calls
<1>2. Moves(t, c)
  BY DEF GoTo
<1> HIDE DEF c
<1>3. /\ call' \in [Threads -> Calls(n)]
      /\ call'[t] = IF c.pc = "idle" THEN NoCall ELSE c
      /\ \A u \in Threads : u # t => call'[u] = call[u]
  BY <1>1, <1>2, MovesTo
<1> QED  BY <1>1, <1>3 DEF c

\* What the steps of the goroutines may do to the other variables.
LEMMA TypeOfRest ==
  ASSUME ProtectionTypeOK, opened' = opened, UNCHANGED <<others, life, enabled>>,
         pipeline' \in (1 .. opened) \cup {Nil},
         pipe' \in [Pipelines -> PipeState],
         owner' \in [Handles -> Owners],
         robbed' \in BOOLEAN, panicked' \in BOOLEAN,
         call' \in [Threads -> Calls(opened)]
  PROVE  ProtectionTypeOK'
BY DEF ProtectionTypeOK, Calls

LEMMA Unfold ==
  ASSUME ProtectionTypeOK
  PROVE  /\ opened \in Nat /\ opened <= MaxOpens /\ MaxOpens \in Nat
         /\ call \in [Threads -> Calls(opened)]
         /\ pipe \in [Pipelines -> PipeState] /\ owner \in [Handles -> Owners]
         /\ pipeline \in (1 .. opened) \cup {Nil}
         /\ robbed \in BOOLEAN /\ panicked \in BOOLEAN
         /\ Nil \notin Pipelines
         /\ \A p \in 1 .. opened : p \in Pipelines
BY ProtectionAssumption DEF ProtectionTypeOK, Calls, Pipelines

LEMMA CheckType ==
  ASSUME ProtectionTypeOK, NEW t \in Threads, NEW pc, NEW isSet \in BOOLEAN,
         NEW next \in PCs, NEW then \in {"end", "open", "idle"}, NEW ifNil \in PCs,
         Check(t, pc, isSet, next, then, ifNil)
  PROVE  ProtectionTypeOK'
<1> DEFINE c == [call[t] EXCEPT !.pc = IF isSet THEN next ELSE ifNil, !.then = then]
<1>1. c \in Calls(opened)
  BY Unfold DEF Calls
<1>2. Moves(t, c)
  BY DEF Check
<1> HIDE DEF c
<1>3. call' \in [Threads -> Calls(opened)]
  BY <1>1, <1>2, MovesTo, Unfold
<1>4. UNCHANGED <<pipeline, pipe, opened, owner, others, robbed, life, enabled, panicked>>
  BY DEF Check, windows, app
<1> QED  BY <1>3, <1>4, Unfold, TypeOfRest

LEMMA UseFieldType ==
  ASSUME ProtectionTypeOK, NEW t \in Threads, NEW pc, NEW next \in PCs, UseField(t, pc, next)
  PROVE  ProtectionTypeOK'
<1> DEFINE c == [call[t] EXCEPT !.pc = next, !.p = pipeline]
<1>1. c \in Calls(opened)
  BY Unfold DEF Calls
<1>2. Moves(t, c)
  BY DEF UseField
<1> HIDE DEF c
<1>3. call' \in [Threads -> Calls(opened)]
  BY <1>1, <1>2, MovesTo, Unfold
<1>4. UNCHANGED <<pipeline, pipe, opened, owner, others, robbed, life, enabled, panicked>>
  BY DEF UseField, windows, app
<1> QED  BY <1>3, <1>4, Unfold, TypeOfRest

\* A field of a pipeline's state is set, WinDivertClose is called.
LEMMA PipeSet ==
  ASSUME ProtectionTypeOK, NEW p, NEW v \in BOOLEAN
  PROVE  /\ [pipe EXCEPT ![p].open = v] \in [Pipelines -> PipeState]
         /\ [pipe EXCEPT ![p].started = v] \in [Pipelines -> PipeState]
         /\ [pipe EXCEPT ![p].started = v, ![p].running = v] \in [Pipelines -> PipeState]
         /\ [pipe EXCEPT ![p].done = v] \in [Pipelines -> PipeState]
BY Unfold DEF PipeState

LEMMA WinDivertCloseType ==
  ASSUME ProtectionTypeOK, NEW h, WinDivertClose(h)
  PROVE  owner' \in [Handles -> Owners] /\ robbed' \in BOOLEAN /\ others' = others
BY Unfold DEF WinDivertClose, Owners

LEMMA CallType ==
  ASSUME ProtectionTypeOK, NEW t \in Threads, NEW op \in AllOps, Call(t, op)
  PROVE  ProtectionTypeOK'
<1> DEFINE c == [NoCall EXCEPT !.op = op, !.pc = Entry(op)]
<1>1. Entry(op) \in PCs
  BY DEF Entry, AllOps, PCs
<1>2. c \in Calls(opened)
  BY <1>1 DEF Calls, NoCall
<1>3. Moves(t, c)
  BY DEF Call
<1> HIDE DEF c
<1>4. call' \in [Threads -> Calls(opened)]
  BY <1>2, <1>3, MovesTo, Unfold
<1>5. life' \in {"new", "starting", "up", "down"}
  BY DEF Call, ProtectionTypeOK
<1>6. UNCHANGED <<pipeline, pipe, opened, owner, others, robbed, enabled, panicked>>
  BY DEF Call, windows
<1> QED  BY <1>4, <1>5, <1>6 DEF ProtectionTypeOK, Calls

LEMMA OpenType ==
  ASSUME ProtectionTypeOK, NEW t \in Threads, OpenSucceeds(t)
  PROVE  ProtectionTypeOK'
<1> DEFINE c == [call[t] EXCEPT !.pc = "assign", !.p = NextPipeline]
<1>1. opened' = opened + 1 /\ opened + 1 \in 0 .. MaxOpens /\ opened \in Nat
      /\ opened + 1 \in Pipelines
  BY Unfold DEF OpenSucceeds, Pipelines
<1>2. c \in Calls(opened + 1) /\ call \in [Threads -> Calls(opened + 1)]
  <2>1. call \in [Threads -> Calls(opened + 1)]
    BY <1>1, Unfold, CallsFacts
  <2>2. opened + 1 \in 1 .. (opened + 1)
    BY <1>1
  <2> QED  BY <2>1, <2>2 DEF Calls, PCs, NextPipeline
<1>3. Moves(t, c)
  BY DEF OpenSucceeds
<1>4. call' \in [Threads -> Calls(opened + 1)]
  <2> HIDE DEF c
  <2> QED  BY <1>1, <1>2, <1>3, MovesTo
<1>5. PICK h \in Handles :
        /\ owner' = [owner EXCEPT ![h] = OfPipeline(opened + 1)]
        /\ pipe' = [pipe EXCEPT ![NextPipeline] = [NotCreated EXCEPT !.handle = h, !.open = TRUE]]
  BY DEF OpenSucceeds
<1>6. owner' \in [Handles -> Owners]
  BY <1>1, <1>5, Unfold DEF Owners
<1>7. pipe' \in [Pipelines -> PipeState]
  BY <1>5, Unfold DEF PipeState, NotCreated
<1>8. pipeline' \in (1 .. (opened + 1)) \cup {Nil}
  BY <1>1, Unfold DEF OpenSucceeds
<1>9. UNCHANGED <<others, robbed, life, enabled, panicked>>
  BY DEF OpenSucceeds, app
<1> QED  BY <1>1, <1>4, <1>6, <1>7, <1>8, <1>9 DEF ProtectionTypeOK, Calls

LEMMA StepType ==
  ASSUME ProtectionTypeOK, LocalsSet, NEW t \in Threads, Step(t)
  PROVE  ProtectionTypeOK'
<1> USE Unfold
<1>1. CASE ToggleCheck(t) \/ StopCheck(t) \/ StartCheck(t) \/ LookCheck(t)
  BY <1>1, CheckType DEF ToggleCheck, StopCheck, StartCheck, LookCheck, Replaces, PCs
<1>2. CASE ToggleIsRunning(t) \/ Look(t) \/ CloseField(t) \/ SetOnBlock(t) \/ PipelineStartCheck(t)
  BY <1>2, UseFieldType
     DEF ToggleIsRunning, Look, CloseField, SetOnBlock, PipelineStartCheck, PCs
<1>3. CASE NilPanic(t) \/ ConfigPanic(t)
  BY <1>3, TypeOfRest DEF NilPanic, ConfigPanic, windows, app
<1>4. CASE StopStore(t)
  <2>1. call' \in [Threads -> Calls(opened)]
    BY <1>4, GoesTo DEF StopStore, PCs
  <2> QED  BY <1>4, <2>1, PipeSet, TypeOfRest DEF StopStore, windows, app
<1>5. CASE StopHandle(t)
  <2>1. call' \in [Threads -> Calls(opened)]
    BY <1>5, GoesTo DEF StopHandle, PCs
  <2>2. owner' \in [Handles -> Owners] /\ robbed' \in BOOLEAN /\ others' = others
    BY <1>5, WinDivertCloseType DEF StopHandle, windows
  <2>3. pipe' \in [Pipelines -> PipeState]
    <3>1. pipe' = pipe \/ pipe' = [pipe EXCEPT ![Mine(t)].open = FALSE]
      BY <1>5 DEF StopHandle
    <3>2. [pipe EXCEPT ![Mine(t)].open = FALSE] \in [Pipelines -> PipeState]
      BY PipeSet
    <3> QED  BY <3>1, <3>2
  <2> QED  BY <1>5, <2>1, <2>2, <2>3, TypeOfRest DEF StopHandle, app
<1>6. CASE StopDone(t)
  <2>1. call' \in [Threads -> Calls(opened)]
    BY <1>6, GoesTo DEF StopDone, PCs
  <2>2. pipe' \in [Pipelines -> PipeState]
    BY <1>6, PipeSet DEF StopDone, DoneClosed
  <2>3. pipe[Mine(t)].done \in BOOLEAN
    <3>1. call[t].p # Nil
      BY <1>6 DEF LocalsSet, StopDone, At, Using
    <3>2. Mine(t) \in Pipelines
      BY <3>1 DEF Mine, Calls
    <3> QED  BY <3>2 DEF PipeState
  <2> QED  BY <1>6, <2>1, <2>2, <2>3, TypeOfRest DEF StopDone, windows, app
<1>7. CASE CloseHandle(t)
  <2>1. call' \in [Threads -> Calls(opened)]
    BY <1>7, GoesTo DEF CloseHandle, PCs
  <2>2. owner' \in [Handles -> Owners] /\ robbed' \in BOOLEAN /\ others' = others
    BY <1>7, WinDivertCloseType DEF CloseHandle
  <2>3. pipe' \in [Pipelines -> PipeState]
    BY <1>7, PipeSet DEF CloseHandle
  <2> QED  BY <1>7, <2>1, <2>2, <2>3, TypeOfRest DEF CloseHandle, app
<1>8. CASE ClearField(t)
  <2>1. call[t].then \in PCs
    BY DEF Calls, PCs
  <2>2. call' \in [Threads -> Calls(opened)]
    BY <1>8, <2>1, GoesTo DEF ClearField
  <2> QED  BY <1>8, <2>2, TypeOfRest DEF ClearField, Cleared, windows, app
<1>9. CASE OpenFails(t)
  <2>1. call' \in [Threads -> Calls(opened)]
    BY <1>9, GoesTo DEF OpenFails, PCs
  <2> QED  BY <1>9, <2>1, TypeOfRest DEF OpenFails, windows, app
<1>10. CASE AssignField(t)
  <2>1. call' \in [Threads -> Calls(opened)]
    BY <1>10, GoesTo DEF AssignField, PCs
  <2>2. Mine(t) \in (1 .. opened) \cup {Nil}
    BY DEF Mine, Calls
  <2> QED  BY <1>10, <2>1, <2>2, TypeOfRest DEF AssignField, windows, app
<1>11. CASE PipelineStart(t)
  <2>1. call' \in [Threads -> Calls(opened)]
    BY <1>11, GoesTo DEF PipelineStart, PCs
  <2> QED  BY <1>11, <2>1, PipeSet, TypeOfRest DEF PipelineStart, windows, app
<1>12. CASE Return(t)
  <2>1. call' \in [Threads -> Calls(opened)]
    BY <1>12, GoesTo DEF Return, PCs
  <2>2. enabled' \in BOOLEAN /\ life' \in {"new", "starting", "up", "down"}
    BY <1>12 DEF Return, ProtectionTypeOK
  <2> QED  BY <1>12, <2>1, <2>2 DEF ProtectionTypeOK, Calls, Return, windows
<1> QED  BY <1>1, <1>2, <1>3, <1>4, <1>5, <1>6, <1>7, <1>8, <1>9, <1>10, <1>11, <1>12, OpenType
         DEF Step, Close, Start

LEMMA OtherOpensType ==
  ASSUME ProtectionTypeOK, NEW h \in Handles, OtherOpens(h)
  PROVE  ProtectionTypeOK'
<1>1. others' \in 0 .. MaxOthers
  BY ProtectionAssumption DEF ProtectionTypeOK, OtherOpens
<1>2. owner' \in [Handles -> Owners]
  BY Unfold DEF OtherOpens, Owners
<1> QED  BY <1>1, <1>2 DEF ProtectionTypeOK, OtherOpens, app

LEMMA InitType == Init => ProtectionTypeOK
<1> SUFFICES ASSUME Init PROVE ProtectionTypeOK  OBVIOUS
<1>1. call \in [Threads -> Calls(0)]
  BY CallsFacts DEF Init
<1>2. pipe \in [Pipelines -> PipeState]
  BY DEF Init, NotCreated, PipeState
<1>3. owner \in [Handles -> Owners]
  BY DEF Init, Owners
<1>4. opened \in 0 .. MaxOpens /\ others \in 0 .. MaxOthers
  BY ProtectionAssumption DEF Init
<1>5. call \in [Threads -> Calls(opened)] /\ {robbed, enabled, panicked} \subseteq BOOLEAN
  BY <1>1 DEF Init
<1> QED  BY <1>2, <1>3, <1>4, <1>5 DEF Init, ProtectionTypeOK, Calls

LEMMA InitLocals == Init => LocalsSet
BY DEF Init, LocalsSet, NoCall, Using

LEMMA NextType == ProtectionTypeOK /\ LocalsSet /\ [Next]_vars => ProtectionTypeOK'
<1> SUFFICES ASSUME ProtectionTypeOK, LocalsSet, [Next]_vars PROVE ProtectionTypeOK'  OBVIOUS
<1>1. CASE Next
  BY <1>1, CallType, StepType, OtherOpensType DEF Next
<1>2. CASE UNCHANGED vars
  BY <1>2 DEF vars, windows, app, ProtectionTypeOK
<1> QED  BY <1>1, <1>2

\* How a step moves a goroutine: it keeps its local, or sets it to a pipeline.
LEMMA MovesLocal ==
  ASSUME ProtectionTypeOK, LocalsSet, NEW t \in Threads, Step(t)
  PROVE  /\ \A u \in Threads : u # t => call'[u] = call[u]
         /\ call'[t].pc \in Using => call'[t].p # Nil
<1> USE Unfold
<1>1. CASE ToggleCheck(t) \/ StopCheck(t) \/ StartCheck(t) \/ LookCheck(t)
  <2>1. PICK pc \in PCs, then \in {"end", "open", "idle"} :
          Moves(t, [call[t] EXCEPT !.pc = pc, !.then = then]) /\ pc \notin Using
    BY <1>1 DEF ToggleCheck, StopCheck, StartCheck, LookCheck, Check, Using, PCs
  <2> QED  BY <2>1 DEF Moves, Calls, NoCall, Using
<1>2. CASE ToggleIsRunning(t) \/ Look(t) \/ CloseField(t) \/ SetOnBlock(t) \/ PipelineStartCheck(t)
  <2>1. PICK pc \in PCs : Moves(t, [call[t] EXCEPT !.pc = pc, !.p = pipeline]) /\ pipeline # Nil
    BY <1>2 DEF ToggleIsRunning, Look, CloseField, SetOnBlock, PipelineStartCheck, UseField, PCs
  <2> QED  BY <2>1 DEF Moves, Calls, NoCall, Using
<1>3. CASE NilPanic(t) \/ ConfigPanic(t)
  BY <1>3 DEF NilPanic, ConfigPanic, LocalsSet
<1>4. CASE StopStore(t) \/ StopHandle(t) \/ StopDone(t) \/ CloseHandle(t)
  <2>1. call[t].p # Nil
    BY <1>4 DEF StopStore, StopHandle, StopDone, CloseHandle, At, LocalsSet, Using
  <2> QED  BY <1>4, <2>1 DEF StopStore, StopHandle, StopDone, CloseHandle, GoTo, Moves, Calls, NoCall
<1>5. CASE ClearField(t) \/ OpenFails(t) \/ AssignField(t) \/ PipelineStart(t) \/ Return(t)
  <2>1. PICK pc \in PCs : GoTo(t, pc) /\ pc \notin Using
    BY <1>5 DEF ClearField, OpenFails, AssignField, PipelineStart, Return, Calls, Using, PCs
  <2> QED  BY <2>1 DEF GoTo, Moves, Calls, NoCall, Using
<1>6. CASE OpenSucceeds(t)
  <2>1. opened + 1 # Nil
    BY ProtectionAssumption
  <2> QED  BY <1>6, <2>1 DEF OpenSucceeds, NextPipeline, Moves, Calls, NoCall
<1> QED  BY <1>1, <1>2, <1>3, <1>4, <1>5, <1>6 DEF Step, Close, Start

LEMMA NextLocals == ProtectionTypeOK /\ LocalsSet /\ [Next]_vars => LocalsSet'
<1> SUFFICES ASSUME ProtectionTypeOK, LocalsSet, [Next]_vars PROVE LocalsSet'  OBVIOUS
<1>1. ASSUME NEW t \in Threads, NEW op \in AllOps, Call(t, op) PROVE LocalsSet'
  <2>1. Entry(op) \notin Using
    BY DEF Entry, AllOps, Using
  <2> QED  BY <1>1, <2>1, Unfold DEF Call, Moves, LocalsSet, NoCall
<1>2. ASSUME NEW t \in Threads, Step(t) PROVE LocalsSet'
  BY <1>2, MovesLocal DEF LocalsSet
<1>3. CASE \E h \in Handles : OtherOpens(h)
  BY <1>3 DEF OtherOpens, LocalsSet
<1>4. CASE UNCHANGED vars
  BY <1>4 DEF vars, LocalsSet
<1> QED  BY <1>1, <1>2, <1>3, <1>4 DEF Next

\* Every variable keeps its type; a goroutine, and a.pipeline, only ever refer
\* to a pipeline that startProtection has created, also when the window, the
\* tray and shutdown switch protection at the same time.
THEOREM ProtectionTypeCorrect == Spec => []ProtectionTypeOK
<1> DEFINE IInv == ProtectionTypeOK /\ LocalsSet
<1>1. Init => IInv
  BY InitType, InitLocals
<1>2. IInv /\ [Next]_vars => IInv'
  BY NextType, NextLocals
<1> QED  BY <1>1, <1>2, PTL DEF Spec

-----------------------------------------------------------------------------
\* Operations one at a time

TypeInv == ProtectionTypeOK /\ LocalsSet

LEMMA InitSerial == Init => SerialInv
<1> SUFFICES ASSUME Init PROVE SerialInv  OBVIOUS
<1>1. opened = 0 /\ pipeline = Nil /\ \A t \in Threads : call[t] = NoCall
  BY DEF Init
<1>2. \A h \in Handles : owner[h] = Free
  BY DEF Init
<1>3. OwnerInv
  BY <1>1, <1>2 DEF OwnerInv, Free, OfPipeline
<1>4. CallInv /\ PhaseInv /\ DeadInv
  BY <1>1 DEF CallInv, PhaseInv, DeadInv, Busy, NoCall, Settled
<1> QED  BY <1>3, <1>4 DEF SerialInv

\* The busy goroutine moves on or returns, the others stay.
LEMMA BusyMoves ==
  ASSUME CallInv, NEW t \in Threads, Busy(t),
         \A u \in Threads : u # t => call'[u] = call[u],
         call'[t] = NoCall \/ (call'[t].op = call[t].op /\ call'[t].pc # "idle"),
         call'[t] = NoCall => Settled',
         call'[t] # NoCall => Stage(call[t].pc, call[t].p)'
  PROVE  CallInv' /\ PhaseInv'
<1>1. \A u \in Threads : u # t => ~Busy(u) /\ ~Busy(u)'
  BY DEF CallInv, Busy
<1>2. Busy(t)' <=> call'[t] # NoCall
  BY DEF Busy, NoCall
<1>3. CallInv'
  BY <1>1 DEF CallInv, Busy, NoCall
<1>4. PhaseInv'
  BY <1>1, <1>2 DEF PhaseInv
<1> QED  BY <1>3, <1>4

\* A goroutine that is not busy, before and after, disturbs nothing.
LEMMA LookerMoves ==
  ASSUME SerialInv, NEW t \in Threads, ~Busy(t), ~Busy(t)',
         \A u \in Threads : u # t => call'[u] = call[u],
         call'[t].pc = "idle" <=> call'[t].op = "none",
         call'[t].op = "Look" => call'[t].pc \in {"look", "looking"},
         UNCHANGED <<pipeline, pipe, opened, owner>>
  PROVE  SerialInv'
<1>1. \A u \in Threads : Busy(u)' = Busy(u) /\ (Busy(u) => call'[u] = call[u])
  BY DEF Busy
<1>2. CallInv'
  BY <1>1 DEF SerialInv, CallInv
<1>3. PhaseInv'
  BY <1>1 DEF SerialInv, PhaseInv, Settled, Stage, Running, Halted, Dead, Fresh, Alive
<1>4. DeadInv'
  <2>1. \A p : Arriving(p)' <=> Arriving(p)
    BY <1>1 DEF Arriving
  <2> QED  BY <2>1 DEF SerialInv, DeadInv, Dead, Alive
<1>5. OwnerInv'
  BY DEF SerialInv, OwnerInv
<1> QED  BY <1>2, <1>3, <1>4, <1>5 DEF SerialInv

\* While the busy goroutine is not about to assign the field, every pipeline but
\* that in the field is closed.
LEMMA OnlyOneLives ==
  ASSUME CallInv, DeadInv, NEW t \in Threads, Busy(t), call[t].pc # "assign"
  PROVE  \A p \in 1 .. opened : p = pipeline \/ Dead(p)
BY DEF CallInv, DeadInv, Arriving

\* The steps of the busy goroutine that change only where it is.
LEMMA BusyReads ==
  ASSUME SerialInv, NEW t \in Threads, Busy(t), call[t].pc # "assign",
         \A u \in Threads : u # t => call'[u] = call[u],
         call'[t] = NoCall \/ (call'[t].op = call[t].op /\ call'[t].pc # "idle"),
         call'[t] = NoCall => Settled,
         call'[t] # NoCall => Stage(call'[t].pc, call'[t].p),
         UNCHANGED <<pipeline, pipe, opened, owner>>
  PROVE  SerialInv'
<1>1. CallInv' /\ PhaseInv'
  <2>1. Settled' = Settled
    BY DEF Settled, Running, Alive
  <2>2. Stage(call[t].pc, call[t].p)' = Stage(call'[t].pc, call'[t].p)
    BY <2>1 DEF Stage, Running, Halted, Dead, Fresh, Alive
  <2> QED  BY <2>1, <2>2, BusyMoves DEF SerialInv
<1>2. DeadInv'
  BY OnlyOneLives DEF SerialInv, DeadInv, Dead, Alive
<1>3. OwnerInv'
  BY DEF SerialInv, OwnerInv
<1> QED  BY <1>1, <1>2, <1>3 DEF SerialInv

LEMMA SerialCheck ==
  ASSUME TypeInv, SerialInv, NEW t \in Threads, Busy(t),
         ToggleCheck(t) \/ StopCheck(t) \/ StartCheck(t) \/ LookCheck(t)
  PROVE  SerialInv'
<1>1. Settled /\ call[t].pc \in {"toggle", "stop", "start", "look"}
  BY DEF ToggleCheck, StopCheck, StartCheck, LookCheck, Check, At, SerialInv, PhaseInv, Stage
<1>2. PICK pc \in PCs, then \in {"end", "open", "idle"} :
        /\ Moves(t, [call[t] EXCEPT !.pc = pc, !.then = then])
        /\ \/ pc \in {"isrunning", "close", "looking"} /\ pipeline # Nil
           \/ pc \in {"start", "end", "open", "idle"} /\ pipeline = Nil
  BY DEF ToggleCheck, StopCheck, StartCheck, LookCheck, Check, Replaces, PCs
<1>3. /\ \A u \in Threads : u # t => call'[u] = call[u]
      /\ IF pc = "idle" THEN call'[t] = NoCall
                        ELSE call'[t].op = call[t].op /\ call'[t].pc = pc
  BY <1>2, Unfold DEF Moves, Calls, TypeInv
<1>4. Stage(pc, call'[t].p)
  BY <1>1, <1>2 DEF Stage, Settled
<1>5. UNCHANGED <<pipeline, pipe, opened, owner>>
  BY DEF ToggleCheck, StopCheck, StartCheck, LookCheck, Check, windows
<1> QED  BY <1>1, <1>3, <1>4, <1>5, BusyReads

LEMMA SerialUse ==
  ASSUME TypeInv, SerialInv, NEW t \in Threads, Busy(t),
         \/ ToggleIsRunning(t) \/ Look(t) \/ CloseField(t) \/ SetOnBlock(t)
         \/ PipelineStartCheck(t)
  PROVE  SerialInv'
<1> DEFINE pc == call[t].pc
           next == CASE pc = "isrunning" -> "close"
                     [] pc = "looking" -> "idle"
                     [] pc = "close" -> "stopset"
                     [] pc = "setonblock" -> "startcheck"
                     [] OTHER -> "startset"
<1>1. /\ pc \in {"isrunning", "looking", "close", "setonblock", "startcheck"}
      /\ pipeline # Nil /\ UNCHANGED <<pipeline, pipe, opened, owner>>
  BY DEF ToggleIsRunning, Look, CloseField, SetOnBlock, PipelineStartCheck, UseField, At, windows
<1>2. Stage(pc, call[t].p)
  BY DEF SerialInv, PhaseInv
<1>3. /\ pc \in {"isrunning", "looking", "close"} => Running(pipeline) /\ Started
      /\ pc \in {"setonblock", "startcheck"} => Fresh(pipeline) /\ ~Started
  BY <1>1, <1>2 DEF Stage, Settled, Running, Fresh, Started
<1>4. Moves(t, [call[t] EXCEPT !.pc = next, !.p = pipeline])
  <2>1. CASE ToggleIsRunning(t)
    BY <2>1, <1>3 DEF ToggleIsRunning, UseField, At
  <2>2. CASE Look(t)
    BY <2>2 DEF Look, UseField, At
  <2>3. CASE CloseField(t)
    BY <2>3, <1>3 DEF CloseField, UseField, At
  <2>4. CASE SetOnBlock(t)
    BY <2>4 DEF SetOnBlock, UseField, At
  <2>5. CASE PipelineStartCheck(t)
    BY <2>5, <1>3 DEF PipelineStartCheck, UseField, At
  <2> QED  BY <2>1, <2>2, <2>3, <2>4, <2>5
<1>5. next \in PCs /\ next # "assign"
  BY DEF PCs
<1>6. Stage(next, pipeline) /\ (next = "idle" => Settled)
  BY <1>1, <1>3 DEF Stage, Settled
<1> HIDE DEF next
<1>7. /\ \A u \in Threads : u # t => call'[u] = call[u]
      /\ IF next = "idle" THEN call'[t] = NoCall
         ELSE call'[t].op = call[t].op /\ call'[t].pc = next /\ call'[t].p = pipeline
  BY <1>4, Unfold DEF Moves, Calls, TypeInv
<1>8. IF next = "idle" THEN call'[t] = NoCall
      ELSE /\ call'[t].op = call[t].op /\ call'[t].pc # "idle"
           /\ Stage(call'[t].pc, call'[t].p)
  BY <1>6, <1>7
<1>9. call'[t] = NoCall => Settled
  BY <1>6, <1>8 DEF NoCall
<1> QED  BY <1>1, <1>7, <1>8, <1>9, BusyReads

\* Windows gives OwnerInv back: a handle is closed that no other pipeline has.
LEMMA HandleCloses ==
  ASSUME TypeInv, OwnerInv, NEW q \in 1 .. opened, opened' = opened,
         \A p \in 1 .. opened : p = q \/ Dead(p),
         pipe' = [pipe EXCEPT ![q].open = FALSE],
         owner' = [owner EXCEPT ![pipe[q].handle] = Free]
  PROVE  OwnerInv'
<1>1. q \in Pipelines /\ pipe \in [Pipelines -> PipeState] /\ owner \in [Handles -> Owners]
      /\ \A p \in 1 .. opened : p \in Pipelines
  BY Unfold DEF TypeInv
<1>2. \A p \in Pipelines : /\ pipe'[p].handle = pipe[p].handle
                           /\ pipe'[p].open <=> (p # q /\ pipe[p].open)
  BY <1>1 DEF PipeState
<1>3. pipe[q].handle \in Handles
  BY DEF OwnerInv
<1>4. \A h \in Handles : owner'[h] = IF h = pipe[q].handle THEN Free ELSE owner[h]
  BY <1>1, <1>3
<1>5. \A p \in 1 .. opened : ~pipe'[p].open
  BY <1>1, <1>2 DEF Dead
<1>6. \A p : Free # OfPipeline(p)
  BY DEF Free, OfPipeline
<1>7. ASSUME NEW h \in Handles, NEW p \in Pipelines, owner'[h] = OfPipeline(p)
      PROVE  p <= opened /\ pipe'[p].handle = h /\ pipe'[p].open
  <2>1. h # pipe[q].handle /\ owner[h] = OfPipeline(p)
    BY <1>4, <1>6, <1>7
  <2>2. p <= opened /\ pipe[p].handle = h /\ pipe[p].open
    BY <2>1 DEF OwnerInv
  <2> QED  BY <1>2, <2>1, <2>2
<1>8. \A p \in 1 .. opened : pipe'[p].handle \in Handles
  BY <1>1, <1>2 DEF OwnerInv
<1> QED  BY <1>5, <1>7, <1>8 DEF OwnerInv

\* Pipeline.Close, and the field cleared.
LEMMA SerialClosing ==
  ASSUME TypeInv, SerialInv, NEW t \in Threads, Busy(t),
         StopStore(t) \/ StopHandle(t) \/ StopDone(t) \/ CloseHandle(t)
  PROVE  SerialInv'
<1> DEFINE q == call[t].p
           next == CASE call[t].pc = "stopset" -> "stopwd"
                     [] call[t].pc = "stopwd" -> "done"
                     [] call[t].pc = "done" -> "wdclose"
                     [] OTHER -> "clear"
<1>1. /\ call[t].pc \in {"stopset", "stopwd", "done", "wdclose"}
      /\ GoTo(t, next) /\ UNCHANGED <<pipeline, opened>>
  BY DEF StopStore, StopHandle, StopDone, CloseHandle, At
<1>2. /\ pipeline = q /\ q \in 1 .. opened /\ q \in Pipelines
      /\ pipe \in [Pipelines -> PipeState]
  <2>1. pipeline = q
    BY <1>1 DEF SerialInv, PhaseInv, Stage
  <2>2. q # Nil
    BY <1>1 DEF TypeInv, LocalsSet, Using
  <2> QED  BY <2>1, <2>2, Unfold DEF TypeInv
<1>3. \A p \in 1 .. opened : p = q \/ Dead(p)
  BY <1>1, <1>2, OnlyOneLives DEF SerialInv
<1>4. Stage(call[t].pc, q)
  BY DEF SerialInv, PhaseInv
<1>5. /\ \A u \in Threads : u # t => call'[u] = call[u]
      /\ call'[t].op = call[t].op /\ call'[t].pc = next /\ call'[t].p = q
      /\ next # "idle" /\ next # "assign"
  BY <1>1, Unfold DEF GoTo, Moves, Calls, TypeInv
<1>6. Stage(call[t].pc, call[t].p)' /\ OwnerInv' /\ \A p \in Pipelines : p # q => pipe'[p] = pipe[p]
  <2>1. CASE StopStore(t)
    <3>1. pipe' = [pipe EXCEPT ![q].started = FALSE] /\ owner' = owner /\ next = "stopwd"
      BY <2>1 DEF StopStore, Mine, windows, At
    <3>2. \A p \in Pipelines : /\ pipe'[p].handle = pipe[p].handle /\ pipe'[p].open = pipe[p].open
                               /\ pipe'[p].running = pipe[p].running /\ pipe'[p].done = pipe[p].done
                               /\ p # q => pipe'[p] = pipe[p]
      BY <1>2, <3>1 DEF PipeState
    <3>3. ~pipe'[q].started
      BY <1>2, <3>1 DEF PipeState
    <3>4. Running(q)
      BY <1>2, <1>4, <2>1 DEF Stage, StopStore, At
    <3>5. Stage(call[t].pc, call[t].p)'
      BY <1>1, <1>2, <1>5, <3>1, <3>2, <3>3, <3>4 DEF Stage, Halted, Running, Alive
    <3>6. OwnerInv'
      BY <1>1, <3>1, <3>2, Unfold DEF OwnerInv, SerialInv, TypeInv
    <3> QED  BY <3>2, <3>5, <3>6
  <2>2. CASE StopHandle(t)
    <3>1. Halted(q) /\ next = "done"
      BY <1>2, <1>4, <2>2 DEF Stage, StopHandle, At
    <3>2. /\ pipe' = [pipe EXCEPT ![q].open = FALSE]
          /\ owner' = [owner EXCEPT ![pipe[q].handle] = Free]
      BY <2>2, <3>1 DEF StopHandle, Mine, WinDivertClose, Halted
    <3>3. OwnerInv'
      BY <1>1, <1>2, <1>3, <3>2, HandleCloses DEF SerialInv
    <3>4. \A p \in Pipelines : p # q => pipe'[p] = pipe[p]
      BY <1>2, <3>2
    <3>5. /\ ~pipe'[q].open
          /\ pipe'[q].running = pipe[q].running /\ pipe'[q].done = pipe[q].done
      BY <1>2, <3>2 DEF PipeState
    <3>6. Stage(call[t].pc, call[t].p)'
      BY <1>1, <1>2, <1>5, <3>1, <3>5 DEF Stage, Halted, Alive
    <3> QED  BY <3>3, <3>4, <3>6
  <2>3. CASE StopDone(t)
    <3>1. pipe' = [pipe EXCEPT ![q].done = TRUE] /\ owner' = owner /\ next = "wdclose"
      BY <2>3 DEF StopDone, DoneClosed, Mine, windows, At
    <3>2. \A p \in Pipelines : /\ pipe'[p].handle = pipe[p].handle /\ pipe'[p].open = pipe[p].open
                               /\ p # q => pipe'[p] = pipe[p]
      BY <1>2, <3>1 DEF PipeState
    <3>3. pipe'[q].done
      BY <1>2, <3>1 DEF PipeState
    <3>4. ~pipe[q].open
      BY <1>2, <1>4, <2>3 DEF Stage, StopDone, At
    <3>5. Stage(call[t].pc, call[t].p)'
      BY <1>1, <1>2, <1>5, <3>1, <3>2, <3>3, <3>4 DEF Stage, Dead, Alive
    <3>6. OwnerInv'
      BY <1>1, <3>1, <3>2, Unfold DEF OwnerInv, SerialInv, TypeInv
    <3> QED  BY <3>2, <3>5, <3>6
  <2>4. CASE CloseHandle(t)
    <3>1. Dead(q) /\ next = "clear"
      BY <1>2, <1>4, <2>4 DEF Stage, CloseHandle, At
    <3>2. /\ pipe' = [pipe EXCEPT ![q].open = FALSE]
          /\ owner' = [owner EXCEPT ![pipe[q].handle] = Free]
      BY <2>4 DEF CloseHandle, Mine, WinDivertClose
    <3>3. OwnerInv'
      BY <1>1, <1>2, <1>3, <3>2, HandleCloses DEF SerialInv
    <3>4. \A p \in Pipelines : p # q => pipe'[p] = pipe[p]
      BY <1>2, <3>2
    <3>5. /\ ~pipe'[q].open
          /\ pipe'[q].running = pipe[q].running /\ pipe'[q].done = pipe[q].done
      BY <1>2, <3>2 DEF PipeState
    <3>6. Stage(call[t].pc, call[t].p)'
      BY <1>1, <1>2, <1>5, <3>1, <3>5 DEF Stage, Dead, Alive
    <3> QED  BY <3>3, <3>4, <3>6
  <2> QED  BY <2>1, <2>2, <2>3, <2>4
<1> HIDE DEF next
<1>7. CallInv' /\ PhaseInv'
  <2>1. call'[t] # NoCall
    BY <1>5 DEF NoCall
  <2> QED  BY <1>5, <1>6, <2>1, BusyMoves DEF SerialInv
<1>8. DeadInv'
  BY <1>1, <1>2, <1>3, <1>6, Unfold DEF DeadInv, Dead, Alive, TypeInv
<1> QED  BY <1>6, <1>7, <1>8 DEF SerialInv

LEMMA SerialClear ==
  ASSUME TypeInv, SerialInv, NEW t \in Threads, Busy(t), ClearField(t)
  PROVE  SerialInv'
<1>1. /\ call[t].pc = "clear" /\ pipeline' = Nil /\ UNCHANGED <<pipe, opened, owner>>
      /\ GoTo(t, call[t].then)
  BY DEF ClearField, Cleared, At, windows
<1>2. /\ \A u \in Threads : u # t => call'[u] = call[u]
      /\ IF call[t].then = "idle" THEN call'[t] = NoCall
         ELSE call'[t].op = call[t].op /\ call'[t].pc \in {"end", "open"}
  BY <1>1, Unfold DEF GoTo, Moves, Calls, TypeInv
<1>3. Settled'
  BY <1>1 DEF Settled
<1>4. CallInv' /\ PhaseInv'
  <2>1. call'[t] # NoCall => Stage(call[t].pc, call[t].p)'
    BY <1>1, <1>2, <1>3 DEF Stage
  <2> QED  BY <1>2, <1>3, <2>1, BusyMoves DEF SerialInv
<1>5. DeadInv'
  <2>1. Dead(pipeline)
    BY <1>1 DEF SerialInv, PhaseInv, Stage
  <2>2. \A p \in 1 .. opened : Dead(p)
    BY <1>1, <2>1, OnlyOneLives DEF SerialInv
  <2> QED  BY <1>1, <2>2 DEF DeadInv, Dead, Alive
<1>6. OwnerInv'
  BY <1>1 DEF SerialInv, OwnerInv
<1> QED  BY <1>4, <1>5, <1>6 DEF SerialInv

\* startProtection from filter.Open on.
LEMMA SerialOpen ==
  ASSUME TypeInv, SerialInv, NEW t \in Threads, Busy(t), OpenSucceeds(t)
  PROVE  SerialInv'
<1> DEFINE q == opened + 1
<1>1. /\ call[t].pc = "open" /\ pipeline' = pipeline /\ opened' = q
      /\ Moves(t, [call[t] EXCEPT !.pc = "assign", !.p = q])
  BY DEF OpenSucceeds, At, NextPipeline
<1>2. /\ q \in Pipelines /\ opened \in Nat /\ pipe \in [Pipelines -> PipeState]
      /\ owner \in [Handles -> Owners] /\ \A p \in 1 .. opened : p \in Pipelines /\ p # q
  BY Unfold DEF OpenSucceeds, Pipelines, TypeInv
<1>3. PICK h \in Handles :
        /\ owner[h] = Free
        /\ owner' = [owner EXCEPT ![h] = OfPipeline(q)]
        /\ pipe' = [pipe EXCEPT ![q] = [NotCreated EXCEPT !.handle = h, !.open = TRUE]]
  BY DEF OpenSucceeds, NextPipeline
<1>4. /\ pipe'[q].handle = h /\ pipe'[q].open /\ ~pipe'[q].started /\ ~pipe'[q].running
      /\ ~pipe'[q].done /\ \A p \in Pipelines : p # q => pipe'[p] = pipe[p]
  BY <1>2, <1>3 DEF NotCreated
<1>5. /\ \A u \in Threads : u # t => call'[u] = call[u]
      /\ call'[t].op = call[t].op /\ call'[t].pc = "assign" /\ call'[t].p = q
  BY <1>1, Unfold DEF Moves, Calls, TypeInv
<1>6. pipeline = Nil
  BY <1>1 DEF SerialInv, PhaseInv, Stage
<1> HIDE DEF q
<1>7. CallInv' /\ PhaseInv'
  <2>1. Stage(call[t].pc, call[t].p)'
    BY <1>1, <1>4, <1>5, <1>6 DEF Stage, Fresh
  <2>2. call'[t] # NoCall
    BY <1>5 DEF NoCall
  <2> QED  BY <1>5, <2>1, <2>2, BusyMoves DEF SerialInv
<1>8. DeadInv'
  <2>1. \A p \in 1 .. opened : Dead(p)
    <3>1. \A p \in 1 .. opened : p # Nil
      BY <1>2, Unfold DEF TypeInv
    <3> QED  BY <1>1, <1>6, <3>1, OnlyOneLives DEF SerialInv
  <2>2. ASSUME NEW p, p = q PROVE Arriving(p)'
    BY <1>5, <2>2 DEF Arriving, Busy
  <2>3. ASSUME NEW p \in 1 .. opened' PROVE p = q \/ p \in 1 .. opened
    BY <1>1, <1>2 DEF q
  <2>4. \A p \in 1 .. opened : Dead(p)'
    BY <1>2, <1>4, <2>1 DEF Dead, Alive
  <2> QED  BY <2>2, <2>3, <2>4 DEF DeadInv
<1>9. OwnerInv'
  <2>1. owner'[h] = OfPipeline(q) /\ \A g \in Handles : g # h => owner'[g] = owner[g]
    BY <1>2, <1>3
  <2>2. \A p \in 1 .. opened' : p = q \/ p \in 1 .. opened
    BY <1>1, <1>2 DEF q
  <2>3. \A p \in 1 .. opened : pipe[p].handle \in Handles /\ p \in Pipelines /\ p # q
    BY <1>2 DEF SerialInv, OwnerInv
  <2>4. \A p \in 1 .. opened' : pipe'[p].handle \in Handles
    BY <1>4, <2>2, <2>3
  <2>5. ASSUME NEW g \in Handles, NEW p \in Pipelines, owner'[g] = OfPipeline(p)
        PROVE  p <= opened' /\ pipe'[p].handle = g /\ pipe'[p].open
    <3>1. CASE g = h
      <4>1. p = q
        BY <2>1, <2>5, <3>1 DEF OfPipeline
      <4>2. q <= opened'
        BY <1>1, <1>2 DEF q
      <4> QED  BY <1>4, <3>1, <4>1, <4>2
    <3>2. CASE g # h
      <4>1. owner[g] = OfPipeline(p)
        BY <2>1, <2>5, <3>2
      <4>2. p <= opened /\ pipe[p].handle = g /\ pipe[p].open
        BY <4>1 DEF SerialInv, OwnerInv
      <4>3. p \in 1 .. opened /\ opened <= opened'
        BY <1>1, <1>2, <4>2 DEF q, Pipelines
      <4>4. pipe'[p] = pipe[p]
        BY <1>2, <1>4, <4>3
      <4>5. p <= opened'
        BY <1>1, <1>2, <4>3 DEF q
      <4> QED  BY <4>2, <4>4, <4>5
    <3> QED  BY <3>1, <3>2
  <2>6. ASSUME NEW p \in 1 .. opened', pipe'[p].open PROVE owner'[pipe'[p].handle] = OfPipeline(p)
    <3>1. CASE p = q
      BY <1>4, <2>1, <3>1
    <3>2. CASE p # q
      <4>1. p \in 1 .. opened /\ p \in Pipelines
        BY <2>2, <2>3, <3>2
      <4>2. pipe'[p] = pipe[p] /\ owner[pipe[p].handle] = OfPipeline(p)
        BY <1>4, <2>6, <3>2, <4>1 DEF SerialInv, OwnerInv
      <4>3. pipe[p].handle # h
        BY <1>3, <4>2 DEF Free, OfPipeline
      <4> QED  BY <2>1, <2>3, <4>1, <4>2, <4>3
    <3> QED  BY <3>1, <3>2
  <2> QED  BY <2>4, <2>5, <2>6 DEF OwnerInv
<1> QED  BY <1>7, <1>8, <1>9 DEF SerialInv

LEMMA SerialAssign ==
  ASSUME TypeInv, SerialInv, NEW t \in Threads, Busy(t), AssignField(t)
  PROVE  SerialInv'
<1> DEFINE q == call[t].p
<1>1. /\ call[t].pc = "assign" /\ pipeline' = q /\ UNCHANGED <<pipe, opened, owner>>
      /\ GoTo(t, "setonblock")
  BY DEF AssignField, At, Mine, windows
<1>2. /\ \A u \in Threads : u # t => call'[u] = call[u]
      /\ call'[t].op = call[t].op /\ call'[t].pc = "setonblock"
  BY <1>1, Unfold DEF GoTo, Moves, Calls, TypeInv
<1>3. q # Nil /\ Fresh(q) /\ pipeline = Nil
  BY <1>1 DEF TypeInv, LocalsSet, Using, SerialInv, PhaseInv, Stage
<1>4. CallInv' /\ PhaseInv'
  <2>1. Stage(call[t].pc, call[t].p)'
    BY <1>1, <1>2, <1>3 DEF Stage, Fresh
  <2>2. call'[t] # NoCall
    BY <1>2 DEF NoCall
  <2> QED  BY <1>2, <2>1, <2>2, BusyMoves DEF SerialInv
<1>5. DeadInv'
  <2>1. \A p \in 1 .. opened : p # Nil
    BY Unfold DEF TypeInv
  <2>2. \A p \in 1 .. opened : Arriving(p) => p = q
    BY DEF Arriving, SerialInv, CallInv
  <2>3. \A p \in 1 .. opened : p = q \/ Dead(p)
    BY <1>3, <2>1, <2>2 DEF SerialInv, DeadInv
  <2> QED  BY <1>1, <2>3 DEF DeadInv, Dead, Alive
<1>6. OwnerInv'
  BY <1>1 DEF SerialInv, OwnerInv
<1> QED  BY <1>4, <1>5, <1>6 DEF SerialInv

LEMMA SerialStart ==
  ASSUME TypeInv, SerialInv, NEW t \in Threads, Busy(t), PipelineStart(t)
  PROVE  SerialInv'
<1> DEFINE q == call[t].p
<1>1. /\ call[t].pc = "startset" /\ UNCHANGED <<pipeline, opened, owner>>
      /\ pipe' = [pipe EXCEPT ![q].started = TRUE, ![q].running = TRUE]
      /\ GoTo(t, "end")
  BY DEF PipelineStart, At, Mine, windows
<1>2. /\ \A u \in Threads : u # t => call'[u] = call[u]
      /\ call'[t].op = call[t].op /\ call'[t].pc = "end"
  BY <1>1, Unfold DEF GoTo, Moves, Calls, TypeInv
<1>3. pipeline = q /\ q # Nil /\ Fresh(q)
  BY <1>1 DEF TypeInv, LocalsSet, Using, SerialInv, PhaseInv, Stage
<1>4. /\ q \in Pipelines /\ pipe \in [Pipelines -> PipeState]
      /\ \A p \in 1 .. opened : p \in Pipelines
  BY <1>3, Unfold DEF TypeInv
<1>5. \A p \in Pipelines : /\ pipe'[p].handle = pipe[p].handle /\ pipe'[p].open = pipe[p].open
                           /\ pipe'[p].done = pipe[p].done
                           /\ p # q => pipe'[p] = pipe[p]
  BY <1>1, <1>4 DEF PipeState
<1>6. pipe'[q].started /\ pipe'[q].running
  BY <1>1, <1>4 DEF PipeState
<1>7. Settled'
  BY <1>1, <1>3, <1>4, <1>5, <1>6 DEF Settled, Running, Fresh, Alive
<1>8. CallInv' /\ PhaseInv'
  <2>1. Stage(call[t].pc, call[t].p)'
    BY <1>2, <1>7 DEF Stage
  <2>2. call'[t] # NoCall
    BY <1>2 DEF NoCall
  <2> QED  BY <1>2, <2>1, <2>2, BusyMoves DEF SerialInv
<1>9. DeadInv'
  <2>1. \A p \in 1 .. opened : p = q \/ Dead(p)
    BY <1>1, <1>3, OnlyOneLives DEF SerialInv
  <2> QED  BY <1>1, <1>3, <1>4, <1>5, <2>1 DEF DeadInv, Dead, Alive
<1>10. OwnerInv'
  BY <1>1, <1>4, <1>5 DEF SerialInv, OwnerInv
<1> QED  BY <1>8, <1>9, <1>10 DEF SerialInv

\* OpenFails and Return.
LEMMA SerialEnds ==
  ASSUME TypeInv, SerialInv, NEW t \in Threads, Busy(t), OpenFails(t) \/ Return(t)
  PROVE  SerialInv'
<1>1. /\ call[t].pc \in {"open", "end"} /\ UNCHANGED <<pipeline, pipe, opened, owner>>
      /\ GoTo(t, "end") \/ GoTo(t, "look") \/ GoTo(t, "idle")
  BY DEF OpenFails, Return, At, windows
<1>2. /\ \A u \in Threads : u # t => call'[u] = call[u]
      /\ \/ call'[t] = NoCall
         \/ call'[t].op = call[t].op /\ call'[t].pc \in {"end", "look"}
  BY <1>1, Unfold DEF GoTo, Moves, Calls, TypeInv
<1>3. Settled
  BY <1>1 DEF SerialInv, PhaseInv, Stage, Settled
<1>4. call'[t] # NoCall => Stage(call'[t].pc, call'[t].p)
  BY <1>2, <1>3 DEF Stage
<1> QED  BY <1>1, <1>2, <1>3, <1>4, BusyReads

LEMMA SerialStep ==
  ASSUME TypeInv, SerialInv, NEW t \in Threads, Step(t)
  PROVE  SerialInv'
<1>1. CASE NilPanic(t) \/ ConfigPanic(t)
  <2>1. UNCHANGED <<pipeline, pipe, opened, owner, call>>
    BY <1>1 DEF NilPanic, ConfigPanic, windows
  <2> QED  BY <2>1 DEF SerialInv, OwnerInv, CallInv, Busy, PhaseInv, Settled, Stage, DeadInv,
                       Arriving, Dead, Halted, Running, Fresh, Alive
<1>2. CASE Busy(t)
  BY <1>1, <1>2, SerialCheck, SerialUse, SerialClosing, SerialClear, SerialOpen, SerialAssign,
     SerialStart, SerialEnds DEF Step, Close, Start
<1>3. CASE ~Busy(t) /\ ~(NilPanic(t) \/ ConfigPanic(t))
  <2>1. call[t].pc \in {"idle", "look", "looking"}
    BY <1>3 DEF SerialInv, CallInv, Busy
  <2>2. CASE LookCheck(t)
    <3>1. call[t].op = "Look" /\ UNCHANGED <<pipeline, pipe, opened, owner>>
      BY <1>3, <2>2 DEF LookCheck, Check, At, windows, SerialInv, CallInv, Busy
    <3>2. PICK pc \in {"looking", "idle"} : Moves(t, [call[t] EXCEPT !.pc = pc, !.then = "idle"])
      BY <2>2 DEF LookCheck, Check
    <3>3. /\ \A u \in Threads : u # t => call'[u] = call[u]
          /\ call'[t] = NoCall \/ (call'[t].op = "Look" /\ call'[t].pc = "looking")
      BY <3>1, <3>2, Unfold DEF Moves, Calls, TypeInv
    <3> QED  BY <1>3, <3>1, <3>3, LookerMoves DEF Busy, NoCall
  <2>3. CASE Look(t)
    <3>1. Moves(t, [call[t] EXCEPT !.pc = "idle", !.p = pipeline])
          /\ UNCHANGED <<pipeline, pipe, opened, owner>>
      BY <2>3 DEF Look, UseField, windows
    <3>2. call'[t] = NoCall /\ \A u \in Threads : u # t => call'[u] = call[u]
      BY <3>1, Unfold DEF Moves, Calls, TypeInv
    <3> QED  BY <1>3, <3>1, <3>2, LookerMoves DEF Busy, NoCall
  <2> QED  BY <1>3, <2>1, <2>2, <2>3
           DEF Step, Close, Start, ToggleCheck, StopCheck, StartCheck, Check, ToggleIsRunning,
               CloseField, StopStore, StopHandle, StopDone, CloseHandle, ClearField, OpenFails,
               OpenSucceeds, AssignField, SetOnBlock, PipelineStartCheck, UseField, PipelineStart,
               Return, At
<1> QED  BY <1>1, <1>2, <1>3

LEMMA SerialCall ==
  ASSUME TypeInv, SerialInv, SerialCalls, NEW t \in Threads, NEW op \in AllOps, Call(t, op)
  PROVE  SerialInv'
<1> DEFINE c == [NoCall EXCEPT !.op = op, !.pc = Entry(op)]
<1>1. /\ c.op = op /\ c.pc = Entry(op) /\ c.p = Nil
      /\ Entry(op) \in {"toggle", "start", "end", "stop", "look"}
      /\ (op = "Look" => Entry(op) = "look")
  BY DEF NoCall, Entry, AllOps
<1>2. /\ Moves(t, c) /\ call[t].pc = "idle"
      /\ UNCHANGED <<pipeline, pipe, opened, owner>>
      /\ op = "Look" \/ \A u \in Threads : call[u].op \in {"none", "Look"}
  BY DEF Call, At, windows
<1> HIDE DEF c
<1>3. call'[t] = c /\ \A u \in Threads : u # t => call'[u] = call[u]
  BY <1>1, <1>2, Unfold DEF Moves, TypeInv
<1>4. op # "none" /\ call[t].op = "none"
  BY <1>2 DEF AllOps, SerialInv, CallInv
<1>5. CASE op = "Look"
  <2>1. ~Busy(t) /\ ~Busy(t)'
    BY <1>1, <1>3, <1>4, <1>5 DEF Busy
  <2> QED  BY <1>1, <1>2, <1>3, <1>5, <2>1, LookerMoves
<1>6. CASE op # "Look"
  <2>1. \A u \in Threads : ~Busy(u) /\ (u # t => ~Busy(u)')
    BY <1>2, <1>3, <1>6 DEF Busy
  <2>2. Busy(t)'
    BY <1>1, <1>3, <1>4, <1>6 DEF Busy
  <2>3. CallInv'
    BY <1>1, <1>3, <1>4, <1>6, <2>1 DEF SerialInv, CallInv
  <2>4. Settled'
    BY <1>2, <2>1 DEF SerialInv, PhaseInv, Settled, Running, Alive
  <2>5. PhaseInv'
    BY <1>1, <1>3, <2>1, <2>2, <2>4 DEF PhaseInv, Stage
  <2>6. DeadInv'
    BY <1>2, <2>1 DEF SerialInv, DeadInv, Arriving, Dead, Alive
  <2>7. OwnerInv'
    BY <1>2 DEF SerialInv, OwnerInv
  <2> QED  BY <2>3, <2>5, <2>6, <2>7 DEF SerialInv
<1> QED  BY <1>5, <1>6

LEMMA SerialOther ==
  ASSUME TypeInv, SerialInv, NEW h \in Handles, OtherOpens(h)
  PROVE  SerialInv'
<1>1. /\ UNCHANGED <<pipeline, pipe, opened, call>> /\ owner[h] = Free
      /\ owner' = [owner EXCEPT ![h] = OfOther]
  BY DEF OtherOpens
<1>2. \A g \in Handles : \A p : owner'[g] = OfPipeline(p) <=> owner[g] = OfPipeline(p)
  BY <1>1, Unfold DEF TypeInv, OfOther, OfPipeline, Free
<1>3. OwnerInv'
  BY <1>1, <1>2 DEF SerialInv, OwnerInv
<1>4. CallInv' /\ PhaseInv' /\ DeadInv'
  BY <1>1 DEF SerialInv, CallInv, Busy, PhaseInv, Settled, Stage, DeadInv, Arriving, Dead, Halted,
              Running, Fresh, Alive
<1> QED  BY <1>3, <1>4 DEF SerialInv

LEMMA NextSerial == TypeInv /\ SerialInv /\ SerialCalls /\ [Next]_vars => SerialInv'
<1> SUFFICES ASSUME TypeInv, SerialInv, SerialCalls, [Next]_vars PROVE SerialInv'  OBVIOUS
<1>1. CASE Next
  BY <1>1, SerialCall, SerialStep, SerialOther DEF Next
<1>2. CASE UNCHANGED vars
  BY <1>2 DEF vars, windows, SerialInv, OwnerInv, CallInv, Busy, PhaseInv, Settled, Stage, DeadInv,
              Arriving, Dead, Halted, Running, Fresh, Alive
<1> QED  BY <1>1, <1>2

LEMMA SerialRuns == SerialCalls => (Spec => [](TypeInv /\ SerialInv))
<1> SUFFICES ASSUME SerialCalls PROVE Spec => [](TypeInv /\ SerialInv)  OBVIOUS
<1>1. Init => TypeInv /\ SerialInv
  BY InitType, InitLocals, InitSerial DEF TypeInv
<1>2. TypeInv /\ SerialInv /\ [Next]_vars => (TypeInv /\ SerialInv)'
  BY NextType, NextLocals, NextSerial DEF TypeInv
<1> QED  BY <1>1, <1>2, PTL DEF Spec

\* At most one pipeline is open, and so one handle.
LEMMA SerialOneHandle == TypeInv /\ SerialInv => OneHandle
<1> SUFFICES ASSUME TypeInv, SerialInv PROVE OneHandle  OBVIOUS
<1> DEFINE Held == {h \in Handles : owner[h] \in {OfPipeline(p) : p \in Pipelines}}
<1>1. \A p, q \in 1 .. opened : pipe[p].open /\ pipe[q].open => p = q
  <2>1. CASE \E t \in Threads : Busy(t) /\ call[t].pc = "assign"
    <3>1. PICK t \in Threads : Busy(t) /\ call[t].pc = "assign"
      BY <2>1
    <3>2. pipeline = Nil /\ \A p : Arriving(p) => p = call[t].p
      BY <3>1 DEF SerialInv, PhaseInv, Stage, CallInv, Arriving
    <3>3. \A p \in 1 .. opened : p # Nil
      BY Unfold DEF TypeInv
    <3> QED  BY <3>2, <3>3 DEF SerialInv, DeadInv, Dead
  <2>2. CASE ~ \E t \in Threads : Busy(t) /\ call[t].pc = "assign"
    BY <2>2 DEF SerialInv, DeadInv, Arriving, Dead
  <2> QED  BY <2>1, <2>2
<1>2. \A g, h \in Held : g = h
  <2> SUFFICES ASSUME NEW g \in Held, NEW h \in Held PROVE g = h  OBVIOUS
  <2>1. PICK p \in Pipelines : owner[g] = OfPipeline(p)
    OBVIOUS
  <2>2. PICK q \in Pipelines : owner[h] = OfPipeline(q)
    OBVIOUS
  <2>3. p \in 1 .. opened /\ pipe[p].open /\ pipe[p].handle = g
    BY <2>1, Unfold DEF SerialInv, OwnerInv, Pipelines, TypeInv
  <2>4. q \in 1 .. opened /\ pipe[q].open /\ pipe[q].handle = h
    BY <2>2, Unfold DEF SerialInv, OwnerInv, Pipelines, TypeInv
  <2> QED  BY <1>1, <2>3, <2>4
<1> HIDE DEF Held
<1>3. CASE Held = {}
  <2>1. Cardinality(Held) = 0
    BY <1>3, FS_EmptySet
  <2> QED  BY <2>1 DEF OneHandle, Held
<1>4. CASE Held # {}
  <2>1. PICK h : Held = {h}
    BY <1>2, <1>4
  <2>2. Cardinality(Held) = 1
    BY <2>1, FS_Singleton
  <2> QED  BY <2>2 DEF OneHandle, Held
<1> QED  BY <1>3, <1>4

LEMMA SerialNoLeak == TypeInv /\ SerialInv => NothingLeaks
<1> SUFFICES ASSUME TypeInv, SerialInv, Resting, NEW p \in 1 .. opened, p # pipeline
             PROVE  ~Alive(p) /\ ~Holds(p)
  BY DEF NothingLeaks
<1>1. \A t \in Threads : ~Busy(t)
  BY DEF Resting, SerialInv, CallInv, Busy
<1>2. Dead(p)
  BY <1>1 DEF SerialInv, DeadInv, Arriving
<1>3. p \in Pipelines
  BY Unfold DEF TypeInv
<1> QED  BY <1>2, <1>3 DEF Dead, Holds, SerialInv, OwnerInv

\* When the operations that switch protection come one at a time, the program
\* never holds two WinDivert handles, and none that no later call can reach, nor
\* goroutines of a pipeline it has let go: for any order of calls, any failures
\* of filter.Open, whatever looks at a.pipeline meanwhile.
THEOREM HandlesStayAccountedFor == SerialCalls => (Spec => []HandlesAccountedFor)
<1> SUFFICES ASSUME SerialCalls PROVE Spec => []HandlesAccountedFor  OBVIOUS
<1>1. TypeInv /\ SerialInv => HandlesAccountedFor
  BY SerialOneHandle, SerialNoLeak DEF HandlesAccountedFor
<1> QED  BY <1>1, SerialRuns, PTL

\* In the same circumstances a pipeline that is left in the field runs, on an
\* open handle that is its own: what the window and the tray show is so.
THEOREM ProtectionIsNoLie == SerialCalls => (Spec => []ProtectionIsReal)
<1> SUFFICES ASSUME SerialCalls PROVE Spec => []ProtectionIsReal  OBVIOUS
<1>1. ASSUME TypeInv, SerialInv, Resting, pipeline # Nil
      PROVE  /\ pipe[pipeline].started /\ Alive(pipeline)
             /\ owner[pipe[pipeline].handle] = OfPipeline(pipeline)
  <2>1. \A t \in Threads : ~Busy(t)
    BY <1>1 DEF Resting, SerialInv, CallInv, Busy
  <2>2. Running(pipeline)
    BY <1>1, <2>1 DEF SerialInv, PhaseInv, Settled
  <2>3. pipeline \in 1 .. opened
    BY <1>1, Unfold DEF TypeInv
  <2> QED  BY <1>1, <2>2, <2>3 DEF Running, SerialInv, OwnerInv
<1>2. TypeInv /\ SerialInv => ProtectionIsReal
  BY <1>1 DEF ProtectionIsReal
<1> QED  BY <1>2, SerialRuns, PTL

=============================================================================
