-------------------------------- MODULE Logger --------------------------------
(***************************************************************************)
(* logger/logger.go: any goroutine logs through a bounded channel; one     *)
(* goroutine, run, takes the entries out, puts them into the ring, writes  *)
(* them to the file and hands them to the subscribers.  Close ends run     *)
(* after a drain of the channel.                                           *)
(*                                                                         *)
(* The file is external: a write to an open file succeeds or fails, so do  *)
(* the renaming and the opening of a rotation.  Files are sequences of     *)
(* entries; archive holds what rotation has moved away.  The backups are   *)
(* named by the second, which a second rotation within one second would    *)
(* overwrite; that does not happen here.                                   *)
(***************************************************************************)
EXTENDS RingBuffer, FiniteSets

CONSTANTS
  ChanCap,     \* capacity of ch (1024)
  SubCap,      \* capacity of a subscriber's channel (256)
  Subs,        \* the subscriber channels ever created
  RotateEvery  \* rotateIfNeeded is called every so many writes (100)

ASSUME LoggerAssumption ==
  /\ ChanCap \in Nat \ {0} /\ SubCap \in Nat \ {0}
  /\ RotateEvery \in Nat \ {0}

VARIABLES
  ch,           \* l.ch
  done,         \* l.done is closed
  run,          \* run: [pc, entry, draining, writes]
  file, archive,\* what was written to the current file and to earlier ones
  fileOpen,     \* l.file can be written to
  sub,          \* sub[s]: [state, queue, got]; queue is the channel's buffer
  closing,      \* the goroutine in Close: "outside", "waiting" for run, or "closed"
  accepted,     \* history: the entries that were put into ch, in order
  handled,      \* history: the entries run has put into the ring, in order
  before        \* history: accepted, when done was closed

files == <<file, archive, fileOpen>>
vars == <<ringVars, ch, done, run, files, sub, closing, accepted, handled, before>>

Nobody == [pc |-> "select", entry |-> Unused, draining |-> FALSE, writes |-> 0]
NewSub == [state |-> "new", queue |-> <<>>, got |-> <<>>]

Init ==
  /\ RingInit
  /\ ch = <<>> /\ done = FALSE
  /\ run = Nobody
  /\ file = <<>> /\ archive = <<>> /\ fileOpen = TRUE
  /\ sub = [s \in Subs |-> NewSub]
  /\ closing = "outside"
  /\ accepted = <<>> /\ handled = <<>> /\ before = <<>>

Elements(s) == {s[i] : i \in DOMAIN s}
RunAt(pc) == run.pc = pc

-----------------------------------------------------------------------------
\* log, in any goroutine; every entry is logged once.  When the channel is
\* full, the entry is dropped and nothing changes.
Room == Len(ch) < ChanCap

Log(e) ==
  /\ e \notin Elements(accepted)
  /\ Room
  /\ ch' = Append(ch, e)
  /\ accepted' = Append(accepted, e)
  /\ UNCHANGED <<ringVars, done, run, files, sub, closing, handled, before>>

-----------------------------------------------------------------------------
\* run.  The select picks at random when both an entry and done are ready.

\* The next entry of the channel, first in first out, and what stays in it.
LastIn(s) == [entry |-> s[Len(s)], rest |-> SubSeq(s, 1, Len(s) - 1)]
                                        \* mutant: last in first out
NextIn(s) == [entry |-> Head(s), rest |-> Tail(s)]

Take ==
  /\ RunAt("select")
  /\ ch # <<>>
  /\ run' = [run EXCEPT !.pc = "add", !.entry = NextIn(ch).entry]
  /\ ch' = NextIn(ch).rest
  /\ UNCHANGED <<ringVars, done, files, sub, closing, accepted, handled, before>>

SeeDone ==
  /\ RunAt("select")
  /\ done /\ ~run.draining
  /\ run' = [run EXCEPT !.draining = TRUE]
  /\ UNCHANGED <<ringVars, ch, done, files, sub, closing, accepted, handled, before>>

\* The default case of the drain.
MayLeave == TRUE                        \* mutant: no drain
DrainedAll == ch = <<>>

Leave ==
  /\ RunAt("select")
  /\ run.draining /\ DrainedAll
  /\ run' = [run EXCEPT !.pc = "left"]
  /\ UNCHANGED <<ringVars, ch, done, files, sub, closing, accepted, handled, before>>

AddToRing ==
  /\ RunAt("add")
  /\ Add(run.entry)
  /\ handled' = Append(handled, run.entry)
  /\ run' = [run EXCEPT !.pc = IF (run.writes + 1) % RotateEvery = 0 THEN "rotate" ELSE "write",
                        !.writes = (run.writes + 1) % RotateEvery]
  /\ UNCHANGED <<ch, done, files, sub, closing, accepted, before>>

RotateTo(pc) == run' = [run EXCEPT !.pc = pc]
UnchangedRest == UNCHANGED <<ringVars, ch, done, sub, closing, accepted, handled, before>>

\* No rotation is configured, the file is small, or Stat fails.
RotateNot ==
  /\ RunAt("rotate")
  /\ RotateTo("write")
  /\ UNCHANGED files /\ UnchangedRest

RotateClose ==
  /\ RunAt("rotate")
  /\ fileOpen
  /\ fileOpen' = FALSE
  /\ RotateTo("rename")
  /\ UNCHANGED <<file, archive>> /\ UnchangedRest

\* os.Rename, whose error is ignored: on failure the file stays where it is.
Moved == archive \o file
Lost == archive                         \* mutant: the old contents are dropped
ArchivedFile == Moved

Rename ==
  /\ RunAt("rename")
  /\ \/ file' = <<>> /\ archive' = ArchivedFile
     \/ UNCHANGED <<file, archive>>
  /\ RotateTo("reopen")
  /\ UNCHANGED fileOpen /\ UnchangedRest

\* Opening the new file; if that fails the backup is opened, if there is one,
\* and is the current file again; if that fails too, l.file stays closed.
Reopen ==
  /\ RunAt("reopen")
  /\ \/ fileOpen' = TRUE /\ UNCHANGED <<file, archive>>
     \/ fileOpen' = TRUE /\ file = <<>> /\ file' = archive /\ archive' = <<>>
     \/ UNCHANGED files
  /\ RotateTo("write")
  /\ UnchangedRest

\* Fprintf, whose error is ignored.
Write ==
  /\ RunAt("write")
  /\ \/ fileOpen /\ file' = Append(file, run.entry)
     \/ file' = file
  /\ run' = [run EXCEPT !.pc = "notify"]
  /\ UNCHANGED <<archive, fileOpen>> /\ UnchangedRest

\* The loop over the subscribers, under subMu: a full channel misses the entry,
\* run does not wait for its reader.
AllHaveRoom == \A s \in Subs : sub[s].state = "subscribed" => Len(sub[s].queue) < SubCap
                                        \* mutant: the default case is missing
NoWait == TRUE

Deliver(x) ==
  IF x.state = "subscribed" /\ Len(x.queue) < SubCap
    THEN [x EXCEPT !.queue = Append(@, run.entry)] ELSE x

Notify ==
  /\ RunAt("notify")
  /\ NoWait
  /\ sub' = [s \in Subs |-> Deliver(sub[s])]
  /\ run' = [run EXCEPT !.pc = "select", !.entry = Unused]
  /\ UNCHANGED <<ringVars, ch, done, files, closing, accepted, handled, before>>

Run ==
  \/ Take \/ SeeDone \/ Leave \/ AddToRing
  \/ RotateNot \/ RotateClose \/ Rename \/ Reopen
  \/ Write \/ Notify

-----------------------------------------------------------------------------
\* Subscribe, Unsubscribe and the reader of a subscription.

UnchangedButSub ==
  UNCHANGED <<ringVars, ch, done, run, files, closing, accepted, handled, before>>

Subscribe(s) ==
  /\ sub[s].state = "new"
  /\ sub' = [sub EXCEPT ![s].state = "subscribed"]
  /\ UnchangedButSub

\* Removed and closed under subMu; what is buffered can still be read.
Unsubscribe(s) ==
  /\ sub[s].state = "subscribed"
  /\ sub' = [sub EXCEPT ![s].state = "closed"]
  /\ UnchangedButSub

Received(x) == [x EXCEPT !.got = Append(@, Head(x.queue)), !.queue = Tail(@)]

Read(s) ==
  /\ sub[s].queue # <<>>
  /\ sub' = [sub EXCEPT ![s] = Received(sub[s])]
  /\ UnchangedButSub

-----------------------------------------------------------------------------
\* Close, which shutdown calls once: close(done), wait for run, close the file.

CloseDone ==
  /\ closing = "outside"
  /\ done' = TRUE
  /\ before' = accepted
  /\ closing' = "waiting"
  /\ UNCHANGED <<ringVars, ch, run, files, sub, accepted, handled>>

CloseFile ==
  /\ closing = "waiting" /\ run.pc = "left"
  /\ fileOpen' = FALSE
  /\ closing' = "closed"
  /\ UNCHANGED <<ringVars, ch, done, run, file, archive, sub, accepted, handled, before>>

Next ==
  \/ \E e \in Entries : Log(e)
  \/ Run
  \/ \E s \in Subs : Subscribe(s) \/ Unsubscribe(s) \/ Read(s)
  \/ CloseDone \/ CloseFile

Spec == Init /\ [][Next]_vars

\* run and the goroutine in Close are scheduled for ever; nothing is assumed of
\* the readers of the subscriptions.
Fairness == WF_vars(Run) /\ WF_vars(CloseFile)

FairSpec == Spec /\ Fairness

-----------------------------------------------------------------------------

\* Type invariant.
LoggerTypeOK ==
  /\ RingTypeOK
  /\ ch \in Seq(Entries) /\ Len(ch) <= ChanCap
  /\ run \in [pc : {"select", "add", "rotate", "rename", "reopen", "write", "notify", "left"},
              entry : Entries \cup {Unused}, draining : BOOLEAN, writes : 0 .. RotateEvery - 1]
  /\ {done, fileOpen} \subseteq BOOLEAN
  /\ {file, archive, accepted, handled, before} \subseteq Seq(Entries)
  /\ \A s \in Subs :
       sub[s] \in [state : {"new", "subscribed", "closed"}, queue : Seq(Entries), got : Seq(Entries)]
  /\ closing \in {"outside", "waiting", "closed"}

\* s can be had from t by leaving out entries.
IsSubsequence(s, t) ==
  /\ Elements(s) \subseteq Elements(t)
  /\ \A i, j \in DOMAIN s : i < j =>
       \E k, l \in DOMAIN t : k < l /\ t[k] = s[i] /\ t[l] = s[j]

\* Order: whoever looks, the files across rotations, the ring or a subscriber,
\* however slow, sees the entries in the order they were logged, none twice.
EverywhereInOrder ==
  /\ IsSubsequence(archive \o file, accepted)
  /\ IsSubsequence(Last(Size), accepted)
  /\ \A s \in Subs : IsSubsequence(sub[s].got \o sub[s].queue, accepted)

\* "Close shuts down the logger and waits for pending writes": once it has
\* returned, every entry accepted before it was called has been handled.
CloseDrains == closing = "closed" => Elements(before) \subseteq Elements(handled)

\* Rotation loses nothing that had been written.
WrittenIsKept == [][Elements(archive \o file) \subseteq Elements(archive' \o file')]_vars

\* A Close that is called returns, although a subscriber may never read and a
\* rotation may have failed.  Every entry is logged once, so the logging ends:
\* while others keep the channel from running empty the drain goes on.
CloseReturns == closing = "waiting" ~> closing = "closed"

=============================================================================
