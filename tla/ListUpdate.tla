------------------------------ MODULE ListUpdate ------------------------------
(***************************************************************************)
(* How the blocking database comes about: the updater's goroutine          *)
(* (updater/updater.go), its callback onReload and SaveConfig with         *)
(* rebuildDB (app.go), and the views of the window that call SaveConfig.   *)
(*                                                                         *)
(* Slices of sources are shared: NewUpdater and RefreshSources keep the    *)
(* slice of the configuration, so u.sources and a.cfg.Sources are usually  *)
(* one array and differ only between the two assignments of SaveConfig.    *)
(* heap holds the arrays; a.cfg.Sources and u.sources are indices into it. *)
(* Calls from the window run in goroutines of their own, without a lock.   *)
(*                                                                         *)
(* A source's contents stand for themselves as its URL, a custom rule as a *)
(* model value; a database is the set of the URLs and rules it was made    *)
(* of.  RangeCount is the URL whose ranges were counted.  The file the     *)
(* configuration is saved to is not modelled here, nor is the cache: the   *)
(* Clear that comes before each Store is in BlockDecision.                 *)
(***************************************************************************)
EXTENDS Naturals, Sequences, FiniteSets

CONSTANTS
  Names, URLs,    \* of sources
  NoURL,          \* the RangeCount 0 of a source never fetched
  Rules,          \* the custom rules
  FirstLists,     \* the source lists the program may start with
  NewSources,     \* what the user may enter in the dialog: [name, url]
  MaxSources,     \* bound: the length of a source list
  MaxSaves        \* bound: the number of SaveConfig calls

Source == [name : Names, url : URLs, enabled : BOOLEAN,
           synced : BOOLEAN, count : URLs \cup {NoURL}]

\* What perSource maps: at most one URL's ranges per name.
Fetched == [name : Names, url : URLs]

Saves == 1 .. MaxSaves

ASSUME ListAssumption ==
  /\ NoURL \notin URLs /\ Rules \cap URLs = {}
  /\ \A l \in FirstLists : l \in Seq(Source) /\ Len(l) <= MaxSources
  /\ NewSources \subseteq Fetched
  /\ MaxSources \in Nat /\ MaxSaves \in Nat

VARIABLES
  heap,       \* heap[k]: the array of sources of the k-th configuration
  cfg,        \* a.cfg: [src, rules], src an index of heap
  sources,    \* u.sources, an index of heap
  custom,     \* a.customRanges
  ranges,     \* a.sourceRanges, with what it maps each name to
  db,         \* a.db
  job,        \* the updater's goroutine: where it is and its locals
  trigger,    \* manualTrigger holds a request
  owed,       \* history: no update has begun since the last request
  rounds,     \* history: what each finished round of fetches had got
  panicked,   \* an index out of range took the process down
  draft,      \* the copy of the configuration the open view works on
  save        \* save[k]: the goroutine of the k-th SaveConfig call

appVars == <<heap, cfg, sources, custom, ranges, db>>
updaterVars == <<job, trigger, owed, rounds>>
vars == <<appVars, updaterVars, panicked, draft, save>>

JobAt(pc) == job.pc = pc /\ ~panicked
SaveAt(k, pc) == save[k].pc = pc /\ ~panicked

Content(rs) == {f.url : f \in rs}

NewJob == [pc |-> "start", silent |-> TRUE, list |-> <<>>, i |-> 1, n |-> 0,
           got |-> {}, all |-> {}, new |-> {}, diffs |-> {}]

\* startup: the database is empty and custom rules are parsed, not merged.
Init ==
  /\ heap \in {[k \in 0 .. MaxSaves |-> IF k = 0 THEN l ELSE <<>>] : l \in FirstLists}
  /\ cfg \in [src : {0}, rules : SUBSET Rules]
  /\ sources = 0
  /\ custom = cfg.rules
  /\ ranges = {} /\ db = {}
  /\ job = NewJob
  /\ trigger = FALSE /\ owed = FALSE
  /\ rounds = {{}}
  /\ panicked = FALSE
  /\ draft = [list |-> heap[0], rules |-> cfg.rules]
  /\ save = [k \in Saves |-> [pc |-> "unused", rules |-> {}, new |-> {}]]

-----------------------------------------------------------------------------
\* Run: the first update, then the select.

Scheduled ==
  /\ JobAt("waiting")
  /\ job' = [job EXCEPT !.pc = "begin"]
  /\ UNCHANGED <<appVars, trigger, owed, rounds, panicked, draft, save>>

Manual ==
  /\ JobAt("waiting") /\ trigger
  /\ trigger' = FALSE
  /\ job' = [job EXCEPT !.pc = "begin"]
  /\ UNCHANGED <<appVars, owed, rounds, panicked, draft, save>>

\* ctx.Done.
Stopped ==
  /\ JobAt("waiting")
  /\ job' = [job EXCEPT !.pc = "stopped"]
  /\ UNCHANGED <<appVars, trigger, owed, rounds, panicked, draft, save>>

\* TriggerManual; a second request while one is pending is merged with it.
KeptIfWaiting == job.pc = "waiting"       \* mutant: a channel without buffer
Kept == TRUE

TriggerManual ==
  /\ ~panicked
  /\ trigger' = (trigger \/ Kept)
  /\ owed' = TRUE
  /\ UNCHANGED <<appVars, job, rounds, panicked, draft, save>>

-----------------------------------------------------------------------------
\* updateAll

\* The copy of the sources under the lock.
Begin ==
  /\ JobAt("start") \/ JobAt("begin")
  /\ job' = [NewJob EXCEPT !.pc = "fetch", !.silent = JobAt("start"),
                           !.list = heap[sources]]
  /\ owed' = FALSE
  /\ UNCHANGED <<appVars, trigger, rounds, panicked, draft, save>>

Skip ==
  /\ JobAt("fetch") /\ job.i <= Len(job.list)
  /\ ~job.list[job.i].enabled
  /\ job' = [job EXCEPT !.i = @ + 1]
  /\ UNCHANGED <<appVars, trigger, owed, rounds, panicked, draft, save>>

FetchFails ==
  /\ JobAt("fetch") /\ job.i <= Len(job.list)
  /\ job.list[job.i].enabled
  /\ job' = [job EXCEPT !.i = @ + 1]
  /\ UNCHANGED <<appVars, trigger, owed, rounds, panicked, draft, save>>

\* perSource[src.Name] = ranges: a second source of that name overwrites.
PutOnly(rs, s) == {[name |-> s.name, url |-> s.url]}  \* mutant: the map is made anew
Put(rs, s) == {f \in rs : f.name # s.name} \cup {[name |-> s.name, url |-> s.url]}

FetchSucceeds ==
  /\ JobAt("fetch") /\ job.i <= Len(job.list)
  /\ LET s == job.list[job.i]
     IN  /\ s.enabled
         /\ job' = [job EXCEPT !.i = @ + 1,
                               !.got = Put(@, s),
                               !.all = @ \cup {s.url},
                               !.list[job.i].synced = TRUE,
                               !.list[job.i].count = s.url]
  /\ UNCHANGED <<appVars, trigger, owed, rounds, panicked, draft, save>>

\* The sources that get an entry in rangeDiffs.
HasDiff(s) == s.synced \/ job.silent

\* u.sourceRanges and u.rangeDiffs; only the callback reads them, so they
\* stay in job.got and job.diffs.
Diff ==
  /\ JobAt("fetch") /\ job.i > Len(job.list)
  /\ job' = [job EXCEPT !.pc = "copyback",
                        !.diffs = {job.list[i].name :
                                     i \in {j \in DOMAIN job.list : HasDiff(job.list[j])}}]
  /\ rounds' = rounds \cup {Content(job.got)}
  /\ UNCHANGED <<appVars, trigger, owed, panicked, draft, save>>

\* The copying back, by index, into whatever u.sources is by now.
CopiedBack(old, new) ==
  [i \in DOMAIN old |->
     IF i <= Len(new) /\ new[i].synced
       THEN [old[i] EXCEPT !.synced = TRUE, !.count = new[i].count]
       ELSE old[i]]

CopyBack ==
  /\ JobAt("copyback")
  /\ heap' = [heap EXCEPT ![sources] = CopiedBack(@, job.list)]
  /\ job' = [job EXCEPT !.pc = "ranges"]
  /\ UNCHANGED <<cfg, sources, custom, ranges, db, trigger, owed, rounds,
                 panicked, draft, save>>

-----------------------------------------------------------------------------
\* onReload, in the updater's goroutine

StoreRanges ==
  /\ JobAt("ranges")
  /\ ranges' = job.got
  /\ job' = [job EXCEPT !.pc = "merge"]
  /\ UNCHANGED <<heap, cfg, sources, custom, db, trigger, owed, rounds,
                 panicked, draft, save>>

\* len(a.customRanges) > 0
MergesNever == FALSE                      \* mutant: the merge is missing
Merges == custom # {}

CheckCustom ==
  /\ JobAt("merge")
  /\ job' = [job EXCEPT !.pc = IF Merges THEN "append" ELSE "store", !.new = job.all]
  /\ UNCHANGED <<appVars, trigger, owed, rounds, panicked, draft, save>>

\* Both builders of a database: all source ranges and the custom ones.
WithUnfinished == Content(job.got) \cup custom \* mutant: the updater's own map
WithCustom == Content(ranges) \cup custom

AppendCustom ==
  /\ JobAt("append")
  /\ job' = [job EXCEPT !.pc = "store", !.new = WithCustom]
  /\ UNCHANGED <<appVars, trigger, owed, rounds, panicked, draft, save>>

StoreDatabase ==
  /\ JobAt("store")
  /\ db' = job.new
  /\ job' = [job EXCEPT !.pc = "sync"]
  /\ UNCHANGED <<heap, cfg, sources, custom, ranges, trigger, owed, rounds,
                 panicked, draft, save>>

\* GetSources returns a copy; the range clause takes the length once.
SyncBegin ==
  /\ JobAt("sync")
  /\ job' = [job EXCEPT !.pc = "syncing", !.list = heap[sources], !.i = 1,
                        !.n = IF heap[sources] = <<>> THEN 0 ELSE Len(heap[cfg.src])]
  /\ UNCHANGED <<appVars, trigger, owed, rounds, panicked, draft, save>>

\* a.cfg.Sources[i] for one i, by name; a.cfg.Sources is read anew each time.
SyncOne ==
  /\ JobAt("syncing") /\ job.i <= job.n
  /\ \/ /\ job.i > Len(heap[cfg.src])
        /\ panicked' = TRUE
        /\ UNCHANGED <<heap, job>>
     \/ /\ job.i <= Len(heap[cfg.src])
        /\ heap' = [heap EXCEPT ![cfg.src][job.i].synced =
                      @ \/ \E i \in DOMAIN job.list :
                             job.list[i].synced /\ job.list[i].name = heap[cfg.src][job.i].name]
        /\ job' = [job EXCEPT !.i = @ + 1]
        /\ UNCHANGED panicked
  /\ UNCHANGED <<cfg, sources, custom, ranges, db, trigger, owed, rounds,
                 draft, save>>

\* The rest of the callback writes the file and sends events.
SyncEnd ==
  /\ JobAt("syncing") /\ job.i > job.n
  /\ job' = [NewJob EXCEPT !.pc = "waiting"]
  /\ UNCHANGED <<appVars, trigger, owed, rounds, panicked, draft, save>>

UpdateAll ==
  \/ Begin \/ Skip \/ FetchFails \/ FetchSucceeds \/ Diff \/ CopyBack
  \/ StoreRanges \/ CheckCustom \/ AppendCustom \/ StoreDatabase
  \/ SyncBegin \/ SyncOne \/ SyncEnd

Run == Scheduled \/ Manual \/ Stopped \/ UpdateAll

-----------------------------------------------------------------------------
\* The window.  A view takes its copy of the configuration when it is opened;
\* from then on it edits and saves that copy.

Mount ==
  /\ ~panicked
  /\ draft' = [list |-> heap[cfg.src], rules |-> cfg.rules]
  /\ UNCHANGED <<appVars, updaterVars, panicked, save>>

Added(f) == [name |-> f.name, url |-> f.url, enabled |-> TRUE, synced |-> FALSE, count |-> NoURL]

\* toggleSource, handleDelete, handleAdd.
SourceEdits(l) ==
  {[l EXCEPT ![i].enabled = ~@] : i \in DOMAIN l}
    \cup {SubSeq(l, 1, i - 1) \o SubSeq(l, i + 1, Len(l)) : i \in DOMAIN l}
    \cup {Append(l, Added(f)) : f \in IF Len(l) < MaxSources THEN NewSources ELSE {}}

Edits == [list : SourceEdits(draft.list), rules : {draft.rules}]
           \cup [list : {draft.list}, rules : SUBSET Rules]

\* The k-th call of SaveConfig, with an edited copy; earlier calls may still
\* be under way.
MayCall(k) == save[k].pc = "unused" /\ \A j \in Saves : j < k => save[j].pc # "unused"

Call(k) ==
  /\ ~panicked
  /\ MayCall(k)
  /\ \E d \in Edits :
       /\ draft' = d
       /\ heap' = [heap EXCEPT ![k] = d.list]
       /\ save' = [save EXCEPT ![k].pc = "assign", ![k].rules = d.rules]
  /\ UNCHANGED <<cfg, sources, custom, ranges, db, updaterVars, panicked>>

\* *a.cfg = cfg
Assign(k) ==
  /\ SaveAt(k, "assign")
  /\ cfg' = [src |-> k, rules |-> save[k].rules]
  /\ save' = [save EXCEPT ![k].pc = "parse"]
  /\ UNCHANGED <<heap, sources, custom, ranges, db, updaterVars, panicked, draft>>

Parse(k) ==
  /\ SaveAt(k, "parse")
  /\ custom' = save[k].rules
  /\ save' = [save EXCEPT ![k].pc = "rebuild"]
  /\ UNCHANGED <<heap, cfg, sources, ranges, db, updaterVars, panicked, draft>>

\* rebuildDB up to the Store.
Rebuild(k) ==
  /\ SaveAt(k, "rebuild")
  /\ save' = [save EXCEPT ![k].pc = "store", ![k].new = WithCustom]
  /\ UNCHANGED <<appVars, updaterVars, panicked, draft>>

StoreRebuilt(k) ==
  /\ SaveAt(k, "store")
  /\ db' = save[k].new
  /\ save' = [save EXCEPT ![k].pc = "refresh", ![k].new = {}]
  /\ UNCHANGED <<heap, cfg, sources, custom, ranges, updaterVars, panicked, draft>>

\* The list u.sources becomes.
NotRefreshed(k) == sources                \* mutant: RefreshSources is not called
Refreshed(k) == k

\* RefreshSources; what is left of SaveConfig is the registry and the file.
RefreshSources(k) ==
  /\ SaveAt(k, "refresh")
  /\ sources' = Refreshed(k)
  /\ save' = [save EXCEPT ![k].pc = "done"]
  /\ UNCHANGED <<heap, cfg, custom, ranges, db, updaterVars, panicked, draft>>

SaveConfig(k) == Assign(k) \/ Parse(k) \/ Rebuild(k) \/ StoreRebuilt(k) \/ RefreshSources(k)

-----------------------------------------------------------------------------

Next ==
  \/ Run
  \/ TriggerManual
  \/ Mount
  \/ \E k \in Saves : Call(k) \/ SaveConfig(k)

Spec == Init /\ [][Next]_vars

\* Goroutines run, every fetch ends one way or the other (the HTTP client has
\* a timeout), and the ticker fires again and again, so that Run is never
\* blocked for ever.  Requests, edits and the end of the program are not
\* obliged to come.
Fairness ==
  /\ WF_vars(Run)
  /\ \A k \in Saves : WF_vars(SaveConfig(k))

FairSpec == Spec /\ Fairness

-----------------------------------------------------------------------------

JobPCs == {"start", "waiting", "begin", "fetch", "copyback", "ranges", "merge",
           "append", "store", "sync", "syncing", "stopped"}
SavePCs == {"unused", "assign", "parse", "rebuild", "store", "refresh", "done"}
Lists == {l \in Seq(Source) : Len(l) <= MaxSources}
Database == SUBSET (URLs \cup Rules)

\* Type invariant.
ListTypeOK ==
  /\ heap \in [0 .. MaxSaves -> Lists]
  /\ cfg \in [src : 0 .. MaxSaves, rules : SUBSET Rules]
  /\ sources \in 0 .. MaxSaves
  /\ custom \in SUBSET Rules
  /\ ranges \in SUBSET Fetched
  /\ db \in Database
  /\ job \in [pc : JobPCs, silent : BOOLEAN, list : Lists, i : 1 .. MaxSources + 1,
              n : 0 .. MaxSources, got : SUBSET Fetched, all : SUBSET URLs, new : Database,
              diffs : SUBSET Names]
  /\ {trigger, owed, panicked} \subseteq BOOLEAN
  /\ rounds \in SUBSET (SUBSET URLs)
  /\ draft \in [list : Lists, rules : SUBSET Rules]
  /\ save \in [Saves -> [pc : SavePCs, rules : SUBSET Rules, new : Database]]

\* Neither the updater nor a SaveConfig is in the middle of its work.
Settled ==
  /\ job.pc = "waiting" /\ ~panicked
  /\ \A k \in Saves : save[k].pc \in {"unused", "done"}

\* "TriggerManual triggers an immediate update": a request is never lost,
\* whatever the updater is doing and however often it is repeated.  As long as
\* no update has begun since, one is pending or about to begin.
NoRequestLost == owed => trigger \/ job.pc \in {"start", "begin", "stopped"}

\* However SaveConfig calls and updates overlap, the filter never works with
\* half a database: its source part is all that some round of fetches got.
DatabaseIsWhole == db \cap URLs \in rounds

\* The database, once the work in progress is over, is what rebuildDB would
\* build: "source ranges + custom rules".
DatabaseIsMerged == Settled => db = WithCustom

\* What the code does guarantee: after the last SaveConfig call an update
\* comes that nothing disturbs, and the database is right from then on.
DatabaseHeals == <>[]DatabaseIsMerged

EnabledNames(l) == {l[i].name : i \in {j \in DOMAIN l : l[j].enabled}}

\* Disabling or deleting a source takes effect: sooner or later, and from
\* then on, only the enabled sources of the configuration are blocked.
SourcesTakeEffect ==
  <>[](Settled => {f.name : f \in ranges} \subseteq EnabledNames(heap[cfg.src]))

\* "RefreshSources updates the source list (e.g. after config save)": when no
\* SaveConfig is running, the updater works on the configuration's list.
UpdaterHasTheList ==
  (\A k \in Saves : save[k].pc \in {"unused", "done"}) => sources = cfg.src

\* CHANGELOG: "RangeCount ... tracks how many IP ranges each blocklist
\* contributed": no source carries the count of another.
CountsAreTheirOwn ==
  \A k \in DOMAIN heap : \A i \in DOMAIN heap[k] : heap[k][i].count \in {NoURL, heap[k][i].url}

\* updateAll, on the diffs: "Source failed - skip diff".
NoDiffForFailed ==
  job.pc = "copyback" /\ ~job.silent =>
    \A i \in DOMAIN job.list :
      LET s == job.list[i]
      IN  s.enabled /\ (\A f \in job.got : f.name # s.name) => s.name \notin job.diffs

\* "Sync LastSync from updater back to config so GUI sees correct dates": a
\* source that stays in the configuration keeps having a date.
LastSyncStays ==
  [][\A i \in DOMAIN heap[cfg.src], j \in DOMAIN heap'[cfg'.src] :
       heap[cfg.src][i].url = heap'[cfg'.src][j].url /\ heap[cfg.src][i].synced
         => heap'[cfg'.src][j].synced]_vars

\* Merging custom rules never takes a source's ranges out of the database:
\* what the last round fetched is blocked whether or not there are rules.
FetchedIsBlocked == job.pc = "sync" => job.all \subseteq job.new

\* The callback that reports an update never takes the process down.
CallbackSurvives == ~panicked

=============================================================================
