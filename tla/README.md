# A TLA+ verification of go-peerblock

go-peerblock is a Windows IP filter. A Go backend intercepts packets with WinDivert, drops
those whose address is in a block list and re-injects the others; it fetches the lists from
the network, keeps a configuration file and a log, and is driven from a window (Wails and
React) and a tray icon. Nearly all of the backend is shared mutable state that several goroutines
read and write without a common lock; the window keeps copies of it, and hears of changes by
events and late answers. This directory holds TLA+ modules of it, TLC
configurations that check them on small instances, and TLAPS proofs of the theorems that hold
for every instance.

Paths below are relative to the repository.

## The system

### Components, their state and operations

| Component | State | Operations | Module |
|---|---|---|---|
| Decision cache, `core/cache.go` | map of decisions with version and time, ring of keys, position, version counter | `Get`, `Set`, `Clear`, `Len`; expiry by ttl | `DecisionCache` |
| Blocking decision, `filter/pipeline.go` `shouldBlock` | locals of each worker; shares database, cache, allowlist | check allowlist, look up cache, load database, store decision | `BlockDecision` implements `Filter` |
| Packet pipeline, `filter/pipeline.go` | `packetCh`, `sendCh`, `done`, `started`, counters, the WinDivert handle | `Start`, `Stop`, `Close`, `recvLoop`, `worker`, `sendLoop` | `Pipeline` |
| IP database, `core/database.go` | a sorted slice of ranges | `MergeRanges`, `Contains` | `RangeDatabase` |
| Updater, `updater/updater.go` | the source list, a trigger channel of one, results of the last round | `Run`, `TriggerManual`, `RefreshSources`, `updateAll` | `ListUpdate` |
| Reload and save, `app.go` | `a.cfg`, `a.customRanges`, `a.sourceRanges`, `a.db` | `onReload`, `SaveConfig`, `rebuildDB` | `ListUpdate`; the cache's side in `BlockDecision` |
| Protection lifecycle, `app.go` | the field `a.pipeline`, WinDivert handles | `startup`, `ToggleProtection`, `SetProtectionEnabled`, `startProtection`, `shutdown`, `GetStats`, `IsProtectionEnabled` | `Protection` |
| Logger, `logger/logger.go` | `ch`, `done`, the file, the subscribers | `log`, `run`, `rotateIfNeeded`, `Subscribe`, `Unsubscribe`, `Close` | `Logger` |
| Ring buffer, `logger/ringbuffer.go` | slots, position, count | `Add`, `Last`, `Len` | `RingBuffer` implements `RecentLog` |
| Allowlist, `core/allowlist.go` | addresses and resolved domains | `Contains`, `ResolveAndRefresh` | in `BlockDecision` |
| Configuration store, `config/persistence.go` | one JSON file and its backups | `Load`, `Save`, `Backup` | `Storage` |
| Fetcher, `updater/fetcher.go` | one cached file for each list | `Fetch` with retries and fallback to the file | `Storage` |
| Window, `frontend/src/App.tsx` `AppInner` | what it shows of protection, the state of the update button, timers, the close dialog | handlers of events, buttons and answers | `Window` |
| Closing and tray, `main.go`, `systray/tray.go` | `a.quitting`, the window's visibility, the icon | `OnBeforeClose`, `QuitApp`, `MinimizeToTray`, the menu | `Window`; the toggle's label in `Protection` |
| Chart, log and lookup, `App.tsx`, `ChartsView.tsx` | samples, log entries, blocked packets, the lookup dialog | the `stats` and `log` events, refresh, clicks | `Live` |
| Configuration views, `SettingsView.tsx`, `SourcesView.tsx`, `AddSourceDialog.tsx` | each its own copy of the configuration, a form, dialogs | load, edit, toggle, add, delete, save, reset | `Settings`; the source view also in `ListUpdate` |
| Language, `i18n/index.tsx` | `lang` | `setLang` | in `Settings` |
| Parser, translations, driver set-up, the stubs for other systems | none | text conversion, tables, start-up | not modelled |

### How they interact

The updater's goroutine fetches the enabled sources and calls `onReload`, which stores the
per-source ranges, merges the custom rules, clears the cache, stores the new database and
copies dates back into the configuration. A call from the window runs in a goroutine of its
own: `SaveConfig` replaces the configuration, rebuilds and stores the database and hands the new
source list to the updater. The workers of the pipeline meanwhile read database, cache and
allowlist. The tray's goroutine, the window's calls, `startup`, `shutdown` and the once-a-second
`eventsEmitter` all use the plain field `a.pipeline`. Every goroutine logs.

The window is one thread. Go methods it calls run in goroutines; their answers and the events Go
emits (`stats`, `log`, `protection`, `update-status`, `close-request`) reach it one by one. What
follows an `await` runs when the answer is handled: by then other messages have come, a view may have
been left, and the values the closure captured may be old. The updater's callback and the window's
calls write the same configuration file; the file and the cached lists are what a restart finds.

### What is hard

The hazards, each at its line, are in `PROJECT.json`. The main ones:

- state read in one step and used in a later one: the version in `Set`, the database in
  `shouldBlock`, `a.pipeline` after its check for nil, `started` in `Stop`, the length of
  `a.cfg.Sources`, indices into a source list that has been replaced since, the copy of the
  configuration a view was opened with;
- two writers that each compute and then store: `onReload` and `rebuildDB`, two `SaveConfig` calls,
  two `startProtection` calls;
- bounded channels that drop, and shutdown that must end goroutines blocked on them;
- partial failures: a source that cannot be fetched, `Open` that fails, a rotation that fails half way;
- answers and events in an order nobody wrote down: refresh against the log, the answer of a toggle
  against the event of another, lookups, a timer of an earlier update;
- whole configurations saved from copies, optimistic updates and saves that fail;
- a process that may die between opening a file and writing it, and lists that cannot be downloaded;
- numeric edges: `End+1` at 255.255.255.255, address 0 as the mark of a free slot, rings that wrap.

## The modules

### DecisionCache (`core/cache.go`), proofs in DecisionProofs

`map` and `ring` are the two structures of the cache, `version` its counter. `BeginSet` loads the
version before the lock is taken and `EndSet` is the locked part, so a `Clear` can fall between
the two; `Get` is split likewise. `Tick` ages every entry. `CacheAssumption` asks for a ring of at
least one slot: `Set` divides by `maxSize`.

- `KeysInRing`: every key of the map but 0 is in the ring, so nothing becomes unevictable.
- `LenBounded`: at most `maxSize + 1` keys; the one more is address 0, see the findings.
- `ClearInvalidates`: a `Get` that begins after a `Clear` is not served a decision that was handed
  to `Set` before it.

### BlockDecision (`shouldBlock`, the reloads, allowlist refreshes), proofs in DecisionProofs

EXTENDS `DecisionCache`; every worker's decision is the sequence of steps of `shouldBlock`. A
reloader clears and stores in two steps; both `onReload` and `SaveConfig` may be in the middle.

- `NoInventedDecision`: a verdict is what some installed database, or the allowlist, says.
- `AllowlistWins`: an address on the allowlist throughout a decision is never blocked.
- `StaleDecisionsHeal` (liveness): after the last reload, a stale decision is gone a ttl later.
- `ImplementsFilter`: `Filter` is what the filter promises, without cache, clock or locks: a packet is
  looked at once against the allowlist and let through if it is there; any other is judged in one step
  by one of the lists installed so far; a judgement is final. The mapping takes `published` for the
  lists and a worker's `pc` for the packet's stage: `picked` is "taken", everything from the look-up
  to the end of `Get` or `Set` is "suspect". Which of the installed lists judges is left open: that is
  the price of the cache, and how long an old one may do so is what `StaleDecisionsHeal` is about.

### Pipeline (`filter/pipeline.go`, `filter/windivert.go`), proofs in PipelineProofs

`recvLoop`, the workers and `sendLoop` with two channels of capacity `Cap`; `Start`, and goroutines that
call `Close` at any time: nothing in the code keeps these calls apart, so nothing does here. WinDivert
is external: `Recv` returns a packet or an error, `Send` succeeds or fails. A packet is a model value;
impostors are packets WinDivert marks as re-injected.

- `PacketsConserved`: every packet received is in one place: a channel, a goroutine's hands, sent,
  or counted as blocked, dropped or failed.
- `OnlyAllowedIsSent`: what is sent was allowed or is an impostor.
- `OnlyRacesPanic`: `Stop` checks `started` and resets it in two steps. Two calls that are both between
  the two will panic at `close(p.done)` (`raced` remembers who met there); calls that overlap at any
  later point, in any number, or that meet `Start`, do not.
- `CloseEndsGoroutines`, `PacketSettles` (liveness): a `Close` that finds the pipeline started, even while
  `Start` is still going on, ends all goroutines, those blocked on a full channel or in `Recv` included;
  without a close every packet is decided and, if allowed, sent.

### RangeDatabase (`core/database.go`), proofs in DecisionProofs

The loops of `MergeRanges` and `Contains` as steps over all lists of ranges within `0 .. MaxIP`, with
`End+1` modulo `MaxIP + 1`. `sort.Slice` is modelled by its result. `SafeSpec` starts from lists in
which no range but the last ends at `MaxIP`; `RangeSpec` from any list.

- `SortedNonOverlapping`, `CoveragePreserved`, `ContainsCorrect`, `SearchTerminates`.

### ListUpdate (`updater/updater.go`, `onReload`, `SaveConfig`, `rebuildDB`, SourcesView), proofs in ListUpdateProofs

`heap` holds the arrays of sources: `NewUpdater` and `RefreshSources` keep the slice they are given,
so `a.cfg.Sources` and `u.sources` are usually one array. Each locked section, each atomic store and
each unlocked read or write of a shared field is a step. A source's contents are its URL, a
database the set of URLs and rules it was built from. A fetch succeeds or fails (the retries and
the cache on disk are inside it).

- `NoRequestLost`: a manual request is never lost, whatever the updater is doing.
- `DatabaseIsWhole`: the filter's source part is always all that one round of fetches got.
- `DatabaseHeals`, `SourcesTakeEffect` (liveness): when the user stops saving, database and sources are
  right for good.

Left out: the torn read of a slice header in the data race on `a.customRanges` (a value is read
or written as a whole), the diffs' contents, the configuration file (see `Storage`).

### Protection (`app.go`'s lifecycle), proofs in ProtectionProofs

Every mention of `a.pipeline` in the code is a read of its own, so another goroutine may change the
field between a check and the use. Pipelines are numbered; handles are values Windows gives out
again once closed. `SerialCalls` states the assumption that toggles and switches do not overlap;
the reads of the stats emitter always do.

- `HandlesAccountedFor`, `ProtectionIsReal`: with calls one at a time, at most one handle is
  open, nothing unreachable runs, and a pipeline that says it runs does, on its own open handle.

### RecentLog, RingBuffer, Logger (`logger/`), proofs in LoggerProofs

`RecentLog` is the promise: the latest `Size` entries in order. `RingBuffer` is the code, and
`KeepsTheLatest` is its refinement (`recent <- Last(Size)`). `Logger` EXTENDS `RingBuffer` with the
channel, `run`, rotation, subscribers and `Close`. File operations are external and may fail
each on its own.

- `EverywhereInOrder`: files across rotations, ring and subscribers all see a subsequence of what
  was logged, none twice.
- `CloseDrains`, `WrittenIsKept`, `CloseReturns`.

Two rotations within one second would overwrite a backup, as backups are named by the second;
a rotation takes a full log file, so that is left out.

### Window (`App.tsx`, `main.go`, `systray/tray.go`, the methods of `app.go` they call), proofs in WindowProofs

`inbox` is the queue of messages from Go to the window. A call of the window is a record with the
place it has reached and the value it captured. `ToggleProtection` looks, closes the pipeline, clears
the field or starts another, emits and answers in separate steps, so two switches by window, tray and
startup can both find protection running, or undo each other; what `Protection` adds is handles and
panics. `cfg` is the part of the configuration these handlers look at; it does not change here.
The bounds depend on it (`ToggleConfigs`, `MaxActs`, `MaxRounds`), so that one instance has both many switches
and many updates, in different behaviours.

- `IndicatorIsRight`: when nothing is under way the window shows the state protection has, unless the
  last it was told came out of turn. The handlers set what it shows from three sources (refresh, the
  code after the await, events), each with a value of its own time, and no step of these waits for
  another. `turn` numbers the states of protection; a message tells the turn in which its value was
  read, or none when it is the answer to a click whose start has failed or which had captured what was
  no longer so (`handleToggle` shows the opposite of that in any case). `misled` remembers that the last
  message tells an earlier turn than one before it, or none, or that a start which had closed a pipeline
  failed, of which nothing tells. So only the order of the last messages, or a start that
  fails, can make the window wrong: an event lost before the window listens, a stale value that is overtaken, a switch in the middle do not.
  That it can be wrong is `IndicatorIsTrue` in the table below.
- `ButtonComesBack` (liveness): the update button does not stay disabled, although the updater may
  never report.
- `ToastsAreDue`: at most one notification for each update after that of startup, and none when they
  are switched off, even if startup's event was emitted before the window listened.
- `QuitQuits` (liveness): `OnBeforeClose` is asked about `runtime.Quit` as well; Quit chosen in the
  dialog is not refused whatever else happens to the window.

### Live (`App.tsx`'s `stats` and `log` listeners, ChartsView), proofs in ViewProofs

The filter decides packets, logs and counts; `since` remembers what was really decided between two
`stats` events. Time is abstract: two events may come too close together for a sample, and the oldest
samples may go at any event.

- `SamplesAreReal`: a sample never shows more packets than were decided in its interval, although
  counters start again with every pipeline and the events go on while the tab is closed.
- `LogsHeal`: refresh's answer may overwrite newer entries or let some appear twice; after one
  windowful of events the log is exactly the newest part of the real one.
- `DialogSettles`: when lookups are answered in order, the dialog has the lists of its own address.

### Settings (SettingsView, SourcesView, AddSourceDialog, `models.ts`, `i18n/index.tsx`), proofs in ViewProofs

A view's state is a record that a tab switch replaces; a call remembers its view, and its answer does
nothing to another one. `wanted` is the configuration the user has ordered, field by field. One
number, one text area and one field saved as shown stand for all of the form's.

- `NoLostEdit`: when nothing is under way, `a.cfg` is `wanted`. Each save sends a whole copy taken
  earlier, so this rests on the optimistic `setCfg` before the await, on loading at every mount, on
  the reload after a reset, and on `Calm`.
- `ViewsSettle` (liveness): `saving` ends, also when the file cannot be written.

### Storage (`persistence.go`, `fetcher.go`, their callers in `app.go` and `updater.go`), proofs in StorageProofs

`os.WriteFile` opens and empties, then writes, in two steps; `Restart` may come between any two. A
file is `Absent`, `Broken` or whole. A configuration is the number of the user's last save and of the
last update in it. An update is the loop over the lists: attempts, copy on disk, fallback, parse.

- `RestartKeepsConfig`: when nobody is saving and the last save did not fail, the next start finds the
  configuration this one works with.
- `UpdatesAreSafe`: until an update's save has written the file, the last whole configuration is in
  a backup, if one could be made.
- `ListsSurviveOutages`: a list once downloaded is in every later database, if its copy could be
  written to its end.

The log level, the attempts' delays and the registry entry for autostart are left out.

## The runs

| Run | Instance | Shows |
|---|---|---|
| `cache` | ring of 2, ttl 1, 2 callers, 1 clear | `KeysInRing`, `LenBounded`, `ClearInvalidates` |
| `decision` | ring of 1, 2 workers, 2 reloaders, 2 clears | `NoInventedDecision`, `AllowlistWins`, `StaleDecisionsHeal`, `ImplementsFilter` |
| `decision_race` | the same | a violation of `CacheAgreesWithDatabase` |
| `pipeline` | 2 workers, 3 packets of which one is an impostor, channels of 1, 2 closes at any time | `PacketsConserved`, `OnlyAllowedIsSent`, `OnlyRacesPanic`, `PacketSettles`, `CloseEndsGoroutines` |
| `ranges` | addresses 0 to 4, up to 3 ranges | `SortedNonOverlapping`, `CoveragePreserved`, `ContainsCorrect`, `SearchTerminates` |
| `lists` | 2 sources of which one is off, 1 save, 1 custom rule | `NoRequestLost`, `DatabaseIsWhole`, `FetchedIsBlocked`, `DatabaseHeals`, `SourcesTakeEffect` |
| `protection` | 3 pipelines, 2 handle values of which another may take one, 4 goroutines | `HandlesAccountedFor`, `ProtectionIsReal` |
| `logger` | 3 entries, channel of 2, ring of 2, subscriber's channel of 1, rotation check at every entry | `EverywhereInOrder`, `CloseDrains`, `KeepsTheLatest`, `WrittenIsKept`, `CloseReturns` |
| `window` | 4 configurations; with 2 of them protection is on or off from the start, with 2 toggles in window and tray, `Open` may fail; with the 2 others 3 clicks anywhere in window and tray, 2 updates | `IndicatorIsRight`, `ButtonComesBack`, `ToastsAreDue`, `QuitQuits` |
| `live` | 5 packets, ticks or clicks, 2 addresses, a log of 2 lines, a list of 3 blocked packets | `SamplesAreReal`, `LogsHeal`, `DialogSettles` |
| `settings` | 4 edits or orders, 3 views, 2 calls under way, 2 of 3 sources, writes may fail | `NoLostEdit`, `ViewsSettle` |
| `storage` | 2 lists, 2 attempts, 2 saves, 3 updates, 1 crash, writes may fail | `RestartKeepsConfig`, `UpdatesAreSafe`, `ListsSurviveOutages` |

The type invariants (`...TypeOK` in each module) belong to no run: all of them are theorems.

Every bound is a constant of the instance. They are chosen so that the rare case happens: rings that
wrap round and recycle the slot of a key that is still used, channels of one that are full, two workers
with a reload between any two of their steps, a list of ranges with an overlap, a touch and a gap, a
save at any point of an update and a second update after it, a failed rotation followed by another, two
toggles of the window, or of window and tray, against startup and refresh, a quit during a minimization,
a restart of the pipeline between two samples, one more event than the log holds lines, a save from each
view with a reset before and a tab switch in the middle, an update after the one that followed a crash.
The larger parameters of the real program (more workers, channels and rings of thousands) add copies of
these cases; for the properties listed under "What is proved" no bound hides anything.

Deadlock is not checked where the program may stop: after a close, a panic, or when the bounded
number of calls is used up.

What the passing runs assume of the rest of the system:

- `ranges`: `SafeSpec`, see above;
- `lists`: sources have different names, the window makes one `SaveConfig` call (`MaxSaves = 1`; the
  theorems hold for any number, overlapping), and the liveness and settled-state properties speak of
  behaviours in which the process does not panic;
- `protection`: toggles and switches come one at a time (`SerialCalls`); `pipeline` and `window`
  have no such assumption;
- `live`: the packets' protocols are TCP, UDP or ICMP (`Protocols`), and the forwarding goroutine keeps
  up with the log;
- `settings`: calls take effect in the order in which they are made, no button is pressed twice before
  its answer, none while a reset is under way, and no two sources have one name (`Calm`); the cache's ttl
  is a whole number of minutes (`StartTtl`), which is all the form can express;
- `storage`: the window and the updater do not save at the same time (`SerialSaves`), and a server that
  answers 200 answers with a list (`MayBeUseless`).

StrictMode, which runs effects twice, does so only in development builds and is not modelled.

### Where code and documentation disagree

One run checks what the CHANGELOG says, and finds a behaviour that violates it:

- `decision_race`, `CacheAgreesWithDatabase`: a worker that misses before a reload and calls
  `Set` after its `Clear` caches the old database's answer under the new version, which the CHANGELOG says
  cannot happen. It is served until its ttl.

The modules define further properties that the code does not have, among them what its comments and
documentation say of it. They are not runs of their own; to see the counterexample, check the property
alone in the configuration named here, with the change given, under the specification without fairness
(`CacheSpec` for the cache, `RangeSpec` for the ranges, `LiveSpec` for the live views, `Spec` elsewhere).

| Property | Configuration | What TLC finds |
|---|---|---|
| `FixedSize` | `MCDecisionCache` | address 0 is never evicted, the cache holds one entry too many |
| `EvictsOldest` | `MCDecisionCache`, `MaxSize = 3` | an address stored again is evicted when its older ring slot comes round |
| `ContainsCorrect` | `MCRangeDatabase`, `Inputs <- MCProperInputs` | a range that ends at the last address makes `End+1` wrap, a range inside it stays an element of its own, and the search misses addresses |
| `NeverPanics` | `MCPipeline` | two overlapping calls of `Close` both pass the check of `started`, and the second `close(p.done)` panics (`pipeline.go:74`: "Stop gracefully shuts down the pipeline") |
| `ClosedStaysDown` | `MCPipeline` | a `Close` between the assignment of `a.pipeline` and `Start` closes only the handle, and the pipeline then starts on it (`pipeline.go:52`: "Close shuts down the pipeline and closes the WinDivert handle") |
| `UpdaterHasTheList` | `MCListUpdate`, `MaxSaves = 2` | two overlapping saves hand their lists to the updater in the other order than they set the configuration; the updater keeps the earlier list until the next save (`updater.go:104`: "RefreshSources updates the source list (e.g. after config save)") |
| `DatabaseIsMerged` | `MCListUpdate`, `FirstLists <- MCFirstLists` | `SaveConfig` and `onReload` overwrite each other's database: a saved rule is not in force until the next update |
| `NoDiffForFailed` | `MCListUpdate`, `FirstLists <- MCFirstLists` | a source that fails now but was fetched before gets a diff; `updater.go:188` says it is skipped |
| `CountsAreTheirOwn` | `MCListUpdate`, `FirstLists <- MCFirstLists` | results are copied back by index into a list that has changed |
| `LastSyncStays` | `MCListUpdate`, `FirstLists <- MCFirstLists` | a view saves its old copy over the dates of an update |
| `CallbackSurvives` | `MCListUpdate`, `FirstLists <- MCFirstLists` | the callback's loop indexes a list that has become shorter |
| `FetchedIsBlocked` | `MCListUpdate`, `NewSources <- MCSameName`, `URLs <- MCURLs`, `FirstLists <- MCOneSource` | of two sources with one name only one is blocked once there is a custom rule |
| `NoPanic` | `MCProtection`, `Ops <- MCOpsNoTray` | `a.pipeline` becomes nil between its check and its use in `GetStats` |
| `NothingLeaks`, `OneHandle` | `MCProtection`, `SerialCalls = FALSE` | two starts at once leave a running pipeline nobody can close |
| `OthersKeepTheirHandles` | `MCProtection` | `Close` closes its handle value twice, the second time perhaps another's |
| `Reachable` | `MCWindow` | the tray's Quit is refused by `OnBeforeClose` and removes the icon all the same; a window hidden then cannot be reached (CHANGELOG.md:186 calls it a clean shutdown) |
| `BusyMeansBusy` | `MCWindow` | the event or the timer of an earlier update enables the button while a request waits |
| `IndicatorIsTrue` | `MCWindow` | refresh reads "off", startup starts protection and emits, refresh's answer is handled last: the window shows "off" until the next event; or two clicks, or a click and the tray, cross, or a start fails |
| `LogsInOrder` | `MCLive` | refresh's answer is older than entries that came as events: some are missing or in the log twice |
| `DialogIsRight` | `MCLive` | a lookup answered late fills the dialog of another address |
| `EveryBlockIsListed` | `MCLive`, `Protocols <- MCOther` | a protocol called `?` does not match `\w+`: the packet is in the log and not in the list |
| `NoLostEdit` | `MCSettings`, `Calm = FALSE` | a save overtakes another, or a view loads before the former view's save has taken effect |
| `NoLostEdit` | `MCSettings`, `StartTtl = 3` | a ttl of 90 seconds, written by hand, is rounded by any save of the form |
| `SavingMeansSaving` | `MCSettings` | the first of two saves that ends hides the message of the second |
| `LanguageIsSaved` | `MCSettings` | the language changes at once and is lost if the form is not saved |
| `ConfirmedOnce` | `MCSettings`, `Calm = FALSE` | the dialog stays open until the save is answered: a second click deletes the next source, or adds twice |
| `ConfigSurvives` | `MCStorage`, `MayFail = FALSE` | a crash inside a write: the next start works with the defaults |
| `FileIsWhole` | `MCStorage`, `MayFail = FALSE` | the same; the file stays cut off until the next save |
| `RestartKeepsConfig`, `FileIsWhole` | `MCStorage`, `MayFail = FALSE`, `MaxCrashes = 0`, `SerialSaves = FALSE` | two writers open and write the file at the same time |
| `UpdatesAreSafe` | `MCStorage`, `SerialSaves = FALSE` | the window writes the file between the updater's backup and the updater's save: the backup is of the configuration before |
| `DownloadedIsKept` | `MCStorage`; or `MayFail = FALSE`, `MayBeUseless = TRUE` | a copy that was cut off, or overwritten by an answer that is no list, is all there is in the next outage |

Seen while reading, and not stated as properties: `LookupBlockSource` ignores custom rules, so the dialog
of a packet they block is empty; a reset reported as failed has taken effect in memory; the reload after a
reset discards edits of the form; `SaveConfig` does not rebuild `a.allowlist`, and the object
`ResetAllowlist` makes is not the one the running pipeline uses.

## Fairness

- `BlockDecision`: a worker that has begun a decision goes on, a reloader that has cleared stores,
  time passes. Nobody is obliged to begin anything.
- `Pipeline`: every goroutine of the pipeline that can take a step does so in the end, as the Go
  scheduler runs them; WinDivert is not obliged to deliver packets, nobody is obliged to close.
- `RangeDatabase`: the loops go on.
- `ListUpdate`: the updater's goroutine (every fetch ends, the HTTP client has a timeout; the ticker
  fires) and a `SaveConfig` that was called go on. Requests, edits and the end are not obliged to come.
- `Logger`: `run` and the goroutine in `Close` go on; nothing is assumed of subscribers. Entries are
  finitely many: while others keep the channel from running empty, the drain, and `Close`, go on.

- `Window`: the window works through its messages, timers fire, `TriggerUpdate`, `QuitApp` and `Quit` go
  on. Nothing is assumed of the updater (it may never report) nor of the user.
- `Settings`: a call takes effect and is answered, and the answer handled: `SaveConfig` does local work
  only. The user may stop at any point.
- `Live` and `Storage` are checked for safety only: packets, downloads and crashes need not come.

Only weak fairness is used.

## What is proved

TLAPS checks these for every value of the constants, from the assumptions named in the modules
(`CacheAssumption`, `BlockAssumption`, `RangeAssumption`, `PipelineAssumption`, `ListAssumption`,
`StorageAssumption`, `ProtectionAssumption`, `WindowAssumption`, `RingAssumption`, `LoggerAssumption`,
`LiveAssumption`, `SettingsAssumption`). Where a theorem has a hypothesis of its
own, it is one that a run sets as well and without which the property is false; the table above then
has the counterexample.

- **DecisionProofs**, the cache. `CacheInv` is type correctness, `KeysInRing` and `TagsCountClears`: an
  entry's version is at most the cache's, and is the number of clears at the time its `Set` began.
  `ClearInvalidates` is not inductive without the last part, for it says nothing of entries of earlier
  versions and of calls on their way. `LenBounded` follows from `KeysInRing`, as the keys other than 0
  are the image of the ring's slots.
- **DecisionProofs**, the decision. `BlockInv` conjoins the cache's invariant with what each worker's locals
  mean at each step. A step of a worker is a step of the cache or leaves it alone, so the cache's lemmas
  are used again. `FilterImplemented` is the refinement: with `BlockInv` every step is a step of
  `Filter` or one that `Filter` does not see. It needs `NoInventedDecision` where `Get` answers and
  where `Set` ends, for there the judgement must be some installed database's.
- **DecisionProofs**, the ranges. `RangeInv` is the loop invariant of both loops: the part merged so far is
  sorted, disjoint and covers exactly the part of the input read so far; the searched address, if
  present, is between `lo` and `hi`. The assumption is that of `SafeSpec`: without it the theorem is
  false (`ContainsCorrect` in the table above).
- **PipelineProofs.** `PipelineInv` adds two parts to `OnlyAllowedIsSent`. `OneCopy`: of a packet that
  is not decided yet there is one copy, outside, in `recvLoop`'s hand, in `packetCh` or with one worker,
  so no two workers decide differently about it. `Filtered`: no impostor reaches a worker, and what is
  past a worker was allowed. Overlapping calls of `Close` may panic, but send nothing they should not.
  `PacketsAreConserved` is proved from a second invariant, `PlacesInv`, on top of it: the places of a
  packet exclude each other, a channel holds no packet twice, and a packet received is in some place,
  unless a worker that had allowed it left after `done` was closed. `OnlyRacingStopsPanic` is for any
  number of calls of `Close` at any time; `CloseInv` says that of the calls that are inside `Stop`, past
  its check of `started`, any two raced, and that once `done` is closed, all of them raced with one that
  is through: `started` is true until the first reset, and never again.
- **ListUpdateProofs.** `ListInv` is the type invariant with the shape of what it leaves open: which
  step a call is at, that a reference is to an array that exists, and that the results belong to the
  list of the round. `RequestsAreNeverLost` needs nothing more. `DatabasesAreWhole` needs `WholeInv`:
  what is stored, or computed and about to be stored, by the callback or by any of the saves, has the
  source part of one round's fetches. `FetchedSourcesAreBlocked` is about the moment after
  `onReload` has merged. Both have the hypothesis `OneURLPerName`: no two sources entered share a name
  and differ in address, for `a.sourceRanges` is a map by name; the dialog does not enforce it.
- **StorageProofs.** `LastInv` ties the history variable to the file. `SaveInv`, for one writer
  at a time (`SerialSaves`): the bytes on their way are the configuration in memory, a file that is open
  is the only broken one, and while an update's save is past its backup the backup is of the last whole
  file. `CopyInv` needs no such condition, for no save touches the copies of the lists: the
  copy of a list that was downloaded and written to its end is good, except while it is being written
  again, and then the bytes on their way are good; and what an update has passed, it has loaded. Its hypothesis
  is `~MayBeUseless`. The lists may be configured twice; the number of lists, attempts, crashes
  and updates is any.
- **ProtectionProofs.** `ProtectionTypeCorrect` holds however calls overlap; it is inductive with
  `LocalsSet`: a goroutine that works on the pipeline in its local has one. `HandlesStayAccountedFor`
  and `ProtectionIsNoLie` have the hypothesis `SerialCalls`, under which goroutines that only look still
  do so at any time, and other code of the process opens handles. `SerialInv` has four parts.
  `OwnerInv`: Windows and the program agree on whose a handle is. `CallInv`: one goroutine is busy at a
  time. `PhaseInv`: what that goroutine knows of `a.pipeline` at each step of `Close` and
  `startProtection` (for instance that at the second `WinDivertClose` the pipeline is dead, so that no
  pipeline's handle is closed by it). `DeadInv`: every other pipeline is closed, its goroutines told to
  end.
- **WindowProofs.** `NotificationsAreDue` counts: notifications sent, look-ups of the configuration under
  way and messages in the queue that may still end in a notification, together with the first event that
  gets none, are at most the updates that have ended (`ToastInv`). `IndicatorTellsTheTruth`
  has no hypothesis. Its invariant `ShowInv` follows the turns: who tells of the present turn tells the
  state that protection is in (`TellsInv`); if the window has not been told of it, a call that put
  protection on or off, or the first refresh, still has to (`PendingInv`); and when what was posted
  last is of the present turn, it sets that state, and when it has been handled the window shows it
  (`LastInv`). A start that fails is what makes this delicate: its turn is counted as missed, and
  refresh may still make it good.

- **LoggerProofs.** The ring first: `RingInv` says that the `count` used slots are those written last,
  counted back from `pos`, so `Last(n)`, a loop that skips unused slots, returns the newest of them. The
  loop is a recursive function, and `LastIs` shows for each number of turns what it has read so far; it
  gets its induction from `LeastElement` (no first turn is wrong), which follows from the library's
  well-foundedness of `<`. From this comes `RingKeepsTheLatest`, the refinement of `RecentLog`: an `Add`
  appends to what `Last(Size)` returns, and drops its head once the ring is full. For `Logger`,
  `FlowInv` says where every accepted entry is: handled, in `run`'s hand, or in the channel, in this
  order. `OrderInv` places the files and what each subscriber has got or will read within the part
  handled so far, by positions (`Within`): so each new entry comes behind all that are there. `CloseInv`
  says that `before` is an initial part of `accepted` and that `run` leaves only when the channel is
  empty and `done` closed.
- **ViewProofs**, the live views. Samples, log entries and answers share one queue, and what is handled
  next of a kind may have other messages before it: the invariants speak of messages of a kind that
  follow each other (`First`, `Follows`), and count what Go would send next as the last of them. `StatsInv`:
  each reading is at most the one before it and what was decided between them, a restart of the counters
  included. `LogInv`: entries in the queue are numbered one after the other from the one the window
  has not seen yet, and those that came since `logs` was replaced stand at its top, newest first.
  `DialogInv`: the dialog belongs to the last lookup of the view that is open, and as long as answers
  are in order, once the last one is heard, all are.
- **ViewProofs**, the configuration. `NoEditIsLost` has three hypotheses: `Calm`, a ttl that the form can show
  (an even `StartTtl`), and sources with different names. `SettingsInv` looks ahead: what the calls under
  way will make of `store` is `wanted` (`LeadsTo`: the last save that has not taken effect decides, and a
  reset behind it). `InLine`: calls have taken effect in order, there is one reset at most, and nothing
  is saved behind it or behind the loading of the mounted view. `CallInv` and `ViewInv`: the source
  view shows `wanted`; of the form, every field the user has not touched is parsed to what
  `wanted` has, except the lines while a reset is under way. The orders come one after the other because
  a view that is not loaded yet can order nothing.

Only model-checked is liveness, which is out of the prover's reach: `StaleDecisionsHeal`,
`CloseEndsGoroutines`, `PacketSettles`, `SearchTerminates`, `DatabaseHeals`, `SourcesTakeEffect`,
`CloseReturns`, `ButtonComesBack`, `QuitQuits` and `ViewsSettle`; and the counterexamples: that of the
run that violates, and those of the table of refuted properties. That `Filter` judges by a list that was in force recently is not stated (see the plan).

## Plan

Done, in the order of their importance for what the filter does: 1. `DecisionCache`,
2. `BlockDecision`, 3. `Pipeline`, 4. `RangeDatabase`, 5. `ListUpdate`, 6. `Protection`, 7. `RecentLog`,
`RingBuffer`, `Logger`, 8. `Window`, 9. `Live`, 10. `Settings`, 11. `Storage`,
and `Filter`, the abstract specification that `BlockDecision` implements.

12. the proofs: every type invariant, safety invariant and action property of the runs is a theorem.

Next:

13. A sharper `Filter`, in which a judgement is by a list that was in force at most a ttl and the
    length of one decision ago.

Not modelled, and not planned: the parsers and the two tables of translations (text conversion), the
resolution of domains by `core/allowlist.go` beyond its result (a DNS answer), driver set-up and
privileges, stubs for other operating systems, `LookupIP`, `GetDatabaseInfo` and `GetCacheInfo` (reads),
`runtime.js` (it forwards to Wails), and the layout: chart options, the footer's numbers, the uptime,
scrolling, the time range of the chart, the filter and the search of the log view.
