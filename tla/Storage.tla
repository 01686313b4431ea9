-------------------------------- MODULE Storage --------------------------------
(***************************************************************************)
(* What the program keeps on disk, and finds there when it is started      *)
(* again: the configuration file and its backups (config/persistence.go),  *)
(* written by the methods of the window and by the updater's callback      *)
(* (app.go), and the copy of every list (updater/fetcher.go), the last     *)
(* resort of an update.                                                    *)
(*                                                                         *)
(* A file is opened (and thereby emptied) and then written; the program    *)
(* may die between any two steps, also by being quit, as shutdown waits    *)
(* for nobody.  A file is Absent, Broken (empty, cut off or mixed up) or   *)
(* holds a value.                                                          *)
(***************************************************************************)
EXTENDS Integers, Sequences

CONSTANTS
  Lists,         \* the lists, all enabled: a sequence of names
  Absent, Broken,
  Good, Useless, \* what a server answers: a list, or something else
  Retries,       \* f.maxRetry
  MayFail,       \* TRUE: a write may fail
  MayBeUseless,  \* TRUE: a server may answer 200 with something that is no list
  SerialSaves,   \* TRUE: the window and the updater do not save at the same time
  MaxSaves,      \* bound: how often the window saves
  MaxUpdates,    \* bound: how many updates are begun
  MaxCrashes     \* bound: how often the program dies

ASSUME StorageAssumption ==
  /\ Lists # <<>> /\ Lists \in Seq({Lists[i] : i \in DOMAIN Lists})
  /\ Absent # Broken /\ {Absent, Broken} \cap [edit : Nat, sync : Nat] = {}
  /\ Good \notin {Absent, Broken, Useless}
  /\ Retries \in Nat \ {0}
  /\ MayFail \in BOOLEAN /\ MayBeUseless \in BOOLEAN /\ SerialSaves \in BOOLEAN
  /\ MaxSaves \in Nat /\ MaxUpdates \in Nat \ {0} /\ MaxCrashes \in Nat

VARIABLES
  cfg,      \* a.cfg: edit, what the user has set; sync, the last update in it
  file,     \* config.json
  backups,  \* history: the whole configurations among the backups
  save,     \* save[w]: where the Save of w is, and the bytes it will write
  edits,    \* history: how often the user has saved
  last,     \* history: the last whole configuration in config.json
  unsafe,   \* history: the updater could not make a backup for its save, or only of a
            \* file that was broken
  spoiled,  \* history: the last save has failed
  update,   \* the updater: where it is, the list, the attempt, the body
  loaded,   \* the lists whose bodies the update under way has parsed
  copy,     \* copy[l]: the cache file of l
  fetched,  \* history: the lists downloaded so far
  cut,      \* history: the lists whose copy was not written to its end
  round,    \* the number of updates begun
  crashes   \* the number of restarts

config == <<cfg, file, backups, edits, last, unsafe, spoiled>>
lists == <<loaded, copy, fetched, cut>>
vars == <<config, save, update, lists, round, crashes>>

Writers == {"window", "updater"}
Names == {Lists[i] : i \in DOMAIN Lists}
Defaults == [edit |-> 0, sync |-> 0]
Whole(f) == f \notin {Absent, Broken}

At(w) == save[w].pc
Rest == [pc |-> "rest", data |-> Defaults]
Fetching == [pc |-> "fetch", list |-> 1, attempt |-> 1, body |-> Absent]

\* Load, and startup when it fails.  (The language startup may fill in, it
\* fills in again each time.)
Startup(f) == IF Whole(f) THEN f ELSE Defaults

\* The first start: the updater begins with an update.
Init ==
  /\ cfg = Defaults /\ file = Absent /\ backups = {}
  /\ save = [w \in Writers |-> Rest]
  /\ edits = 0 /\ last = Absent /\ unsafe = FALSE /\ spoiled = FALSE
  /\ update = Fetching /\ loaded = {} /\ round = 1
  /\ copy = [l \in Names |-> Absent] /\ fetched = {} /\ cut = {}
  /\ crashes = 0

-----------------------------------------------------------------------------
\* Persistence.Save, one for each writer.

Goes(w, pc) == save' = [save EXCEPT ![w].pc = pc]

\* json.MarshalIndent reads a.cfg.
Marshal(w) ==
  /\ At(w) = "marshal"
  /\ save' = [save EXCEPT ![w] = [pc |-> "open", data |-> cfg]]
  /\ UNCHANGED <<config, update, lists, round, crashes>>

\* os.WriteFile opens the file, which empties it, ...
NotEmptied == file                                     \* mutant: without O_TRUNC
Emptied == Broken

OpenFile(w) ==
  /\ At(w) = "open" /\ Goes(w, "write")
  /\ file' = Emptied
  /\ UNCHANGED <<cfg, backups, edits, last, unsafe, spoiled, update, lists, round, crashes>>

\* ... and writes it from the beginning.  What somebody else has written since
\* may be longer, and its end stays.
WriteFile(w) ==
  /\ At(w) = "write" /\ Goes(w, "rest")
  /\ file' \in {save[w].data} \cup (IF Whole(file) THEN {Broken} ELSE {})
  /\ last' = IF Whole(file') THEN file' ELSE last
  /\ spoiled' = FALSE
  /\ UNCHANGED <<cfg, backups, edits, unsafe, update, lists, round, crashes>>

\* No directory, no file, or no room for its bytes.  Only the window is told.
SaveFails(w) ==
  /\ MayFail /\ At(w) \in {"marshal", "open", "write"} /\ Goes(w, "rest")
  /\ spoiled' = TRUE
  /\ UNCHANGED <<cfg, file, backups, edits, last, unsafe, update, lists, round, crashes>>

-----------------------------------------------------------------------------
\* The window: SaveConfig, and likewise ResetAllowlist.  The configuration it
\* sends back may have been read before the last updates.

AtRest == \A w \in Writers : At(w) = "rest"

SaveConfig ==
  /\ edits < MaxSaves /\ At("window") = "rest"
  /\ SerialSaves => AtRest
  /\ edits' = edits + 1
  /\ \E sync \in 0 .. cfg.sync : cfg' = [edit |-> edits + 1, sync |-> sync]
  /\ Goes("window", "marshal")
  /\ UNCHANGED <<file, backups, last, unsafe, spoiled, update, lists, round, crashes>>

-----------------------------------------------------------------------------
\* The updater.

List == Lists[update.list]

BeginUpdate ==
  /\ update.pc = "rest" /\ round < MaxUpdates
  /\ update' = Fetching /\ loaded' = {} /\ round' = round + 1
  /\ UNCHANGED <<config, save, copy, fetched, cut, crashes>>

\* Fetch: an attempt that succeeds is kept.
Download ==
  /\ update.pc = "fetch"
  /\ \E body \in {Good} \cup (IF MayBeUseless THEN {Useless} ELSE {}) :
       /\ update' = [update EXCEPT !.pc = "openCopy", !.body = body]
       /\ fetched' = IF body = Useless THEN fetched ELSE fetched \cup {List}
  /\ UNCHANGED <<config, save, loaded, copy, cut, round, crashes>>

\* The loop ends after maxRetry attempts.
AttemptFails ==
  /\ update.pc = "fetch"
  /\ update' = IF update.attempt < Retries THEN [update EXCEPT !.attempt = @ + 1]
                                           ELSE [update EXCEPT !.pc = "loadCopy"]
  /\ UNCHANGED <<config, save, lists, round, crashes>>

\* saveToCache, whose errors nobody sees.
OpenCopy ==
  /\ update.pc = "openCopy" /\ update' = [update EXCEPT !.pc = "writeCopy"]
  /\ copy' = [copy EXCEPT ![List] = Broken]
  /\ UNCHANGED <<config, save, loaded, fetched, cut, round, crashes>>

WriteCopy ==
  /\ update.pc = "writeCopy" /\ update' = [update EXCEPT !.pc = "parse"]
  /\ copy' = [copy EXCEPT ![List] = update.body]
  /\ cut' = cut \ {List}
  /\ UNCHANGED <<config, save, loaded, fetched, round, crashes>>

CopyFails ==
  /\ MayFail /\ update.pc \in {"openCopy", "writeCopy"}
  /\ update' = [update EXCEPT !.pc = "parse"]
  /\ cut' = cut \cup {List}
  /\ UNCHANGED <<config, save, loaded, copy, fetched, round, crashes>>

\* loadFromCache; without a file Fetch returns an error.
NoLastResort == [update EXCEPT !.pc = "parse", !.body = Absent]   \* mutant
LastResort == [update EXCEPT !.pc = "parse", !.body = copy[List]]

LoadCopy ==
  /\ update.pc = "loadCopy"
  /\ update' = LastResort
  /\ UNCHANGED <<config, save, lists, round, crashes>>

\* Parse, and the next list.  A list that was cut off may well be parsed.
Parse ==
  /\ update.pc = "parse"
  /\ loaded' = IF update.body \in {Absent, Broken, Useless} THEN loaded ELSE loaded \cup {List}
  /\ update' = IF update.list < Len(Lists) THEN [Fetching EXCEPT !.list = update.list + 1]
                                           ELSE [Fetching EXCEPT !.pc = "reload"]
  /\ UNCHANGED <<config, save, copy, fetched, cut, round, crashes>>

\* The sources of the updater are those of a.cfg: LastSync is set in both.
Reload ==
  /\ update.pc = "reload"
  /\ SerialSaves => AtRest
  /\ cfg' = IF loaded = {} THEN cfg ELSE [cfg EXCEPT !.sync = round]
  /\ update' = [update EXCEPT !.pc = "rest"]
  /\ Goes("updater", "backup")
  /\ UNCHANGED <<file, backups, edits, last, unsafe, spoiled, lists, round, crashes>>

\* Backup, and Save whether or not it succeeds.
SavesFirst == Goes("updater", "marshal") /\ UNCHANGED <<backups, unsafe>>   \* mutant
BacksUp ==
  /\ Goes("updater", "marshal")
  /\ \/ backups' = backups \cup ({file} \ {Absent, Broken}) /\ unsafe' = (file = Broken)
     \/ MayFail /\ unsafe' = TRUE /\ UNCHANGED backups

Backup ==
  /\ At("updater") = "backup"
  /\ BacksUp
  /\ UNCHANGED <<cfg, file, edits, last, spoiled, update, lists, round, crashes>>

-----------------------------------------------------------------------------
\* The program dies and is started again.

Restart ==
  /\ crashes < MaxCrashes /\ crashes' = crashes + 1
  /\ cfg' = Startup(file)
  /\ save' = [w \in Writers |-> Rest]
  /\ spoiled' = FALSE
  /\ round < MaxUpdates /\ round' = round + 1
  /\ update' = Fetching /\ loaded' = {}
  /\ cut' = IF update.pc \in {"openCopy", "writeCopy"} THEN cut \cup {List} ELSE cut
  /\ UNCHANGED <<file, backups, edits, last, unsafe, copy, fetched>>

Next ==
  \/ \E w \in Writers : Marshal(w) \/ OpenFile(w) \/ WriteFile(w) \/ SaveFails(w)
  \/ SaveConfig \/ BeginUpdate \/ Download \/ AttemptFails
  \/ OpenCopy \/ WriteCopy \/ CopyFails \/ LoadCopy \/ Parse
  \/ Reload \/ Backup \/ Restart

Spec == Init /\ [][Next]_vars

-----------------------------------------------------------------------------

Config == [edit : 0 .. MaxSaves, sync : 0 .. MaxUpdates]

\* Type invariant.
StorageTypeOK ==
  /\ cfg \in Config /\ {file, last} \subseteq Config \cup {Absent, Broken}
  /\ backups \subseteq Config
  /\ \A w \in Writers : At(w) \in {"rest", "backup", "marshal", "open", "write"}
                        /\ save[w].data \in Config
  /\ edits \in 0 .. MaxSaves /\ round \in 1 .. MaxUpdates /\ crashes \in 0 .. MaxCrashes
  /\ {unsafe, spoiled} \subseteq BOOLEAN
  /\ update.attempt \in 1 .. Retries /\ update.list \in DOMAIN Lists
  /\ loaded \cup fetched \cup cut \subseteq Names

\* The program can be restarted: when nobody is saving and the last save has
\* not failed, the next start finds the configuration this one works with, the
\* user's edits and the dates of the updates, although update and window save
\* from the same memory, and even if an earlier start died in a save.
RestartKeepsConfig ==
  AtRest /\ ~spoiled => Startup(file) = cfg

\* An update risks no configuration: as long as its save has not written the
\* file, even if the program dies in it, the last whole configuration is in a
\* backup, if a backup could be made of it.
UpdatesAreSafe ==
  At("updater") = "write" /\ ~unsafe /\ last # Absent => last \in backups

\* A list that was once downloaded is in every later database, whatever the
\* network does and however often the program is restarted, if its copy could
\* be written to its end.
ListsSurviveOutages == update.pc = "reload" => fetched \ cut \subseteq loaded

\* The configuration survives whatever happens to the program.
ConfigSurvives == AtRest => cfg.edit = edits

\* The file is whole unless it is just being written.
FileIsWhole == AtRest => file # Broken

\* A list that was in the last database is in the next.
DownloadedIsKept == update.pc = "reload" => fetched \subseteq loaded

=============================================================================
