------------------------------ MODULE StorageProofs ------------------------------
(***************************************************************************)
(* Proofs about Storage, for any number of lists, retries, saves, updates  *)
(* and crashes: type correctness, what a restart finds in the              *)
(* configuration file and its backups, and that a list once downloaded is  *)
(* in every later database.                                                *)
(***************************************************************************)
EXTENDS Storage, TLAPS

SavePCs == {"rest", "backup", "marshal", "open", "write"}
UpdatePCs == {"fetch", "openCopy", "writeCopy", "loadCopy", "parse", "reload", "rest"}
Bodies == {Absent, Broken, Good, Useless}

\* StorageTypeOK, and the shape of what it leaves open.
StorageType ==
  /\ StorageTypeOK
  /\ save \in [Writers -> [pc : SavePCs, data : Config]]
  /\ update \in [pc : UpdatePCs, list : DOMAIN Lists, attempt : 1 .. Retries, body : Bodies]
  /\ copy \in [Names -> Bodies]

\* The history last follows the file, whoever writes it.
LastInv ==
  /\ Whole(file) => last = file
  /\ file = Absent => last = Absent

\* With one writer at a time: the bytes on their way are those of the
\* configuration, and a backup is of the last whole file.
SaveInv ==
  /\ \A v, w \in Writers : At(v) # "rest" /\ At(w) # "rest" => v = w
  /\ \A w \in Writers : At(w) \in {"open", "write"} => save[w].data = cfg
  /\ \A w \in Writers : At(w) = "write" => file = Broken
  /\ At("updater") \in {"marshal", "open", "write"} /\ ~unsafe /\ last # Absent => last \in backups
  /\ RestartKeepsConfig

\* What has been downloaded and copied to the end.
Kept == fetched \ cut
InFlight == update.pc \in {"openCopy", "writeCopy"}
Past == {Lists[i] : i \in {j \in DOMAIN Lists : j < update.list}}

\* The copy of a kept list is good, but while it is being written, and the
\* lists this update has passed are loaded.
CopyInv ==
  /\ fetched \subseteq Names
  /\ \A l \in Kept : copy[l] = Good \/ (InFlight /\ l = List)
  /\ InFlight => update.body = Good
  /\ update.pc = "parse" /\ List \in Kept => update.body = Good
  /\ update.pc \notin {"reload", "rest"} => \A l \in Kept \cap Past : l \in loaded \/ l = List
  /\ ListsSurviveOutages

-----------------------------------------------------------------------------
\* Types

LEMMA TypeFacts ==
  /\ Defaults \in Config /\ Absent \notin Config /\ Broken \notin Config /\ Absent # Broken
  /\ DOMAIN Lists = 1 .. Len(Lists) /\ Len(Lists) \in Nat \ {0} /\ 1 \in DOMAIN Lists
  /\ Rest \in [pc : SavePCs, data : Config]
  /\ Fetching \in [pc : UpdatePCs, list : DOMAIN Lists, attempt : 1 .. Retries, body : Bodies]
<1>1. Defaults \in Config
  BY StorageAssumption DEF Defaults, Config
<1>2. Config \subseteq [edit : Nat, sync : Nat]
  BY StorageAssumption DEF Config
<1>3. DOMAIN Lists = 1 .. Len(Lists) /\ Len(Lists) \in Nat \ {0} /\ 1 \in DOMAIN Lists
  BY StorageAssumption
<1>4. 1 \in 1 .. Retries
  BY StorageAssumption
<1> QED  BY <1>1, <1>2, <1>3, <1>4, StorageAssumption DEF Rest, SavePCs, Fetching, UpdatePCs, Bodies

LEMMA InitStorage == Init => StorageType
<1> SUFFICES ASSUME Init PROVE StorageType  OBVIOUS
<1>1. save \in [Writers -> [pc : SavePCs, data : Config]] /\ \A w \in Writers : save[w] = Rest
  BY TypeFacts DEF Init
<1>2. update \in [pc : UpdatePCs, list : DOMAIN Lists, attempt : 1 .. Retries, body : Bodies]
  BY TypeFacts DEF Init
<1>3. copy \in [Names -> Bodies]
  BY DEF Init, Bodies
<1>4. 0 \in 0 .. MaxSaves /\ 1 \in 1 .. MaxUpdates /\ 0 \in 0 .. MaxCrashes
  BY StorageAssumption
<1>5. StorageTypeOK
  BY <1>1, <1>2, <1>4, TypeFacts DEF Init, StorageTypeOK, At, SavePCs
<1> QED  BY <1>1, <1>2, <1>3, <1>5 DEF StorageType

\* Persistence.Save.
LEMMA SaveTypes ==
  ASSUME StorageType, NEW w \in Writers, Marshal(w) \/ OpenFile(w) \/ WriteFile(w) \/ SaveFails(w)
  PROVE  StorageType'
<1>1. save[w] \in [pc : SavePCs, data : Config] /\ cfg \in Config
  BY DEF StorageType, StorageTypeOK
<1>2. save' \in [Writers -> [pc : SavePCs, data : Config]]
  <2>1. CASE Marshal(w)
    <3>1. [pc |-> "open", data |-> cfg] \in [pc : SavePCs, data : Config]
      BY <1>1 DEF SavePCs
    <3> QED  BY <2>1, <3>1 DEF Marshal, StorageType
  <2>2. CASE OpenFile(w) \/ WriteFile(w) \/ SaveFails(w)
    BY <2>2 DEF OpenFile, WriteFile, SaveFails, Goes, StorageType, SavePCs
  <2> QED  BY <2>1, <2>2
<1>3. \A v \in Writers : save'[v].pc \in SavePCs /\ save'[v].data \in Config
  BY <1>2
<1>4. /\ UNCHANGED <<cfg, backups, edits, unsafe, update, lists, round, crashes>>
      /\ {file', last'} \subseteq Config \cup {Absent, Broken}
      /\ spoiled' \in BOOLEAN
  BY <1>1 DEF Marshal, OpenFile, WriteFile, SaveFails, Emptied, config, StorageType, StorageTypeOK
<1> QED  BY <1>2, <1>3, <1>4 DEF StorageType, StorageTypeOK, At, SavePCs, lists

\* The window and the updater's save.
LEMMA ConfigTypes == ASSUME StorageType, SaveConfig \/ Reload \/ Backup PROVE StorageType'
<1>1. /\ cfg \in Config /\ edits \in 0 .. MaxSaves /\ round \in 1 .. MaxUpdates /\ file \in Config \cup {Absent, Broken}
      /\ MaxSaves \in Nat /\ MaxUpdates \in Nat
      /\ save \in [Writers -> [pc : SavePCs, data : Config]]
      /\ update \in [pc : UpdatePCs, list : DOMAIN Lists, attempt : 1 .. Retries, body : Bodies]
  BY StorageAssumption DEF StorageType, StorageTypeOK
<1>2. cfg.edit \in 0 .. MaxSaves /\ cfg.sync \in 0 .. MaxUpdates
  BY <1>1 DEF Config
<1>3. cfg' \in Config /\ edits' \in 0 .. MaxSaves
  <2>1. CASE SaveConfig
    <3>1. PICK s \in 0 .. cfg.sync : cfg' = [edit |-> edits + 1, sync |-> s]
      BY <2>1 DEF SaveConfig
    <3>2. s \in 0 .. MaxUpdates /\ edits + 1 \in 0 .. MaxSaves
      BY <1>1, <1>2, <2>1 DEF SaveConfig
    <3> QED  BY <2>1, <3>1, <3>2 DEF SaveConfig, Config
  <2>2. CASE Reload
    <3>1. round \in 0 .. MaxUpdates
      BY <1>1
    <3> QED  BY <1>1, <2>2, <3>1 DEF Reload, Config
  <2>3. CASE Backup
    BY <1>1, <2>3 DEF Backup
  <2> QED  BY <2>1, <2>2, <2>3
<1>4. save' \in [Writers -> [pc : SavePCs, data : Config]]
  BY <1>1 DEF SaveConfig, Reload, Backup, BacksUp, Goes, SavePCs
<1>5. \A v \in Writers : save'[v].pc \in SavePCs /\ save'[v].data \in Config
  BY <1>4
<1>6. update' \in [pc : UpdatePCs, list : DOMAIN Lists, attempt : 1 .. Retries, body : Bodies]
  BY <1>1 DEF SaveConfig, Reload, Backup, UpdatePCs
<1>7. backups' \subseteq Config /\ unsafe' \in BOOLEAN
  BY <1>1 DEF SaveConfig, Reload, Backup, BacksUp, StorageType, StorageTypeOK
<1>8. UNCHANGED <<file, last, spoiled, lists, round, crashes>>
  BY DEF SaveConfig, Reload, Backup
<1> QED
  BY <1>3, <1>4, <1>5, <1>6, <1>7, <1>8 DEF StorageType, StorageTypeOK, At, SavePCs, lists

\* The updater's downloads.
LEMMA ListTypes ==
  ASSUME StorageType,
         BeginUpdate \/ Download \/ AttemptFails \/ OpenCopy \/ WriteCopy \/ CopyFails \/ LoadCopy \/ Parse
  PROVE  StorageType'
<1>1. /\ update \in [pc : UpdatePCs, list : DOMAIN Lists, attempt : 1 .. Retries, body : Bodies]
      /\ copy \in [Names -> Bodies] /\ List \in Names /\ round \in 1 .. MaxUpdates
      /\ loaded \cup fetched \cup cut \subseteq Names
      /\ Retries \in Nat /\ MaxUpdates \in Nat
  BY StorageAssumption DEF StorageType, StorageTypeOK, List, Names
<1>2. update' \in [pc : UpdatePCs, list : DOMAIN Lists, attempt : 1 .. Retries, body : Bodies]
  <2>1. CASE BeginUpdate
    BY <2>1, TypeFacts DEF BeginUpdate
  <2>2. CASE AttemptFails
    <3>1. update.attempt < Retries => update.attempt + 1 \in 1 .. Retries
      BY <1>1
    <3> QED  BY <1>1, <2>2, <3>1 DEF AttemptFails, UpdatePCs
  <2>3. CASE Parse
    <3>1. update.list < Len(Lists) => update.list + 1 \in DOMAIN Lists
      BY <1>1, TypeFacts
    <3> QED  BY <2>3, <3>1, TypeFacts DEF Parse, UpdatePCs
  <2>4. CASE Download \/ OpenCopy \/ WriteCopy \/ CopyFails
    BY <1>1, <2>4 DEF Download, OpenCopy, WriteCopy, CopyFails, UpdatePCs, Bodies
  <2>5. CASE LoadCopy
    BY <1>1, <2>5 DEF LoadCopy, LastResort, UpdatePCs
  <2> QED  BY <2>1, <2>2, <2>3, <2>4, <2>5
<1>3. copy' \in [Names -> Bodies]
  BY <1>1 DEF BeginUpdate, Download, AttemptFails, OpenCopy, WriteCopy, CopyFails, LoadCopy, Parse,
     Bodies, lists
<1>4. loaded' \cup fetched' \cup cut' \subseteq Names
  BY <1>1 DEF BeginUpdate, Download, AttemptFails, OpenCopy, WriteCopy, CopyFails, LoadCopy, Parse, lists
<1>5. round' \in 1 .. MaxUpdates
  <2>1. round < MaxUpdates => round + 1 \in 1 .. MaxUpdates
    BY <1>1
  <2>2. round' = round \/ (round < MaxUpdates /\ round' = round + 1)
    BY DEF BeginUpdate, Download, AttemptFails, OpenCopy, WriteCopy, CopyFails, LoadCopy, Parse
  <2> QED  BY <1>1, <2>1, <2>2
<1>6. UNCHANGED <<config, save, crashes>>
  BY DEF BeginUpdate, Download, AttemptFails, OpenCopy, WriteCopy, CopyFails, LoadCopy, Parse
<1>7. update'.attempt \in 1 .. Retries /\ update'.list \in DOMAIN Lists
  BY <1>2
<1> QED
  BY <1>2, <1>3, <1>4, <1>5, <1>6, <1>7 DEF StorageType, StorageTypeOK, At, config

LEMMA RestartTypes == ASSUME StorageType, Restart PROVE StorageType'
<1>1. /\ file \in Config \cup {Absent, Broken} /\ MaxUpdates \in Nat /\ MaxCrashes \in Nat
      /\ round \in 1 .. MaxUpdates /\ crashes \in 0 .. MaxCrashes /\ List \in Names
  BY StorageAssumption DEF StorageType, StorageTypeOK, List, Names
<1>2. cfg' \in Config
  BY <1>1, TypeFacts DEF Restart, Startup, Whole
<1>3. save' \in [Writers -> [pc : SavePCs, data : Config]] /\ \A w \in Writers : save'[w] = Rest
  BY TypeFacts DEF Restart
<1>4. /\ update' = Fetching
      /\ update' \in [pc : UpdatePCs, list : DOMAIN Lists, attempt : 1 .. Retries, body : Bodies]
  BY TypeFacts DEF Restart
<1>5. round' \in 1 .. MaxUpdates /\ crashes' \in 0 .. MaxCrashes
  BY <1>1 DEF Restart
<1>6. loaded' \cup fetched' \cup cut' \subseteq Names
  BY <1>1 DEF Restart, StorageType, StorageTypeOK
<1>7. spoiled' \in BOOLEAN /\ UNCHANGED <<file, backups, edits, last, unsafe, copy>>
  BY DEF Restart
<1>8. update'.attempt \in 1 .. Retries /\ update'.list \in DOMAIN Lists
  BY <1>4
<1>9. \A w \in Writers : save'[w].pc \in SavePCs /\ save'[w].data \in Config
  BY <1>3
<1> QED
  BY <1>2, <1>3, <1>4, <1>5, <1>6, <1>7, <1>8, <1>9
  DEF StorageType, StorageTypeOK, At, SavePCs

LEMMA StorageTypeInvariance == Spec => []StorageType
<1>1. StorageType /\ [Next]_vars => StorageType'
  <2> SUFFICES ASSUME StorageType, [Next]_vars PROVE StorageType'  OBVIOUS
  <2>1. CASE UNCHANGED vars
    BY <2>1 DEF StorageType, StorageTypeOK, At, vars, config, lists
  <2> QED  BY <2>1, SaveTypes, ConfigTypes, ListTypes, RestartTypes DEF Next
<1> QED  BY <1>1, InitStorage, PTL DEF Spec

\* Type correctness, across any number of crashes.
THEOREM StorageTypeCorrect == Spec => []StorageTypeOK
<1>1. StorageType => StorageTypeOK
  BY DEF StorageType
<1> QED  BY <1>1, StorageTypeInvariance, PTL

-----------------------------------------------------------------------------
\* The file

\* What has nothing to do with the file and its writers.
Elsewhere == UNCHANGED <<config, save>>

LEMMA ElsewhereFacts ==
  /\ BeginUpdate \/ Download \/ AttemptFails \/ OpenCopy \/ WriteCopy \/ CopyFails \/ LoadCopy \/ Parse
       => Elsewhere
  /\ UNCHANGED vars => Elsewhere
  BY DEF Elsewhere, vars, BeginUpdate, Download, AttemptFails, OpenCopy, WriteCopy, CopyFails, LoadCopy, Parse

LEMMA LastInvariance == Spec => []LastInv
<1>1. Init => LastInv
  BY TypeFacts DEF Init, LastInv, Whole
<1>2. StorageType /\ LastInv /\ [Next]_vars => LastInv'
  <2> SUFFICES ASSUME StorageType, LastInv, [Next]_vars PROVE LastInv'  OBVIOUS
  <2>1. CASE \E w \in Writers : OpenFile(w) \/ WriteFile(w)
    <3>1. \A w \in Writers : save[w].data \in Config
      BY DEF StorageType
    <3> QED  BY <2>1, <3>1, TypeFacts DEF OpenFile, WriteFile, Emptied, LastInv, Whole
  <2>2. CASE SaveConfig \/ Reload \/ Backup \/ Restart \/ \E w \in Writers : Marshal(w) \/ SaveFails(w)
    BY <2>2 DEF SaveConfig, Reload, Backup, Restart, Marshal, SaveFails, config, LastInv
  <2>3. CASE Elsewhere
    BY <2>3 DEF Elsewhere, config, LastInv
  <2> QED  BY <2>1, <2>2, <2>3, ElsewhereFacts DEF Next
<1> QED  BY <1>1, <1>2, StorageTypeInvariance, PTL DEF Spec

LEMMA SaveStep ==
  ASSUME SerialSaves, StorageType, LastInv, SaveInv, Next \/ UNCHANGED vars  PROVE SaveInv'
<1>1. save \in [Writers -> [pc : SavePCs, data : Config]] /\ Writers = {"window", "updater"}
  BY DEF StorageType, Writers
<1>2. ASSUME NEW w \in Writers, Marshal(w)  PROVE SaveInv'
  BY <1>1, <1>2 DEF SaveInv, Marshal, At, AtRest, RestartKeepsConfig, config
<1>3. ASSUME NEW w \in Writers, OpenFile(w)  PROVE SaveInv'
  BY <1>1, <1>3 DEF SaveInv, OpenFile, Goes, Emptied, At, AtRest, RestartKeepsConfig
<1>4. ASSUME NEW w \in Writers, WriteFile(w)  PROVE SaveInv'
  <2>1. save[w].data = cfg /\ file = Broken /\ cfg \in Config /\ \A v \in Writers : v # w => At(v) = "rest"
    BY <1>4 DEF SaveInv, WriteFile, At, StorageType, StorageTypeOK
  <2>2. file' = cfg /\ Whole(file') /\ Startup(file') = cfg /\ UNCHANGED <<cfg, backups, unsafe>>
    BY <1>4, <2>1, TypeFacts DEF WriteFile, Whole, Startup
  <2>3. \A v \in Writers : save'[v].pc = "rest"
    BY <1>1, <1>4, <2>1 DEF WriteFile, Goes, At
  <2> QED  BY <2>2, <2>3, <1>1 DEF SaveInv, At, RestartKeepsConfig
<1>5. ASSUME NEW w \in Writers, SaveFails(w)  PROVE SaveInv'
  BY <1>1, <1>5 DEF SaveInv, SaveFails, Goes, At, AtRest, RestartKeepsConfig
<1>6. CASE SaveConfig
  <2>1. \A v \in Writers : save[v].pc = "rest"
    BY <1>6 DEF SaveConfig, AtRest, At
  <2>2. save'["window"].pc = "marshal" /\ save'["updater"] = save["updater"]
    BY <1>1, <1>6 DEF SaveConfig, Goes
  <2> QED  BY <1>1, <2>1, <2>2 DEF SaveInv, At, AtRest, RestartKeepsConfig
<1>7. CASE Reload
  <2>1. \A v \in Writers : save[v].pc = "rest"
    BY <1>7 DEF Reload, AtRest, At
  <2>2. save'["updater"].pc = "backup" /\ save'["window"] = save["window"]
    BY <1>1, <1>7 DEF Reload, Goes
  <2> QED  BY <1>1, <2>1, <2>2 DEF SaveInv, At, AtRest, RestartKeepsConfig
<1>8. CASE Backup
  <2>1. /\ save'["updater"].pc = "marshal" /\ save'["window"] = save["window"]
        /\ save["updater"].pc = "backup" /\ UNCHANGED <<file, last, cfg, spoiled>>
    BY <1>1, <1>8 DEF Backup, BacksUp, Goes, At
  <2>2. ~unsafe' /\ last # Absent => last \in backups'
    BY <1>8 DEF Backup, BacksUp, LastInv, Whole
  <2> QED  BY <1>1, <2>1, <2>2 DEF SaveInv, At, AtRest, RestartKeepsConfig
<1>9. CASE Restart
  <2>1. (\A w \in Writers : save'[w].pc = "rest") /\ cfg' = Startup(file) /\ file' = file
    BY <1>9 DEF Restart, Rest
  <2> QED  BY <1>1, <2>1 DEF SaveInv, At, RestartKeepsConfig, Startup
<1>10. CASE Elsewhere
  BY <1>10 DEF Elsewhere, config, SaveInv, At, AtRest, RestartKeepsConfig
<1> QED
  BY <1>2, <1>3, <1>4, <1>5, <1>6, <1>7, <1>8, <1>9, <1>10, ElsewhereFacts DEF Next

LEMMA SaveInvariance == SerialSaves => (Spec => []SaveInv)
<1> SUFFICES ASSUME SerialSaves PROVE Spec => []SaveInv  OBVIOUS
<1>1. Init => SaveInv
  BY DEF Init, Rest, SaveInv, At, RestartKeepsConfig, Startup, Whole, Writers
<1>2. StorageType /\ LastInv /\ SaveInv /\ [Next]_vars => SaveInv'
  BY SaveStep
<1> QED  BY <1>1, <1>2, StorageTypeInvariance, LastInvariance, PTL DEF Spec

\* When the window and the updater do not save at the same time, a restart
\* after the last save has ended well changes nothing.
THEOREM RestartsKeepConfig == SerialSaves => (Spec => []RestartKeepsConfig)
<1> SUFFICES ASSUME SerialSaves PROVE Spec => []RestartKeepsConfig  OBVIOUS
<1>1. SaveInv => RestartKeepsConfig
  BY DEF SaveInv
<1> QED  BY <1>1, SaveInvariance, PTL

\* Under the same condition Persistence.Backup has what the updater's Save
\* puts at risk.
THEOREM UpdatesRiskNothing == SerialSaves => (Spec => []UpdatesAreSafe)
<1> SUFFICES ASSUME SerialSaves PROVE Spec => []UpdatesAreSafe  OBVIOUS
<1>1. SaveInv => UpdatesAreSafe
  BY DEF SaveInv, UpdatesAreSafe
<1> QED  BY <1>1, SaveInvariance, PTL

-----------------------------------------------------------------------------
\* The copies of the lists

LEMMA CopyStep ==
  ASSUME ~MayBeUseless, StorageType, CopyInv, Next \/ UNCHANGED vars  PROVE CopyInv'
<1>1. /\ update \in [pc : UpdatePCs, list : DOMAIN Lists, attempt : 1 .. Retries, body : Bodies]
      /\ copy \in [Names -> Bodies] /\ List \in Names
      /\ DOMAIN Lists = 1 .. Len(Lists) /\ Len(Lists) \in Nat \ {0}
      /\ update.list \in 1 .. Len(Lists)
  BY TypeFacts DEF StorageType, List, Names
<1>2. CASE BeginUpdate
  <2>1. /\ update.pc = "rest" /\ update'.pc = "fetch" /\ update'.list = 1
        /\ UNCHANGED <<copy, fetched, cut>>
    BY <1>2 DEF BeginUpdate, Fetching
  <2>2. Past' = {} /\ Kept' = Kept
    BY <1>1, <2>1 DEF Past, Kept
  <2> QED  BY <2>1, <2>2 DEF CopyInv, InFlight, ListsSurviveOutages
<1>3. CASE Download
  <2>1. /\ update.pc = "fetch" /\ update'.pc = "openCopy" /\ update'.list = update.list
        /\ update'.body = Good /\ fetched' = fetched \cup {List}
        /\ UNCHANGED <<loaded, copy, cut>>
    BY <1>1, <1>3, StorageAssumption DEF Download
  <2>2. Kept' \subseteq Kept \cup {List} /\ List' = List /\ Past' = Past
    BY <2>1 DEF Kept, List, Past
  <2> QED  BY <1>1, <2>1, <2>2 DEF CopyInv, InFlight, ListsSurviveOutages
<1>4. CASE AttemptFails
  <2>1. /\ update.pc = "fetch" /\ update'.pc \in {"fetch", "loadCopy"} /\ update'.list = update.list
        /\ UNCHANGED <<loaded, copy, fetched, cut>>
    BY <1>1, <1>4 DEF AttemptFails, lists
  <2>2. Kept' = Kept /\ List' = List /\ Past' = Past
    BY <2>1 DEF Kept, List, Past
  <2> QED  BY <2>1, <2>2 DEF CopyInv, InFlight, ListsSurviveOutages
<1>5. CASE OpenCopy
  <2>1. /\ update.pc = "openCopy" /\ update'.pc = "writeCopy" /\ update'.list = update.list
        /\ update'.body = update.body /\ \A l \in Names : l # List => copy'[l] = copy[l]
        /\ UNCHANGED <<loaded, fetched, cut>>
    BY <1>1, <1>5 DEF OpenCopy
  <2>2. Kept' = Kept /\ List' = List /\ Past' = Past /\ (fetched \subseteq Names => Kept \subseteq Names)
    BY <2>1 DEF Kept, List, Past
  <2> QED  BY <2>1, <2>2 DEF CopyInv, InFlight, ListsSurviveOutages
<1>6. CASE WriteCopy
  <2>1. /\ update.pc = "writeCopy" /\ update'.pc = "parse" /\ update'.list = update.list
        /\ update'.body = update.body /\ copy'[List] = update.body
        /\ \A l \in Names : l # List => copy'[l] = copy[l]
        /\ cut' = cut \ {List}
        /\ UNCHANGED <<loaded, fetched>>
    BY <1>1, <1>6 DEF WriteCopy
  <2>2. Kept' \subseteq Kept \cup {List} /\ List' = List /\ Past' = Past
        /\ (fetched \subseteq Names => Kept \subseteq Names)
    BY <2>1 DEF Kept, List, Past
  <2> QED  BY <2>1, <2>2 DEF CopyInv, InFlight, ListsSurviveOutages
<1>7. CASE CopyFails
  <2>1. /\ update.pc \in {"openCopy", "writeCopy"} /\ update'.pc = "parse" /\ update'.list = update.list
        /\ cut' = cut \cup {List}
        /\ UNCHANGED <<loaded, copy, fetched>>
    BY <1>1, <1>7 DEF CopyFails
  <2>2. Kept' = Kept \ {List} /\ List' = List /\ Past' = Past
    BY <2>1 DEF Kept, List, Past
  <2> QED  BY <2>1, <2>2 DEF CopyInv, InFlight, ListsSurviveOutages
<1>8. CASE LoadCopy
  <2>1. /\ update.pc = "loadCopy" /\ update'.pc = "parse" /\ update'.list = update.list
        /\ update'.body = copy[List]
        /\ UNCHANGED <<loaded, copy, fetched, cut>>
    BY <1>1, <1>8 DEF LoadCopy, LastResort, lists
  <2>2. Kept' = Kept /\ List' = List /\ Past' = Past
    BY <2>1 DEF Kept, List, Past
  <2> QED  BY <2>1, <2>2 DEF CopyInv, InFlight, ListsSurviveOutages
<1>9. CASE Parse
  <2>1. /\ update.pc = "parse" /\ UNCHANGED <<copy, fetched, cut>>
        /\ loaded \subseteq loaded' /\ (List \in Kept => List \in loaded')
    BY <1>9, StorageAssumption DEF Parse, CopyInv
  <2>2. Kept' = Kept /\ Kept \subseteq Names /\ \A l \in Kept \cap Past : l \in loaded'
    BY <2>1 DEF CopyInv, Kept
  <2>3. \A l \in Kept : copy'[l] = Good
    BY <2>1 DEF CopyInv, InFlight
  <2>4. CASE update.list < Len(Lists)
    <3>1. update'.pc = "fetch" /\ update'.list = update.list + 1
      BY <1>9, <2>4 DEF Parse, Fetching
    <3>2. Past' = Past \cup {List}
      BY <1>1, <2>4, <3>1 DEF Past, List
    <3> QED  BY <2>1, <2>2, <2>3, <3>1, <3>2 DEF CopyInv, InFlight, ListsSurviveOutages
  <2>5. CASE ~(update.list < Len(Lists))
    <3>1. update'.pc = "reload"
      BY <1>9, <2>5 DEF Parse, Fetching
    <3>2. Names = Past \cup {List}
      BY <1>1, <2>5 DEF Past, List, Names
    <3>3. Kept \subseteq loaded'
      BY <2>1, <2>2, <3>2
    <3> QED  BY <2>1, <2>2, <2>3, <3>1, <3>3 DEF CopyInv, InFlight, ListsSurviveOutages, Kept
  <2> QED  BY <2>4, <2>5
<1>10. CASE Reload
  <2>1. update.pc = "reload" /\ update'.pc = "rest" /\ UNCHANGED <<loaded, copy, fetched, cut>>
    BY <1>1, <1>10 DEF Reload, lists
  <2>2. Kept' = Kept
    BY <2>1 DEF Kept
  <2> QED  BY <2>1, <2>2 DEF CopyInv, InFlight, ListsSurviveOutages
<1>11. CASE Restart
  <2>1. /\ update'.pc = "fetch" /\ update'.list = 1 /\ cut' = IF InFlight THEN cut \cup {List} ELSE cut
        /\ UNCHANGED <<copy, fetched>>
    BY <1>11 DEF Restart, Fetching, InFlight
  <2>2. Past' = {} /\ \A l \in Kept' : l \in Kept /\ ~(InFlight /\ l = List)
    BY <1>1, <2>1 DEF Past, Kept
  <2> QED  BY <2>1, <2>2 DEF CopyInv, InFlight, ListsSurviveOutages
<1>12. CASE SaveConfig \/ Backup \/ UNCHANGED vars
            \/ \E w \in Writers : Marshal(w) \/ OpenFile(w) \/ WriteFile(w) \/ SaveFails(w)
  <2>1. UNCHANGED <<update, lists>>
    BY <1>12 DEF SaveConfig, Backup, vars, Marshal, OpenFile, WriteFile, SaveFails
  <2> QED  BY <2>1 DEF CopyInv, Kept, InFlight, Past, List, ListsSurviveOutages, lists
<1> QED
  BY <1>2, <1>3, <1>4, <1>5, <1>6, <1>7, <1>8, <1>9, <1>10, <1>11, <1>12 DEF Next

\* A list that was downloaded once, and whose copy was written to its end, is
\* in the result of every later update, through outages and restarts, if a
\* server that answers 200 answers with a list.  Overlapping saves play no part.
THEOREM ListsAreKept == ~MayBeUseless => (Spec => []ListsSurviveOutages)
<1> SUFFICES ASSUME ~MayBeUseless PROVE Spec => []ListsSurviveOutages  OBVIOUS
<1>1. Init => CopyInv
  BY DEF Init, Fetching, CopyInv, Kept, InFlight, ListsSurviveOutages
<1>2. StorageType /\ CopyInv /\ [Next]_vars => CopyInv'
  BY CopyStep
<1>3. CopyInv => ListsSurviveOutages
  BY DEF CopyInv
<1> QED  BY <1>1, <1>2, <1>3, StorageTypeInvariance, PTL DEF Spec

=============================================================================
