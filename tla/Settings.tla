------------------------------- MODULE Settings -------------------------------
(***************************************************************************)
(* The configuration as the window edits it: SettingsView.tsx,             *)
(* SourcesView.tsx and AddSourceDialog.tsx, the constructors of models.ts, *)
(* the language of i18n/index.tsx, and GetConfig, SaveConfig and           *)
(* ResetAllowlist of app.go.                                               *)
(*                                                                         *)
(* A view loads its own copy of the configuration when it is mounted, and  *)
(* a save sends the whole copy back.  A call is a goroutine of its own     *)
(* that takes effect at one point; what follows the await is the handling  *)
(* of its answer, which does nothing when its view has been left.          *)
(*                                                                         *)
(* ttl stands for the numbers of the form (counted in half minutes, shown  *)
(* in minutes), lines for its two text areas, language for the fields that *)
(* are saved as they are shown.  The messages "saved" and "error", which   *)
(* timers hide, change nothing else and are left out.                      *)
(***************************************************************************)
EXTENDS Integers, Sequences, SequencesExt

CONSTANTS
  Names,         \* names of sources
  StartSources,  \* the sources at the start
  Lines,         \* lines of the allowlist
  Comment,       \* a line that begins with # or is blank
  DefaultLines,  \* the allowlist of config.Defaults
  Languages,     \* "pl" and "en"
  StartLanguages,\* the languages the program may start with
  Minutes,       \* what the user types into a number field
  StartTtl,      \* cache_ttl at the start
  MayFail,       \* TRUE: the configuration file may not be writable
  Calm,          \* TRUE: calls take effect in the order in which they are made,
                 \* and a button is not pressed twice, nor any during a reset
  MaxActs,       \* bound: what the user does to the configuration
  MaxCalls,      \* bound: the calls under way
  MaxViews       \* bound: how many views are opened

Source == [name : Names, enabled : BOOLEAN]
Fields == {"ttl", "lines", "language"}

ASSUME SettingsAssumption ==
  /\ StartSources \in Seq(Source) /\ DefaultLines \subseteq Lines
  /\ Comment \notin Lines /\ Minutes \subseteq Nat /\ StartTtl \in Nat
  /\ "en" \in Languages /\ StartLanguages \subseteq Languages
  /\ MayFail \in BOOLEAN /\ Calm \in BOOLEAN
  /\ MaxActs \in Nat /\ MaxCalls \in Nat \ {0} /\ MaxViews \in Nat

VARIABLES
  store,     \* a.cfg
  wanted,    \* history: the configuration as the user has ordered it
  calls,     \* the calls under way, in the order in which they were made
  view,      \* the view that is mounted, and its states
  language,  \* lang of the I18nProvider
  acts       \* the number of orders so far

vars == <<store, wanted, calls, view, language, acts>>

-----------------------------------------------------------------------------
\* models.ts: the fields the generated classes copy.

NewSource(s) == [name |-> s.name, enabled |-> s.enabled]

NewConfig(c) ==
  [sources |-> [i \in DOMAIN c.sources |-> NewSource(c.sources[i])],
   ttl |-> c.ttl, lines |-> c.lines, language |-> c.language]

\* The form of SettingsView.

\* Math.round(ns / 60000000000)
Rounded(ttl) == (ttl + 1) \div 2

Loaded(c) == [ttl |-> Rounded(c.ttl), lines |-> c.lines, language |-> c.language]

\* parseInt and the check of the range: 0 stands for whatever is refused.
Valid(form) == form.ttl >= 1

Parsed(form) == [ttl |-> 2 * form.ttl, lines |-> form.lines \ {Comment},
                 language |-> form.language]

\* { ...cfg, allowlist, ..., custom_rules }
FromForm(c, form) ==
  NewConfig([sources |-> c.sources, ttl |-> Parsed(form).ttl,
             lines |-> Parsed(form).lines, language |-> form.language])

-----------------------------------------------------------------------------

NoForm == [ttl |-> 0, lines |-> {}, language |-> "en"]
Fresh(id, kind) ==
  [id |-> id, kind |-> kind, cfg |-> <<>>, form |-> NoForm, touched |-> {},
   saving |-> FALSE, adding |-> FALSE, deleting |-> 0]

Shown == view.cfg # <<>>
Cfg == view.cfg[1]

\* A call: what it asks for, the view that made it, whether it has taken effect,
\* and then what its handler needs.
Call(kind, id, arg, next) ==
  [kind |-> kind, view |-> id, arg |-> arg, next |-> next, done |-> FALSE, ok |-> TRUE]

Ask(c) == Len(calls) < MaxCalls /\ calls' = Append(calls, c)
Answered(k) == calls' = RemoveAt(calls, k)
Busy(kind) == \E k \in DOMAIN calls : calls[k].kind = kind \/ calls[k].next = kind
Order == acts < MaxActs /\ acts' = acts + 1 /\ (Calm => ~Busy("reset"))

\* The program has a language by then; the window asks for it once.
Init ==
  /\ store \in {[sources |-> StartSources, ttl |-> StartTtl, lines |-> DefaultLines,
                 language |-> l] : l \in StartLanguages}
  /\ wanted = store
  /\ calls = <<Call("get", 0, store, "startup")>>
  /\ view = Fresh(0, "none") /\ language = "en" /\ acts = 0

\* A tab is selected: the former view is gone, the new one calls GetConfig.
OpenTab(kind) ==
  /\ view.id < MaxViews /\ kind # view.kind
  /\ view' = Fresh(view.id + 1, kind)
  /\ IF kind = "none" THEN UNCHANGED calls
                      ELSE Ask(Call("get", view.id + 1, store, "load"))
  /\ UNCHANGED <<store, wanted, language, acts>>

-----------------------------------------------------------------------------
\* The Go side: GetConfig, SaveConfig and ResetAllowlist.

InTurn(k) == Calm => \A j \in 1 .. k - 1 : calls[j].done

GetConfig(k) ==
  /\ calls[k].kind = "get" /\ ~calls[k].done /\ InTurn(k)
  /\ calls' = [calls EXCEPT ![k].done = TRUE, ![k].arg = store]
  /\ UNCHANGED <<store, wanted, view, language, acts>>

\* a.cfg has changed even if writing the file fails.
Finishes(k) ==
  \E ok \in (IF MayFail THEN BOOLEAN ELSE {TRUE}) :
    calls' = [calls EXCEPT ![k].done = TRUE, ![k].ok = ok]

SaveConfig(k) ==
  /\ calls[k].kind = "save" /\ ~calls[k].done /\ InTurn(k)
  /\ store' = calls[k].arg
  /\ Finishes(k)
  /\ UNCHANGED <<wanted, view, language, acts>>

ResetAllowlist(k) ==
  /\ calls[k].kind = "reset" /\ ~calls[k].done /\ InTurn(k)
  /\ store' = [store EXCEPT !.lines = DefaultLines]
  /\ Finishes(k)
  /\ UNCHANGED <<wanted, view, language, acts>>

-----------------------------------------------------------------------------
\* The answers.

Answer(k, next) == calls[k].done /\ calls[k].next = next
Here(k) == calls[k].view = view.id

\* The startup effect of App.tsx.
HandleLanguage(k) ==
  /\ Answer(k, "startup") /\ Answered(k)
  /\ language' = calls[k].arg.language
  /\ UNCHANGED <<store, wanted, view, acts>>

\* loadConfig of both views.
HandleLoad(k) ==
  /\ calls[k].kind = "get" /\ (Answer(k, "load") \/ Answer(k, "reset"))
  /\ Answered(k)
  /\ view' = IF ~Here(k) THEN view
             ELSE [view EXCEPT !.cfg = <<calls[k].arg>>, !.touched = {},
                     !.form = IF view.kind = "settings" THEN Loaded(calls[k].arg) ELSE @]
  /\ UNCHANGED <<store, wanted, language, acts>>

\* saveSources of SourcesView returns; handleAdd and handleDelete close their
\* dialogs.
StaysBusy(v, k) == [v EXCEPT !.saving = ~calls[k].ok /\ @]   \* mutant: no catch
AfterSources(v, k) ==
  [v EXCEPT !.saving = FALSE,
            !.adding = @ /\ calls[k].next # "added",
            !.deleting = IF calls[k].next = "deleted" THEN 0 ELSE @]

HandleSources(k) ==
  /\ \E next \in {"toggled", "added", "deleted"} : Answer(k, next)
  /\ Answered(k)
  /\ view' = IF Here(k) THEN AfterSources(view, k) ELSE view
  /\ UNCHANGED <<store, wanted, language, acts>>

\* handleSave of SettingsView goes on after SaveConfig, or in its catch.
AfterSave(v, k) ==
  [v EXCEPT !.cfg = IF calls[k].ok THEN <<calls[k].arg>> ELSE @,
            !.saving = FALSE]

HandleSave(k) ==
  /\ Answer(k, "saved") /\ Answered(k)
  /\ view' = IF Here(k) THEN AfterSave(view, k) ELSE view
  /\ UNCHANGED <<store, wanted, language, acts>>

\* After ResetAllowlist the form is loaded again; a view that has been left
\* loads it in vain, which is left out.  A reset that reports an error has taken
\* effect, but the form still shows the old lines: saving them is ordering them.
Reload(k) ==
  calls' = IF calls[k].ok /\ Here(k)
           THEN Append(RemoveAt(calls, k), Call("get", view.id, store, "reset"))
           ELSE RemoveAt(calls, k)

HandleReset(k) ==
  /\ Answer(k, "reset") /\ calls[k].kind = "reset"
  /\ Reload(k)
  /\ view' = IF Here(k) /\ ~calls[k].ok
             THEN [view EXCEPT !.touched = @ \cup {"lines"}] ELSE view
  /\ UNCHANGED <<store, wanted, language, acts>>

-----------------------------------------------------------------------------
\* SourcesView: every change is saved at once.

OnSources == view.kind = "sources" /\ Shown
NoDialog == ~view.adding /\ view.deleting = 0

\* setCfg(updated), before the await.
KeepsOld(updated) == view.cfg                          \* mutant: after it, or never
Optimistic(updated) == <<updated>>

SaveSources(sources, next) ==
  LET updated == NewConfig([Cfg EXCEPT !.sources = sources])
  IN  /\ Ask(Call("save", view.id, updated, next))
      /\ view' = [view EXCEPT !.cfg = Optimistic(updated), !.saving = TRUE]

ToggleSource(i) ==
  /\ OnSources /\ NoDialog /\ Order
  /\ SaveSources([Cfg.sources EXCEPT ![i].enabled = ~@], "toggled")
  /\ wanted' = [wanted EXCEPT !.sources =
       [j \in DOMAIN @ |-> IF @[j].name = Cfg.sources[i].name
                           THEN [@[j] EXCEPT !.enabled = ~Cfg.sources[i].enabled] ELSE @[j]]]
  /\ UNCHANGED <<store, language>>

\* The dialogs lie over the list.
OpenDialog ==
  /\ OnSources /\ NoDialog
  /\ \/ view' = [view EXCEPT !.adding = TRUE]
     \/ \E i \in DOMAIN Cfg.sources : view' = [view EXCEPT !.deleting = i]
  /\ UNCHANGED <<store, wanted, calls, language, acts>>

CancelDialog ==
  /\ OnSources /\ ~NoDialog
  /\ view' = [view EXCEPT !.adding = FALSE, !.deleting = 0]
  /\ UNCHANGED <<store, wanted, calls, language, acts>>

\* The dialogs stay open, and their buttons enabled, until the save is answered.
Once(next) == Calm => ~\E k \in DOMAIN calls : calls[k].next = next /\ Here(k)

HandleAdd(name) ==
  /\ Order
  /\ LET new == NewSource([name |-> name, enabled |-> TRUE])
     IN  /\ SaveSources(Append(Cfg.sources, new), "added")
         /\ wanted' = [wanted EXCEPT !.sources = Append(@, new)]
  /\ UNCHANGED <<store, language>>

\* AddSourceDialog: a blank name or url is refused, and leaves the form open.
SubmitSource ==
  /\ OnSources /\ view.adding /\ Once("added")
  /\ \E name \in Names :
       /\ Calm => \A i \in DOMAIN Cfg.sources : Cfg.sources[i].name # name
       /\ HandleAdd(name)

\* The sources s without the one that is called name.
Without(s, name) ==
  IF \E i \in DOMAIN s : s[i].name = name
  THEN RemoveAt(s, CHOOSE i \in DOMAIN s : s[i].name = name)
  ELSE s

HandleDelete ==
  /\ OnSources /\ view.deleting \in DOMAIN Cfg.sources /\ Order /\ Once("deleted")
  /\ SaveSources(RemoveAt(Cfg.sources, view.deleting), "deleted")
  /\ wanted' = [wanted EXCEPT !.sources = Without(@, Cfg.sources[view.deleting].name)]
  /\ UNCHANGED <<store, language>>

-----------------------------------------------------------------------------
\* SettingsView: the form is saved as a whole.

OnSettings == view.kind = "settings" /\ Shown

\* onLanguageChange: the select of the language tells the I18nProvider as well.
OnLanguageChange(field, value) ==
  language' = IF field = "language" THEN value ELSE language

Edit(field, value) ==
  /\ OnSettings /\ value # view.form[field]
  /\ acts < MaxActs /\ acts' = acts + 1
  /\ view' = [view EXCEPT !.form[field] = value, !.touched = @ \cup {field}]
  /\ OnLanguageChange(field, value)
  /\ UNCHANGED <<store, wanted, calls>>

\* A field that the user has touched is ordered with the form.
Ordered(f) == IF f \in view.touched THEN Parsed(view.form)[f] ELSE wanted[f]

\* A number out of range is refused before anything is sent.
Save ==
  /\ OnSettings /\ ~view.saving /\ Valid(view.form) /\ Order
  /\ Ask(Call("save", view.id, FromForm(Cfg, view.form), "saved"))
  /\ view' = [view EXCEPT !.saving = TRUE]
  /\ wanted' = [wanted EXCEPT !.ttl = Ordered("ttl"), !.lines = Ordered("lines"),
                              !.language = Ordered("language")]
  /\ UNCHANGED <<store, language>>

Reset ==
  /\ OnSettings /\ Order
  /\ Ask(Call("reset", view.id, store, "reset"))
  /\ wanted' = [wanted EXCEPT !.lines = DefaultLines]
  /\ UNCHANGED <<store, view, language>>

-----------------------------------------------------------------------------

Go(k) == GetConfig(k) \/ SaveConfig(k) \/ ResetAllowlist(k)
Handle(k) ==
  \/ HandleLanguage(k) \/ HandleLoad(k) \/ HandleSources(k) \/ HandleSave(k) \/ HandleReset(k)

User ==
  \/ \E kind \in {"sources", "settings", "none"} : OpenTab(kind)
  \/ OnSources /\ \E i \in DOMAIN Cfg.sources : ToggleSource(i)
  \/ OpenDialog \/ CancelDialog \/ SubmitSource \/ HandleDelete
  \/ \E n \in Minutes : Edit("ttl", n)
  \/ \E s \in SUBSET (Lines \cup {Comment}) : Edit("lines", s)
  \/ \E l \in Languages : Edit("language", l)
  \/ Save \/ Reset

Next == (\E k \in DOMAIN calls : Go(k) \/ Handle(k)) \/ User

Spec == Init /\ [][Next]_vars

\* Every call goes on to its answer, which is handled.
FairSpec == Spec /\ WF_vars(\E k \in DOMAIN calls : Go(k) \/ Handle(k))

-----------------------------------------------------------------------------

Config == [sources : Seq(Source), ttl : Nat, lines : SUBSET Lines, language : Languages]
Form == [ttl : Nat, lines : SUBSET (Lines \cup {Comment}), language : Languages]

\* Type invariant.
SettingsTypeOK ==
  /\ {store, wanted} \cup {calls[k].arg : k \in DOMAIN calls} \subseteq Config
  /\ Len(calls) <= MaxCalls /\ acts \in 0 .. MaxActs /\ language \in Languages
  /\ view.id \in 0 .. MaxViews /\ view.kind \in {"sources", "settings", "none"}
  /\ Len(view.cfg) <= 1 /\ ToSet(view.cfg) \subseteq Config
  /\ view.form \in Form /\ view.touched \subseteq Fields
  /\ {view.saving, view.adding} \subseteq BOOLEAN
  /\ view.deleting \in Nat

Quiet == calls = <<>>

\* No edit is lost and nothing else is changed: when nothing is under way, every
\* field of the configuration is what the user last ordered for it, whatever
\* views and tabs the orders came from, although each save sends back a copy of
\* the whole configuration taken earlier.
NoLostEdit == Quiet => store = wanted

\* The views come to rest: "saving" ends, and with it the disabled button, even
\* when the file cannot be written.
ViewsSettle == view.saving ~> ~view.saving

\* "Saving" is shown as long as anything is being saved.
SavingMeansSaving ==
  view.saving = \E k \in DOMAIN calls : Here(k) /\ calls[k].kind = "save"

\* A dialog that is confirmed once changes the sources once ("Delete source
\* X?"): its button is pressed again before the save is answered.
ConfirmedOnce ==
  \A j, k \in DOMAIN calls :
    calls[j].next = calls[k].next /\ calls[j].view = calls[k].view
      /\ calls[k].next \in {"added", "deleted"} => j = k

\* The window speaks the language that is saved.
LanguageIsSaved == Quiet => language = store.language

=============================================================================
