----------------------------- MODULE Dashboard -----------------------------
(***************************************************************************)
(* The settings side of the web dashboard                                  *)
(* (src/src/paperless_assistant/webui.py, webui_data.py): a page in the    *)
(* browser, the request threads that write the configuration file, and the *)
(* manual run, which loads that file anew.                                 *)
(*                                                                         *)
(* What a run does to documents is the subject of other modules; here it   *)
(* loads its settings, begins, and ends.  The file is written in place: a  *)
(* file opened for writing reads as empty until the text is there.         *)
(***************************************************************************)
EXTENDS LayeredSettings

CONSTANTS
    Dry,            \* the setting dry_run
    Reocr,          \* the setting reocr_enabled
    RunLimits,      \* the settings limit and per_run_cap
    Dropped,        \* keys a block of the file may have and a save drops
    FormFields,     \* the settings a form of the page sends, all at once
    Handlers,       \* request threads
    MaxRequests,    \* bound: saves and manual runs
    MaxTroubles     \* bound: hand edits of the file, crashes, failing runs

ASSUME DashboardAssumption ==
    /\ {Dry, Reocr} \subseteq Keys /\ RunLimits \subseteq Keys
    /\ Dry # Reocr /\ Dry \notin RunLimits
    /\ FormFields \subseteq Editable
    /\ Dropped \subseteq Keys \ Editable
    /\ {MaxRequests, MaxTroubles} \subseteq Nat

VARIABLES
    env,            \* the environment of the container
    keeps,          \* is the data directory, or the file, given from outside?
    files,          \* the configuration file, by data directory
    up,             \* is the process running?
    base,           \* the settings it started with
    place,          \* the data directory of those settings
    page,           \* what the page in the browser shows
    fresh,          \* history: has the file, that loads, stayed as it was shown?
    saves,          \* what each request thread is writing
    run,            \* the manual run, and the settings it has loaded
    inProgress,     \* RunManager._state
    intended,       \* history: what accepted edits have made of the file
    lastSaved,      \* history: the last accepted edit
    disturbed,      \* history: two wrote the file at once, or one was killed
    requestsLeft, troublesLeft

configVars == <<env, keeps, files>>
processVars == <<up, base, place>>
pageVars == <<page, fresh>>
saveVars == <<saves, intended, lastSaved, disturbed>>
runVars == <<run, inProgress>>
vars == <<configVars, processVars, pageVars, saveVars, runVars, requestsLeft,
          troublesLeft>>

Places == {"home", "moved"}
Texts == UNION {[D -> Values \cup {Junk}] : D \in SUBSET Keys}
Files == [kind : {"text", "broken", "barred"}, text : Texts, moves : BOOLEAN]
SettingsOf == [Keys -> Values]
NotSaving == [at |-> "idle", file |-> Absent, body |-> NoText, edit |-> {}]
\* The options of a manual run.  Bound: a limit that is given has one value.
Options == [write : BOOLEAN, reocr : BOOLEAN, limits : SUBSET RunLimits]
NoOptions == [write |-> FALSE, reocr |-> FALSE, limits |-> {}]
NotRunning == [at |-> "none", options |-> NoOptions, settings |-> Defaults]

TypeOK ==
    /\ env \in Environments
    /\ keeps \in BOOLEAN
    /\ files \in [Places -> Files]
    /\ up \in BOOLEAN
    /\ base \in SettingsOf
    /\ place \in Places
    /\ page \in SettingsOf /\ fresh \in BOOLEAN
    /\ saves \in [Handlers -> [at : {"idle", "read", "torn"}, file : Files,
                               body : Texts, edit : SUBSET Keys]]
    /\ run \in [at : {"none", "asked", "begun"}, options : Options,
                settings : SettingsOf]
    /\ inProgress \in BOOLEAN
    /\ intended \in Texts /\ lastSaved \in Texts
    /\ disturbed \in BOOLEAN
    /\ {requestsLeft, troublesLeft} \subseteq Nat

Init ==
    /\ env \in Environments
    /\ keeps \in BOOLEAN
    /\ files = [p \in Places |-> Absent]
    /\ up = FALSE
    /\ base = Defaults
    /\ place = "home"
    /\ page = Defaults /\ fresh = FALSE
    /\ saves = [h \in Handlers |-> NotSaving]
    /\ run = NotRunning
    /\ inProgress = FALSE
    /\ intended = NoText /\ lastSaved = NoText
    /\ disturbed = FALSE
    /\ requestsLeft = MaxRequests
    /\ troublesLeft = MaxTroubles

Saving == \E h \in Handlers : saves[h].at # "idle"

----------------------------------------------------------------------------
(* The process and its settings.                                           *)

Readable(file) == IF Refused(file) THEN NoText ELSE file.text

\* `pa web` and `pa serve` load the settings once; a file that does not load
\* keeps them from starting.
StartProcess ==
    /\ ~up
    /\ Loads(files["home"])
    /\ up' = TRUE
    /\ base' = Resolve(files["home"], env, NoText)
    /\ place' = IF ~keeps /\ files["home"].moves THEN "moved" ELSE "home"
    /\ intended' = Readable(files[place'])
    /\ lastSaved' = NoText
    /\ disturbed' = FALSE
    /\ UNCHANGED <<configVars, pageVars, saves, runVars, requestsLeft,
                   troublesLeft>>

Crash ==
    /\ up
    /\ troublesLeft > 0
    /\ troublesLeft' = troublesLeft - 1
    /\ up' = FALSE
    /\ base' = Defaults /\ place' = "home"
    /\ saves' = [h \in Handlers |-> NotSaving]
    /\ run' = NotRunning
    /\ inProgress' = FALSE
    /\ intended' = NoText /\ lastSaved' = NoText
    /\ disturbed' = FALSE
    /\ fresh' = (fresh /\ ~Saving)
    /\ UNCHANGED <<configVars, page, requestsLeft>>

\* The operator replaces the file.
HandEdit(file) ==
    /\ troublesLeft > 0
    /\ troublesLeft' = troublesLeft - 1
    /\ files' = [files EXCEPT !["home"] = file]
    /\ fresh' = FALSE
    /\ IF up /\ place = "home"
         THEN /\ intended' = Readable(file)
              /\ lastSaved' = NoText
              /\ disturbed' = (disturbed \/ Saving)
         ELSE UNCHANGED <<intended, lastSaved, disturbed>>
    /\ UNCHANGED <<env, keeps, processVars, page, saves, runVars, requestsLeft>>

----------------------------------------------------------------------------
(* The page.                                                               *)

\* Fault: the page shows the settings the process started with.
ShownAtStart == base

\* GET: _current_settings reads the file anew, and shows the settings the
\* process started with when it does not load.
Shown == IF Loads(files["home"]) THEN Resolve(files["home"], env, NoText) ELSE base

LoadPage ==
    /\ up
    /\ page' = Shown
    /\ fresh' = (Loads(files["home"]) /\ ~Saving)
    /\ UNCHANGED <<configVars, processVars, saveVars, runVars, requestsLeft,
                   troublesLeft>>

\* Fault: a form whose fields were never filled in.
EmptyForm(key, value) ==
    [k \in {f \in FormFields : ~Locked(env, f)} \cup {key} |->
        IF k = key THEN value ELSE "default"]

\* A form sends every field it has, except those shown as locked.
Form(key, value) ==
    [k \in {f \in FormFields : ~Locked(env, f)} \cup {key} |->
        IF k = key THEN value ELSE page[k]]

----------------------------------------------------------------------------
(* POST /api/config.                                                       *)

\* Fault: the edit replaces the file.
ReplaceText(text, body) == body

\* Blocks are merged too, so that a setting of a block is a key of its own.
Merged(text, body) == Overlay(text, body)

\* validate_and_build_yaml.
Accepts(file, body) ==
    /\ file.kind # "barred"
    /\ DOMAIN body \subseteq Editable \cup Dropped
    /\ \A k \in DOMAIN body \ Dropped : body[k] # Junk

\* _coerce_block: a key of a block that it does not know is not written.
Known(body) == [k \in DOMAIN body \ Dropped |-> body[k]]

RefuseSave(body) ==
    /\ up
    /\ requestsLeft > 0
    /\ ~Accepts(files[place], body)
    /\ requestsLeft' = requestsLeft - 1
    /\ UNCHANGED <<configVars, processVars, pageVars, saveVars, runVars,
                   troublesLeft>>

\* What is there is read first; a file that is not YAML reads as empty.
BeginSave(h, body, edit) ==
    /\ up
    /\ saves[h].at = "idle"
    /\ requestsLeft > 0
    /\ Accepts(files[place], body)
    /\ saves' = [saves EXCEPT ![h] =
            [at |-> "read", body |-> Known(body), edit |-> edit,
             file |-> [kind |-> "text",
                       text |-> Merged(Readable(files[place]), Known(body)),
                       moves |-> ~Refused(files[place]) /\ files[place].moves]]]
    /\ disturbed' = (disturbed \/ Saving)
    /\ requestsLeft' = requestsLeft - 1
    /\ UNCHANGED <<configVars, processVars, pageVars, intended, lastSaved,
                   runVars, troublesLeft>>

\* A request that is not the page's changes one setting.
SaveByRequest(h, key, value) ==
    LET body == [k \in {key} |-> value]
    IN IF Accepts(files[place], body) THEN BeginSave(h, body, {})
                                      ELSE RefuseSave(body)

SaveByPage(h, key, value) ==
    /\ ~Locked(env, key)
    /\ BeginSave(h, Form(key, value), IF fresh THEN {key} ELSE {})

OpenFile(h) ==
    /\ saves[h].at = "read"
    /\ saves' = [saves EXCEPT ![h].at = "torn"]
    /\ files' = [files EXCEPT ![place] = Absent]
    /\ UNCHANGED <<env, keeps, processVars, pageVars, intended, lastSaved,
                   disturbed, runVars, requestsLeft, troublesLeft>>

WriteFile(h) ==
    /\ saves[h].at = "torn"
    /\ files' = [files EXCEPT ![place] = saves[h].file]
    /\ fresh' = FALSE
    /\ intended' = Overlay(intended, saves[h].body)
    /\ lastSaved' = saves[h].body
    /\ saves' = [saves EXCEPT ![h] = NotSaving]
    /\ UNCHANGED <<env, keeps, processVars, page, disturbed, runVars,
                   requestsLeft, troublesLeft>>

----------------------------------------------------------------------------
(* POST /api/run.                                                          *)

\* RunManager.start: one at a time.
StartManual(options) ==
    /\ up
    /\ ~inProgress
    /\ requestsLeft > 0
    /\ inProgress' = TRUE
    /\ run' = [at |-> "asked", options |-> options, settings |-> Defaults]
    /\ requestsLeft' = requestsLeft - 1
    /\ UNCHANGED <<configVars, processVars, pageVars, saveVars, troublesLeft>>

\* Fault: only a run that writes says so.
OverridesIfWriting(options) == [k \in IF options.write THEN {Dry} ELSE {} |-> "off"]

\* The settings the options of a run are about: dry_run always, the others
\* when they are given.
Named(options) ==
    {Dry} \cup (IF options.reocr THEN {Reocr} ELSE {}) \cup options.limits

\* _overrides_from_options.
Overrides(options) ==
    [k \in Named(options) |-> IF k = Dry /\ options.write THEN "off" ELSE "on"]

\* Fault: the settings the process started with, and the overrides.
LoadAtStart ==
    /\ run.at = "asked"
    /\ run' = [run EXCEPT !.at = "begun",
                    !.settings = ApplyOverrides(base, Overrides(run.options))]
    /\ UNCHANGED <<configVars, processVars, pageVars, saveVars, inProgress,
                   requestsLeft, troublesLeft>>

\* _build_sweep: a file that is refused is replaced by the settings the
\* process started with; a cast that fails ends the run.
LoadForRun ==
    LET over == Overrides(run.options)
    IN /\ run.at = "asked"
       /\ IF Uncastable(files["home"])
            THEN run' = NotRunning /\ inProgress' = FALSE
            ELSE /\ run' = [run EXCEPT !.at = "begun",
                        !.settings = IF Refused(files["home"])
                                       THEN ApplyOverrides(base, over)
                                       ELSE Resolve(files["home"], env, over)]
                 /\ UNCHANGED inProgress
       /\ UNCHANGED <<configVars, processVars, pageVars, saveVars, requestsLeft,
                      troublesLeft>>

\* The run is over, or an error is caught: both clear the state.
EndRun ==
    /\ run.at = "begun"
    /\ run' = NotRunning
    /\ inProgress' = FALSE
    /\ UNCHANGED <<configVars, processVars, pageVars, saveVars, requestsLeft,
                   troublesLeft>>

\* A custom field is missing: SystemExit passes the handler of errors, and
\* Python ends the thread without a word.
RunExits ==
    /\ run.at = "begun"
    /\ troublesLeft > 0
    /\ troublesLeft' = troublesLeft - 1
    /\ run' = NotRunning
    /\ UNCHANGED <<configVars, processVars, pageVars, saveVars, inProgress,
                   requestsLeft>>

----------------------------------------------------------------------------
\* What an operator may have written by hand.
Edits ==
    {[kind |-> "text", text |-> [k \in {Dry} |-> "on"], moves |-> TRUE],
     [kind |-> "text", text |-> [k \in Keys |-> "on"], moves |-> FALSE],
     [kind |-> "text", text |-> [k \in Keys \ {Dry} |-> Junk], moves |-> FALSE],
     [kind |-> "broken", text |-> NoText, moves |-> FALSE],
     [kind |-> "barred", text |-> NoText, moves |-> FALSE]}

ProcessStep ==
    \/ StartProcess \/ Crash
    \/ \E file \in Edits : HandEdit(file)

SaveStep ==
    \/ LoadPage
    \/ \E h \in Handlers :
          \/ OpenFile(h) \/ WriteFile(h)
          \/ \E key \in Keys : \E value \in {"on", Junk} : SaveByRequest(h, key, value)
          \/ \E key \in FormFields : SaveByPage(h, key, "off")

RunStep ==
    \/ \E options \in Options : StartManual(options)
    \/ LoadForRun \/ EndRun \/ RunExits

Next == ProcessStep \/ SaveStep \/ RunStep

Spec == Init /\ [][Next]_vars

----------------------------------------------------------------------------
(* Properties.                                                             *)

\* A setting not touched by an edit survives it, and an accepted edit is not
\* lost, as long as the saves come one at a time.
LoneSavesKept == up /\ ~disturbed /\ ~Saving => Readable(files[place]) = intended

\* What the user has saved is what the page shows next and what the next run
\* uses, unless the page shows the setting as locked, a variable counts that the
\* page does not show (Silent), or the file moves the data directory.
SavedTakesEffect ==
    up /\ ~disturbed /\ ~Saving /\ place = "home" /\ Loads(files[place]) =>
        \A k \in DOMAIN lastSaved :
            Locked(env, k) \/ Silent(env, k) \/ Shown[k] = lastSaved[k]

\* What a manual run loads is what the page shows at that moment, but for what
\* its options name, which is as they say: a limit, the spend cap or re-OCR that
\* is not given stays as it is configured.
RunUsesWhatIsShown ==
    [][LoadForRun /\ run'.at = "begun" =>
        \A k \in Keys :
            IF k \in Named(run.options)
              THEN run'.settings[k] = "on" \/ (k = Dry /\ run.options.write)
              ELSE run'.settings[k] = Shown[k]]_vars

\* A form sends all its fields; when the file is still as the page has shown
\* it, only the setting the user has edited changes for the next run.
FreshFormChangesOneSetting ==
    [][\A h \in Handlers :
        WriteFile(h) /\ fresh /\ ~disturbed /\ saves[h].edit # {} =>
            \A k \in Keys \ saves[h].edit : Shown'[k] = page[k]]_vars

\* Whatever the file and the environment say, a manual run that was not asked
\* to write is a dry run.
WritesOnlyIfAsked ==
    run.at = "begun" /\ ~run.options.write => run.settings[Dry] = "on"

\* config.py, ENV_OVERRIDE_KEYS: when a variable is set, "the UI must show the
\* field as read-only/locked": what is not shown so takes the value saved.
SavedUnlessLocked ==
    up /\ ~disturbed /\ ~Saving /\ place = "home" /\ Loads(files[place]) =>
        \A k \in DOMAIN lastSaved : Locked(env, k) \/ Shown[k] = lastSaved[k]

\* webui.py, _overrides_from_options: "`reocr` else off": a manual run re-OCRs
\* only when it was asked to.
ReocrOnlyIfAsked ==
    run.at = "begun" /\ run.settings[Reocr] = "on" => run.options.reocr

\* A manual run is refused only while one is running.
InProgressMeansRunning == inProgress => run.at # "none"
=============================================================================
