-------------------------- MODULE Dashboard_proofs --------------------------
(***************************************************************************)
(* Proofs about Dashboard, for every set of settings, form and request     *)
(* threads, and every bound.                                               *)
(***************************************************************************)
EXTENDS Dashboard, TLAPS

----------------------------------------------------------------------------
(* Texts and settings.                                                     *)

LEMMA TextUse ==
    ASSUME NEW t \in Texts
    PROVE  DOMAIN t \in SUBSET Keys /\ t \in [DOMAIN t -> Values \cup {Junk}]
  BY DEF Texts

LEMMA TextIntro ==
    ASSUME NEW D \in SUBSET Keys, NEW t \in [D -> Values \cup {Junk}]
    PROVE  t \in Texts
  BY DEF Texts

LEMMA NoTextIsText == NoText \in Texts /\ DOMAIN NoText = {}
<1>1. NoText \in [{} -> Values \cup {Junk}] /\ DOMAIN NoText = {}
  BY DEF NoText
<1> QED
  BY <1>1, TextIntro

\* A layer over another: it has the keys of both and wins where it has one.
LEMMA OverlayAt ==
    ASSUME NEW low, NEW high
    PROVE  /\ DOMAIN Overlay(low, high) = DOMAIN low \cup DOMAIN high
           /\ \A k \in DOMAIN low \cup DOMAIN high :
                Overlay(low, high)[k] = IF k \in DOMAIN high THEN high[k] ELSE low[k]
  BY DEF Overlay

LEMMA OverlayIsText ==
    ASSUME NEW low \in Texts, NEW high \in Texts
    PROVE  Overlay(low, high) \in Texts
<1> DEFINE D == DOMAIN low \cup DOMAIN high
<1>1. D \in SUBSET Keys
  BY TextUse
<1>2. Overlay(low, high) \in [D -> Values \cup {Junk}]
  <2>1. \A k \in DOMAIN low : low[k] \in Values \cup {Junk}
    BY TextUse
  <2>2. \A k \in DOMAIN high : high[k] \in Values \cup {Junk}
    BY TextUse
  <2> QED
    BY <2>1, <2>2 DEF Overlay
<1> QED
  BY <1>1, <1>2, TextIntro

\* What a file and the environment make of a setting.
Effective(file, e, k) ==
    IF EnvBeats(e, k) THEN IF e[k] = Empty THEN "off" ELSE e[k]
    ELSE IF k \in DOMAIN file.text THEN file.text[k] ELSE "default"

\* The layers of load_settings, from the last to the first.
LEMMA ResolveAt ==
    ASSUME NEW file \in Files, NEW e \in Environments, NEW D \in SUBSET Keys,
           NEW over \in [D -> Values]
    PROVE  /\ DOMAIN Resolve(file, e, over) = Keys
           /\ \A k \in Keys :
                Resolve(file, e, over)[k]
                    = IF k \in D THEN over[k] ELSE Effective(file, e, k)
<1> DEFINE low == ApplyYaml(Defaults, file)
           mid == ApplyEnv(low, e)
<1>1. \A k \in Keys : low[k] = IF k \in DOMAIN file.text THEN file.text[k] ELSE "default"
  BY DEF ApplyYaml, Defaults, Overlay
<1>2. DOMAIN mid = Keys
      /\ \A k \in Keys : mid[k] = IF ~EnvBeats(e, k) THEN low[k]
                                  ELSE IF e[k] = Empty THEN "off" ELSE e[k]
  BY DEF ApplyEnv
<1> HIDE DEF low, mid
<1>3. \A k \in Keys : mid[k] = Effective(file, e, k)
  BY <1>1, <1>2 DEF Effective
<1>4. Resolve(file, e, over) = Overlay(mid, over)
  BY DEF Resolve, ApplyOverrides, low, mid
<1> QED
  BY <1>2, <1>3, <1>4 DEF Overlay

LEMMA ResolveFileAt ==
    ASSUME NEW file \in Files, NEW e \in Environments
    PROVE  \A k \in Keys : Resolve(file, e, NoText)[k] = Effective(file, e, k)
<1> DEFINE D == {}
<1>1. NoText \in [D -> Values] /\ D \in SUBSET Keys /\ \A k : k \notin D
  BY DEF NoText
<1> HIDE DEF D
<1>2. \A k \in Keys : Resolve(file, e, NoText)[k]
                          = IF k \in D THEN NoText[k] ELSE Effective(file, e, k)
  BY <1>1, ResolveAt
<1> QED
  BY <1>1, <1>2

LEMMA EffectiveIsValue ==
    ASSUME NEW file \in Files, NEW e \in Environments, NEW k \in Keys, Loads(file)
    PROVE  Effective(file, e, k) \in Values
<1>1. file.text \in Texts /\ file.kind = "text"
  BY DEF Files, Loads, Refused
<1>2. k \in DOMAIN file.text => file.text[k] \in Values
  <2>1. k \in DOMAIN file.text => file.text[k] \in Values \cup {Junk} /\ file.text[k] # Junk
    BY <1>1, TextUse DEF Loads, Uncastable
  <2> QED
    BY <2>1
<1>3. EnvBeats(e, k) => e[k] = Empty \/ e[k] = "off"
  BY DEF EnvBeats, Environments
<1> QED
  BY <1>2, <1>3 DEF Effective, Values

LEMMA ResolveIsSettings ==
    ASSUME NEW file \in Files, NEW e \in Environments, Loads(file), NEW D \in SUBSET Keys,
           NEW over \in [D -> Values]
    PROVE  Resolve(file, e, over) \in SettingsOf
<1>1. /\ DOMAIN Resolve(file, e, over) = Keys
      /\ \A k \in Keys : Resolve(file, e, over)[k]
            = IF k \in D THEN over[k] ELSE Effective(file, e, k)
  BY ResolveAt
<1>2. \A k \in Keys : Resolve(file, e, over)[k] \in Values
  BY <1>1, EffectiveIsValue
<1>3. Resolve(file, e, over) = [k \in Keys |-> Resolve(file, e, over)[k]]
  <2>1. Resolve(file, e, over)
            = [k \in Keys \cup DOMAIN over |-> IF k \in DOMAIN over THEN over[k]
                                               ELSE ApplyEnv(ApplyYaml(Defaults, file), e)[k]]
    BY DEF Resolve, ApplyOverrides, Overlay, ApplyEnv
  <2> QED
    BY <2>1
<1> QED
  BY <1>2, <1>3 DEF SettingsOf

LEMMA AbsentIsFile == Absent \in Files /\ Absent.text = NoText /\ Loads(Absent)
  BY NoTextIsText DEF Absent, Files, Loads, Refused, Uncastable

LEMMA ReadableIsText ==
    ASSUME NEW file \in Files
    PROVE  Readable(file) \in Texts
  BY NoTextIsText DEF Readable, Files

LEMMA DefaultsAreSettings == Defaults \in SettingsOf
  BY DEF Defaults, SettingsOf, Values

----------------------------------------------------------------------------
(* Types.                                                                  *)

SaveRec == [at : {"idle", "read", "torn"}, file : Files, body : Texts, edit : SUBSET Keys]
RunRec == [at : {"none", "asked", "begun"}, options : Options, settings : SettingsOf]

\* What TypeOK says of the file and the requests, and of the process.
FilesOK ==
    /\ env \in Environments
    /\ files \in [Places -> Files]
    /\ place \in Places
    /\ saves \in [Handlers -> SaveRec]
    /\ intended \in Texts /\ lastSaved \in Texts

ProcessOK ==
    /\ base \in SettingsOf /\ page \in SettingsOf
    /\ run \in RunRec

FlagsOK ==
    /\ keeps \in BOOLEAN /\ up \in BOOLEAN /\ fresh \in BOOLEAN
    /\ inProgress \in BOOLEAN /\ disturbed \in BOOLEAN

LeftOK == requestsLeft \in Nat /\ troublesLeft \in Nat

LEMMA TypeParts == TypeOK <=> FilesOK /\ ProcessOK /\ FlagsOK /\ LeftOK
  BY DEF TypeOK, FilesOK, ProcessOK, FlagsOK, LeftOK, SaveRec, RunRec

LEMMA NotSavingIsRec == NotSaving \in SaveRec /\ NotSaving.at = "idle" /\ NotSaving.edit = {}
  BY AbsentIsFile, NoTextIsText DEF NotSaving, SaveRec

LEMMA NotRunningIsRec == NotRunning \in RunRec /\ NotRunning.at = "none"
  BY DefaultsAreSettings DEF NotRunning, RunRec, NoOptions, Options

LEMMA EditsAreFiles == Edits \subseteq Files
<1>1. /\ [k \in {Dry} |-> "on"] \in Texts
      /\ [k \in Keys |-> "on"] \in Texts
      /\ [k \in Keys \ {Dry} |-> Junk] \in Texts
  <2>1. [k \in {Dry} |-> "on"] \in [{Dry} -> Values \cup {Junk}] /\ {Dry} \in SUBSET Keys
    BY DashboardAssumption DEF Values
  <2>2. [k \in Keys |-> "on"] \in [Keys -> Values \cup {Junk}]
    BY DEF Values
  <2>3. [k \in Keys \ {Dry} |-> Junk] \in [Keys \ {Dry} -> Values \cup {Junk}]
    OBVIOUS
  <2> QED
    BY <2>1, <2>2, <2>3, TextIntro
<1> QED
  BY <1>1, NoTextIsText DEF Edits, Files

LEMMA StartsInPlaces ==
    ASSUME place' = IF ~keeps /\ files["home"].moves THEN "moved" ELSE "home"
    PROVE  place' \in Places
  BY DEF Places

\* A form is a text, with the setting the user has changed in it.
LEMMA FormIsText ==
    ASSUME TypeOK, NEW key \in FormFields, NEW value \in Values
    PROVE  /\ Form(key, value) \in Texts
           /\ key \in DOMAIN Form(key, value)
           /\ \A k \in DOMAIN Form(key, value) : k # key => Form(key, value)[k] = page[k]
<1> DEFINE D == {f \in FormFields : ~Locked(env, f)} \cup {key}
<1>1. D \in SUBSET Keys
  BY DashboardAssumption, SettingsAssumption
<1>2. page \in [Keys -> Values]
  BY DEF TypeOK, SettingsOf
<1>3. Form(key, value) \in [D -> Values \cup {Junk}]
  BY <1>1, <1>2 DEF Form
<1>4. Form(key, value) \in Texts
  BY <1>1, <1>3, TextIntro
<1> QED
  BY <1>4 DEF Form

LEMMA RequestIsText ==
    ASSUME NEW key \in Keys, NEW value \in {"on", Junk}
    PROVE  [k \in {key} |-> value] \in Texts
<1>1. [k \in {key} |-> value] \in [{key} -> Values \cup {Junk}] /\ {key} \in SUBSET Keys
  BY DEF Values
<1> QED
  BY <1>1, TextIntro

\* What a save writes of what it was sent.
LEMMA KnownIsText ==
    ASSUME NEW body \in Texts
    PROVE  /\ Known(body) \in Texts
           /\ DOMAIN Known(body) = DOMAIN body \ Dropped
           /\ \A k \in DOMAIN body \ Dropped : Known(body)[k] = body[k]
<1> DEFINE D == DOMAIN body \ Dropped
<1>1. D \in SUBSET Keys /\ \A k \in D : body[k] \in Values \cup {Junk}
  BY TextUse
<1>2. Known(body) \in [D -> Values \cup {Junk}]
  BY <1>1 DEF Known
<1>3. Known(body) \in Texts
  BY <1>1, <1>2, TextIntro
<1> QED
  BY <1>3 DEF Known

\* What BeginSave makes of the file it has read.
Draft(body) ==
    [kind |-> "text",
     text |-> Merged(Readable(files[place]), body),
     moves |-> ~Refused(files[place]) /\ files[place].moves]

LEMMA DraftIsFile ==
    ASSUME TypeOK, NEW body \in Texts
    PROVE  Draft(body) \in Files
<1>1. files[place] \in Files
  BY DEF TypeOK
<1>2. Merged(Readable(files[place]), body) \in Texts
  BY <1>1, ReadableIsText, OverlayIsText DEF Merged
<1> QED
  BY <1>2 DEF Draft, Files

LEMMA BeginSaveEffect ==
    ASSUME TypeOK, NEW h \in Handlers, NEW body \in Texts, NEW edit \in SUBSET Keys,
           BeginSave(h, body, edit)
    PROVE  /\ TypeOK'
           /\ saves'[h] = [at |-> "read", body |-> Known(body), edit |-> edit,
                           file |-> Draft(Known(body))]
           /\ \A g \in Handlers : g # h => saves'[g] = saves[g]
<1> DEFINE known == Known(body)
           rec == [at |-> "read", body |-> known, edit |-> edit, file |-> Draft(known)]
<1>0. known \in Texts
  BY KnownIsText
<1>1. rec \in SaveRec
  BY <1>0, DraftIsFile DEF SaveRec
<1>2. saves' = [saves EXCEPT ![h] = rec]
  BY DEF BeginSave, Draft
<1> HIDE DEF rec
<1>3. FilesOK /\ ProcessOK /\ FlagsOK /\ LeftOK
  BY TypeParts
<1>4. saves' \in [Handlers -> SaveRec]
  BY <1>1, <1>2, <1>3 DEF FilesOK
<1>5. FilesOK'
  BY <1>3, <1>4 DEF FilesOK, BeginSave, configVars, processVars
<1>6. ProcessOK'
  BY <1>3 DEF ProcessOK, BeginSave, processVars, pageVars, runVars
<1>7. disturbed' \in BOOLEAN
  BY DEF BeginSave
<1>8. FlagsOK'
  BY <1>3, <1>7 DEF FlagsOK, BeginSave, processVars, pageVars, runVars, configVars
<1>9. LeftOK'
  BY <1>3 DEF LeftOK, BeginSave
<1>10. TypeOK'
  BY <1>5, <1>6, <1>8, <1>9
     DEF TypeOK, FilesOK, ProcessOK, FlagsOK, LeftOK, SaveRec, RunRec
<1>11. saves'[h] = rec /\ \A g \in Handlers : g # h => saves'[g] = saves[g]
  BY <1>2, <1>3 DEF FilesOK
<1> QED
  BY <1>10, <1>11 DEF rec

LEMMA TypeAfter == FilesOK' /\ ProcessOK' /\ FlagsOK' /\ LeftOK' => TypeOK'
  BY DEF TypeOK, FilesOK, ProcessOK, FlagsOK, LeftOK, SaveRec, RunRec

\* A save as a request makes it: a form that was fresh repeats what the page
\* shows, except for the setting the user has changed.
Requested(h, body, edit) ==
    /\ BeginSave(h, body, edit)
    /\ edit # {} => fresh /\ \A k \in DOMAIN body \ edit : body[k] = page[k]

\* The steps, with their inputs as the proofs need them.
Cases ==
    \/ StartProcess \/ Crash \/ LoadPage
    \/ \E file \in Files : HandEdit(file)
    \/ \E h \in Handlers :
        \/ OpenFile(h) \/ WriteFile(h)
        \/ \E body \in Texts : \E edit \in SUBSET Keys : Requested(h, body, edit)
    \/ \E body \in Texts : RefuseSave(body)
    \/ \E options \in Options : StartManual(options)
    \/ LoadForRun \/ EndRun \/ RunExits

LEMMA NextCases ==
    ASSUME TypeOK, Next
    PROVE  Cases
<1>1. ASSUME NEW h \in Handlers, NEW key \in Keys, NEW value \in {"on", Junk},
             SaveByRequest(h, key, value)
      PROVE  Cases
  <2> DEFINE body == [k \in {key} |-> value]
  <2>1. body \in Texts /\ {} \in SUBSET Keys
    BY RequestIsText
  <2>2. BeginSave(h, body, {}) \/ RefuseSave(body)
    BY <1>1 DEF SaveByRequest
  <2> HIDE DEF body
  <2>3. CASE BeginSave(h, body, {})
    <3>1. Requested(h, body, {})
      BY <2>3 DEF Requested
    <3> QED
      BY <2>1, <3>1 DEF Cases
  <2>4. CASE RefuseSave(body)
    BY <2>1, <2>4 DEF Cases
  <2> QED
    BY <2>2, <2>3, <2>4
<1>2. ASSUME NEW h \in Handlers, NEW key \in FormFields, SaveByPage(h, key, "off")
      PROVE  Cases
  <2> DEFINE body == Form(key, "off")
             edit == IF fresh THEN {key} ELSE {}
  <2>1. "off" \in Values
    BY DEF Values
  <2>2. body \in Texts /\ \A k \in DOMAIN body : k # key => body[k] = page[k]
    BY <2>1, FormIsText
  <2>3. edit \in SUBSET Keys
    BY DashboardAssumption, SettingsAssumption
  <2>4. BeginSave(h, body, edit)
    BY <1>2 DEF SaveByPage
  <2>5. edit # {} => fresh /\ \A k \in DOMAIN body \ edit : body[k] = page[k]
    BY <2>2
  <2> HIDE DEF body, edit
  <2>6. Requested(h, body, edit)
    BY <2>4, <2>5 DEF Requested
  <2> QED
    BY <2>2, <2>3, <2>6 DEF Cases
<1>3. CASE ProcessStep
  BY <1>3, EditsAreFiles DEF ProcessStep, Cases
<1>4. CASE RunStep
  BY <1>4 DEF RunStep, Cases
<1>5. CASE LoadPage \/ \E h \in Handlers : OpenFile(h) \/ WriteFile(h)
  BY <1>5 DEF Cases
<1> QED
  BY <1>1, <1>2, <1>3, <1>4, <1>5 DEF Next, SaveStep

\* The options of a run name settings, and give them values.
LEMMA NamedAreKeys ==
    ASSUME NEW options \in Options
    PROVE  Named(options) \in SUBSET Keys /\ Overrides(options) \in [Named(options) -> Values]
<1>1. options.limits \subseteq RunLimits
  BY DEF Options
<1>2. Named(options) \in SUBSET Keys
  BY <1>1, DashboardAssumption DEF Named
<1> QED
  BY <1>2 DEF Overrides, Values

LEMMA NextKeepsTypes ==
    ASSUME TypeOK, [Next]_vars
    PROVE  TypeOK'
<1>0. FilesOK /\ ProcessOK /\ FlagsOK /\ LeftOK
  BY TypeParts
<1>1. CASE UNCHANGED vars
  BY <1>1 DEF TypeOK, vars, configVars, processVars, pageVars, saveVars, runVars
<1>2. CASE StartProcess
  <2>1. place' \in Places /\ files' = files /\ env' = env
    BY <1>2, StartsInPlaces DEF StartProcess, configVars
  <2>2. intended' \in Texts /\ lastSaved' \in Texts
    <3>1. files[place'] \in Files
      BY <1>0, <2>1 DEF FilesOK
    <3> QED
      BY <1>2, <2>1, <3>1, ReadableIsText, NoTextIsText DEF StartProcess
  <2>3. FilesOK'
    BY <1>0, <1>2, <2>1, <2>2 DEF FilesOK, StartProcess
  <2>4. base' \in SettingsOf
    <3>1. files["home"] \in Files /\ "home" \in Places
      BY <1>0 DEF FilesOK, Places
    <3>2. NoText \in [{} -> Values] /\ {} \in SUBSET Keys
      BY DEF NoText
    <3> QED
      BY <1>0, <1>2, <3>1, <3>2, ResolveIsSettings DEF StartProcess, FilesOK
  <2>5. ProcessOK'
    BY <1>0, <1>2, <2>4 DEF ProcessOK, StartProcess, pageVars, runVars
  <2>6. FlagsOK' /\ LeftOK'
    BY <1>0, <1>2 DEF FlagsOK, LeftOK, StartProcess, pageVars, runVars, configVars
  <2> QED
    BY <2>3, <2>5, <2>6, TypeAfter
<1>3. CASE Crash
  <2>1. FilesOK'
    <3>1. saves' \in [Handlers -> SaveRec]
      BY <1>3, NotSavingIsRec DEF Crash
    <3> QED
      BY <1>0, <1>3, <3>1, NoTextIsText DEF FilesOK, Crash, configVars, Places
  <2>2. ProcessOK'
    BY <1>0, <1>3, NotRunningIsRec, DefaultsAreSettings DEF ProcessOK, Crash
  <2>3. fresh' \in BOOLEAN
    BY <1>3 DEF Crash
  <2>4. FlagsOK' /\ LeftOK'
    <3>1. FlagsOK'
      BY <1>0, <1>3, <2>3 DEF FlagsOK, Crash, configVars
    <3>2. LeftOK'
      BY <1>0, <1>3 DEF LeftOK, Crash
    <3> QED
      BY <3>1, <3>2
  <2> QED
    BY <2>1, <2>2, <2>4, TypeAfter
<1>4. CASE LoadPage
  <2>1. page' \in SettingsOf
    <3>1. files["home"] \in Files /\ "home" \in Places
      BY <1>0 DEF FilesOK, Places
    <3>2. NoText \in [{} -> Values] /\ {} \in SUBSET Keys
      BY DEF NoText
    <3>3. Loads(files["home"]) => Resolve(files["home"], env, NoText) \in SettingsOf
      BY <1>0, <3>1, <3>2, ResolveIsSettings DEF FilesOK
    <3> QED
      BY <1>0, <1>4, <3>3 DEF LoadPage, Shown, ProcessOK
  <2>2. FilesOK' /\ ProcessOK'
    BY <1>0, <1>4, <2>1 DEF FilesOK, ProcessOK, LoadPage, configVars, processVars, saveVars, runVars
  <2>3. fresh' \in BOOLEAN
    BY <1>4 DEF LoadPage
  <2>4. FlagsOK' /\ LeftOK'
    BY <1>0, <1>4, <2>3
       DEF FlagsOK, LeftOK, LoadPage, configVars, processVars, saveVars, runVars
  <2> QED
    BY <2>2, <2>4, TypeAfter
<1>5. ASSUME NEW file \in Files, HandEdit(file)
      PROVE  TypeOK'
  <2>1. files' \in [Places -> Files]
    BY <1>0, <1>5 DEF FilesOK, HandEdit
  <2>2. intended' \in Texts /\ lastSaved' \in Texts
    BY <1>0, <1>5, ReadableIsText, NoTextIsText DEF FilesOK, HandEdit
  <2>3. FilesOK' /\ ProcessOK'
    BY <1>0, <1>5, <2>1, <2>2 DEF FilesOK, ProcessOK, HandEdit, processVars, runVars
  <2>4. disturbed' \in BOOLEAN
    BY <1>0, <1>5 DEF FlagsOK, HandEdit
  <2>5. FlagsOK' /\ LeftOK'
    <3>1. FlagsOK'
      BY <1>0, <1>5, <2>4 DEF FlagsOK, HandEdit, processVars, runVars
    <3>2. LeftOK'
      BY <1>0, <1>5 DEF LeftOK, HandEdit
    <3> QED
      BY <3>1, <3>2
  <2> QED
    BY <2>3, <2>5, TypeAfter
<1>6. ASSUME NEW h \in Handlers, OpenFile(h)
      PROVE  TypeOK'
  <2>1. saves' \in [Handlers -> SaveRec]
    <3>1. [saves[h] EXCEPT !.at = "torn"] \in SaveRec
      BY <1>0 DEF FilesOK, SaveRec
    <3>2. saves' = [saves EXCEPT ![h] = [saves[h] EXCEPT !.at = "torn"]]
      BY <1>6 DEF OpenFile
    <3> QED
      BY <1>0, <3>1, <3>2 DEF FilesOK
  <2>2. files' \in [Places -> Files]
    BY <1>0, <1>6, AbsentIsFile DEF FilesOK, OpenFile
  <2>3. FilesOK' /\ ProcessOK'
    BY <1>0, <1>6, <2>1, <2>2 DEF FilesOK, ProcessOK, OpenFile, processVars, pageVars, runVars
  <2>4. FlagsOK' /\ LeftOK'
    BY <1>0, <1>6 DEF FlagsOK, LeftOK, OpenFile, processVars, pageVars, runVars
  <2> QED
    BY <2>3, <2>4, TypeAfter
<1>7. ASSUME NEW h \in Handlers, WriteFile(h)
      PROVE  TypeOK'
  <2>0. saves[h] \in SaveRec /\ saves[h].file \in Files /\ saves[h].body \in Texts
    BY <1>0 DEF FilesOK, SaveRec
  <2>1. saves' \in [Handlers -> SaveRec]
    BY <1>0, <1>7, NotSavingIsRec DEF FilesOK, WriteFile
  <2>2. files' \in [Places -> Files]
    BY <1>0, <1>7, <2>0 DEF FilesOK, WriteFile
  <2>3. intended' \in Texts /\ lastSaved' \in Texts
    BY <1>0, <1>7, <2>0, OverlayIsText DEF FilesOK, WriteFile
  <2>4. FilesOK' /\ ProcessOK'
    BY <1>0, <1>7, <2>1, <2>2, <2>3 DEF FilesOK, ProcessOK, WriteFile, processVars, runVars
  <2>5. FlagsOK' /\ LeftOK'
    BY <1>0, <1>7 DEF FlagsOK, LeftOK, WriteFile, processVars, runVars
  <2> QED
    BY <2>4, <2>5, TypeAfter
<1>8. ASSUME NEW h \in Handlers, NEW body \in Texts, NEW edit \in SUBSET Keys,
             BeginSave(h, body, edit)
      PROVE  TypeOK'
  BY <1>8, BeginSaveEffect
<1>9. ASSUME NEW body, RefuseSave(body)
      PROVE  TypeOK'
  <2>1. LeftOK'
    BY <1>0, <1>9 DEF LeftOK, RefuseSave
  <2>2. FilesOK' /\ ProcessOK' /\ FlagsOK'
    BY <1>0, <1>9 DEF FilesOK, ProcessOK, FlagsOK, RefuseSave, configVars, processVars, pageVars,
       saveVars, runVars
  <2> QED
    BY <2>1, <2>2, TypeAfter
<1>10. ASSUME UNCHANGED <<configVars, processVars, pageVars, saveVars>>, run' \in RunRec,
              inProgress' \in BOOLEAN, LeftOK'
       PROVE  TypeOK'
  <2>1. FilesOK' /\ ProcessOK' /\ FlagsOK'
    BY <1>0, <1>10 DEF FilesOK, ProcessOK, FlagsOK, configVars, processVars, pageVars, saveVars
  <2> QED
    BY <1>10, <2>1, TypeAfter
<1>11. ASSUME NEW options \in Options, StartManual(options)
       PROVE  TypeOK'
  <2>1. run' \in RunRec
    BY <1>11, DefaultsAreSettings DEF StartManual, RunRec
  <2>2. LeftOK' /\ inProgress' \in BOOLEAN
    BY <1>0, <1>11 DEF StartManual, LeftOK
  <2> QED
    BY <1>10, <1>11, <2>1, <2>2 DEF StartManual
<1>12. CASE LoadForRun
  <2> DEFINE over == Overrides(run.options)
             D == Named(run.options)
             settings == IF Refused(files["home"]) THEN ApplyOverrides(base, over)
                         ELSE Resolve(files["home"], env, over)
  <2>1. over \in [D -> Values] /\ D \in SUBSET Keys
    <3>1. run.options \in Options
      BY <1>0 DEF ProcessOK, RunRec
    <3> QED
      BY <3>1, NamedAreKeys
  <2> HIDE DEF over, D
  <2>2. ~Uncastable(files["home"]) => settings \in SettingsOf
    <3>1. files["home"] \in Files
      BY <1>0 DEF FilesOK, Places
    <3>2. base \in [Keys -> Values]
      BY <1>0 DEF ProcessOK, SettingsOf
    <3>3. ApplyOverrides(base, over) \in SettingsOf
      <4>1. Overlay(base, over) \in [Keys -> Values]
        <5>1. DOMAIN base \cup DOMAIN over = Keys
          BY <2>1, <3>2
        <5> QED
          BY <2>1, <3>2, <5>1 DEF Overlay
      <4> QED
        BY <4>1 DEF ApplyOverrides, SettingsOf
    <3>4. ~Uncastable(files["home"]) /\ ~Refused(files["home"])
            => Resolve(files["home"], env, over) \in SettingsOf
      BY <1>0, <2>1, <3>1, ResolveIsSettings DEF Loads, FilesOK
    <3> QED
      BY <3>3, <3>4
  <2>3. \/ run' = NotRunning /\ inProgress' = FALSE
        \/ /\ ~Uncastable(files["home"])
           /\ run' = [run EXCEPT !.at = "begun", !.settings = settings]
           /\ UNCHANGED inProgress
    BY <1>12 DEF LoadForRun, over
  <2> HIDE DEF settings
  <2>4. run' \in RunRec
    BY <1>0, <2>2, <2>3, NotRunningIsRec DEF ProcessOK, RunRec
  <2>5. inProgress' \in BOOLEAN /\ LeftOK'
    BY <1>0, <1>12, <2>3 DEF LoadForRun, FlagsOK, LeftOK
  <2> QED
    BY <1>10, <1>12, <2>4, <2>5 DEF LoadForRun
<1>13. CASE EndRun
  <2>1. run' \in RunRec /\ inProgress' \in BOOLEAN /\ LeftOK'
    BY <1>0, <1>13, NotRunningIsRec DEF EndRun, LeftOK
  <2> QED
    BY <1>10, <1>13, <2>1 DEF EndRun
<1>14. CASE RunExits
  <2>1. run' \in RunRec /\ inProgress' \in BOOLEAN /\ LeftOK'
    BY <1>0, <1>14, NotRunningIsRec DEF RunExits, LeftOK, FlagsOK
  <2> QED
    BY <1>10, <1>14, <2>1 DEF RunExits
<1>15. ASSUME Next
       PROVE  TypeOK'
  <2>1. Cases
    BY <1>15, NextCases
  <2> QED
    BY <1>2, <1>3, <1>4, <1>5, <1>6, <1>7, <1>8, <1>9, <1>11, <1>12, <1>13, <1>14, <2>1
       DEF Cases, Requested
<1> QED
  BY <1>1, <1>15

\* Type correctness of the file, the process, the page, the saves and the run.
THEOREM TypeCorrect == Spec => []TypeOK
<1>1. Init => TypeOK
  BY DashboardAssumption, AbsentIsFile, NoTextIsText, NotSavingIsRec, NotRunningIsRec,
     DefaultsAreSettings DEF Init, TypeOK, SaveRec, RunRec, Places
<1>2. TypeOK /\ [Next]_vars => TypeOK'
  BY NextKeepsTypes
<1> QED
  BY <1>1, <1>2, PTL DEF Spec

----------------------------------------------------------------------------
(* The manual run.                                                         *)

LEMMA LoadForRunEffect ==
    ASSUME TypeOK, LoadForRun, run'.at = "begun"
    PROVE  /\ run'.options = run.options
           /\ \A k \in Keys :
                run'.settings[k] = IF k \in Named(run.options) THEN Overrides(run.options)[k]
                                   ELSE Shown[k]
<1> DEFINE over == Overrides(run.options)
           D == Named(run.options)
           settings == IF Refused(files["home"]) THEN ApplyOverrides(base, over)
                       ELSE Resolve(files["home"], env, over)
<1>1. run \in RunRec /\ DOMAIN base = Keys
  BY DEF TypeOK, RunRec, SettingsOf
<1>2. over \in [D -> Values] /\ D \in SUBSET Keys
  BY <1>1, NamedAreKeys DEF RunRec
<1>3. ~Uncastable(files["home"]) /\ run' = [run EXCEPT !.at = "begun", !.settings = settings]
  BY DEF LoadForRun, NotRunning
<1>4. files["home"] \in Files /\ env \in Environments
  BY DEF TypeOK, Places
<1> HIDE DEF over, D
<1>5. \A k \in Keys : settings[k] = IF k \in D THEN over[k] ELSE Shown[k]
  <2>1. CASE Refused(files["home"])
    <3>1. Shown = base /\ settings = Overlay(base, over)
      BY <2>1 DEF Shown, Loads, ApplyOverrides
    <3> HIDE DEF settings
    <3> QED
      BY <1>1, <1>2, <3>1 DEF Overlay
  <2>2. CASE ~Refused(files["home"])
    <3>1. Shown = Resolve(files["home"], env, NoText) /\ settings = Resolve(files["home"], env, over)
      BY <1>3, <2>2 DEF Shown, Loads
    <3> HIDE DEF settings
    <3>2. \A k \in Keys :
            settings[k] = IF k \in D THEN over[k] ELSE Effective(files["home"], env, k)
      BY <1>2, <1>4, <3>1, ResolveAt
    <3>3. \A k \in Keys : Shown[k] = Effective(files["home"], env, k)
      BY <1>4, <3>1, ResolveFileAt
    <3> QED
      BY <3>2, <3>3
  <2> QED
    BY <2>1, <2>2
<1> HIDE DEF settings
<1>6. run'.options = run.options /\ run'.settings = settings
  BY <1>1, <1>3 DEF RunRec
<1> QED
  BY <1>5, <1>6 DEF over, D

\* A manual run that was not asked to write is a dry run, whatever the file
\* and the environment say (webui.py: _overrides_from_options).
THEOREM OnlyIfAsked == Spec => []WritesOnlyIfAsked
<1>1. Init => WritesOnlyIfAsked
  BY NotRunningIsRec DEF Init, WritesOnlyIfAsked
<1>2. TypeOK /\ WritesOnlyIfAsked /\ [Next]_vars => WritesOnlyIfAsked'
  <2> SUFFICES ASSUME TypeOK, WritesOnlyIfAsked, [Next]_vars PROVE WritesOnlyIfAsked'
    OBVIOUS
  <2>1. CASE UNCHANGED run
    BY <2>1 DEF WritesOnlyIfAsked
  <2>2. CASE run'.at # "begun"
    BY <2>2 DEF WritesOnlyIfAsked
  <2>3. CASE LoadForRun
    <3>1. Dry \in Keys /\ Dry \in Named(run.options)
      BY DashboardAssumption DEF Named
    <3>2. ~run.options.write => Overrides(run.options)[Dry] = "on"
      BY <3>1 DEF Overrides
    <3> QED
      BY <2>2, <2>3, <3>1, <3>2, LoadForRunEffect DEF WritesOnlyIfAsked
  <2>4. CASE run' = NotRunning
    BY <2>2, <2>4, NotRunningIsRec
  <2>5. ASSUME NEW options, StartManual(options)
        PROVE  WritesOnlyIfAsked'
    BY <2>5 DEF StartManual, WritesOnlyIfAsked
  <2>6. CASE Next
    <3>1. Cases
      BY <2>6, NextCases
    <3> QED
      BY <2>1, <2>3, <2>4, <2>5, <3>1
         DEF Cases, StartProcess, Crash, LoadPage, HandEdit, OpenFile, WriteFile, Requested,
             BeginSave, RefuseSave, EndRun, RunExits, runVars
  <2> QED
    BY <2>1, <2>6 DEF vars, runVars
<1> QED
  BY <1>1, <1>2, TypeCorrect, PTL DEF Spec

\* What a manual run loads is what the page shows at that moment, except for
\* what its options name, which is as they say (webui.py: _build_sweep and
\* _overrides_from_options beside _current_settings).
THEOREM RunUsesShown == Spec => RunUsesWhatIsShown
<1>1. ASSUME TypeOK, LoadForRun, run'.at = "begun", NEW k \in Keys
      PROVE  IF k \in Named(run.options)
               THEN run'.settings[k] = "on" \/ (k = Dry /\ run.options.write)
               ELSE run'.settings[k] = Shown[k]
  <2>1. k \in Named(run.options) =>
            Overrides(run.options)[k] = IF k = Dry /\ run.options.write THEN "off" ELSE "on"
    BY DEF Overrides
  <2> QED
    BY <1>1, <2>1, LoadForRunEffect
<1>2. TypeOK /\ [Next]_vars =>
        [LoadForRun /\ run'.at = "begun" =>
            \A k \in Keys :
                IF k \in Named(run.options)
                  THEN run'.settings[k] = "on" \/ (k = Dry /\ run.options.write)
                  ELSE run'.settings[k] = Shown[k]]_vars
  BY <1>1
<1> QED
  BY <1>2, TypeCorrect, PTL DEF Spec, RunUsesWhatIsShown

----------------------------------------------------------------------------
(* Saves.                                                                  *)

OneSaver ==
    \A g \in Handlers : \A h \in Handlers :
        saves[g].at # "idle" /\ saves[h].at # "idle" => g = h

NoneTorn == \A h \in Handlers : saves[h].at # "torn"

\* What a save is about to write is what the edits have made of the file, with
\* its own on top.
Drafts ==
    \A h \in Handlers : saves[h].at # "idle" =>
        /\ saves[h].file.kind = "text"
        /\ saves[h].file.text = Overlay(intended, saves[h].body)

LastSavedIntended == \A k \in DOMAIN lastSaved : k \in DOMAIN intended /\ intended[k] = lastSaved[k]

\* While the saves come one at a time, the file is what the edits have made
\* of it, or torn by the one save there is, which knows what belongs there.
Kept ==
    /\ ~up => ~Saving
    /\ up /\ ~disturbed =>
        /\ OneSaver /\ Drafts /\ LastSavedIntended
        /\ NoneTorn => Readable(files[place]) = intended

LEMMA StillKept ==
    ASSUME Kept, UNCHANGED <<up, files, place, saves, intended, lastSaved, disturbed>>
    PROVE  Kept'
  BY DEF Kept, Saving, OneSaver, NoneTorn, Drafts, LastSavedIntended

LEMMA NextKeepsKept ==
    ASSUME TypeOK, Kept, [Next]_vars
    PROVE  Kept'
<1>0. FilesOK /\ ProcessOK /\ FlagsOK
  BY TypeParts
<1>1. CASE UNCHANGED vars
  BY <1>1, StillKept DEF vars, configVars, processVars, saveVars
<1>2. CASE StartProcess
  <2>1. /\ ~Saving /\ up' /\ UNCHANGED <<files, saves>>
        /\ intended' = Readable(files[place']) /\ lastSaved' = NoText
    BY <1>2 DEF StartProcess, Kept, configVars
  <2>2. \A h \in Handlers : saves'[h].at = "idle"
    BY <2>1 DEF Saving
  <2>3. DOMAIN lastSaved' = {}
    BY <2>1, NoTextIsText
  <2>4. Readable(files[place])' = intended'
    BY <2>1 DEF Readable
  <2>5. OneSaver' /\ Drafts' /\ LastSavedIntended'
    BY <2>2, <2>3 DEF OneSaver, Drafts, LastSavedIntended
  <2> QED
    BY <2>1, <2>4, <2>5 DEF Kept
<1>3. CASE Crash
  <2>1. ~up' /\ \A h \in Handlers : saves'[h].at = "idle"
    BY <1>3, NotSavingIsRec DEF Crash
  <2> QED
    BY <2>1 DEF Kept, Saving
<1>4. CASE LoadPage
  BY <1>4, StillKept DEF LoadPage, configVars, processVars, saveVars
<1>5. ASSUME NEW file \in Files, HandEdit(file)
      PROVE  Kept'
  <2>1. UNCHANGED <<up, place, saves>> /\ files' = [files EXCEPT !["home"] = file]
    BY <1>5 DEF HandEdit, processVars
  <2>2. ~up' => ~Saving'
    BY <2>1 DEF Kept, Saving
  <2>3. CASE up /\ place = "home"
    <3>1. intended' = Readable(file) /\ lastSaved' = NoText /\ disturbed' = (disturbed \/ Saving)
      BY <1>5, <2>3 DEF HandEdit
    <3>2. files'[place'] = file
      BY <1>0, <2>1, <2>3 DEF FilesOK
    <3>3. Readable(files[place])' = intended'
      BY <3>1, <3>2 DEF Readable
    <3>4. DOMAIN lastSaved' = {}
      BY <3>1, NoTextIsText
    <3>5. ~Saving => OneSaver' /\ Drafts' /\ LastSavedIntended'
      BY <2>1, <3>4 DEF Saving, OneSaver, Drafts, LastSavedIntended
    <3> QED
      BY <2>2, <3>1, <3>3, <3>5 DEF Kept
  <2>4. CASE ~(up /\ place = "home")
    <3>1. UNCHANGED <<intended, lastSaved, disturbed>>
      BY <1>5, <2>4 DEF HandEdit
    <3>2. up => files'[place'] = files[place]
      BY <1>0, <2>1, <2>4 DEF FilesOK
    <3>3. up => Readable(files[place])' = Readable(files[place])
      BY <3>2 DEF Readable
    <3> QED
      BY <2>1, <2>2, <3>1, <3>3 DEF Kept, OneSaver, NoneTorn, Drafts, LastSavedIntended
  <2> QED
    BY <2>3, <2>4
<1>6. ASSUME NEW h \in Handlers, OpenFile(h)
      PROVE  Kept'
  <2>1. /\ UNCHANGED <<up, place, intended, lastSaved, disturbed>>
        /\ saves' = [saves EXCEPT ![h] = [saves[h] EXCEPT !.at = "torn"]]
        /\ saves[h].at = "read"
    BY <1>6 DEF OpenFile, processVars
  <2>2. saves[h] \in SaveRec
    BY <1>0 DEF FilesOK
  <2>3. /\ saves'[h].at = "torn" /\ saves'[h].file = saves[h].file
        /\ saves'[h].body = saves[h].body
        /\ \A g \in Handlers : g # h => saves'[g] = saves[g]
    BY <1>0, <2>1, <2>2 DEF FilesOK, SaveRec
  <2>4. \A g \in Handlers : saves'[g].at = "idle" <=> saves[g].at = "idle"
    BY <2>1, <2>3
  <2>5. /\ OneSaver => OneSaver'
        /\ Drafts => Drafts'
        /\ LastSavedIntended => LastSavedIntended'
        /\ ~NoneTorn'
        /\ ~Saving => ~Saving'
    BY <2>1, <2>3, <2>4 DEF OneSaver, Drafts, LastSavedIntended, NoneTorn, Saving
  <2> QED
    BY <2>1, <2>5 DEF Kept
<1>7. ASSUME NEW h \in Handlers, WriteFile(h)
      PROVE  Kept'
  <2>1. /\ UNCHANGED <<up, place, disturbed>> /\ saves[h].at = "torn"
        /\ files' = [files EXCEPT ![place] = saves[h].file]
        /\ intended' = Overlay(intended, saves[h].body)
        /\ lastSaved' = saves[h].body
        /\ saves' = [saves EXCEPT ![h] = NotSaving]
    BY <1>7 DEF WriteFile, processVars
  <2>2. up
    BY <2>1 DEF Kept, Saving
  <2>3. files'[place'] = saves[h].file
        /\ saves'[h].at = "idle" /\ \A g \in Handlers : g # h => saves'[g] = saves[g]
    BY <1>0, <2>1, NotSavingIsRec DEF FilesOK
  <2> SUFFICES ASSUME ~disturbed
               PROVE  /\ OneSaver' /\ Drafts' /\ LastSavedIntended'
                      /\ NoneTorn' => Readable(files[place])' = intended'
    BY <2>1, <2>2 DEF Kept
  <2>4. OneSaver /\ Drafts
    BY <2>2 DEF Kept
  <2>5. \A g \in Handlers : saves'[g].at = "idle"
    BY <2>1, <2>3, <2>4 DEF OneSaver
  <2>6. OneSaver' /\ Drafts'
    BY <2>5 DEF OneSaver, Drafts
  <2>7. LastSavedIntended'
    BY <2>1 DEF LastSavedIntended, Overlay
  <2>8. Readable(files[place])' = intended'
    <3>1. saves[h].file.kind = "text" /\ saves[h].file.text = intended'
      BY <2>1, <2>4 DEF Drafts
    <3> QED
      BY <2>3, <3>1 DEF Readable, Refused
  <2> QED
    BY <2>6, <2>7, <2>8
<1>8. ASSUME NEW h \in Handlers, NEW body \in Texts, NEW edit \in SUBSET Keys,
             BeginSave(h, body, edit)
      PROVE  Kept'
  <2>1. /\ UNCHANGED <<up, place, files, intended, lastSaved>> /\ up
        /\ disturbed' = (disturbed \/ Saving)
    BY <1>8 DEF BeginSave, configVars, processVars
  <2> DEFINE known == Known(body)
  <2>2. /\ saves'[h] = [at |-> "read", body |-> known, edit |-> edit, file |-> Draft(known)]
        /\ \A g \in Handlers : g # h => saves'[g] = saves[g]
    BY <1>8, BeginSaveEffect
  <2> HIDE DEF known
  <2> SUFFICES ASSUME ~disturbed, ~Saving
               PROVE  /\ OneSaver' /\ Drafts' /\ LastSavedIntended'
                      /\ NoneTorn' => Readable(files[place])' = intended'
    BY <2>1 DEF Kept
  <2>3. \A g \in Handlers : saves[g].at = "idle"
    BY DEF Saving
  <2>4. Readable(files[place]) = intended /\ LastSavedIntended
    BY <2>1, <2>3 DEF Kept, NoneTorn
  <2>5. Draft(known).kind = "text" /\ Draft(known).text = Overlay(intended, known)
    BY <2>4 DEF Draft, Merged
  <2>6. Drafts'
    BY <2>1, <2>2, <2>3, <2>5 DEF Drafts
  <2>7. OneSaver'
    BY <2>2, <2>3 DEF OneSaver
  <2>8. LastSavedIntended' /\ Readable(files[place])' = intended'
    BY <2>1, <2>4 DEF LastSavedIntended, Readable
  <2> QED
    BY <2>6, <2>7, <2>8
<1>9. ASSUME Next
      PROVE  Kept'
  <2>1. Cases
    BY <1>9, NextCases
  <2>2. ASSUME NEW body, RefuseSave(body)
        PROVE  Kept'
    BY <2>2, StillKept DEF RefuseSave, configVars, processVars, saveVars
  <2>3. ASSUME NEW options, StartManual(options)
        PROVE  Kept'
    BY <2>3, StillKept DEF StartManual, configVars, processVars, saveVars
  <2>4. CASE LoadForRun \/ EndRun \/ RunExits
    BY <2>4, StillKept DEF LoadForRun, EndRun, RunExits, configVars, processVars, saveVars
  <2> QED
    BY <1>2, <1>3, <1>4, <1>5, <1>6, <1>7, <1>8, <2>1, <2>2, <2>3, <2>4 DEF Cases, Requested
<1> QED
  BY <1>1, <1>9

LEMMA KeptAlways == Spec => [](TypeOK /\ Kept)
<1>1. Init => Kept
  BY NotSavingIsRec DEF Init, Kept, Saving
<1>2. TypeOK /\ Kept /\ [Next]_vars => Kept'
  BY NextKeepsKept
<1> QED
  BY <1>1, <1>2, TypeCorrect, PTL DEF Spec

\* An accepted edit is not lost and undoes no other, as long as the saves
\* come one at a time (webui.py: validate_and_build_yaml, write_config).
THEOREM LoneSaves == Spec => []LoneSavesKept
<1>1. Kept => LoneSavesKept
  BY DEF Kept, LoneSavesKept, NoneTorn, Saving
<1> QED
  BY <1>1, KeptAlways, PTL

\* What was saved is what the page shows and the next run uses, unless the page
\* shows the setting as locked or one of the variables that it does not show
\* says otherwise (config.py: load_settings, env_overridden_fields).
THEOREM SavedCounts == Spec => []SavedTakesEffect
<1>1. TypeOK /\ Kept => SavedTakesEffect
  <2> SUFFICES ASSUME TypeOK, Kept, up, ~disturbed, ~Saving, place = "home", Loads(files[place]),
                      NEW k \in DOMAIN lastSaved
               PROVE  Locked(env, k) \/ Silent(env, k) \/ Shown[k] = lastSaved[k]
    BY DEF SavedTakesEffect
  <2>1. k \in Keys
    BY TextUse DEF TypeOK
  <2>2. Readable(files["home"]) = intended
    BY DEF Kept, Saving, NoneTorn
  <2>3. k \in DOMAIN intended /\ intended[k] = lastSaved[k]
    BY DEF Kept, LastSavedIntended
  <2>4. files["home"].text = intended /\ Shown = Resolve(files["home"], env, NoText)
    BY <2>2 DEF Readable, Loads, Shown
  <2>5. Shown[k] = Effective(files["home"], env, k)
    <3>1. files["home"] \in Files /\ env \in Environments
      BY DEF TypeOK, Places
    <3> QED
      BY <2>1, <2>4, <3>1, ResolveFileAt
  <2>6. CASE EnvBeats(env, k)
    BY <2>6 DEF EnvBeats, Locked, Silent
  <2>7. CASE ~EnvBeats(env, k)
    BY <2>3, <2>4, <2>5, <2>7 DEF Effective
  <2> QED
    BY <2>6, <2>7
<1> QED
  BY <1>1, KeptAlways, PTL

----------------------------------------------------------------------------
(* A form that is fresh.                                                   *)

\* A page that is fresh shows the file, unless a save has torn it.
PageIsFile ==
    fresh /\ (place = "home" => NoneTorn) =>
        /\ Loads(files["home"])
        /\ \A k \in Keys : page[k] = Effective(files["home"], env, k)

\* What the form of such a page is about to write leaves every setting as the
\* page shows it, except for the one the user has changed.
FormsRepeat ==
    fresh /\ ~disturbed /\ place = "home" =>
        \A h \in Handlers : saves[h].at # "idle" /\ saves[h].edit # {} =>
            /\ Loads(saves[h].file)
            /\ \A k \in Keys \ saves[h].edit : page[k] = Effective(saves[h].file, env, k)

Repeats == PageIsFile /\ FormsRepeat

LEMMA StillRepeats ==
    ASSUME Repeats, UNCHANGED <<env, files, place, page, fresh, saves, disturbed>>
    PROVE  Repeats'
  BY DEF Repeats, PageIsFile, FormsRepeat, NoneTorn

LEMMA StaleRepeats ==
    ASSUME ~fresh'
    PROVE  Repeats'
  BY DEF Repeats, PageIsFile, FormsRepeat

\* What the save of a form that is fresh makes of the file.
LEMMA DraftRepeats ==
    ASSUME TypeOK, Repeats, NEW h \in Handlers, NEW body \in Texts, NEW edit \in SUBSET Keys,
           Requested(h, body, edit), edit # {}, place = "home", ~Saving
    PROVE  /\ Loads(Draft(Known(body)))
           /\ \A k \in Keys \ edit : page[k] = Effective(Draft(Known(body)), env, k)
<1> DEFINE file == files["home"]
           known == Known(body)
<1>0. DOMAIN known = DOMAIN body \ Dropped /\ \A k \in DOMAIN known : known[k] = body[k]
  BY KnownIsText
<1>1. fresh /\ \A k \in DOMAIN known \ edit : known[k] = page[k]
  BY <1>0 DEF Requested
<1>2. \A k \in DOMAIN known : known[k] # Junk
  BY <1>0 DEF Requested, BeginSave, Accepts
<1>3. NoneTorn
  BY DEF NoneTorn, Saving
<1>4. Loads(file) /\ \A k \in Keys : page[k] = Effective(file, env, k)
  BY <1>1, <1>3 DEF Repeats, PageIsFile
<1>5. file.kind = "text" /\ Readable(file) = file.text
      /\ \A k \in DOMAIN file.text : file.text[k] # Junk
  BY <1>4 DEF TypeOK, Places, Files, Loads, Refused, Uncastable, Readable
<1> HIDE DEF file, known
<1>6. Draft(known).kind = "text" /\ Draft(known).text = Overlay(file.text, known)
  BY <1>5 DEF Draft, Merged, file
<1>7. /\ DOMAIN Draft(known).text = DOMAIN file.text \cup DOMAIN known
      /\ \A k \in DOMAIN file.text \cup DOMAIN known :
            Draft(known).text[k] = IF k \in DOMAIN known THEN known[k] ELSE file.text[k]
  BY <1>6 DEF Overlay
<1> DEFINE draft == Draft(known)
<1>8. draft.kind = "text"
      /\ DOMAIN draft.text = DOMAIN file.text \cup DOMAIN known
      /\ \A k \in DOMAIN file.text \cup DOMAIN known :
            draft.text[k] = IF k \in DOMAIN known THEN known[k] ELSE file.text[k]
  BY <1>6, <1>7
<1> HIDE DEF draft
<1>9. Loads(draft)
  BY <1>2, <1>5, <1>8 DEF Loads, Refused, Uncastable
<1>10. \A k \in Keys \ edit : page[k] = Effective(draft, env, k)
  BY <1>1, <1>4, <1>8 DEF Effective
<1> QED
  BY <1>9, <1>10 DEF draft, known

LEMMA NextKeepsRepeats ==
    ASSUME TypeOK, Kept, Repeats, [Next]_vars
    PROVE  Repeats'
<1>0. FilesOK /\ ProcessOK
  BY TypeParts
<1>1. CASE UNCHANGED vars
  BY <1>1, StillRepeats DEF vars, configVars, processVars, pageVars, saveVars
<1>2. CASE StartProcess
  <2>1. UNCHANGED <<env, files, page, fresh, saves>> /\ ~Saving
    BY <1>2 DEF StartProcess, configVars, pageVars, Kept
  <2>2. \A h \in Handlers : saves[h].at = "idle"
    BY <2>1 DEF Saving
  <2>3. PageIsFile'
    BY <2>1, <2>2 DEF Repeats, PageIsFile, NoneTorn
  <2>4. FormsRepeat'
    BY <2>1, <2>2 DEF FormsRepeat
  <2> QED
    BY <2>3, <2>4 DEF Repeats
<1>3. CASE Crash
  <2>1. UNCHANGED <<env, files, page>> /\ fresh' = (fresh /\ ~Saving)
        /\ \A h \in Handlers : saves'[h].at = "idle"
    BY <1>3, NotSavingIsRec DEF Crash, configVars
  <2>2. ~Saving => NoneTorn
    BY DEF Saving, NoneTorn
  <2>3. PageIsFile'
    BY <2>1, <2>2 DEF Repeats, PageIsFile
  <2>4. FormsRepeat'
    BY <2>1 DEF FormsRepeat
  <2> QED
    BY <2>3, <2>4 DEF Repeats
<1>4. CASE LoadPage
  <2>1. UNCHANGED <<env, files, place, saves, disturbed>>
        /\ page' = Shown /\ fresh' = (Loads(files["home"]) /\ ~Saving)
    BY <1>4 DEF LoadPage, configVars, processVars, saveVars
  <2>2. CASE ~fresh'
    BY <2>2, StaleRepeats
  <2>3. CASE fresh'
    <3>1. Loads(files["home"]) /\ \A h \in Handlers : saves[h].at = "idle"
      BY <2>1, <2>3 DEF Saving
    <3>2. page' = Resolve(files["home"], env, NoText)
      BY <2>1, <3>1 DEF Shown
    <3>3. \A k \in Keys : page'[k] = Effective(files["home"], env, k)
      BY <1>0, <3>2, ResolveFileAt DEF FilesOK, Places
    <3>4. PageIsFile'
      BY <2>1, <3>1, <3>3 DEF PageIsFile
    <3>5. FormsRepeat'
      BY <2>1, <3>1 DEF FormsRepeat
    <3> QED
      BY <3>4, <3>5 DEF Repeats
  <2> QED
    BY <2>2, <2>3
<1>5. ASSUME NEW file, HandEdit(file)
      PROVE  Repeats'
  BY <1>5, StaleRepeats DEF HandEdit
<1>6. ASSUME NEW h \in Handlers, OpenFile(h)
      PROVE  Repeats'
  <2>1. /\ UNCHANGED <<env, place, page, fresh, disturbed>>
        /\ saves' = [saves EXCEPT ![h] = [saves[h] EXCEPT !.at = "torn"]]
        /\ saves[h].at = "read"
        /\ files' = [files EXCEPT ![place] = Absent]
    BY <1>6 DEF OpenFile, processVars, pageVars
  <2>2. saves[h] \in SaveRec
    BY <1>0 DEF FilesOK
  <2>3. /\ saves'[h].at = "torn" /\ saves'[h].file = saves[h].file
        /\ saves'[h].edit = saves[h].edit
        /\ \A g \in Handlers : g # h => saves'[g] = saves[g]
    BY <1>0, <2>1, <2>2 DEF FilesOK, SaveRec
  <2>4. place # "home" => files'["home"] = files["home"]
    BY <1>0, <2>1 DEF FilesOK, Places
  <2>5. PageIsFile'
    BY <2>1, <2>3, <2>4 DEF Repeats, PageIsFile, NoneTorn
  <2>6. FormsRepeat'
    BY <2>1, <2>3 DEF Repeats, FormsRepeat
  <2> QED
    BY <2>5, <2>6 DEF Repeats
<1>7. ASSUME NEW h \in Handlers, WriteFile(h)
      PROVE  Repeats'
  BY <1>7, StaleRepeats DEF WriteFile
<1>8. ASSUME NEW h \in Handlers, NEW body \in Texts, NEW edit \in SUBSET Keys,
             Requested(h, body, edit)
      PROVE  Repeats'
  <2>1. /\ UNCHANGED <<env, place, files, page, fresh>>
        /\ disturbed' = (disturbed \/ Saving)
    BY <1>8 DEF Requested, BeginSave, configVars, processVars, pageVars
  <2> DEFINE known == Known(body)
  <2>2. /\ saves'[h] = [at |-> "read", body |-> known, edit |-> edit, file |-> Draft(known)]
        /\ \A g \in Handlers : g # h => saves'[g] = saves[g]
    BY <1>8, BeginSaveEffect DEF Requested
  <2>3. saves[h].at = "idle"
    BY <1>8 DEF Requested, BeginSave
  <2>4. NoneTorn' => NoneTorn
    BY <2>2, <2>3 DEF NoneTorn
  <2>5. PageIsFile'
    BY <2>1, <2>4 DEF Repeats, PageIsFile
  <2>6. FormsRepeat'
    <3> SUFFICES ASSUME fresh, ~disturbed, ~Saving, place = "home", NEW g \in Handlers,
                        saves'[g].at # "idle", saves'[g].edit # {}
                 PROVE  /\ Loads(saves'[g].file)
                        /\ \A k \in Keys \ saves'[g].edit :
                            page[k] = Effective(saves'[g].file, env, k)
      BY <2>1 DEF FormsRepeat
    <3>1. g = h
      BY <2>2 DEF Saving
    <3>2. edit # {} /\ saves'[g].edit = edit /\ saves'[g].file = Draft(known)
      BY <2>2, <3>1
    <3>3. /\ Loads(Draft(known))
          /\ \A k \in Keys \ edit : page[k] = Effective(Draft(known), env, k)
      BY <1>8, <3>2, DraftRepeats
    <3> QED
      BY <3>2, <3>3
  <2> QED
    BY <2>5, <2>6 DEF Repeats
<1>9. ASSUME Next
      PROVE  Repeats'
  <2>1. Cases
    BY <1>9, NextCases
  <2>2. ASSUME NEW body, RefuseSave(body)
        PROVE  Repeats'
    BY <2>2, StillRepeats DEF RefuseSave, configVars, processVars, pageVars, saveVars
  <2>3. ASSUME NEW options, StartManual(options)
        PROVE  Repeats'
    BY <2>3, StillRepeats DEF StartManual, configVars, processVars, pageVars, saveVars
  <2>4. CASE LoadForRun \/ EndRun \/ RunExits
    BY <2>4, StillRepeats
       DEF LoadForRun, EndRun, RunExits, configVars, processVars, pageVars, saveVars
  <2> QED
    BY <1>2, <1>3, <1>4, <1>5, <1>6, <1>7, <1>8, <2>1, <2>2, <2>3, <2>4 DEF Cases
<1> QED
  BY <1>1, <1>9

\* The save of a form changes only the setting the user has edited, when the
\* file is still as the page has shown it (webui.py: the forms of the page).
THEOREM FreshForm == Spec => FreshFormChangesOneSetting
<1>1. Init => Repeats
  BY DEF Init, Repeats, PageIsFile, FormsRepeat
<1>2. TypeOK /\ Kept /\ Repeats /\ [Next]_vars => Repeats'
  BY NextKeepsRepeats
<1>3. ASSUME TypeOK, Repeats, NEW h \in Handlers, WriteFile(h), fresh, ~disturbed,
             saves[h].edit # {}, NEW k \in Keys \ saves[h].edit
      PROVE  Shown'[k] = page[k]
  <2>1. /\ UNCHANGED <<env, place>> /\ saves[h].at = "torn"
        /\ files' = [files EXCEPT ![place] = saves[h].file]
    BY <1>3 DEF WriteFile, processVars
  <2>2. files \in [Places -> Files] /\ place \in Places /\ saves[h] \in SaveRec
        /\ env \in Environments
    BY <1>3, TypeParts DEF FilesOK
  <2>3. files'["home"] \in Files /\ Loads(files'["home"])
        /\ page[k] = Effective(files'["home"], env, k)
    <3>1. CASE place = "home"
      <4>1. files'["home"] = saves[h].file /\ saves[h].file \in Files
        BY <2>1, <2>2, <3>1 DEF SaveRec
      <4> QED
        BY <1>3, <2>1, <3>1, <4>1 DEF Repeats, FormsRepeat
    <3>2. CASE place # "home"
      <4>1. files'["home"] = files["home"] /\ files["home"] \in Files
        BY <2>1, <2>2, <3>2 DEF Places
      <4> QED
        BY <1>3, <3>2, <4>1 DEF Repeats, PageIsFile
    <3> QED
      BY <3>1, <3>2
  <2>4. Shown' = Resolve(files'["home"], env, NoText)
    BY <2>1, <2>3 DEF Shown
  <2> QED
    BY <2>2, <2>3, <2>4, ResolveFileAt
<1>4. TypeOK /\ Repeats /\ [Next]_vars =>
        [\A h \in Handlers :
            WriteFile(h) /\ fresh /\ ~disturbed /\ saves[h].edit # {} =>
                \A k \in Keys \ saves[h].edit : Shown'[k] = page[k]]_vars
  BY <1>3
<1> QED
  BY <1>1, <1>2, <1>4, KeptAlways, PTL DEF Spec, FreshFormChangesOneSetting

=============================================================================
