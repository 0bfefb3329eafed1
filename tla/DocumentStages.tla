-------------------------- MODULE DocumentStages --------------------------
(***************************************************************************)
(* Documents of a Paperless server going through triage, re-OCR and        *)
(* metadata extraction (src/src/paperless_assistant/sweep.py, stages.py,   *)
(* ocr.py, metadata.py, safety.py).  Several runs may overlap: the         *)
(* scheduled sweep, a manual run, the webhook handlers, another process.   *)
(*                                                                         *)
(* A run fetches a copy of the documents when a stage begins and works     *)
(* from that copy: each write is a PATCH of whole values computed from it. *)
(* A step is the code between two effects on the server, the snapshot      *)
(* directory or the provider, and the workers of a run take the documents  *)
(* of its queue in any order.                                              *)
(*                                                                         *)
(* Abstractions.  A document is its stage, its OCR score, what the user    *)
(* put on it and what the program tagged; its text is the garbage score it *)
(* has, in hundredths.  The provider's answer is not looked into.  The     *)
(* spend caps only make a worker skip a document.                          *)
(***************************************************************************)
EXTENDS Integers, FiniteSets

CONSTANTS
    NDocs,          \* document ids 1..NDocs, listed in this order
    Runners,        \* runs that may overlap
    Qualities,      \* garbage scores texts can have, in hundredths
    Enabled,        \* the stages that are switched on
    EligibleRoles,  \* metadata_eligible_roles
    DryRun,         \* settings.dry_run: "auto", "dry" or "write"
    Retriage,       \* re-triage what was already triaged
    Limit,          \* documents per stage and run, 0 for all
    ScoreField,     \* data type of the ocr_quality field
    NoCopy,         \* "no copy of the document"
    Torn,           \* a snapshot file whose writer died
    MaxFailures,    \* bound: crashes, errors, empty answers, caps
    MaxEdits,       \* bound: edits by the user
    MaxDryRuns      \* bound: dry runs, see MayBegin

Docs == 1..NDocs

\* STAGE_ORDER; "" is "no stage yet".
Rank == [s \in {"", "triaged", "reocr_done", "metadata_done"} |->
            CASE s = "" -> 0 [] s = "triaged" -> 1
              [] s = "reocr_done" -> 2 [] OTHER -> 3]
Stages == DOMAIN Rank
NoScore == -1

\* triage_threshold and garbage_threshold, both 0.55.
Threshold == 55

ASSUME StagesAssumption ==
    /\ NDocs \in Nat
    /\ Qualities \subseteq 0..100
    /\ Enabled \subseteq {"triage", "reocr", "metadata"}
    /\ EligibleRoles \subseteq Stages
    /\ DryRun \in {"auto", "dry", "write"}
    /\ Retriage \in BOOLEAN
    /\ Limit \in Nat
    /\ ScoreField \in {"float", "integer"}
    /\ MaxFailures \in Nat
    /\ MaxEdits \in Nat
    /\ MaxDryRuns \in Nat

VARIABLES
    docs,           \* the documents of the server
    origin,         \* history: the scan a document goes back to, 0 for a free id
    made,           \* review tags that exist on the server
    snapshots,      \* files: per stage directory, the copy saved of a document
    firstRunDone,   \* file: cursor.json
    pc,             \* the stage each run is in
    target,         \* the document a nudge is about, 0 for a sweep
    dry,            \* is the run a dry run?
    stopped,        \* did an account-level provider error stop the sweep?
    view,           \* the fetched copies of the documents in a run's queue
    step,           \* how far a run got with each document of its queue
    copy,           \* the document a run uploaded for another one
    failures, edits,\* counters of the bounds
    paid,           \* history: provider answers paid for
    wasted,         \* history: those an error or a crash threw away
    proposed,       \* history: those a dry run only reported
    dryRuns         \* history: dry runs begun

serverVars == <<docs, origin, made>>
fileVars == <<snapshots, firstRunDone>>
runVars == <<pc, target, dry, stopped, view, step, copy>>
boundVars == <<failures, edits>>
histVars == <<paid, wasted, proposed, dryRuns>>
vars == <<serverVars, fileVars, runVars, boundVars, histVars>>

DocRecord == [present : BOOLEAN, quality : Qualities, stage : Stages,
              score : Int, tags : SUBSET {"superseded", "extracted"},
              user : SUBSET {"tag", "field"}]

RunStages == {"triage", "reocr", "metadata"}
Billable == {"reocr", "metadata"}
Steps == {"out", "queued", "saved", "paid", "uploaded", "carried"}

ASSUME CopyAssumption == NoCopy \notin DocRecord /\ Torn \notin DocRecord /\ NoCopy # Torn

TypeOK ==
    /\ docs \in [Docs -> DocRecord]
    /\ origin \in [Docs -> 0..NDocs]
    /\ made \subseteq Billable
    /\ snapshots \in [RunStages -> [Docs -> DocRecord \cup {NoCopy, Torn}]]
    /\ firstRunDone \in BOOLEAN
    /\ pc \in [Runners -> {"idle"} \cup RunStages]
    /\ target \in [Runners -> 0..NDocs]
    /\ dry \in [Runners -> BOOLEAN]
    /\ stopped \in BOOLEAN
    /\ view \in [Runners -> [Docs -> DocRecord \cup {NoCopy}]]
    /\ step \in [Runners -> [Docs -> Steps]]
    /\ copy \in [Runners -> [Docs -> 0..NDocs]]
    /\ failures \in Nat
    /\ edits \in Nat
    /\ paid \in [Billable -> [Docs -> Nat]]
    /\ {wasted, proposed} \subseteq [Billable -> [Docs -> Nat]]
    /\ dryRuns \in Nat

NewDoc(present, quality) ==
    [present |-> present, quality |-> quality, stage |-> "",
     score |-> NoScore, tags |-> {}, user |-> {}]

NoCopies == [d \in Docs |-> NoCopy]
Nothing == [d \in Docs |-> 0]
AllOut == [d \in Docs |-> "out"]

\* The server holds some documents; the free ids are for uploads.
Init ==
    /\ \E n \in Docs : \E q \in [Docs -> Qualities] :
          docs = [d \in Docs |-> NewDoc(d <= n, q[d])]
    /\ origin = [d \in Docs |-> IF docs[d].present THEN d ELSE 0]
    /\ made = {}
    /\ snapshots = [s \in RunStages |-> NoCopies]
    /\ firstRunDone = FALSE
    /\ pc = [r \in Runners |-> "idle"]
    /\ target = [r \in Runners |-> 0]
    /\ dry = [r \in Runners |-> FALSE]
    /\ stopped = FALSE
    /\ view = [r \in Runners |-> NoCopies]
    /\ step = [r \in Runners |-> AllOut]
    /\ copy = [r \in Runners |-> Nothing]
    /\ failures = 0
    /\ edits = 0
    /\ paid = [s \in Billable |-> Nothing]
    /\ wasted = [s \in Billable |-> Nothing]
    /\ proposed = [s \in Billable |-> Nothing]
    /\ dryRuns = 0

----------------------------------------------------------------------------
(* Which documents a stage works on, judged by a copy c of the document.   *)

\* Fault: a document past the triaged stage counts as not triaged.
AlreadyTriagedExactly(c) == c.stage = "triaged"

AlreadyTriaged(c) == Rank[c.stage] >= Rank["triaged"]

\* Fault: the score is not looked at.
ReocrMatchesAnyScore(c) == c.stage = "triaged"

ReocrMatches(c) == c.stage = "triaged" /\ c.score >= Threshold

\* Fault: the stage is not looked at.
EligibleAtAnyStage(c) == ~(c.score >= Threshold)

\* Fault: only documents without a stage are taken.
EligibleUntriagedOnly(c) == c.stage = "" /\ ~(c.score >= Threshold)

MetadataEligible(c) == c.stage \in EligibleRoles /\ ~(c.score >= Threshold)

FirstOf(S) ==
    IF Limit = 0 THEN S
    ELSE {d \in S : Cardinality({e \in S : e < d}) < Limit}

\* The triage list is cut to the limit before it is filtered, the other two
\* after.
Queue(s, t) ==
    LET listed == {d \in Docs : docs[d].present /\ t \in {0, d}} IN
    CASE s = "triage" ->
            {d \in FirstOf(listed) : Retriage \/ ~AlreadyTriaged(docs[d])}
      [] s = "reocr" -> FirstOf({d \in listed : ReocrMatches(docs[d])})
      [] s = "metadata" -> FirstOf({d \in listed : MetadataEligible(docs[d])})

\* coerce_score: an integer field holds a percentage.
Coerce(q) == IF ScoreField = "integer" THEN q * 100 ELSE q

----------------------------------------------------------------------------
(* The course of a run.                                                    *)

Position == [s \in {"idle"} \cup RunStages |->
                CASE s = "idle" -> 0 [] s = "triage" -> 1
                  [] s = "reocr" -> 2 [] OTHER -> 3]

StagesAfter(s) == {t \in Enabled : Position[t] > Position[s]}

\* A billable stage first makes sure its review tag exists, also in a dry
\* run; then the documents are fetched.
EnterStage(r, s, t) ==
    /\ made' = IF s \in Billable THEN made \cup {s} ELSE made
    /\ pc' = [pc EXCEPT ![r] = s]
    /\ step' = [step EXCEPT ![r] =
                  [d \in Docs |-> IF d \in Queue(s, t) THEN "queued" ELSE "out"]]
    /\ view' = [view EXCEPT ![r] =
                  [d \in Docs |-> IF d \in Queue(s, t) THEN docs[d] ELSE NoCopy]]
    /\ UNCHANGED <<docs, origin, snapshots, copy, boundVars, paid, wasted, proposed>>

EnterFirstOf(r, S, t) ==
    \E s \in S : (\A u \in S : Position[s] <= Position[u]) /\ EnterStage(r, s, t)

ResolveDryRun == IF DryRun = "auto" THEN ~firstRunDone ELSE DryRun = "dry"

\* Bound: dry runs but for the sweeps that end the first-run protection.
MayBegin(t) ==
    \/ ~ResolveDryRun
    \/ DryRun = "auto" /\ t = 0
    \/ dryRuns < MaxDryRuns

\* Fault: a nudge does not look at the cursor.
BeginRunNudgeWrites(r, t) ==
    /\ pc[r] = "idle"
    /\ t # 0 => docs[t].present
    /\ MayBegin(t)
    /\ target' = [target EXCEPT ![r] = t]
    /\ dry' = [dry EXCEPT ![r] = IF t = 0 THEN ResolveDryRun ELSE DryRun = "dry"]
    /\ stopped' = (stopped /\ t # 0)
    /\ EnterFirstOf(r, Enabled, t)
    /\ UNCHANGED firstRunDone
    /\ dryRuns' = dryRuns + (IF dry'[r] THEN 1 ELSE 0)

\* Fault: a sweep does not reset the latch of the one before.
BeginRunLatched(r, t) ==
    /\ pc[r] = "idle"
    /\ t # 0 => docs[t].present
    /\ MayBegin(t)
    /\ target' = [target EXCEPT ![r] = t]
    /\ dry' = [dry EXCEPT ![r] = ResolveDryRun]
    /\ UNCHANGED stopped
    /\ EnterFirstOf(r, Enabled, t)
    /\ UNCHANGED firstRunDone
    /\ dryRuns' = dryRuns + (IF dry'[r] THEN 1 ELSE 0)

\* run_once, or process_nudge for one document that exists.  The runs share
\* one Sweep object and its latch, which only a sweep resets.
BeginRun(r, t) ==
    /\ pc[r] = "idle"
    /\ t # 0 => docs[t].present
    /\ MayBegin(t)
    /\ target' = [target EXCEPT ![r] = t]
    /\ dry' = [dry EXCEPT ![r] = ResolveDryRun]
    /\ stopped' = (stopped /\ t # 0)
    /\ EnterFirstOf(r, Enabled, t)
    /\ UNCHANGED firstRunDone
    /\ dryRuns' = dryRuns + (IF dry'[r] THEN 1 ELSE 0)

StageDone(r) == pc[r] # "idle" /\ step[r] = AllOut

\* The stages a run still has to do: a sweep that met an account-level
\* provider error does none, a nudge does not look at that.
StagesLeft(r) == IF stopped /\ target[r] = 0 THEN {} ELSE StagesAfter(pc[r])

NextStage(r) ==
    /\ StageDone(r)
    /\ EnterFirstOf(r, StagesLeft(r), target[r])
    /\ UNCHANGED <<target, dry, stopped, firstRunDone, dryRuns>>

\* Only a completed sweep ends the first-run protection.
EndRun(r) ==
    /\ StageDone(r)
    /\ StagesLeft(r) = {}
    /\ firstRunDone' = (firstRunDone \/ target[r] = 0)
    /\ pc' = [pc EXCEPT ![r] = "idle"]
    /\ target' = [target EXCEPT ![r] = 0]
    /\ dry' = [dry EXCEPT ![r] = FALSE]
    /\ UNCHANGED <<serverVars, stopped, snapshots, view, step, copy, boundVars, histVars>>

----------------------------------------------------------------------------
(* One document of a queue.                                                *)

At(r, d, s, label) == pc[r] = s /\ step[r][d] = label

MoveTo(r, d, label) ==
    /\ step' = [step EXCEPT ![r][d] = label]
    /\ UNCHANGED <<view, copy>>

Leave(r, d) ==
    /\ step' = [step EXCEPT ![r][d] = "out"]
    /\ view' = [view EXCEPT ![r][d] = NoCopy]
    /\ copy' = [copy EXCEPT ![r][d] = 0]

RunUnchanged == UNCHANGED <<pc, target, dry, stopped, firstRunDone>>

Patch(d, new) ==
    /\ docs' = [docs EXCEPT ![d] = new]
    /\ UNCHANGED <<origin, made>>

\* A dry triage computes the score and stops there.
ProposeTriage(r, d) ==
    /\ At(r, d, "triage", "queued")
    /\ dry[r]
    /\ Leave(r, d)
    /\ RunUnchanged
    /\ UNCHANGED <<serverVars, snapshots, boundVars, histVars>>

\* Fault: the snapshot is taken again on every run.
SaveSnapshotAgain(r, d) ==
    /\ step[r][d] = "queued"
    /\ pc[r] = "triage" => ~dry[r]
    /\ snapshots' = [snapshots EXCEPT ![pc[r]][d] = docs[d]]
    /\ MoveTo(r, d, "saved")
    /\ RunUnchanged
    /\ UNCHANGED <<serverVars, boundVars, histVars>>

\* SafetyLayer.snapshot: the fetched copy is written once and then kept.
SaveSnapshot(r, d) ==
    /\ step[r][d] = "queued"
    /\ pc[r] = "triage" => ~dry[r]
    /\ snapshots' = IF snapshots[pc[r]][d] = NoCopy
                    THEN [snapshots EXCEPT ![pc[r]][d] = view[r][d]]
                    ELSE snapshots
    /\ MoveTo(r, d, "saved")
    /\ RunUnchanged
    /\ UNCHANGED <<serverVars, boundVars, histVars>>

\* Fault: the PATCH is sent before the snapshot is written.
WriteTriageFirst(r, d) ==
    /\ At(r, d, "triage", "queued")
    /\ ~dry[r]
    /\ Patch(d, [docs[d] EXCEPT
          !.stage = "triaged",
          !.score = Coerce(view[r][d].quality)])
    /\ Leave(r, d)
    /\ RunUnchanged
    /\ UNCHANGED <<snapshots, boundVars, histVars>>

\* The triage PATCH replaces the custom fields: the foreign ones and the
\* three of triage.
WriteTriage(r, d) ==
    /\ At(r, d, "triage", "saved")
    /\ Patch(d, [docs[d] EXCEPT
          !.stage = "triaged",
          !.score = Coerce(view[r][d].quality),
          !.user = (@ \ {"field"}) \cup (view[r][d].user \cap {"field"})])
    /\ Leave(r, d)
    /\ RunUnchanged
    /\ UNCHANGED <<snapshots, boundVars, histVars>>

\* Bound: an id is free for every transcription that is under way.
HasRoom ==
    Cardinality({c \in Docs : ~docs[c].present}) >
        Cardinality({x \in Runners \X Docs : At(x[1], x[2], "reocr", "paid")})

\* The provider answers and is paid, also in a dry run, which looks at
\* `dry_run` only then and stops there.
Pay(r, d) ==
    /\ pc[r] \in Billable
    /\ step[r][d] = "saved"
    /\ pc[r] = "reocr" /\ ~dry[r] => HasRoom
    /\ paid' = [paid EXCEPT ![pc[r]][d] = @ + 1]
    /\ IF dry[r]
       THEN Leave(r, d) /\ proposed' = [proposed EXCEPT ![pc[r]][d] = @ + 1]
       ELSE MoveTo(r, d, "paid") /\ UNCHANGED proposed
    /\ RunUnchanged
    /\ UNCHANGED <<serverVars, snapshots, boundVars, wasted, dryRuns>>

\* apply_metadata: one PATCH of the merged tags and all custom fields.
WriteMetadata(r, d) ==
    /\ At(r, d, "metadata", "paid")
    /\ Patch(d, [docs[d] EXCEPT
          !.stage = "metadata_done",
          !.score = view[r][d].score,
          !.tags = view[r][d].tags \cup {"extracted"},
          !.user = view[r][d].user])
    /\ Leave(r, d)
    /\ RunUnchanged
    /\ UNCHANGED <<snapshots, boundVars, histVars>>

\* The corrected file is a new document with the old one's tags.
Upload(r, d) ==
    /\ At(r, d, "reocr", "paid")
    /\ \E c \in Docs, q \in Qualities :
          /\ ~docs[c].present
          /\ docs' = [docs EXCEPT ![c] =
                [NewDoc(TRUE, q) EXCEPT
                    !.tags = view[r][d].tags,
                    !.user = view[r][d].user \cap {"tag"}]]
          /\ origin' = [origin EXCEPT ![c] = origin[d]]
          /\ copy' = [copy EXCEPT ![r][d] = c]
    /\ step' = [step EXCEPT ![r][d] = "uploaded"]
    /\ RunUnchanged
    /\ UNCHANGED <<made, snapshots, view, boundVars, histVars>>

\* _apply_post_consume_metadata: the old document's score goes with it.
CarryOver(r, d) ==
    /\ At(r, d, "reocr", "uploaded")
    /\ Patch(copy[r][d], [docs[copy[r][d]] EXCEPT
          !.stage = "reocr_done",
          !.score = view[r][d].score,
          !.user = @ \ {"field"}])
    /\ MoveTo(r, d, "carried")
    /\ RunUnchanged
    /\ UNCHANGED <<snapshots, boundVars, histVars>>

\* Fault: the name of the tag is written into the stage field.
MarkSupersededInStage(r, d) ==
    /\ At(r, d, "reocr", "carried")
    /\ Patch(d, [docs[d] EXCEPT !.stage = "superseded"])
    /\ Leave(r, d)
    /\ RunUnchanged
    /\ UNCHANGED <<snapshots, boundVars, histVars>>

\* Fault: the old document is marked before the new one got its metadata.
MarkSupersededEarly(r, d) ==
    /\ At(r, d, "reocr", "uploaded")
    /\ Patch(d, [docs[d] EXCEPT
          !.stage = "reocr_done",
          !.score = view[r][d].score,
          !.tags = view[r][d].tags \cup {"superseded"},
          !.user = view[r][d].user])
    /\ MoveTo(r, d, "carried")
    /\ RunUnchanged
    /\ UNCHANGED <<snapshots, boundVars, histVars>>

\* mark_old_superseded, from the copy fetched when the stage began.
MarkSuperseded(r, d) ==
    /\ At(r, d, "reocr", "carried")
    /\ Patch(d, [docs[d] EXCEPT
          !.stage = "reocr_done",
          !.score = view[r][d].score,
          !.tags = view[r][d].tags \cup {"superseded"},
          !.user = view[r][d].user])
    /\ Leave(r, d)
    /\ RunUnchanged
    /\ UNCHANGED <<snapshots, boundVars, histVars>>

----------------------------------------------------------------------------
(* What can go wrong.                                                      *)

Fail ==
    /\ failures < MaxFailures
    /\ failures' = failures + 1
    /\ UNCHANGED edits

InHand == {"paid", "uploaded", "carried"}

\* What run r has paid for and will not use, for the documents in S.
Waste(r, S) ==
    wasted' = IF pc[r] \notin Billable THEN wasted
              ELSE [wasted EXCEPT ![pc[r]] =
                      [d \in Docs |-> IF d \in S /\ step[r][d] \in InHand
                                      THEN @[d] + 1 ELSE @[d]]]

\* A document is given up: a cap, an error of the server or the provider, an
\* empty transcription, an upload whose task fails or times out.
GiveUp(r, d) ==
    /\ step[r][d] # "out"
    /\ Fail
    /\ Waste(r, {d})
    /\ Leave(r, d)
    /\ RunUnchanged
    /\ UNCHANGED <<serverVars, snapshots, paid, proposed, dryRuns>>

\* Bound: with no id left for a copy, the spend cap ends the re-OCR stage.
CapReached(r, d) ==
    /\ At(r, d, "reocr", "saved")
    /\ ~dry[r]
    /\ ~HasRoom
    /\ Leave(r, d)
    /\ RunUnchanged
    /\ UNCHANGED <<serverVars, snapshots, boundVars, histVars>>

\* The provider rejects every call: the documents not yet started are
\* skipped, and an account-level rejection also stops the run.
ProviderRejects(r, account) ==
    /\ pc[r] \in Billable
    /\ \E d \in Docs : step[r][d] = "saved"
    /\ Fail
    /\ LET gone == {d \in Docs : step[r][d] \in {"queued", "saved"}} IN
          /\ step' = [step EXCEPT ![r] =
                [d \in Docs |-> IF d \in gone THEN "out" ELSE @[d]]]
          /\ view' = [view EXCEPT ![r] =
                [d \in Docs |-> IF d \in gone THEN NoCopy ELSE @[d]]]
    /\ stopped' = (stopped \/ account)
    /\ UNCHANGED <<serverVars, fileVars, pc, target, dry, copy, histVars>>

RunDies(r) ==
    /\ pc[r] # "idle"
    /\ Fail
    /\ Waste(r, Docs)
    /\ pc' = [pc EXCEPT ![r] = "idle"]
    /\ target' = [target EXCEPT ![r] = 0]
    /\ dry' = [dry EXCEPT ![r] = FALSE]
    /\ view' = [view EXCEPT ![r] = NoCopies]
    /\ step' = [step EXCEPT ![r] = AllOut]
    /\ copy' = [copy EXCEPT ![r] = Nothing]
    /\ UNCHANGED <<serverVars, stopped, firstRunDone, paid, proposed, dryRuns>>

\* The process dies, or the run ends in an exception.
CrashRun(r) == RunDies(r) /\ UNCHANGED snapshots

\* It dies while write_text writes a snapshot: the file exists but is cut off.
CrashInSnapshot(r, d) ==
    /\ step[r][d] = "queued"
    /\ pc[r] = "triage" => ~dry[r]
    /\ snapshots[pc[r]][d] = NoCopy
    /\ snapshots' = [snapshots EXCEPT ![pc[r]][d] = Torn]
    /\ RunDies(r)

\* The user adds a tag or fills in a custom field.
UserEdit(d, what) ==
    /\ docs[d].present
    /\ what \notin docs[d].user
    /\ edits < MaxEdits
    /\ edits' = edits + 1
    /\ Patch(d, [docs[d] EXCEPT !.user = @ \cup {what}])
    /\ UNCHANGED <<fileVars, runVars, failures, histVars>>

WorkOn(r, d) ==
    \/ ProposeTriage(r, d) \/ SaveSnapshot(r, d) \/ WriteTriage(r, d)
    \/ Pay(r, d) \/ WriteMetadata(r, d)
    \/ CapReached(r, d) \/ Upload(r, d) \/ CarryOver(r, d) \/ MarkSuperseded(r, d)

RunStep(r) ==
    NextStage(r) \/ EndRun(r) \/ \E d \in Docs : WorkOn(r, d)

Trouble(r) ==
    \/ \E d \in Docs : GiveUp(r, d) \/ CrashInSnapshot(r, d)
    \/ \E account \in BOOLEAN : ProviderRejects(r, account)
    \/ CrashRun(r)

Next ==
    \/ \E r \in Runners :
          \/ \E t \in 0..NDocs : BeginRun(r, t)
          \/ RunStep(r)
          \/ Trouble(r)
    \/ \E d \in Docs, what \in {"tag", "field"} : UserEdit(d, what)

Spec == Init /\ [][Next]_vars

\* The scheduler begins a sweep again and again, whatever nudges come in
\* between, and a run that has begun goes on.  Nudges, user edits and failures
\* are not promised.
FairSpec ==
    /\ Spec
    /\ \A r \in Runners : SF_vars(BeginRun(r, 0)) /\ WF_vars(RunStep(r))
----------------------------------------------------------------------------
(* Properties.                                                             *)

\* config.py, STAGE_ORDER: a document "must never be re-triaged back to
\* triaged": its stage only advances.
StageAdvances ==
    [][\A d \in Docs : Rank[docs'[d].stage] >= Rank[docs[d].stage]]_docs

\* A document is transcribed, or its metadata extracted, a second time only
\* to replace an answer that an error or a crash threw away, or that a dry run
\* paid for and wrote nowhere; a dry run pays for it at most once.
PaidWorkIsAccountedFor ==
    \A s \in Billable, d \in Docs :
        /\ paid[s][d] <= 1 + wasted[s][d] + proposed[s][d]
        /\ proposed[s][d] <= dryRuns

\* What each stage writes into a document's stage field.
WrittenBy == [triage |-> "triaged", reocr |-> "reocr_done",
              metadata |-> "metadata_done"]

\* Whatever a stage wrote into a document, its snapshot directory has the
\* document as it was before that stage (safety.py, I2).
SnapshotPredatesWrite ==
    \A s \in RunStages, d \in Docs :
        /\ docs[d].stage = WrittenBy[s] /\ origin[d] = d => snapshots[s][d] # NoCopy
        /\ snapshots[s][d] \notin {NoCopy, Torn} =>
              Rank[snapshots[s][d].stage] < Rank[WrittenBy[s]]

\* docs/troubleshooting.md: "state before each write is captured" - so that it
\* can be read back.
WriteIsReversible ==
    \A s \in RunStages, d \in Docs :
        docs[d].stage = WrittenBy[s] /\ origin[d] = d => snapshots[s][d] # Torn

\* docs/re-ocr.md lets the user delete everything tagged superseded: of each
\* scan that loses a document this way, a finished one stays.
SupersededHasReplacement ==
    \A d \in Docs : "superseded" \in docs[d].tags =>
        \E c \in Docs : /\ origin[c] = origin[d]
                        /\ docs[c].stage # ""
                        /\ "superseded" \notin docs[c].tags

Untouched(d) == docs[d].stage = "" /\ docs[d].tags = {}

\* No document is written before a whole sweep has run dry, unless the
\* configuration asks for writes (I7).
FirstSweepIsDry ==
    DryRun # "write" => firstRunDone \/ \A d \in Docs : Untouched(d) /\ origin[d] \in {0, d}

\* Only documents whose text scores as garbage are sent to re-OCR.
OnlyGarbageIsReocred ==
    \A r \in Runners, d \in Docs :
        pc[r] = "reocr" /\ step[r][d] # "out" => docs[d].quality >= Threshold

Settled(d) ==
    \/ docs[d].stage = "metadata_done"
    \/ docs[d].score >= Threshold

\* Every document is in the end extracted, or left for its garbage text.
EveryDocumentSettles == \A d \in Docs : docs[d].present ~> Settled(d)

\* Every document is in the end triaged.
EveryDocumentIsTriaged == \A d \in Docs : docs[d].present ~> docs[d].stage # ""

\* No garbage document stays in the re-OCR queue for good, as long as the
\* server takes new documents.
GarbageIsReplaced ==
    \A d \in Docs : ReocrMatches(docs[d]) ~>
        ~ReocrMatches(docs[d]) \/ \A c \in Docs : docs[c].present

\* docs/configuration.md: "add reocr_done to also re-run metadata on re-OCR'd
\* docs": the copies then get their metadata.
ReocredGetsMetadata ==
    \A d \in Docs : docs[d].stage = "reocr_done" /\ origin[d] # d ~>
        docs[d].stage = "metadata_done"

\* safety.py and metadata.py: merging keeps what is already on the document.
UserEditsSurvive ==
    [][\A d \in Docs : docs[d].user \subseteq docs'[d].user]_docs

\* docs/usage.md: a dry run will "propose, write nothing".
DryRunMakesNothing == DryRun = "dry" => made = {}
=============================================================================
