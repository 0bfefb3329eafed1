----------------------------- MODULE RunRecords -----------------------------
(***************************************************************************)
(* What the process of `pa serve` leaves behind of the runs it makes: the  *)
(* live tracker of the dashboard (progress.py), the audit log in SQLite    *)
(* (activity.py), the persisted reports (report.py) and the cursor file    *)
(* (obs.py), as Sweep writes them while scheduled and manual runs and the  *)
(* nudges of the webhook overlap.                                          *)
(*                                                                         *)
(* All of them are written beside the work, none together with it: a run   *)
(* patches a document, then inserts a row, then reports the outcome, and   *)
(* at its end persists a report and rewrites the cursor.  What the stages  *)
(* do to a document is the subject of DocumentStages; here a document only *)
(* remembers the last stage it has passed.                                 *)
(***************************************************************************)
EXTENDS Naturals, FiniteSets

CONSTANTS
    Docs,
    Sweepers,       \* threads that make runs: the scheduler, a manual run
    Nudgers,        \* threads that process the document of a nudge
    MaxRuns,        \* bound: runs and nudges
    MaxTroubles     \* bound: failures and crashes

ASSUME RecordsAssumption ==
    /\ IsFiniteSet(Docs)
    /\ Sweepers \cap Nudgers = {}
    /\ {MaxRuns, MaxTroubles} \subseteq Nat

VARIABLES
    passed,     \* Paperless: the last stage each document has passed
    changes,    \* history: the changes that reached Paperless
    rows,       \* file: activity.db
    reports,    \* file: run-reports/, one per completed run
    cursor,     \* file: cursor.json
    tracker,    \* memory: the process-wide ProgressTracker
    pc,         \* where each thread is
    run,        \* the run it makes
    dry,        \* does that run write nothing?
    stage,      \* the stage it is in
    task,       \* its documents of that stage
    outcomes,   \* its report, in memory
    seen,       \* what it read from the cursor file
    alone,      \* history: has nobody else written to the tracker since the
                \*          run it shows began?
    lost,       \* history: the rows that could not be inserted
    expired,    \* history: the runs whose rows the retention has purged
    settled,    \* history: has a run completed, and no crash hit the cursor?
    count       \* counters of the bounds

serverVars == <<passed, changes>>
fileVars == <<rows, reports, cursor>>
memoryVars == <<tracker, alone>>
threadVars == <<pc, run, dry, stage, task, outcomes, seen>>
historyVars == <<lost, expired, settled>>
vars == <<serverVars, fileVars, memoryVars, threadVars, historyVars, count>>

Threads == Sweepers \cup Nudgers
Runs == 1..MaxRuns

\* 0: none, 1: triage, 2: metadata.  Re-OCR is off unless asked for.
Stages == 1..2

\* How a stage ends for a document: RunReport.record and the status column.
Statuses == {"skip", "dry", "wrote", "ERROR"}

\* "queued": before the write; after it, or after a failure or a skip, the
\* document waits for its row in the log and its line in the report.
Tasks == {"none", "queued", "applied", "failed", "skip"}

Places == {"off", "work", "persist",
           "read", "open", "write", "check", "markread", "markopen", "markwrite"}

\* The places from which a run still writes to the cursor file.
CursorPlaces == {"open", "write", "check", "markread", "markopen", "markwrite"}

Entries == [run : Runs, stage : Stages, doc : Docs, status : Statuses]
Cursors == [first : BOOLEAN, last : 0..MaxRuns]

NoFigures == [total |-> 0, processed |-> 0]
IdleTracker ==
    [active |-> FALSE, run |-> 0, stages |-> [s \in Stages |-> NoFigures],
     counts |-> [k \in Statuses |-> 0]]

TypeOK ==
    /\ passed \in [Docs -> 0..2]
    /\ changes \subseteq Entries
    /\ rows \subseteq Entries
    /\ reports \subseteq [run : Runs, dry : BOOLEAN, outcomes : SUBSET Entries]
    /\ cursor \in Cursors
    /\ tracker \in [active : BOOLEAN, run : 0..MaxRuns,
                    stages : [Stages -> [total : Nat, processed : Nat]],
                    counts : [Statuses -> Nat]]
    /\ pc \in [Threads -> Places]
    /\ run \in [Threads -> 0..MaxRuns]
    /\ dry \in [Threads -> BOOLEAN]
    /\ stage \in [Threads -> 0..2]
    /\ task \in [Threads -> [Docs -> Tasks]]
    /\ outcomes \in [Threads -> SUBSET Entries]
    /\ seen \in [Threads -> Cursors]
    /\ {alone, settled} \subseteq BOOLEAN
    /\ lost \subseteq Entries
    /\ expired \subseteq Runs
    /\ count \in [{"runs", "troubles"} -> Nat]

NoTasks == [d \in Docs |-> "none"]

\* No file, and a file that does not parse, read as an empty one.
NoCursor == [first |-> FALSE, last |-> 0]

\* The process starts on the files of an earlier one, or on none.
Init ==
    /\ passed = [d \in Docs |-> 0]
    /\ changes = {}
    /\ rows = {}
    /\ reports = {}
    /\ cursor \in {NoCursor, [NoCursor EXCEPT !.first = TRUE]}
    /\ tracker = IdleTracker
    /\ pc = [t \in Threads |-> "off"]
    /\ run = [t \in Threads |-> 0]
    /\ dry = [t \in Threads |-> FALSE]
    /\ stage = [t \in Threads |-> 0]
    /\ task = [t \in Threads |-> NoTasks]
    /\ outcomes = [t \in Threads |-> {}]
    /\ seen = [t \in Threads |-> NoCursor]
    /\ alone = TRUE
    /\ lost = {}
    /\ expired = {}
    /\ settled = cursor.first
    /\ count = [runs |-> 0, troubles |-> 0]

Count(b, bound) ==
    /\ count[b] < bound
    /\ count' = [count EXCEPT ![b] = @ + 1]

Trouble == Count("troubles", MaxTroubles)

GoTo(t, place) == pc' = [pc EXCEPT ![t] = place]

\* A thread that is off remembers nothing.
Leave(t) ==
    /\ GoTo(t, "off")
    /\ run' = [run EXCEPT ![t] = 0]
    /\ dry' = [dry EXCEPT ![t] = FALSE]
    /\ stage' = [stage EXCEPT ![t] = 0]
    /\ task' = [task EXCEPT ![t] = NoTasks]
    /\ outcomes' = [outcomes EXCEPT ![t] = {}]
    /\ seen' = [seen EXCEPT ![t] = NoCursor]

\* Before the first stage, between two, or after the last.
Between(t) == pc[t] = "work" /\ task[t] = NoTasks

Entry(t, d, status) ==
    [run |-> run[t], stage |-> stage[t], doc |-> d, status |-> status]

----------------------------------------------------------------------------
(* The tracker.  Each writer takes its lock.                               *)

\* Fault: a run begins on the figures of the last one.
BeginOnOldFigures(r) == [tracker EXCEPT !.active = TRUE, !.run = r]

BeginTracking(r) == [IdleTracker EXCEPT !.active = TRUE, !.run = r]

BeginStageIn(tr, s, total) ==
    [tr EXCEPT !.stages[s] = [total |-> total, processed |-> 0]]

RecordDocIn(tr, s, status) ==
    [tr EXCEPT !.stages[s].processed = @ + 1, !.counts[status] = @ + 1]

CountsOf(entries) ==
    [k \in Statuses |-> Cardinality({e \in entries : e.status = k})]

EndTracking(tr, entries) ==
    [tr EXCEPT !.active = FALSE, !.counts = CountsOf(entries)]

\* Does the tracker show the run of this thread?
Shown(t) == t \in Sweepers /\ run[t] = tracker.run

----------------------------------------------------------------------------
(* A run: run_once of a sweeper, process_nudge of a nudger.                *)

\* Without a dry_run setting the first run is a dry one, and no other; what
\* the dashboard starts is told which.
ResolveDryRun(t) ==
    \E proposes \in IF t \in Sweepers THEN BOOLEAN ELSE {~cursor.first} :
        dry' = [dry EXCEPT ![t] = proposes]

Begin(t) ==
    /\ pc[t] = "off"
    /\ Count("runs", MaxRuns)
    /\ run' = [run EXCEPT ![t] = count["runs"] + 1]
    /\ ResolveDryRun(t)
    /\ GoTo(t, "work")
    /\ UNCHANGED <<serverVars, fileVars, stage, task, outcomes, seen, historyVars>>

BeginRun(t) ==
    /\ t \in Sweepers
    /\ Begin(t)
    /\ tracker' = BeginTracking(count["runs"] + 1)
    /\ alone' = TRUE

BeginNudge(t) ==
    /\ t \in Nudgers
    /\ Begin(t)
    /\ UNCHANGED memoryVars

\* The custom fields are read before the try: whatever it raises, end_run is
\* not called.
ResolveFails(t) ==
    /\ Between(t)
    /\ stage[t] = 0
    /\ Trouble
    /\ Leave(t)
    /\ UNCHANGED <<serverVars, fileVars, memoryVars, historyVars>>

\* The documents of a stage.  Triage takes every document and skips those
\* that have passed it; the metadata stage takes those that are ready for it.
Queue(s, among) ==
    IF s = 1 THEN among ELSE {d \in among : passed[d] = 1}

FirstTask(s, queue, d) ==
    IF d \notin queue THEN "none"
    ELSE IF passed[d] >= s THEN "skip" ELSE "queued"

\* The stage is registered with the tracker even if it has no document.
BeginStage(t, among) ==
    LET s == stage[t] + 1
        queue == Queue(s, among)
    IN  /\ Between(t)
        /\ stage[t] < 2
        /\ stage' = [stage EXCEPT ![t] = s]
        /\ task' = [task EXCEPT ![t] = [d \in Docs |-> FirstTask(s, queue, d)]]
        /\ tracker' = BeginStageIn(tracker, s, Cardinality(queue))
        /\ alone' = (alone /\ Shown(t))
        /\ UNCHANGED <<serverVars, fileVars, pc, run, dry, outcomes, seen, historyVars, count>>

BeginStageOfRun(t) == t \in Sweepers /\ BeginStage(t, Docs)

\* A nudge names one document; its second stage is about the same one.
BeginStageOfNudge(t) ==
    /\ t \in Nudgers
    /\ \E d \in Docs :
        /\ \A e \in outcomes[t] : e.doc = d
        /\ BeginStage(t, {d})

\* The end of run_once's try: whether the stages are done or one has failed.
EndRun(t) ==
    /\ tracker' = EndTracking(tracker, outcomes[t])
    /\ alone' = (alone /\ Shown(t))

\* The set-up of a stage raises: a tag cannot be created, a provider cannot
\* be built, a page of documents cannot be fetched.
StageFails(t) ==
    /\ Between(t)
    /\ stage[t] < 2
    /\ Trouble
    /\ IF t \in Sweepers THEN EndRun(t) ELSE UNCHANGED memoryVars
    /\ Leave(t)
    /\ UNCHANGED <<serverVars, fileVars, historyVars>>

----------------------------------------------------------------------------
(* A document in a stage: a worker, then the loop of _drain.               *)

SetTask(t, d, to) == task' = [task EXCEPT ![t][d] = to]

Worker(t, d, from) == pc[t] = "work" /\ task[t][d] = from

\* The PATCH reaches Paperless.  The reply, and with it the outcome, need not.
Patch(t, d, to) ==
    /\ Worker(t, d, "queued")
    /\ ~dry[t]
    /\ passed' = [passed EXCEPT ![d] = stage[t]]
    /\ changes' = changes \cup {Entry(t, d, "wrote")}
    /\ SetTask(t, d, to)
    /\ UNCHANGED <<fileVars, memoryVars, pc, run, dry, stage, outcomes, seen, historyVars>>

Apply(t, d) == Patch(t, d, "applied") /\ UNCHANGED count

ApplyUnheard(t, d) == Patch(t, d, "failed") /\ Trouble

\* The provider or the PATCH fails and nothing has changed.
DocumentFails(t, d) ==
    /\ Worker(t, d, "queued")
    /\ Trouble
    /\ SetTask(t, d, "failed")
    /\ UNCHANGED <<serverVars, fileVars, memoryVars, pc, run, dry, stage, outcomes,
                   seen, historyVars>>

\* A worker that is through with a document, and how: a dry run proposes and
\* writes nothing.
Through(t, d) ==
    pc[t] = "work" /\ task[t][d] # "none" /\ (task[t][d] = "queued" => dry[t])

StatusOf(at) ==
    CASE at = "applied" -> "wrote"
      [] at = "queued" -> "dry"
      [] at = "failed" -> "ERROR"
      [] at = "skip" -> "skip"

\* The body of the loop over the finished futures.
Collect(t, d, status) ==
    /\ outcomes' = [outcomes EXCEPT ![t] = @ \cup {Entry(t, d, status)}]
    /\ tracker' = RecordDocIn(tracker, stage[t], status)
    /\ alone' = (alone /\ Shown(t))
    /\ SetTask(t, d, "none")
    /\ UNCHANGED <<serverVars, reports, cursor, pc, run, dry, stage, seen, expired, settled>>

\* Fault: errors are logged elsewhere and have no row.
HasRowUnlessError(at) == at \in {"queued", "applied"}

HasRow(at) == at # "skip"

\* After the row of a change the metadata worker adds its cost to the spend
\* ledger, a file: when that raises, the document is one more error of the
\* run, whatever became of its row.
LedgerFails(t, d) ==
    /\ Worker(t, d, "applied")
    /\ stage[t] = 2
    /\ Trouble
    /\ rows' \in {rows, rows \cup {Entry(t, d, "wrote")}}
    /\ SetTask(t, d, "failed")
    /\ UNCHANGED <<serverVars, reports, cursor, memoryVars, pc, run, dry, stage, outcomes,
                   seen, historyVars>>

\* _record_activity and then the loop: a change, a proposal and an error have
\* a row, a skip has none.
Finish(t, d) ==
    LET at == task[t][d]
        row == Entry(t, d, StatusOf(at))
    IN  /\ Through(t, d)
        /\ rows' = IF HasRow(at) THEN rows \cup {row} ELSE rows
        /\ Collect(t, d, StatusOf(at))
        /\ UNCHANGED <<lost, count>>

\* A failure of the log is swallowed: the document and the run go on.
RowFails(t, d) ==
    LET at == task[t][d]
    IN  /\ Through(t, d)
        /\ HasRow(at)
        /\ Trouble
        /\ lost' = lost \cup {Entry(t, d, StatusOf(at))}
        /\ Collect(t, d, StatusOf(at))
        /\ UNCHANGED rows

----------------------------------------------------------------------------
(* The end of a run.                                                       *)

EndStages(t) ==
    /\ Between(t)
    /\ stage[t] = 2
    /\ IF t \in Sweepers
       THEN /\ EndRun(t)
            /\ GoTo(t, "persist")
            /\ UNCHANGED <<run, dry, stage, task, outcomes, seen>>
       ELSE Leave(t) /\ UNCHANGED memoryVars
    /\ UNCHANGED <<serverVars, fileVars, historyVars, count>>

\* _enforce_activity_retention: what is older than the period goes, which is
\* counted in days: at any time all runs that are over may be older, or none.
PastRuns == Runs \ {run[t] : t \in Threads}

Retain(old) ==
    /\ rows' = {e \in rows : e.run \notin old}
    /\ expired' = expired \cup (old \cap {e.run : e \in rows})

\* Fault: the report is that of the last stage.
ReportOfLastStage(t) ==
    [run |-> run[t], dry |-> dry[t],
     outcomes |-> {e \in outcomes[t] : e.stage = stage[t]}]

ReportOf(t) == [run |-> run[t], dry |-> dry[t], outcomes |-> outcomes[t]]

Persist(t) ==
    /\ pc[t] = "persist"
    /\ \E old \in {{}, PastRuns} : Retain(old)
    /\ reports' = reports \cup {ReportOf(t)}
    /\ GoTo(t, "read")
    /\ UNCHANGED <<serverVars, cursor, memoryVars, run, dry, stage, task, outcomes,
                   seen, lost, settled, count>>

\* The disk is full: the run raises, and the cursor does not hear of it.
PersistFails(t) ==
    /\ pc[t] = "persist"
    /\ Trouble
    /\ \E old \in {{}, PastRuns} : Retain(old)
    /\ Leave(t)
    /\ UNCHANGED <<serverVars, reports, cursor, memoryVars, lost, settled>>

\* Cursor.record_run and mark_first_run_done: read the file, truncate it,
\* write what was read with one key replaced.
Read(t, from, to) ==
    /\ pc[t] = from
    /\ seen' = [seen EXCEPT ![t] = cursor]
    /\ GoTo(t, to)
    /\ UNCHANGED <<serverVars, fileVars, memoryVars, run, dry, stage, task, outcomes,
                   historyVars, count>>

Truncate(t, from, to) ==
    /\ pc[t] = from
    /\ cursor' = NoCursor
    /\ GoTo(t, to)
    /\ UNCHANGED <<serverVars, rows, reports, memoryVars, run, dry, stage, task,
                   outcomes, seen, historyVars, count>>

RecordRead(t) == Read(t, "read", "open")
RecordTruncate(t) == Truncate(t, "open", "write")

RecordWrite(t) ==
    /\ pc[t] = "write"
    /\ cursor' = [seen[t] EXCEPT !.last = run[t]]
    /\ GoTo(t, "check")
    /\ UNCHANGED <<serverVars, rows, reports, memoryVars, run, dry, stage, task,
                   outcomes, seen, historyVars, count>>

\* Fault: whether to mark is decided by what the run knew at its start.
MarkIfFirst(t) ==
    /\ pc[t] = "check"
    /\ IF ~dry[t]
       THEN Leave(t) /\ settled' = TRUE
       ELSE /\ GoTo(t, "markread")
            /\ UNCHANGED <<run, dry, stage, task, outcomes, seen, settled>>
    /\ UNCHANGED <<serverVars, fileVars, memoryVars, lost, expired, count>>

\* "Mark first run done only after a completed tick."
MarkUnlessDone(t) ==
    /\ pc[t] = "check"
    /\ IF cursor.first
       THEN Leave(t) /\ settled' = TRUE
       ELSE /\ GoTo(t, "markread")
            /\ UNCHANGED <<run, dry, stage, task, outcomes, seen, settled>>
    /\ UNCHANGED <<serverVars, fileVars, memoryVars, lost, expired, count>>

MarkRead(t) == Read(t, "markread", "markopen")
MarkTruncate(t) == Truncate(t, "markopen", "markwrite")

MarkWrite(t) ==
    /\ pc[t] = "markwrite"
    /\ cursor' = [seen[t] EXCEPT !.first = TRUE]
    /\ settled' = TRUE
    /\ Leave(t)
    /\ UNCHANGED <<serverVars, rows, reports, memoryVars, lost, expired, count>>

----------------------------------------------------------------------------
(* The environment.                                                        *)

\* What the workers have done or failed at and the log does not tell yet.
InDoubt == {p \in Threads \X Docs : task[p[1]][p[2]] \in {"applied", "failed"}}

\* The process is killed and starts again.  Files stay as they are; a run
\* that was writing the cursor may leave it without what it held.
Crash ==
    /\ \E t \in Threads : pc[t] # "off"
    /\ Trouble
    /\ pc' = [t \in Threads |-> "off"]
    /\ run' = [t \in Threads |-> 0]
    /\ dry' = [t \in Threads |-> FALSE]
    /\ stage' = [t \in Threads |-> 0]
    /\ task' = [t \in Threads |-> NoTasks]
    /\ outcomes' = [t \in Threads |-> {}]
    /\ seen' = [t \in Threads |-> NoCursor]
    /\ tracker' = IdleTracker
    /\ alone' = TRUE
    /\ lost' = lost \cup {Entry(p[1], p[2], StatusOf(task[p[1]][p[2]])) : p \in InDoubt}
    /\ settled' = (settled /\ \A t \in Threads : pc[t] \notin CursorPlaces)
    /\ UNCHANGED <<serverVars, fileVars, expired>>

RunStep(t) ==
    \/ BeginRun(t) \/ BeginNudge(t) \/ ResolveFails(t)
    \/ BeginStageOfRun(t) \/ BeginStageOfNudge(t) \/ StageFails(t)
    \/ EndStages(t) \/ Persist(t) \/ PersistFails(t)
    \/ RecordRead(t) \/ RecordTruncate(t) \/ RecordWrite(t)
    \/ MarkUnlessDone(t) \/ MarkRead(t) \/ MarkTruncate(t) \/ MarkWrite(t)

DocStep(t, d) ==
    \/ Apply(t, d) \/ ApplyUnheard(t, d) \/ DocumentFails(t, d)
    \/ LedgerFails(t, d) \/ Finish(t, d) \/ RowFails(t, d)

Next ==
    \/ \E t \in Threads : RunStep(t)
    \/ \E t \in Threads, d \in Docs : DocStep(t, d)
    \/ Crash

Spec == Init /\ [][Next]_vars

----------------------------------------------------------------------------
(* Properties.                                                             *)

AsError(entry) == [entry EXCEPT !.status = "ERROR"]

\* The audit log against Paperless, within the retention period: a change of
\* a document has its row, unless the worker has not come to it, the insert
\* failed or the process was killed; and no row tells of a change that was
\* not made, or of a document that was skipped.
LogTellsWhatChanged ==
    /\ \A c \in changes : c.run \notin expired =>
        \/ {c, AsError(c)} \cap (rows \cup lost) # {}
        \/ \E t \in Threads : /\ run[t] = c.run /\ stage[t] = c.stage
                              /\ task[t][c.doc] \in {"applied", "failed"}
    /\ \A e \in rows :
        /\ e.status # "skip"
        /\ e.status = "wrote" => e \in changes

\* A persisted report against Paperless and against the log: what it says was
\* written was, what the run changed it reports (if only as an error), a dry
\* run changed nothing, and every row of the run is an outcome in it, or there
\* the outcome is the error of the ledger that came after the row.
ReportTellsWhatTheRunDid ==
    \A p \in reports :
        /\ \A e \in p.outcomes : e.status = "wrote" => e \in changes
        /\ \A c \in changes : c.run = p.run =>
            ~p.dry /\ {c, AsError(c)} \cap p.outcomes # {}
        /\ \A e \in rows : e.run = p.run => {e, AsError(e)} \cap p.outcomes # {}

\* While no other run and no nudge has written to the tracker, it shows the
\* run exactly: active until the stages are over, every document counted once
\* in its stage, and in the end the figures of the persisted report.
AloneTrackerIsExact ==
    alone =>
        /\ \A t \in Sweepers : Shown(t) /\ run[t] # 0 =>
            /\ tracker.active <=> pc[t] = "work"
            /\ tracker.counts = CountsOf(outcomes[t])
            /\ \A s \in Stages :
                /\ tracker.stages[s].processed =
                       Cardinality({e \in outcomes[t] : e.stage = s})
                /\ tracker.stages[s].total = tracker.stages[s].processed +
                       IF s = stage[t]
                       THEN Cardinality({d \in Docs : task[t][d] # "none"}) ELSE 0
        /\ \A p \in reports : p.run = tracker.run =>
            ~tracker.active /\ tracker.counts = CountsOf(p.outcomes)

\* The cursor file is read, truncated and written without a lock by every
\* run that ends.  Still, once a run has completed, the file says so whenever
\* nobody is rewriting it, unless a crash hits a rewriting run.
FirstRunStaysDone ==
    settled /\ (\A t \in Threads : pc[t] \notin CursorPlaces) => cursor.first

\* "Always clear the active flag (even on error)": the dashboard does not
\* show a run that is not there.
ActiveMeansRunning ==
    tracker.active => \E t \in Sweepers : run[t] = tracker.run
=============================================================================
