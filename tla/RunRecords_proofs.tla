------------------------- MODULE RunRecords_proofs -------------------------
(***************************************************************************)
(* Proofs about RunRecords, for every finite set of documents, every set   *)
(* of threads and every bound.                                             *)
(***************************************************************************)
EXTENDS RunRecords, FiniteSetTheorems, TLAPS

(***************************************************************************)
(* What the steps do, thread by thread.                                    *)
(***************************************************************************)

\* TypeOK of the variables of the threads.
ThreadTypeOK ==
    /\ pc \in [Threads -> Places]
    /\ run \in [Threads -> 0..MaxRuns]
    /\ dry \in [Threads -> BOOLEAN]
    /\ stage \in [Threads -> 0..2]
    /\ task \in [Threads -> [Docs -> Tasks]]
    /\ outcomes \in [Threads -> SUBSET Entries]
    /\ seen \in [Threads -> Cursors]

\* A thread that is off makes no run, one that is not at work has no document
\* in hand, one that writes at the end of a run is a sweeper, and what a run
\* has an outcome of it is through with.
ThreadOK(t) ==
    /\ pc[t] = "off" => run[t] = 0 /\ outcomes[t] = {}
    /\ pc[t] # "off" => run[t] \in Runs /\ run[t] <= count["runs"]
    /\ pc[t] # "work" => task[t] = NoTasks
    /\ \A d \in Docs : task[t][d] # "none" => stage[t] \in Stages
    /\ pc[t] \notin {"off", "work"} => t \in Sweepers
    /\ IsFiniteSet(outcomes[t])
    /\ \A e \in outcomes[t] :
          /\ e.run = run[t] /\ e.stage <= stage[t]
          /\ e.stage = stage[t] => task[t][e.doc] = "none"

\* No two threads make the same run.
ThreadInv ==
    /\ \A t \in Threads : ThreadOK(t)
    /\ \A t \in Threads, u \in Threads : run[t] = run[u] /\ run[t] # 0 => t = u

\* No run is recorded that has not begun.
PastInv ==
    /\ tracker.run <= count["runs"]
    /\ \A p \in reports : p.run <= count["runs"]
    /\ \A e \in changes \cup rows : e.run <= count["runs"]

TypeInv == TypeOK /\ ThreadInv /\ PastInv

\* The other threads go on with what they were doing.
Others(t) ==
    \A u \in Threads : u # t =>
        /\ pc'[u] = pc[u] /\ run'[u] = run[u] /\ dry'[u] = dry[u]
        /\ stage'[u] = stage[u] /\ task'[u] = task[u] /\ outcomes'[u] = outcomes[u]

\* So does this one.
KeepsRun(t) ==
    /\ run'[t] = run[t] /\ dry'[t] = dry[t] /\ stage'[t] = stage[t]
    /\ task'[t] = task[t] /\ outcomes'[t] = outcomes[t]

\* A step on the cursor file.
Moves(t) ==
    /\ Others(t) /\ KeepsRun(t)
    /\ pc[t] \notin {"off", "work", "persist"} /\ pc'[t] \notin {"off", "work", "persist"}
    /\ UNCHANGED <<changes, rows, reports, tracker, alone, lost, expired, count>>

Starts(t) ==
    /\ Others(t)
    /\ pc[t] = "off" /\ pc'[t] = "work"
    /\ run'[t] = count["runs"] + 1 /\ count'["runs"] = count["runs"] + 1
    /\ stage'[t] = stage[t] /\ task'[t] = task[t] /\ outcomes'[t] = outcomes[t]
    /\ UNCHANGED <<changes, rows, reports, lost, expired>>
    /\ \/ t \in Sweepers /\ tracker' = BeginTracking(count["runs"] + 1) /\ alone' = TRUE
       \/ t \notin Sweepers /\ UNCHANGED <<tracker, alone>>

Purges == UNCHANGED <<rows, expired>> \/ \E old : Retain(old)

Leaves(t) ==
    /\ Others(t)
    /\ pc[t] # "off" /\ task[t] = NoTasks
    /\ pc'[t] = "off" /\ run'[t] = 0 /\ task'[t] = NoTasks /\ outcomes'[t] = {}
    /\ UNCHANGED <<changes, reports, lost>> /\ count'["runs"] = count["runs"]
    /\ Purges
    /\ \/ UNCHANGED <<tracker, alone>>
       \/ pc[t] = "work" /\ t \in Sweepers /\ EndRun(t)

\* A stage begins.
Opens(t, among) ==
    /\ Others(t)
    /\ pc[t] = "work" /\ pc'[t] = "work"
    /\ task[t] = NoTasks
    /\ task'[t] = [d \in Docs |-> FirstTask(stage[t] + 1, Queue(stage[t] + 1, among), d)]
    /\ stage[t] < 2 /\ stage'[t] = stage[t] + 1
    /\ run'[t] = run[t] /\ dry'[t] = dry[t] /\ outcomes'[t] = outcomes[t]
    /\ UNCHANGED <<changes, rows, reports, lost, expired, count>>
    /\ tracker' = BeginStageIn(tracker, stage[t] + 1, Cardinality(Queue(stage[t] + 1, among)))
    /\ alone' = (alone /\ Shown(t))

\* The stages of a sweep are over.
Stops(t) ==
    /\ Others(t) /\ KeepsRun(t)
    /\ t \in Sweepers /\ task[t] = NoTasks
    /\ pc[t] = "work" /\ pc'[t] = "persist"
    /\ EndRun(t)
    /\ UNCHANGED <<changes, rows, reports, lost, expired, count>>

Persists(t) ==
    /\ Others(t) /\ KeepsRun(t)
    /\ pc[t] = "persist" /\ pc'[t] = "read"
    /\ Purges
    /\ reports' = reports \cup {ReportOf(t)}
    /\ UNCHANGED <<changes, tracker, alone, lost, count>>

\* Thread t is through with the queued document d, changed or failed.
Tries(t, d, to) ==
    /\ Others(t)
    /\ pc[t] = "work" /\ pc'[t] = "work"
    /\ task[t][d] = "queued" /\ task'[t] = [task[t] EXCEPT ![d] = to]
    /\ run'[t] = run[t] /\ dry'[t] = dry[t] /\ stage'[t] = stage[t]
    /\ outcomes'[t] = outcomes[t]
    /\ \/ ~dry[t] /\ changes' = changes \cup {Entry(t, d, "wrote")}
       \/ to = "failed" /\ changes' = changes
    /\ count'["runs"] = count["runs"]
    /\ UNCHANGED <<rows, reports, tracker, alone, lost, expired>>

\* Thread t has changed document d, and the ledger fails it.
Relapses(t, d) ==
    /\ Others(t)
    /\ pc[t] = "work" /\ pc'[t] = "work"
    /\ task[t][d] = "applied" /\ task'[t] = [task[t] EXCEPT ![d] = "failed"]
    /\ run'[t] = run[t] /\ dry'[t] = dry[t] /\ stage'[t] = stage[t]
    /\ outcomes'[t] = outcomes[t]
    /\ rows' \in {rows, rows \cup {Entry(t, d, "wrote")}}
    /\ count'["runs"] = count["runs"]
    /\ UNCHANGED <<changes, reports, tracker, alone, lost, expired>>

\* The loop over the finished futures takes document d.
Collects(t, d, status) ==
    /\ Others(t)
    /\ Through(t, d) /\ pc'[t] = "work"
    /\ status = StatusOf(task[t][d])
    /\ task'[t] = [task[t] EXCEPT ![d] = "none"]
    /\ run'[t] = run[t] /\ dry'[t] = dry[t] /\ stage'[t] = stage[t]
    /\ outcomes'[t] = outcomes[t] \cup {Entry(t, d, status)}
    /\ \/ ~HasRow(task[t][d]) /\ UNCHANGED <<rows, lost>>
       \/ HasRow(task[t][d]) /\ rows' = rows \cup {Entry(t, d, status)} /\ lost' = lost
       \/ HasRow(task[t][d]) /\ rows' = rows /\ lost' = lost \cup {Entry(t, d, status)}
    /\ tracker' = RecordDocIn(tracker, stage[t], status)
    /\ alone' = (alone /\ Shown(t))
    /\ count'["runs"] = count["runs"]
    /\ UNCHANGED <<changes, reports, expired>>

\* The history Crash writes down is of no thread any more.
CrashKeeps == UNCHANGED <<changes, rows, reports, expired>> /\ count'["runs"] = count["runs"]

\* Counting up one counter.
LEMMA CountEffect ==
    ASSUME TypeOK, NEW b \in {"runs", "troubles"}, NEW bound \in Nat, Count(b, bound)
    PROVE  /\ count' \in [{"runs", "troubles"} -> Nat]
           /\ b = "runs" => count'["runs"] = count["runs"] + 1 /\ count["runs"] < bound
           /\ b # "runs" => count'["runs"] = count["runs"]
BY DEF Count, TypeOK

LEMMA TroubleEffect ==
    ASSUME TypeOK, Trouble
    PROVE  count' \in [{"runs", "troubles"} -> Nat] /\ count'["runs"] = count["runs"]
BY CountEffect, RecordsAssumption DEF Trouble

\* A thread that goes somewhere else with its run.
LEMMA GoToEffect ==
    ASSUME ThreadTypeOK, NEW t \in Threads, NEW to \in Places, GoTo(t, to),
           UNCHANGED <<run, dry, stage, task, outcomes>>,
           seen' \in [Threads -> Cursors]
    PROVE  /\ ThreadTypeOK' /\ Others(t) /\ KeepsRun(t) /\ pc'[t] = to
BY DEF ThreadTypeOK, GoTo, Others, KeepsRun

\* A thread that leaves.
LEMMA LeaveEffect ==
    ASSUME ThreadTypeOK, NEW t \in Threads, Leave(t)
    PROVE  /\ ThreadTypeOK' /\ Others(t)
           /\ pc'[t] = "off" /\ run'[t] = 0 /\ task'[t] = NoTasks /\ outcomes'[t] = {}
<1> USE RecordsAssumption
<1>1. pc' \in [Threads -> Places] /\ run' \in [Threads -> 0..MaxRuns]
  BY DEF Leave, GoTo, ThreadTypeOK, Places
<1>2. dry' \in [Threads -> BOOLEAN] /\ stage' \in [Threads -> 0..2]
  BY DEF Leave, ThreadTypeOK
<1>3. NoTasks \in [Docs -> Tasks] /\ NoCursor \in Cursors
  BY DEF NoTasks, Tasks, NoCursor, Cursors
<1>4. task' \in [Threads -> [Docs -> Tasks]] /\ seen' \in [Threads -> Cursors]
  BY <1>3 DEF Leave, ThreadTypeOK
<1>5. outcomes' \in [Threads -> SUBSET Entries]
  BY DEF Leave, ThreadTypeOK
<1>6. Others(t) /\ pc'[t] = "off" /\ run'[t] = 0 /\ task'[t] = NoTasks /\ outcomes'[t] = {}
  BY DEF Leave, GoTo, ThreadTypeOK, Others
<1> QED
  BY <1>1, <1>2, <1>4, <1>5, <1>6 DEF ThreadTypeOK

\* A thread that works on a document.
LEMMA TaskEffect ==
    ASSUME ThreadTypeOK, NEW t \in Threads, NEW d \in Docs, NEW to \in Tasks,
           SetTask(t, d, to), UNCHANGED <<pc, run, dry, stage, seen>>
    PROVE  /\ task' \in [Threads -> [Docs -> Tasks]]
           /\ task'[t] = [task[t] EXCEPT ![d] = to]
           /\ \A u \in Threads : u # t => task'[u] = task[u]
BY DEF ThreadTypeOK, SetTask

(***************************************************************************)
(* The tracker.                                                            *)
(***************************************************************************)

Trackers == [active : BOOLEAN, run : 0..MaxRuns,
             stages : [Stages -> [total : Nat, processed : Nat]],
             counts : [Statuses -> Nat]]

\* Nothing is counted yet.
Blank(tr) ==
    /\ \A s \in Stages : tr.stages[s].total = 0 /\ tr.stages[s].processed = 0
    /\ tr.counts = CountsOf({})

LEMMA CountsNothing == CountsOf({}) = [k \in Statuses |-> 0]
<1>1. \A k \in Statuses : {e \in {} : e.status = k} = {}
  OBVIOUS
<1> QED
  BY <1>1, FS_EmptySet DEF CountsOf

LEMMA IdleEffect ==
    /\ IdleTracker \in Trackers /\ Blank(IdleTracker)
    /\ IdleTracker.active = FALSE /\ IdleTracker.run = 0
<1>1. NoFigures \in [total : Nat, processed : Nat] /\ NoFigures.total = 0 /\ NoFigures.processed = 0
  BY DEF NoFigures
<1> QED
  BY <1>1, CountsNothing, RecordsAssumption DEF IdleTracker, Trackers, Blank

LEMMA BeginTrackingEffect ==
    ASSUME NEW r \in 0..MaxRuns, NEW tr, tr = BeginTracking(r)
    PROVE  tr \in Trackers /\ Blank(tr) /\ tr.active = TRUE /\ tr.run = r
<1>1. NoFigures \in [total : Nat, processed : Nat] /\ NoFigures.total = 0 /\ NoFigures.processed = 0
  BY DEF NoFigures
<1>2. tr = [active |-> TRUE, run |-> r, stages |-> [s \in Stages |-> NoFigures],
            counts |-> [k \in Statuses |-> 0]]
  BY DEF BeginTracking, IdleTracker
<1> QED
  BY <1>1, <1>2, CountsNothing DEF Trackers, Blank

LEMMA BeginStageEffect ==
    ASSUME NEW old \in Trackers, NEW s \in Stages, NEW total \in Nat,
           NEW tr, tr = BeginStageIn(old, s, total)
    PROVE  /\ tr \in Trackers
           /\ tr.active = old.active /\ tr.run = old.run /\ tr.counts = old.counts
           /\ tr.stages[s].total = total /\ tr.stages[s].processed = 0
           /\ \A u \in Stages : u # s => tr.stages[u] = old.stages[u]
<1> DEFINE figures == [total |-> total, processed |-> 0]
           stages == [old.stages EXCEPT ![s] = figures]
<1>1. old = [active |-> old.active, run |-> old.run, stages |-> old.stages, counts |-> old.counts]
  BY Zenon DEF Trackers
<1>2. tr = [active |-> old.active, run |-> old.run, stages |-> stages, counts |-> old.counts]
  BY <1>1 DEF BeginStageIn
<1>3. figures \in [total : Nat, processed : Nat] /\ figures.total = total /\ figures.processed = 0
  OBVIOUS
<1> HIDE DEF figures
<1>4. old.stages \in [Stages -> [total : Nat, processed : Nat]]
  BY DEF Trackers
<1>5. /\ stages \in [Stages -> [total : Nat, processed : Nat]]
      /\ stages[s] = figures /\ \A u \in Stages : u # s => stages[u] = old.stages[u]
  BY <1>3, <1>4
<1> HIDE DEF stages
<1> QED
  BY <1>2, <1>3, <1>5 DEF Trackers

LEMMA RecordDocEffect ==
    ASSUME NEW old \in Trackers, NEW s \in Stages, NEW k \in Statuses,
           NEW tr, tr = RecordDocIn(old, s, k)
    PROVE  /\ tr \in Trackers
           /\ tr.active = old.active /\ tr.run = old.run
           /\ tr.counts[k] = old.counts[k] + 1
           /\ \A j \in Statuses : j # k => tr.counts[j] = old.counts[j]
           /\ tr.stages[s].total = old.stages[s].total
           /\ tr.stages[s].processed = old.stages[s].processed + 1
           /\ \A u \in Stages : u # s => tr.stages[u] = old.stages[u]
<1> DEFINE figures == [total |-> old.stages[s].total, processed |-> old.stages[s].processed + 1]
           stages == [old.stages EXCEPT ![s] = figures]
           counts == [old.counts EXCEPT ![k] = old.counts[k] + 1]
<1>1. old = [active |-> old.active, run |-> old.run, stages |-> old.stages, counts |-> old.counts]
  BY Zenon DEF Trackers
<1>2. /\ old.stages \in [Stages -> [total : Nat, processed : Nat]]
      /\ old.counts \in [Statuses -> Nat]
  BY DEF Trackers
<1>3. /\ figures \in [total : Nat, processed : Nat]
      /\ figures.total = old.stages[s].total
      /\ figures.processed = old.stages[s].processed + 1
  BY <1>2
<1>4. old.stages[s] = [total |-> old.stages[s].total, processed |-> old.stages[s].processed]
  BY <1>2
<1>5. [old.stages[s] EXCEPT !.processed = old.stages[s].processed + 1] = figures
  BY <1>4
<1>6. tr = [active |-> old.active, run |-> old.run, stages |-> stages, counts |-> counts]
  BY <1>1, <1>5 DEF RecordDocIn
<1> HIDE DEF figures
<1>7. /\ stages \in [Stages -> [total : Nat, processed : Nat]]
      /\ stages[s] = figures /\ \A u \in Stages : u # s => stages[u] = old.stages[u]
  BY <1>2, <1>3
<1>8. /\ counts \in [Statuses -> Nat] /\ counts[k] = old.counts[k] + 1
      /\ \A j \in Statuses : j # k => counts[j] = old.counts[j]
  BY <1>2
<1> HIDE DEF stages, counts
<1> QED
  BY <1>3, <1>6, <1>7, <1>8 DEF Trackers

LEMMA CountsType ==
    ASSUME NEW S, IsFiniteSet(S) PROVE CountsOf(S) \in [Statuses -> Nat]
<1> SUFFICES ASSUME NEW k \in Statuses
             PROVE  Cardinality({e \in S : e.status = k}) \in Nat
  BY DEF CountsOf
<1> QED
  BY FS_Subset, FS_CardinalityType

LEMMA EndTrackingEffect ==
    ASSUME NEW old \in Trackers, NEW S, IsFiniteSet(S), NEW tr, tr = EndTracking(old, S)
    PROVE  /\ tr \in Trackers
           /\ tr.active = FALSE /\ tr.run = old.run /\ tr.stages = old.stages
           /\ tr.counts = CountsOf(S)
<1>1. old = [active |-> old.active, run |-> old.run, stages |-> old.stages, counts |-> old.counts]
  BY Zenon DEF Trackers
<1>2. tr = [active |-> FALSE, run |-> old.run, stages |-> old.stages, counts |-> CountsOf(S)]
  BY <1>1 DEF EndTracking
<1> QED
  BY <1>2, CountsType DEF Trackers

(***************************************************************************)
(* Every step is of one of the kinds above.                                *)
(***************************************************************************)

\* TypeOK of what the kinds say nothing about.
RestTypeOK ==
    /\ passed \in [Docs -> 0..2]
    /\ cursor \in Cursors
    /\ {alone, settled} \subseteq BOOLEAN
    /\ count \in [{"runs", "troubles"} -> Nat]

Idles ==
    UNCHANGED <<pc, run, dry, stage, task, outcomes, changes, rows, reports, tracker,
                alone, lost, expired, count>>

ThreadKind(t) ==
    \/ Moves(t) \/ Starts(t) \/ Leaves(t) \/ Stops(t) \/ Persists(t)
    \/ \E among \in SUBSET Docs : Opens(t, among)

DocKind(t, d) ==
    \/ \E to \in {"applied", "failed"} : Tries(t, d, to)
    \/ Relapses(t, d)
    \/ \E status \in Statuses : Collects(t, d, status)

Typed == ThreadTypeOK' /\ RestTypeOK'

LEMMA ThreadsTyped == TypeOK => ThreadTypeOK /\ RestTypeOK
BY DEF TypeOK, ThreadTypeOK, RestTypeOK

\* A run begins.
LEMMA BeginKind ==
    ASSUME TypeInv, NEW t \in Threads, BeginRun(t) \/ BeginNudge(t)
    PROVE  Typed /\ Starts(t)
<1> USE DEF TypeInv
<1>0. ThreadTypeOK /\ RestTypeOK
  BY ThreadsTyped
<1>1. Begin(t) /\ t \in Threads
  BY DEF BeginRun, BeginNudge
<1>2. /\ count' \in [{"runs", "troubles"} -> Nat]
      /\ count'["runs"] = count["runs"] + 1 /\ count["runs"] < MaxRuns
  BY <1>1, CountEffect, RecordsAssumption DEF Begin
<1>3. count["runs"] + 1 \in 0..MaxRuns
  BY <1>2, RecordsAssumption DEF RestTypeOK, TypeOK
<1>4. run' \in [Threads -> 0..MaxRuns] /\ run'[t] = count["runs"] + 1
      /\ \A u \in Threads : u # t => run'[u] = run[u]
  BY <1>0, <1>1, <1>3 DEF Begin, ThreadTypeOK
<1>5. dry' \in [Threads -> BOOLEAN] /\ \A u \in Threads : u # t => dry'[u] = dry[u]
  BY <1>0, <1>1 DEF Begin, ResolveDryRun, ThreadTypeOK, RestTypeOK, Cursors
<1>6. pc' \in [Threads -> Places] /\ pc[t] = "off" /\ pc'[t] = "work"
      /\ \A u \in Threads : u # t => pc'[u] = pc[u]
  BY <1>0, <1>1 DEF Begin, GoTo, ThreadTypeOK, Places
<1>7. UNCHANGED <<changes, rows, reports, cursor, passed, stage, task, outcomes, seen, lost,
                  expired, settled>>
  BY <1>1 DEF Begin, serverVars, fileVars, historyVars
<1>8. ThreadTypeOK' /\ Others(t)
  BY <1>0, <1>4, <1>5, <1>6, <1>7 DEF ThreadTypeOK, Others
<1>9. \/ t \in Sweepers /\ tracker' = BeginTracking(count["runs"] + 1) /\ alone' = TRUE
      \/ t \notin Sweepers /\ UNCHANGED <<tracker, alone>>
  BY RecordsAssumption DEF BeginRun, BeginNudge, memoryVars
<1>10. RestTypeOK'
  BY <1>0, <1>2, <1>7, <1>9 DEF RestTypeOK
<1> QED
  BY <1>2, <1>4, <1>6, <1>7, <1>8, <1>9, <1>10 DEF Starts, Typed

\* A run ends without a report.
LEMMA LeaveKind ==
    ASSUME TypeInv, NEW t \in Threads,
           \/ ResolveFails(t) \/ StageFails(t) \/ (EndStages(t) /\ t \notin Sweepers)
           \/ PersistFails(t)
    PROVE  Typed /\ Leaves(t)
<1> USE DEF TypeInv
<1>0. ThreadTypeOK /\ RestTypeOK
  BY ThreadsTyped
<1>1. Leave(t) /\ UNCHANGED <<changes, passed, cursor, reports, lost, settled>>
  BY DEF ResolveFails, StageFails, EndStages, PersistFails, serverVars, fileVars, historyVars
<1>2. /\ ThreadTypeOK' /\ Others(t)
      /\ pc'[t] = "off" /\ run'[t] = 0 /\ task'[t] = NoTasks /\ outcomes'[t] = {}
  BY <1>0, <1>1, LeaveEffect
<1>3. count' \in [{"runs", "troubles"} -> Nat] /\ count'["runs"] = count["runs"]
  BY TroubleEffect DEF ResolveFails, StageFails, EndStages, PersistFails, TypeOK
<1>4. pc[t] # "off" /\ task[t] = NoTasks
  BY DEF ResolveFails, StageFails, EndStages, PersistFails, Between, ThreadInv, ThreadOK
<1>5. Purges
  BY DEF ResolveFails, StageFails, EndStages, PersistFails, fileVars, historyVars, Purges
<1>6. \/ UNCHANGED <<tracker, alone>>
      \/ pc[t] = "work" /\ t \in Sweepers /\ EndRun(t)
  BY DEF ResolveFails, StageFails, EndStages, PersistFails, memoryVars, Between
<1>7. RestTypeOK'
  <2>1. alone' \in BOOLEAN
    BY <1>0, <1>6 DEF RestTypeOK, EndRun, Shown
  <2> QED
    BY <1>0, <1>1, <1>3, <2>1 DEF RestTypeOK
<1> QED
  BY <1>1, <1>2, <1>3, <1>4, <1>5, <1>6, <1>7 DEF Leaves, Typed

\* A stage begins.
LEMMA OpenKind ==
    ASSUME TypeInv, NEW t \in Threads, NEW among \in SUBSET Docs, BeginStage(t, among)
    PROVE  Typed /\ Opens(t, among)
<1> USE DEF TypeInv
<1> DEFINE s == stage[t] + 1
           tasks == [d \in Docs |-> FirstTask(s, Queue(s, among), d)]
<1>0. ThreadTypeOK /\ RestTypeOK
  BY ThreadsTyped
<1>1. /\ pc[t] = "work" /\ task[t] = NoTasks /\ stage[t] < 2
      /\ stage' = [stage EXCEPT ![t] = s]
      /\ task' = [task EXCEPT ![t] = tasks]
      /\ tracker' = BeginStageIn(tracker, s, Cardinality(Queue(s, among)))
      /\ alone' = (alone /\ Shown(t))
      /\ UNCHANGED <<passed, changes, rows, reports, cursor, pc, run, dry, outcomes, seen, lost,
                     expired, settled, count>>
  BY DEF BeginStage, Between, serverVars, fileVars, historyVars
<1>2. tasks \in [Docs -> Tasks]
  BY DEF FirstTask, Tasks
<1> HIDE DEF tasks
<1>3. /\ task' \in [Threads -> [Docs -> Tasks]] /\ task'[t] = tasks
      /\ \A u \in Threads : u # t => task'[u] = task[u]
  BY <1>0, <1>1, <1>2 DEF ThreadTypeOK
<1>4. stage' \in [Threads -> 0..2] /\ stage'[t] = s
      /\ \A u \in Threads : u # t => stage'[u] = stage[u]
  BY <1>0, <1>1 DEF ThreadTypeOK
<1>5. ThreadTypeOK' /\ Others(t)
  BY <1>0, <1>1, <1>3, <1>4 DEF ThreadTypeOK, Others
<1>6. RestTypeOK'
  BY <1>0, <1>1 DEF RestTypeOK
<1> QED
  BY <1>1, <1>3, <1>4, <1>5, <1>6 DEF Opens, Typed, tasks

\* The end of a sweep and its report.
LEMMA StopKind ==
    ASSUME TypeInv, NEW t \in Threads, EndStages(t), t \in Sweepers
    PROVE  Typed /\ Stops(t)
<1> USE DEF TypeInv
<1>0. ThreadTypeOK /\ RestTypeOK
  BY ThreadsTyped
<1>1. /\ GoTo(t, "persist") /\ EndRun(t) /\ pc[t] = "work" /\ task[t] = NoTasks
      /\ UNCHANGED <<run, dry, stage, task, outcomes, seen>>
      /\ UNCHANGED <<passed, changes, rows, reports, cursor, lost, expired, settled, count>>
  BY DEF EndStages, Between, serverVars, fileVars, historyVars
<1>2. ThreadTypeOK' /\ Others(t) /\ KeepsRun(t) /\ pc'[t] = "persist"
  BY <1>0, <1>1, GoToEffect DEF Places, ThreadTypeOK
<1>3. RestTypeOK'
  BY <1>0, <1>1 DEF RestTypeOK, EndRun, Shown
<1> QED
  BY <1>1, <1>2, <1>3 DEF Stops, Typed

LEMMA PersistKind ==
    ASSUME TypeInv, NEW t \in Threads, Persist(t)
    PROVE  Typed /\ Persists(t)
<1> USE DEF TypeInv
<1>0. ThreadTypeOK /\ RestTypeOK
  BY ThreadsTyped
<1>1. /\ GoTo(t, "read") /\ pc[t] = "persist" /\ Purges
      /\ reports' = reports \cup {ReportOf(t)}
      /\ UNCHANGED <<run, dry, stage, task, outcomes, seen>>
      /\ UNCHANGED <<passed, changes, cursor, tracker, alone, lost, settled, count>>
  BY DEF Persist, Purges, serverVars, memoryVars
<1>2. ThreadTypeOK' /\ Others(t) /\ KeepsRun(t) /\ pc'[t] = "read"
  BY <1>0, <1>1, GoToEffect DEF Places, ThreadTypeOK
<1>3. RestTypeOK'
  BY <1>0, <1>1 DEF RestTypeOK
<1> QED
  BY <1>1, <1>2, <1>3 DEF Persists, Typed

\* A step on the cursor file, or the last one of a run.
LEMMA CursorKind ==
    ASSUME TypeInv, NEW t \in Threads,
           \/ RecordRead(t) \/ RecordTruncate(t) \/ RecordWrite(t)
           \/ MarkUnlessDone(t) \/ MarkRead(t) \/ MarkTruncate(t) \/ MarkWrite(t)
    PROVE  Typed /\ (Moves(t) \/ Leaves(t))
<1> USE DEF TypeInv
<1>0. ThreadTypeOK /\ RestTypeOK
  BY ThreadsTyped
<1>1. /\ cursor' \in Cursors /\ settled' \in BOOLEAN
      /\ UNCHANGED <<passed, changes, rows, reports, tracker, alone, lost, expired, count>>
      /\ pc[t] \in {"read", "open", "write", "check", "markread", "markopen", "markwrite"}
  <2>1. NoCursor \in Cursors
    BY RecordsAssumption DEF NoCursor, Cursors
  <2>2. seen[t] \in Cursors /\ cursor \in Cursors /\ run[t] \in 0..MaxRuns /\ settled \in BOOLEAN
    BY <1>0 DEF ThreadTypeOK, RestTypeOK
  <2>3. [seen[t] EXCEPT !.last = run[t]] \in Cursors /\ [seen[t] EXCEPT !.first = TRUE] \in Cursors
    BY <2>2 DEF Cursors
  <2>4. cursor' \in Cursors
    BY <2>1, <2>2, <2>3
    DEF RecordRead, RecordTruncate, RecordWrite, MarkUnlessDone, MarkRead, MarkTruncate,
        MarkWrite, Read, Truncate, fileVars
  <2>5. settled' \in BOOLEAN
    BY <2>2
    DEF RecordRead, RecordTruncate, RecordWrite, MarkUnlessDone, MarkRead, MarkTruncate,
        MarkWrite, Read, Truncate, historyVars
  <2>6. UNCHANGED <<passed, changes, rows, reports, tracker, alone, lost, expired, count>>
    BY DEF RecordRead, RecordTruncate, RecordWrite, MarkUnlessDone, MarkRead, MarkTruncate,
        MarkWrite, Read, Truncate, fileVars, historyVars, serverVars, memoryVars
  <2> QED
    BY <2>4, <2>5, <2>6
    DEF RecordRead, RecordTruncate, RecordWrite, MarkUnlessDone, MarkRead, MarkTruncate,
        MarkWrite, Read, Truncate
<1>2. RestTypeOK'
  BY <1>0, <1>1 DEF RestTypeOK
<1>3. CASE Leave(t)
  <2>1. /\ ThreadTypeOK' /\ Others(t)
        /\ pc'[t] = "off" /\ run'[t] = 0 /\ task'[t] = NoTasks /\ outcomes'[t] = {}
    BY <1>0, <1>3, LeaveEffect
  <2>2. task[t] = NoTasks /\ pc[t] # "off"
    BY <1>1 DEF ThreadInv, ThreadOK
  <2> QED
    BY <1>1, <1>2, <2>1, <2>2 DEF Leaves, Purges, Typed
<1>4. ASSUME NEW to \in {"open", "write", "check", "markread", "markopen", "markwrite"},
             GoTo(t, to), UNCHANGED <<run, dry, stage, task, outcomes>>,
             seen' \in [Threads -> Cursors]
      PROVE  Typed /\ Moves(t)
  <2>1. ThreadTypeOK' /\ Others(t) /\ KeepsRun(t) /\ pc'[t] = to
    BY <1>0, <1>4, GoToEffect DEF Places
  <2> QED
    BY <1>1, <1>2, <2>1 DEF Moves, Typed
<1>5. [seen EXCEPT ![t] = cursor] \in [Threads -> Cursors] /\ seen \in [Threads -> Cursors]
  BY <1>0 DEF ThreadTypeOK, RestTypeOK
<1> QED
  BY <1>3, <1>4, <1>5
  DEF RecordRead, RecordTruncate, RecordWrite, MarkUnlessDone, MarkRead, MarkTruncate,
      MarkWrite, Read, Truncate

\* A worker is through with a document.
LEMMA TryKind ==
    ASSUME TypeInv, NEW t \in Threads, NEW d \in Docs,
           Apply(t, d) \/ ApplyUnheard(t, d) \/ DocumentFails(t, d)
    PROVE  Typed /\ \E to \in {"applied", "failed"} : Tries(t, d, to)
<1> USE DEF TypeInv
<1>0. ThreadTypeOK /\ RestTypeOK
  BY ThreadsTyped
<1>1. PICK to \in {"applied", "failed"} :
          /\ Worker(t, d, "queued") /\ SetTask(t, d, to)
          /\ \/ /\ ~dry[t] /\ changes' = changes \cup {Entry(t, d, "wrote")}
                /\ passed' = [passed EXCEPT ![d] = stage[t]]
             \/ to = "failed" /\ changes' = changes /\ passed' = passed
          /\ UNCHANGED <<pc, run, dry, stage, outcomes, seen>>
          /\ UNCHANGED <<rows, reports, cursor, tracker, alone, lost, expired, settled>>
  BY DEF Apply, ApplyUnheard, DocumentFails, Patch, fileVars, memoryVars, historyVars, serverVars
<1>2. /\ task' \in [Threads -> [Docs -> Tasks]]
      /\ task'[t] = [task[t] EXCEPT ![d] = to]
      /\ \A u \in Threads : u # t => task'[u] = task[u]
  <2>1. to \in Tasks /\ UNCHANGED <<pc, run, dry, stage, seen>>
    BY <1>1 DEF Tasks
  <2> QED
    BY <1>0, <1>1, <2>1, TaskEffect
<1>3. ThreadTypeOK' /\ Others(t)
  BY <1>0, <1>1, <1>2 DEF ThreadTypeOK, Others
<1>4. count' \in [{"runs", "troubles"} -> Nat] /\ count'["runs"] = count["runs"]
  BY TroubleEffect DEF Apply, ApplyUnheard, DocumentFails, TypeOK
<1>5. stage[t] \in 0..2
  BY <1>0 DEF ThreadTypeOK
<1>6. RestTypeOK'
  BY <1>0, <1>1, <1>4, <1>5 DEF RestTypeOK
<1>7. Tries(t, d, to)
  BY <1>1, <1>2, <1>3, <1>4 DEF Tries, Worker
<1> QED
  BY <1>3, <1>6, <1>7 DEF Typed

LEMMA RelapseKind ==
    ASSUME TypeInv, NEW t \in Threads, NEW d \in Docs, LedgerFails(t, d)
    PROVE  Typed /\ Relapses(t, d)
<1> USE DEF TypeInv
<1>0. ThreadTypeOK /\ RestTypeOK
  BY ThreadsTyped
<1>1. /\ Worker(t, d, "applied") /\ SetTask(t, d, "failed")
      /\ rows' \in {rows, rows \cup {Entry(t, d, "wrote")}}
      /\ UNCHANGED <<pc, run, dry, stage, outcomes, seen>>
      /\ UNCHANGED <<passed, changes, reports, cursor, tracker, alone, lost, expired, settled>>
  BY DEF LedgerFails, memoryVars, historyVars, serverVars
<1>2. /\ task' \in [Threads -> [Docs -> Tasks]]
      /\ task'[t] = [task[t] EXCEPT ![d] = "failed"]
      /\ \A u \in Threads : u # t => task'[u] = task[u]
  <2>1. "failed" \in Tasks /\ UNCHANGED <<pc, run, dry, stage, seen>>
    BY <1>1 DEF Tasks
  <2> QED
    BY <1>0, <1>1, <2>1, TaskEffect
<1>3. ThreadTypeOK' /\ Others(t)
  BY <1>0, <1>1, <1>2 DEF ThreadTypeOK, Others
<1>4. count' \in [{"runs", "troubles"} -> Nat] /\ count'["runs"] = count["runs"]
  BY TroubleEffect DEF LedgerFails, TypeOK
<1>5. RestTypeOK'
  BY <1>0, <1>1, <1>4 DEF RestTypeOK
<1>6. Relapses(t, d)
  BY <1>1, <1>2, <1>3, <1>4 DEF Relapses, Worker
<1> QED
  BY <1>3, <1>5, <1>6 DEF Typed

LEMMA StatusType == \A at \in Tasks : at # "none" => StatusOf(at) \in Statuses
BY DEF Tasks, StatusOf, Statuses

\* The loop takes a document.
LEMMA CollectKind ==
    ASSUME TypeInv, NEW t \in Threads, NEW d \in Docs, Finish(t, d) \/ RowFails(t, d)
    PROVE  Typed /\ \E status \in Statuses : Collects(t, d, status)
<1> USE DEF TypeInv
<1>0. ThreadTypeOK /\ RestTypeOK
  BY ThreadsTyped
<1> DEFINE at == task[t][d]
           status == StatusOf(at)
<1>1. Through(t, d) /\ at \in Tasks /\ at # "none" /\ pc[t] = "work"
  BY <1>0 DEF Finish, RowFails, Through, ThreadTypeOK
<1>2. status \in Statuses
  BY <1>1, StatusType
<1>3. Entry(t, d, status) \in Entries
  <2>1. run[t] \in Runs /\ stage[t] \in Stages
    BY <1>1 DEF ThreadInv, ThreadOK
  <2> QED
    BY <1>2, <2>1 DEF Entry, Entries
<1>4. /\ Collect(t, d, status)
      /\ \/ ~HasRow(at) /\ UNCHANGED <<rows, lost>>
         \/ HasRow(at) /\ rows' = rows \cup {Entry(t, d, status)} /\ lost' = lost
         \/ HasRow(at) /\ rows' = rows /\ lost' = lost \cup {Entry(t, d, status)}
  BY DEF Finish, RowFails
<1>5. count' \in [{"runs", "troubles"} -> Nat] /\ count'["runs"] = count["runs"]
  BY TroubleEffect DEF Finish, RowFails, TypeOK
<1> HIDE DEF status
<1>6. /\ task' \in [Threads -> [Docs -> Tasks]]
      /\ task'[t] = [task[t] EXCEPT ![d] = "none"]
      /\ \A u \in Threads : u # t => task'[u] = task[u]
  BY <1>0, <1>4, TaskEffect DEF Tasks, Collect
<1>7. /\ outcomes' \in [Threads -> SUBSET Entries]
      /\ outcomes'[t] = outcomes[t] \cup {Entry(t, d, status)}
      /\ \A u \in Threads : u # t => outcomes'[u] = outcomes[u]
  BY <1>0, <1>3, <1>4 DEF Collect, ThreadTypeOK
<1>8. ThreadTypeOK' /\ Others(t)
  BY <1>0, <1>4, <1>6, <1>7 DEF Collect, ThreadTypeOK, Others
<1>9. RestTypeOK'
  BY <1>0, <1>4, <1>5 DEF RestTypeOK, Collect, Shown, serverVars
<1>10. Collects(t, d, status)
  <2>1. status = StatusOf(task[t][d])
    BY DEF status
  <2> QED
    BY <1>1, <1>4, <1>5, <1>6, <1>7, <1>8, <2>1 DEF Collects, Collect, serverVars
<1> QED
  BY <1>2, <1>8, <1>9, <1>10 DEF Typed

\* A crash.
LEMMA CrashKind ==
    ASSUME TypeInv, Crash PROVE Typed /\ CrashKeeps
<1> USE DEF TypeInv
<1>0. ThreadTypeOK /\ RestTypeOK
  BY ThreadsTyped
<1>1. NoTasks \in [Docs -> Tasks] /\ NoCursor \in Cursors /\ 0 \in 0..MaxRuns
  BY RecordsAssumption DEF NoTasks, Tasks, NoCursor, Cursors
<1>2. ThreadTypeOK'
  BY <1>1 DEF Crash, ThreadTypeOK, Places
<1>3. count' \in [{"runs", "troubles"} -> Nat] /\ count'["runs"] = count["runs"]
  BY TroubleEffect DEF Crash, TypeOK
<1>4. settled' \in BOOLEAN /\ alone' \in BOOLEAN
  BY <1>0 DEF Crash, RestTypeOK
<1>5. UNCHANGED <<changes, passed, rows, reports, cursor, expired>>
  BY DEF Crash, serverVars, fileVars
<1> QED
  BY <1>0, <1>2, <1>3, <1>4, <1>5 DEF RestTypeOK, CrashKeeps, Typed

\* Every step of the system.
LEMMA StepKinds ==
    ASSUME TypeInv, [Next]_vars
    PROVE  /\ Typed
           /\ \/ Idles
              \/ \E t \in Threads : ThreadKind(t)
              \/ \E t \in Threads, d \in Docs : DocKind(t, d)
              \/ Crash /\ CrashKeeps
<1>1. CASE UNCHANGED vars
  BY <1>1 DEF vars, serverVars, fileVars, memoryVars, threadVars, historyVars, Idles, Typed,
     TypeInv, TypeOK, ThreadTypeOK, RestTypeOK
<1>2. ASSUME NEW t \in Threads, RunStep(t) PROVE Typed /\ ThreadKind(t)
  <2>1. CASE BeginRun(t) \/ BeginNudge(t)
    BY <2>1, BeginKind DEF ThreadKind
  <2>2. CASE \/ ResolveFails(t) \/ StageFails(t) \/ (EndStages(t) /\ t \notin Sweepers)
             \/ PersistFails(t)
    BY <2>2, LeaveKind DEF ThreadKind
  <2>3. CASE BeginStageOfRun(t) \/ BeginStageOfNudge(t)
    <3>1. PICK among \in SUBSET Docs : BeginStage(t, among)
      BY <2>3 DEF BeginStageOfRun, BeginStageOfNudge
    <3> QED
      BY <3>1, OpenKind DEF ThreadKind
  <2>4. CASE EndStages(t) /\ t \in Sweepers
    BY <2>4, StopKind DEF ThreadKind
  <2>5. CASE Persist(t)
    BY <2>5, PersistKind DEF ThreadKind
  <2>6. CASE \/ RecordRead(t) \/ RecordTruncate(t) \/ RecordWrite(t)
             \/ MarkUnlessDone(t) \/ MarkRead(t) \/ MarkTruncate(t) \/ MarkWrite(t)
    BY <2>6, CursorKind DEF ThreadKind
  <2> QED
    BY <1>2, <2>1, <2>2, <2>3, <2>4, <2>5, <2>6 DEF RunStep
<1>3. ASSUME NEW t \in Threads, NEW d \in Docs, DocStep(t, d) PROVE Typed /\ DocKind(t, d)
  BY <1>3, TryKind, RelapseKind, CollectKind DEF DocStep, DocKind
<1> QED
  BY <1>1, <1>2, <1>3, CrashKind DEF Next

(***************************************************************************)
(* Type correctness.                                                       *)
(***************************************************************************)

\* TypeOK of the records of the runs.
RecordTypeOK ==
    /\ changes \subseteq Entries
    /\ rows \subseteq Entries
    /\ reports \subseteq [run : Runs, dry : BOOLEAN, outcomes : SUBSET Entries]
    /\ tracker \in Trackers
    /\ lost \subseteq Entries
    /\ expired \subseteq Runs

LEMMA TypeParts ==
    /\ TypeOK => ThreadTypeOK /\ RestTypeOK /\ RecordTypeOK
    /\ Typed /\ RecordTypeOK' => TypeOK'
BY DEF TypeOK, Typed, ThreadTypeOK, RestTypeOK, RecordTypeOK, Trackers

\* What the retention takes out of the log is of expired runs.
LEMMA PurgeEffect ==
    ASSUME RecordTypeOK, Purges
    PROVE  /\ rows' \subseteq rows /\ expired \subseteq expired' /\ expired' \subseteq Runs
           /\ \A e \in rows : e \notin rows' => e.run \in expired'
<1>1. CASE UNCHANGED <<rows, expired>>
  BY <1>1 DEF RecordTypeOK
<1>2. ASSUME NEW old, Retain(old)
      PROVE  /\ rows' \subseteq rows /\ expired \subseteq expired' /\ expired' \subseteq Runs
             /\ \A e \in rows : e \notin rows' => e.run \in expired'
  <2>1. \A e \in rows : e.run \in Runs
    BY DEF RecordTypeOK, Entries
  <2> QED
    BY <1>2, <2>1 DEF Retain, RecordTypeOK
<1> QED
  BY <1>1, <1>2 DEF Purges

LEMMA EndRunEffect ==
    ASSUME TypeInv, NEW t \in Threads, EndRun(t)
    PROVE  /\ tracker' \in Trackers
           /\ tracker'.active = FALSE /\ tracker'.run = tracker.run
           /\ tracker'.stages = tracker.stages /\ tracker'.counts = CountsOf(outcomes[t])
           /\ alone' = (alone /\ Shown(t))
<1>1. tracker \in Trackers /\ IsFiniteSet(outcomes[t])
  BY TypeParts DEF TypeInv, ThreadInv, ThreadOK, RecordTypeOK
<1> QED
  BY <1>1, EndTrackingEffect DEF EndRun

\* The entry of a document in hand.
LEMMA EntryType ==
    ASSUME TypeInv, NEW t \in Threads, NEW d \in Docs, NEW status \in Statuses,
           pc[t] = "work", task[t][d] # "none"
    PROVE  /\ Entry(t, d, status) \in Entries
           /\ Entry(t, d, status).run = run[t] /\ Entry(t, d, status).stage = stage[t]
           /\ Entry(t, d, status).doc = d /\ Entry(t, d, status).status = status
<1>1. run[t] \in Runs /\ stage[t] \in Stages
  BY DEF TypeInv, ThreadInv, ThreadOK
<1> QED
  BY <1>1 DEF Entry, Entries

\* ThreadInv when one thread has moved.
LEMMA OneThread ==
    ASSUME TypeInv, Typed, NEW t \in Threads, Others(t), ThreadOK(t)',
           count["runs"] <= count'["runs"],
           run'[t] = run[t] \/ run'[t] = 0 \/ run'[t] = count["runs"] + 1
    PROVE  ThreadInv'
<1>1. count["runs"] \in Nat /\ count'["runs"] \in Nat
  BY DEF TypeInv, TypeOK, Typed, RestTypeOK
<1>2. \A u \in Threads : run[u] \in Nat /\ run[u] <= count["runs"]
  <2>1. \A u \in Threads : pc[u] = "off" => run[u] = 0
    BY DEF TypeInv, ThreadInv, ThreadOK
  <2>2. \A u \in Threads : pc[u] # "off" => run[u] \in Runs /\ run[u] <= count["runs"]
    BY DEF TypeInv, ThreadInv, ThreadOK
  <2> QED
    BY <1>1, <2>1, <2>2 DEF Runs
<1>3. ASSUME NEW u \in Threads, u # t PROVE ThreadOK(u)'
  <2>1. /\ pc'[u] = pc[u] /\ run'[u] = run[u] /\ dry'[u] = dry[u]
        /\ stage'[u] = stage[u] /\ task'[u] = task[u] /\ outcomes'[u] = outcomes[u]
    BY <1>3 DEF Others
  <2>2. ThreadOK(u)
    BY DEF TypeInv, ThreadInv
  <2>3. run'[u] \in Runs /\ run'[u] <= count["runs"] => run'[u] <= count'["runs"]
    BY <1>1 DEF Runs
  <2> QED
    BY <2>1, <2>2, <2>3 DEF ThreadOK
<1>4. ASSUME NEW u \in Threads, NEW v \in Threads, run'[u] = run'[v], run'[u] # 0
      PROVE  u = v
  BY <1>1, <1>2, <1>4 DEF Others, TypeInv, ThreadInv
<1> QED
  BY <1>3, <1>4 DEF ThreadInv

\* The steps of a run other than on a document.
LEMMA ThreadKindType ==
    ASSUME TypeInv, Typed, NEW t \in Threads, ThreadKind(t)
    PROVE  TypeInv'
<1>0. /\ ThreadTypeOK /\ RestTypeOK /\ RecordTypeOK /\ ThreadTypeOK' /\ RestTypeOK'
      /\ ThreadOK(t) /\ count["runs"] \in Nat /\ PastInv
  BY TypeParts DEF TypeInv, Typed, ThreadInv, RestTypeOK
<1>1. CASE Moves(t)
  <2>1. RecordTypeOK' /\ PastInv' /\ count' = count
    BY <1>0, <1>1 DEF Moves, RecordTypeOK, PastInv
  <2>2. ThreadOK(t)'
    BY <1>0, <1>1 DEF Moves, KeepsRun, ThreadOK
  <2>3. ThreadInv'
    BY <1>0, <1>1, <2>1, <2>2, OneThread DEF Moves, KeepsRun
  <2> QED
    BY <2>1, <2>3, TypeParts DEF TypeInv
<1>2. CASE Starts(t)
  <2>1. count'["runs"] = count["runs"] + 1 /\ count["runs"] + 1 \in 1..MaxRuns
    <3>1. run'[t] \in 0..MaxRuns /\ run'[t] = count["runs"] + 1
      BY <1>0, <1>2 DEF Starts, ThreadTypeOK
    <3>2. MaxRuns \in Nat /\ count'["runs"] = count["runs"] + 1
      BY <1>2, RecordsAssumption DEF Starts
    <3> QED
      BY <1>0, <3>1, <3>2
  <2>2. tracker' \in Trackers /\ tracker'.run <= count'["runs"]
    <3>0. MaxRuns \in Nat
      BY RecordsAssumption
    <3>1. count["runs"] + 1 \in 0..MaxRuns
      BY <2>1, <3>0
    <3>2. CASE tracker' = BeginTracking(count["runs"] + 1)
      <4>1. tracker' \in Trackers /\ tracker'.run = count["runs"] + 1
        BY <3>1, <3>2, BeginTrackingEffect
      <4> QED
        BY <1>0, <2>1, <4>1
    <3>3. CASE tracker' = tracker
      <4>1. tracker.run \in 0..MaxRuns /\ tracker.run <= count["runs"]
        BY <1>0 DEF RecordTypeOK, Trackers, PastInv
      <4> QED
        BY <1>0, <2>1, <3>3, <4>1, RecordsAssumption DEF RecordTypeOK
    <3> QED
      BY <1>2, <3>2, <3>3 DEF Starts
  <2>3. RecordTypeOK'
    BY <1>0, <1>2, <2>2 DEF Starts, RecordTypeOK
  <2>4. PastInv'
    <3>1. \A p \in reports : p.run \in Nat
      BY <1>0 DEF RecordTypeOK, Runs
    <3>2. \A e \in changes \cup rows : e.run \in Nat
      BY <1>0 DEF RecordTypeOK, Entries, Runs
    <3> QED
      BY <1>0, <1>2, <2>1, <2>2, <3>1, <3>2 DEF Starts, PastInv
  <2>5. ThreadOK(t)'
    <3>1. /\ outcomes'[t] = {} /\ IsFiniteSet(outcomes'[t])
          /\ task'[t] = NoTasks /\ pc'[t] = "work" /\ run'[t] = count["runs"] + 1
      BY <1>0, <1>2 DEF Starts, ThreadOK
    <3>2. run'[t] \in Runs /\ run'[t] <= count'["runs"]
      BY <2>1, <3>1 DEF Runs
    <3> QED
      BY <3>1, <3>2 DEF ThreadOK, NoTasks
  <2>6. ThreadInv'
    BY <1>0, <1>2, <2>1, <2>5, OneThread DEF Starts
  <2> QED
    BY <2>3, <2>4, <2>6, TypeParts DEF TypeInv
<1>3. CASE Leaves(t)
  <2>1. count'["runs"] = count["runs"] /\ rows' \subseteq rows /\ expired' \subseteq Runs
    BY <1>0, <1>3, PurgeEffect DEF Leaves
  <2>2. tracker' \in Trackers /\ tracker'.run = tracker.run
    BY <1>0, <1>3, EndRunEffect DEF Leaves, RecordTypeOK
  <2>3. RecordTypeOK' /\ PastInv'
    BY <1>0, <1>3, <2>1, <2>2 DEF Leaves, RecordTypeOK, PastInv
  <2>4. ThreadOK(t)'
    BY <1>3, FS_EmptySet DEF Leaves, ThreadOK, NoTasks
  <2>5. ThreadInv'
    BY <1>0, <1>3, <2>1, <2>4, OneThread DEF Leaves
  <2> QED
    BY <2>3, <2>5, TypeParts DEF TypeInv
<1>4. CASE Stops(t)
  <2>1. tracker' \in Trackers /\ tracker'.run = tracker.run /\ count' = count
    BY <1>4, EndRunEffect DEF Stops
  <2>2. RecordTypeOK' /\ PastInv'
    BY <1>0, <1>4, <2>1 DEF Stops, RecordTypeOK, PastInv
  <2>3. ThreadOK(t)'
    BY <1>0, <1>4 DEF Stops, KeepsRun, ThreadOK
  <2>4. ThreadInv'
    BY <1>0, <1>4, <2>1, <2>3, OneThread DEF Stops, KeepsRun
  <2> QED
    BY <2>2, <2>4, TypeParts DEF TypeInv
<1>5. CASE Persists(t)
  <2>1. rows' \subseteq rows /\ expired' \subseteq Runs /\ count' = count
    BY <1>0, <1>5, PurgeEffect DEF Persists
  <2>2. run[t] \in Runs /\ run[t] <= count["runs"]
    BY <1>0, <1>5 DEF Persists, ThreadOK
  <2>3. /\ ReportOf(t) \in [run : Runs, dry : BOOLEAN, outcomes : SUBSET Entries]
        /\ ReportOf(t).run = run[t]
    BY <1>0, <2>2 DEF ReportOf, ThreadTypeOK
  <2>4. RecordTypeOK' /\ PastInv'
    BY <1>0, <1>5, <2>1, <2>2, <2>3 DEF Persists, RecordTypeOK, PastInv
  <2>5. ThreadOK(t)'
    BY <1>0, <1>5, <2>1 DEF Persists, KeepsRun, ThreadOK
  <2>6. ThreadInv'
    BY <1>0, <1>5, <2>1, <2>5, OneThread DEF Persists, KeepsRun
  <2> QED
    BY <2>4, <2>6, TypeParts DEF TypeInv
<1>6. ASSUME NEW among \in SUBSET Docs, Opens(t, among) PROVE TypeInv'
  <2> DEFINE queue == Queue(stage[t] + 1, among)
  <2>1. stage[t] + 1 \in Stages /\ stage[t] \in 0..2
    BY <1>0, <1>6 DEF Opens, ThreadTypeOK, Stages
  <2>2. Cardinality(queue) \in Nat
    <3>1. queue \subseteq Docs
      BY DEF Queue
    <3> QED
      BY <3>1, FS_Subset, FS_CardinalityType, RecordsAssumption
  <2> HIDE DEF queue
  <2>3. tracker' = BeginStageIn(tracker, stage[t] + 1, Cardinality(queue)) /\ count' = count
    BY <1>6 DEF Opens, queue
  <2>4. tracker' \in Trackers /\ tracker'.run = tracker.run
    BY <1>0, <2>1, <2>2, <2>3, BeginStageEffect DEF RecordTypeOK
  <2>5. RecordTypeOK' /\ PastInv'
    BY <1>0, <1>6, <2>4 DEF Opens, RecordTypeOK, PastInv
  <2>6. ThreadOK(t)'
    <3>0. outcomes'[t] = outcomes[t] /\ run'[t] = run[t]
      BY <1>6 DEF Opens
    <3>1. \A e \in outcomes'[t] : e.stage <= stage[t] /\ e.stage \in Nat /\ e.run = run'[t]
      <4>1. \A e \in outcomes[t] : e.stage \in Nat
        BY <1>0 DEF ThreadTypeOK, Entries, Stages
      <4>2. \A e \in outcomes[t] : e.stage <= stage[t] /\ e.run = run[t]
        BY <1>0 DEF ThreadOK
      <4> QED
        BY <3>0, <4>1, <4>2
    <3>2. /\ stage'[t] = stage[t] + 1 /\ pc'[t] = "work" /\ pc[t] = "work"
          /\ run'[t] = run[t] /\ outcomes'[t] = outcomes[t] /\ count' = count
      BY <1>6 DEF Opens
    <3>3. \A e \in outcomes'[t] : e.stage <= stage'[t] /\ e.stage # stage'[t]
      BY <2>1, <3>1, <3>2
    <3> QED
      BY <1>0, <2>1, <3>1, <3>2, <3>3 DEF ThreadOK
  <2>7. ThreadInv'
    BY <1>0, <1>6, <2>3, <2>6, OneThread DEF Opens
  <2> QED
    BY <2>5, <2>7, TypeParts DEF TypeInv
<1> QED
  BY <1>1, <1>2, <1>3, <1>4, <1>5, <1>6 DEF ThreadKind

\* The steps on a document.
LEMMA DocKindType ==
    ASSUME TypeInv, Typed, NEW t \in Threads, NEW d \in Docs, DocKind(t, d)
    PROVE  TypeInv'
<1>0. /\ ThreadTypeOK /\ RestTypeOK /\ RecordTypeOK /\ ThreadTypeOK' /\ RestTypeOK'
      /\ ThreadOK(t) /\ count["runs"] \in Nat /\ PastInv
  BY TypeParts DEF TypeInv, Typed, ThreadInv, RestTypeOK
<1>1. ASSUME NEW to \in {"applied", "failed"}, Tries(t, d, to) PROVE TypeInv'
  <2>1. pc[t] = "work" /\ task[t][d] = "queued" /\ count'["runs"] = count["runs"]
    BY <1>1 DEF Tries
  <2>2. /\ Entry(t, d, "wrote") \in Entries /\ Entry(t, d, "wrote").run = run[t]
        /\ run[t] <= count["runs"]
    BY <1>0, <2>1, EntryType DEF Statuses, ThreadOK
  <2>3. RecordTypeOK' /\ PastInv'
    BY <1>0, <1>1, <2>1, <2>2 DEF Tries, RecordTypeOK, PastInv
  <2>4. ThreadOK(t)'
    <3>1. \A e \in outcomes[t] : e.stage = stage[t] => e.doc # d
      BY <1>0, <2>1 DEF ThreadOK
    <3>2. \A x \in Docs : x # d => task'[t][x] = task[t][x]
      BY <1>0, <1>1 DEF Tries, ThreadTypeOK
    <3>3. \A e \in outcomes[t] : e.doc \in Docs
      BY <1>0 DEF ThreadTypeOK, Entries
    <3>4. \A e \in outcomes'[t] : e.stage = stage'[t] => task'[t][e.doc] = "none"
      BY <1>0, <1>1, <3>1, <3>2, <3>3 DEF Tries, ThreadOK
    <3>5. stage[t] \in Stages
      BY <1>0, <2>1 DEF ThreadOK
    <3> QED
      BY <1>0, <1>1, <2>1, <3>4, <3>5 DEF Tries, ThreadOK
  <2>5. ThreadInv'
    BY <1>0, <1>1, <2>1, <2>4, OneThread DEF Tries
  <2> QED
    BY <2>3, <2>5, TypeParts DEF TypeInv
<1>2. ASSUME NEW status \in Statuses, Collects(t, d, status) PROVE TypeInv'
  <2> DEFINE new == Entry(t, d, status)
  <2>1. pc[t] = "work" /\ task[t][d] # "none" /\ count'["runs"] = count["runs"]
    BY <1>2 DEF Collects, Through
  <2>2. /\ new \in Entries /\ new.run = run[t] /\ new.stage = stage[t] /\ new.doc = d
        /\ run[t] <= count["runs"] /\ stage[t] \in Stages
    BY <1>0, <2>1, EntryType DEF ThreadOK
  <2> HIDE DEF new
  <2>3. tracker' \in Trackers /\ tracker'.run = tracker.run
    BY <1>0, <1>2, <2>2, RecordDocEffect DEF Collects, RecordTypeOK
  <2>4. RecordTypeOK'
    BY <1>0, <1>2, <2>2, <2>3 DEF Collects, RecordTypeOK, new
  <2>5. PastInv'
    BY <1>0, <1>2, <2>1, <2>2, <2>3 DEF Collects, PastInv, new
  <2>6. ThreadOK(t)'
    <3>1. outcomes'[t] = outcomes[t] \cup {new}
      BY <1>2 DEF Collects, new
    <3>2. IsFiniteSet(outcomes'[t])
      BY <1>0, <3>1, FS_AddElement DEF ThreadOK
    <3>3. \A x \in Docs : task'[t][x] = IF x = d THEN "none" ELSE task[t][x]
      BY <1>0, <1>2 DEF Collects, ThreadTypeOK
    <3>4. \A e \in outcomes[t] : e.doc \in Docs
      BY <1>0 DEF ThreadTypeOK, Entries
    <3>5. /\ pc'[t] = "work" /\ run'[t] = run[t] /\ stage'[t] = stage[t]
      BY <1>2 DEF Collects
    <3>6. \A e \in outcomes'[t] : /\ e.run = run'[t] /\ e.stage <= stage'[t]
                                  /\ e.stage = stage'[t] => task'[t][e.doc] = "none"
      <4> SUFFICES ASSUME NEW e \in outcomes'[t]
                   PROVE  /\ e.run = run'[t] /\ e.stage <= stage'[t]
                          /\ e.stage = stage'[t] => task'[t][e.doc] = "none"
        OBVIOUS
      <4>1. CASE e = new
        BY <2>2, <3>3, <3>5, <4>1 DEF Stages
      <4>2. CASE e \in outcomes[t]
        BY <1>0, <3>3, <3>4, <3>5, <4>2 DEF ThreadOK
      <4> QED
        BY <3>1, <4>1, <4>2
    <3> QED
      BY <1>0, <2>1, <2>2, <3>2, <3>5, <3>6 DEF ThreadOK
  <2>7. ThreadInv'
    BY <1>0, <1>2, <2>1, <2>6, OneThread DEF Collects
  <2> QED
    BY <2>4, <2>5, <2>7, TypeParts DEF TypeInv
<1>3. CASE Relapses(t, d)
  <2>1. pc[t] = "work" /\ task[t][d] = "applied" /\ count'["runs"] = count["runs"]
    BY <1>3 DEF Relapses
  <2>2. /\ Entry(t, d, "wrote") \in Entries /\ Entry(t, d, "wrote").run = run[t]
        /\ run[t] <= count["runs"]
    BY <1>0, <2>1, EntryType DEF Statuses, ThreadOK
  <2>3. RecordTypeOK' /\ PastInv'
    BY <1>0, <1>3, <2>1, <2>2 DEF Relapses, RecordTypeOK, PastInv
  <2>4. ThreadOK(t)'
    <3>1. \A e \in outcomes[t] : e.stage = stage[t] => e.doc # d
      BY <1>0, <2>1 DEF ThreadOK
    <3>2. \A x \in Docs : x # d => task'[t][x] = task[t][x]
      BY <1>0, <1>3 DEF Relapses, ThreadTypeOK
    <3>3. \A e \in outcomes[t] : e.doc \in Docs
      BY <1>0 DEF ThreadTypeOK, Entries
    <3>4. \A e \in outcomes'[t] : e.stage = stage'[t] => task'[t][e.doc] = "none"
      BY <1>0, <1>3, <3>1, <3>2, <3>3 DEF Relapses, ThreadOK
    <3>5. stage[t] \in Stages
      BY <1>0, <2>1 DEF ThreadOK
    <3> QED
      BY <1>0, <1>3, <2>1, <3>4, <3>5 DEF Relapses, ThreadOK
  <2>5. ThreadInv'
    BY <1>0, <1>3, <2>1, <2>4, OneThread DEF Relapses
  <2> QED
    BY <2>3, <2>5, TypeParts DEF TypeInv
<1> QED
  BY <1>1, <1>2, <1>3 DEF DocKind

LEMMA DoubtType ==
    ASSUME TypeInv, NEW p \in InDoubt
    PROVE  Entry(p[1], p[2], StatusOf(task[p[1]][p[2]])) \in Entries
<1>1. p[1] \in Threads /\ p[2] \in Docs /\ task[p[1]][p[2]] \in {"applied", "failed"}
  BY DEF InDoubt
<1>2. StatusOf(task[p[1]][p[2]]) \in Statuses /\ task[p[1]][p[2]] # "none"
  BY <1>1, StatusType DEF Tasks
<1>3. pc[p[1]] = "work"
  BY <1>1, <1>2 DEF TypeInv, ThreadInv, ThreadOK, NoTasks
<1> QED
  BY <1>1, <1>2, <1>3, EntryType

LEMMA CrashType == ASSUME TypeInv, Typed, Crash, CrashKeeps PROVE TypeInv'
<1>0. /\ ThreadTypeOK /\ RestTypeOK /\ RecordTypeOK /\ ThreadTypeOK' /\ RestTypeOK'
      /\ count["runs"] \in Nat /\ PastInv
  BY TypeParts DEF TypeInv, Typed, RestTypeOK
<1>1. tracker' \in Trackers /\ tracker'.run = 0
  BY IdleEffect DEF Crash
<1>2. lost' \subseteq Entries
  BY <1>0, DoubtType DEF Crash, RecordTypeOK
<1>3. RecordTypeOK'
  BY <1>0, <1>1, <1>2 DEF RecordTypeOK, CrashKeeps
<1>4. PastInv'
  BY <1>0, <1>1 DEF PastInv, CrashKeeps
<1>5. ThreadInv'
  BY FS_EmptySet DEF Crash, ThreadInv, ThreadOK, NoTasks
<1> QED
  BY <1>3, <1>4, <1>5, TypeParts DEF TypeInv

\* TypeInv is inductive.
LEMMA TypeNext == TypeInv /\ [Next]_vars => TypeInv'
<1> SUFFICES ASSUME TypeInv, [Next]_vars PROVE TypeInv'
  OBVIOUS
<1>1. Typed
  BY StepKinds
<1>2. CASE Idles
  <2>1. RecordTypeOK'
    BY <1>2, TypeParts DEF Idles, TypeInv, RecordTypeOK
  <2>2. ThreadInv'
    BY <1>2 DEF Idles, TypeInv, ThreadInv, ThreadOK
  <2>3. PastInv'
    BY <1>2 DEF Idles, TypeInv, PastInv
  <2> QED
    BY <1>1, <2>1, <2>2, <2>3, TypeParts DEF TypeInv
<1> QED
  BY <1>1, <1>2, StepKinds, ThreadKindType, DocKindType, CrashType

LEMMA TypeInit == Init => TypeInv
<1> SUFFICES ASSUME Init PROVE TypeInv
  OBVIOUS
<1>1. /\ NoTasks \in [Docs -> Tasks] /\ NoCursor \in Cursors /\ 0 \in 0..MaxRuns
      /\ [NoCursor EXCEPT !.first = TRUE] \in Cursors
  <2>1. NoCursor \in Cursors /\ 0 \in 0..MaxRuns
    BY RecordsAssumption DEF NoCursor, Cursors
  <2>2. [NoCursor EXCEPT !.first = TRUE] \in Cursors
    BY <2>1 DEF Cursors
  <2>3. NoTasks \in [Docs -> Tasks]
    BY DEF NoTasks, Tasks
  <2> QED
    BY <2>1, <2>2, <2>3
<1>2. ThreadTypeOK
  BY <1>1 DEF Init, ThreadTypeOK, Places
<1>3. cursor \in Cursors /\ cursor.first \in BOOLEAN
  BY <1>1 DEF Init, Cursors
<1>4. RestTypeOK /\ count["runs"] = 0
  BY <1>3 DEF Init, RestTypeOK
<1>5. RecordTypeOK /\ PastInv
  BY <1>4, IdleEffect DEF Init, RecordTypeOK, PastInv
<1>6. ThreadInv
  BY FS_EmptySet DEF Init, ThreadInv, ThreadOK, NoTasks
<1> QED
  BY <1>2, <1>4, <1>5, <1>6 DEF TypeInv, TypeOK, ThreadTypeOK, RestTypeOK, RecordTypeOK, Trackers

\* The records of the runs are well typed.
THEOREM TypeCorrect == Spec => []TypeOK
<1>1. Spec => []TypeInv
  BY TypeInit, TypeNext, PTL DEF Spec
<1>2. TypeInv => TypeOK
  BY DEF TypeInv
<1> QED
  BY <1>1, <1>2, PTL

(***************************************************************************)
(* The cursor.                                                             *)
(***************************************************************************)

\* A step that is not about the cursor file: it leaves the file and the
\* history alone, and nobody stops writing to the file in it.
CursorRests ==
    /\ UNCHANGED <<cursor, settled>>
    /\ \A t \in Threads : pc[t] \in CursorPlaces => pc'[t] \in CursorPlaces

\* The steps of a run up to its report.
LEMMA RunRests ==
    ASSUME TypeInv, NEW t \in Threads,
           \/ BeginRun(t) \/ BeginNudge(t) \/ ResolveFails(t)
           \/ BeginStageOfRun(t) \/ BeginStageOfNudge(t) \/ StageFails(t)
           \/ EndStages(t) \/ Persist(t) \/ PersistFails(t)
    PROVE  CursorRests
<1>1. UNCHANGED <<cursor, settled>>
  BY DEF BeginRun, BeginNudge, Begin, ResolveFails, BeginStageOfRun, BeginStageOfNudge, BeginStage,
     StageFails, EndStages, Persist, PersistFails, fileVars, historyVars
<1>2. pc[t] \in {"off", "work", "persist"}
  BY DEF BeginRun, BeginNudge, Begin, ResolveFails, BeginStageOfRun, BeginStageOfNudge, BeginStage,
     StageFails, EndStages, Persist, PersistFails, Between
<1>3. \A u \in Threads : u # t => pc'[u] = pc[u]
  <2>1. pc \in [Threads -> Places]
    BY DEF TypeInv, TypeOK
  <2>2. pc' = pc \/ \E to : GoTo(t, to)
    BY DEF BeginRun, BeginNudge, Begin, ResolveFails, BeginStageOfRun, BeginStageOfNudge,
       BeginStage, StageFails, EndStages, Persist, PersistFails, Leave
  <2> QED
    BY <2>1, <2>2 DEF GoTo
<1> QED
  BY <1>1, <1>2, <1>3 DEF CursorRests, CursorPlaces

\* The steps on a document.
LEMMA DocRests ==
    ASSUME NEW t \in Threads, NEW d \in Docs, DocStep(t, d)
    PROVE  CursorRests
BY DEF DocStep, Apply, ApplyUnheard, Patch, DocumentFails, LedgerFails, Finish, RowFails, Collect,
   CursorRests, fileVars, historyVars

LEMMA FirstRunNext == TypeInv /\ FirstRunStaysDone /\ [Next]_vars => FirstRunStaysDone'
<1> SUFFICES ASSUME TypeInv, FirstRunStaysDone, [Next]_vars, settled',
                    \A t \in Threads : pc'[t] \notin CursorPlaces
             PROVE  cursor'.first
  BY DEF FirstRunStaysDone
<1>1. CASE CursorRests
  BY <1>1 DEF CursorRests, FirstRunStaysDone
<1>2. CASE UNCHANGED vars
  BY <1>1, <1>2 DEF vars, fileVars, threadVars, historyVars, CursorRests
<1>3. ASSUME NEW t \in Threads,
             \/ RecordRead(t) \/ RecordTruncate(t) \/ RecordWrite(t)
             \/ MarkUnlessDone(t) \/ MarkRead(t) \/ MarkTruncate(t) \/ MarkWrite(t)
      PROVE  cursor'.first
  <2>0. pc \in [Threads -> Places] /\ seen[t] \in Cursors
    BY DEF TypeInv, TypeOK
  <2>1. \A to \in CursorPlaces : ~GoTo(t, to)
    BY <2>0 DEF GoTo
  <2>2. \/ MarkUnlessDone(t) /\ cursor.first /\ UNCHANGED cursor
        \/ MarkWrite(t)
    BY <1>3, <2>1
    DEF RecordRead, RecordTruncate, RecordWrite, MarkUnlessDone, MarkRead, MarkTruncate,
        Read, Truncate, CursorPlaces, fileVars
  <2>3. [seen[t] EXCEPT !.first = TRUE].first = TRUE
    BY <2>0 DEF Cursors
  <2> QED
    BY <2>2, <2>3 DEF MarkWrite
<1>4. CASE Crash
  BY <1>4 DEF Crash, fileVars, FirstRunStaysDone
<1> QED
  BY <1>1, <1>2, <1>3, <1>4, RunRests, DocRests DEF Next, RunStep

\* Once a run has completed, cursor.json says so whenever no run is rewriting
\* it (obs.py), however many runs end at the same time: no reader of the file
\* between two runs takes the installation for a new one.
THEOREM FirstRunDone == Spec => []FirstRunStaysDone
<1>1. Init => FirstRunStaysDone
  BY DEF Init, FirstRunStaysDone
<1>2. TypeInv /\ FirstRunStaysDone /\ [Next]_vars => (TypeInv /\ FirstRunStaysDone)'
  BY TypeNext, FirstRunNext
<1> QED
  BY <1>1, <1>2, TypeInit, PTL DEF Spec

(***************************************************************************)
(* The log.                                                                *)
(***************************************************************************)

\* The worker of a change is still to come to the log.
InHand(c) ==
    \E t \in Threads : /\ run[t] = c.run /\ stage[t] = c.stage
                       /\ task[t][c.doc] \in {"applied", "failed"}

\* What a worker has applied has reached Paperless.
AppliedInv ==
    /\ \A c \in changes : c.status = "wrote"
    /\ \A t \in Threads, d \in Docs :
          task[t][d] = "applied" => Entry(t, d, "wrote") \in changes

LogInv == AppliedInv /\ LogTellsWhatChanged

\* A change is known by its run, stage and document.
LEMMA OneEntry ==
    ASSUME NEW t, NEW d, NEW c \in Entries,
           c.run = run[t], c.stage = stage[t], c.doc = d, c.status = "wrote"
    PROVE  c = Entry(t, d, "wrote") /\ AsError(c) = Entry(t, d, "ERROR")
<1>1. c = [run |-> c.run, stage |-> c.stage, doc |-> c.doc, status |-> c.status]
  BY Zenon DEF Entries
<1> QED
  BY <1>1 DEF Entry, AsError

\* The row of a change whose worker comes to the log.
LEMMA RowOf ==
    ASSUME TypeInv, AppliedInv, NEW t \in Threads, NEW c \in changes,
           run[t] = c.run, stage[t] = c.stage, task[t][c.doc] \in {"applied", "failed"}
    PROVE  Entry(t, c.doc, StatusOf(task[t][c.doc])) \in {c, AsError(c)}
<1>1. c \in Entries /\ c.status = "wrote"
  BY DEF TypeInv, TypeOK, AppliedInv
<1>2. c = Entry(t, c.doc, "wrote") /\ AsError(c) = Entry(t, c.doc, "ERROR")
  BY <1>1, OneEntry
<1>3. StatusOf(task[t][c.doc]) \in {"wrote", "ERROR"}
  BY DEF StatusOf
<1> QED
  BY <1>2, <1>3

\* How a document in hand goes into the log.
LEMMA StatusFacts ==
    ASSUME NEW at \in Tasks, at # "none"
    PROVE  /\ StatusOf(at) = "wrote" <=> at = "applied"
           /\ at \in {"applied", "failed"} => HasRow(at)
           /\ HasRow(at) => StatusOf(at) # "skip"
BY DEF Tasks, StatusOf, HasRow

\* The steps of a run other than on a document: no worker has anything in
\* hand, and what the retention purges is of expired runs.
LEMMA ThreadKindLog ==
    ASSUME TypeInv, LogInv, Typed, NEW t \in Threads, ThreadKind(t)
    PROVE  LogInv'
<1>0. RecordTypeOK /\ ThreadOK(t) /\ task[t] \in [Docs -> Tasks]
  BY TypeParts DEF TypeInv, ThreadInv, TypeOK
<1>1. /\ Others(t) /\ changes' = changes /\ lost' = lost
      /\ rows' \subseteq rows /\ expired \subseteq expired'
      /\ \A e \in rows : e \notin rows' => e.run \in expired'
  <2>1. Others(t) /\ changes' = changes /\ lost' = lost /\ Purges
    BY DEF ThreadKind, Moves, Starts, Leaves, Stops, Persists, Opens, Purges
  <2> QED
    BY <1>0, <2>1, PurgeEffect
<1>2. task[t] = NoTasks
  BY <1>0 DEF ThreadKind, Moves, Starts, Leaves, Stops, Persists, Opens, ThreadOK
<1>3. \A d \in Docs : task'[t][d] # "applied"
  <2>1. task'[t] = NoTasks \/ \E s, queue : task'[t] = [d \in Docs |-> FirstTask(s, queue, d)]
    BY <1>2 DEF ThreadKind, Moves, Starts, Leaves, Stops, Persists, Opens, KeepsRun
  <2> QED
    BY <2>1 DEF NoTasks, FirstTask
<1>4. \A c \in changes : c \in Entries /\ c.doc \in Docs
  BY <1>0 DEF RecordTypeOK, Entries
<1>5. ASSUME NEW u \in Threads, NEW d \in Docs, task'[u][d] = "applied"
      PROVE  (Entry(u, d, "wrote") \in changes)'
  <2>1. u # t
    BY <1>3, <1>5
  <2>2. run'[u] = run[u] /\ stage'[u] = stage[u] /\ task[u][d] = "applied"
    BY <1>1, <1>5, <2>1 DEF Others
  <2> QED
    BY <1>1, <2>2 DEF LogInv, AppliedInv, Entry
<1>6. ASSUME NEW c \in changes, c.run \notin expired'
      PROVE  {c, AsError(c)} \cap (rows' \cup lost') # {} \/ InHand(c)'
  <2>1. CASE {c, AsError(c)} \cap (rows \cup lost) # {}
    <3>1. c \in Entries /\ AsError(c).run = c.run
      BY <1>4 DEF Entries, AsError
    <3> QED
      BY <1>1, <1>6, <2>1, <3>1
  <2>2. ASSUME NEW u \in Threads, run[u] = c.run, stage[u] = c.stage,
               task[u][c.doc] \in {"applied", "failed"}
        PROVE  InHand(c)'
    <3>1. u # t
      BY <1>2, <1>4, <2>2 DEF NoTasks
    <3> QED
      BY <1>1, <2>2, <3>1 DEF Others, InHand
  <2> QED
    BY <1>1, <1>6, <2>1, <2>2 DEF LogInv, LogTellsWhatChanged
<1>7. \A e \in rows' : e.status # "skip" /\ (e.status = "wrote" => e \in changes')
  BY <1>1 DEF LogInv, LogTellsWhatChanged
<1> QED
  BY <1>1, <1>5, <1>6, <1>7 DEF LogInv, AppliedInv, LogTellsWhatChanged, InHand

\* The steps on a document.
LEMMA TriesLog ==
    ASSUME TypeInv, LogInv, Typed, NEW t \in Threads, NEW d \in Docs,
           NEW to \in {"applied", "failed"}, Tries(t, d, to)
    PROVE  LogInv'
<1> DEFINE new == Entry(t, d, "wrote")
<1>0. /\ task[t] \in [Docs -> Tasks] /\ pc[t] = "work" /\ task[t][d] = "queued"
      /\ \A c \in changes : c \in Entries /\ c.doc \in Docs
  BY DEF TypeInv, TypeOK, Entries, Tries
<1>1. new.run = run[t] /\ new.stage = stage[t] /\ new.doc = d /\ new.status = "wrote"
  BY <1>0, EntryType DEF Statuses
<1>2. /\ Others(t) /\ run'[t] = run[t] /\ stage'[t] = stage[t]
      /\ \A x \in Docs : task'[t][x] = IF x = d THEN to ELSE task[t][x]
      /\ \/ changes' = changes \cup {new}
         \/ to = "failed" /\ changes' = changes
      /\ UNCHANGED <<rows, lost, expired>>
  BY <1>0 DEF Tries
<1>3. new' = new
  BY <1>2 DEF Entry
<1> HIDE DEF new
<1>4. ASSUME NEW u \in Threads, NEW x \in Docs, task'[u][x] = "applied"
      PROVE  (Entry(u, x, "wrote") \in changes)'
  <2>1. CASE u = t /\ x = d
    BY <1>2, <1>3, <1>4, <2>1 DEF new
  <2>2. CASE ~(u = t /\ x = d)
    <3>1. run'[u] = run[u] /\ stage'[u] = stage[u] /\ task[u][x] = "applied"
      BY <1>2, <1>4, <2>2 DEF Others
    <3> QED
      BY <1>2, <3>1 DEF LogInv, AppliedInv, Entry
  <2> QED
    BY <2>1, <2>2
<1>5. ASSUME NEW c \in changes', c.run \notin expired'
      PROVE  {c, AsError(c)} \cap (rows' \cup lost') # {} \/ InHand(c)'
  <2>1. CASE c = new
    BY <1>1, <1>2, <2>1 DEF InHand
  <2>2. ASSUME c \in changes, NEW u \in Threads, run[u] = c.run, stage[u] = c.stage,
               task[u][c.doc] \in {"applied", "failed"}
        PROVE  InHand(c)'
    <3>1. ~(u = t /\ c.doc = d)
      BY <1>0, <2>2
    <3>2. run'[u] = c.run /\ stage'[u] = c.stage /\ task'[u][c.doc] \in {"applied", "failed"}
      BY <1>0, <1>2, <2>2, <3>1 DEF Others
    <3> QED
      BY <3>2 DEF InHand
  <2> QED
    BY <1>2, <1>5, <2>1, <2>2 DEF LogInv, LogTellsWhatChanged
<1>6. \A c \in changes' : c.status = "wrote"
  BY <1>1, <1>2 DEF LogInv, AppliedInv
<1>7. \A e \in rows' : e.status # "skip" /\ (e.status = "wrote" => e \in changes')
  BY <1>2 DEF LogInv, LogTellsWhatChanged
<1> QED
  BY <1>4, <1>5, <1>6, <1>7 DEF LogInv, AppliedInv, LogTellsWhatChanged, InHand

LEMMA RelapsesLog ==
    ASSUME TypeInv, LogInv, Typed, NEW t \in Threads, NEW d \in Docs, Relapses(t, d)
    PROVE  LogInv'
<1> DEFINE new == Entry(t, d, "wrote")
<1>0. /\ task[t] \in [Docs -> Tasks] /\ pc[t] = "work" /\ task[t][d] = "applied"
      /\ \A c \in changes : c \in Entries /\ c.doc \in Docs
  BY DEF TypeInv, TypeOK, Entries, Relapses
<1>1. new.status = "wrote" /\ new \in changes
  BY <1>0, EntryType DEF Statuses, LogInv, AppliedInv
<1>2. /\ Others(t) /\ run'[t] = run[t] /\ stage'[t] = stage[t]
      /\ \A x \in Docs : task'[t][x] = IF x = d THEN "failed" ELSE task[t][x]
      /\ rows \subseteq rows' /\ rows' \subseteq rows \cup {new}
      /\ UNCHANGED <<changes, lost, expired>>
  BY <1>0 DEF Relapses
<1> HIDE DEF new
<1>3. ASSUME NEW u \in Threads, NEW x \in Docs, task'[u][x] = "applied"
      PROVE  (Entry(u, x, "wrote") \in changes)'
  <2>1. run'[u] = run[u] /\ stage'[u] = stage[u] /\ task[u][x] = "applied"
    BY <1>2, <1>3 DEF Others
  <2> QED
    BY <1>2, <2>1 DEF LogInv, AppliedInv, Entry
<1>4. ASSUME NEW c \in changes, InHand(c) PROVE InHand(c)'
  <2>1. PICK u \in Threads : run[u] = c.run /\ stage[u] = c.stage
                             /\ task[u][c.doc] \in {"applied", "failed"}
    BY <1>4 DEF InHand
  <2>2. run'[u] = c.run /\ stage'[u] = c.stage /\ task'[u][c.doc] \in {"applied", "failed"}
    BY <1>0, <1>2, <2>1 DEF Others
  <2> QED
    BY <2>2 DEF InHand
<1>5. ASSUME NEW c \in changes, c.run \notin expired'
      PROVE  {c, AsError(c)} \cap (rows' \cup lost') # {} \/ InHand(c)'
  <2>1. {c, AsError(c)} \cap (rows \cup lost) # {} \/ InHand(c)
    BY <1>2, <1>5 DEF LogInv, LogTellsWhatChanged, InHand
  <2> QED
    BY <1>2, <1>4, <2>1
<1>6. \A e \in rows' : e.status # "skip" /\ (e.status = "wrote" => e \in changes')
  BY <1>1, <1>2 DEF LogInv, LogTellsWhatChanged
<1> QED
  BY <1>2, <1>3, <1>5, <1>6 DEF LogInv, AppliedInv, LogTellsWhatChanged, InHand

LEMMA CollectsLog ==
    ASSUME TypeInv, LogInv, Typed, NEW t \in Threads, NEW d \in Docs,
           NEW status \in Statuses, Collects(t, d, status)
    PROVE  LogInv'
<1> DEFINE new == Entry(t, d, status)
           at == task[t][d]
<1>0. /\ task[t] \in [Docs -> Tasks] /\ pc[t] = "work" /\ at \in Tasks /\ at # "none"
      /\ status = StatusOf(at)
      /\ \A c \in changes : c \in Entries /\ c.doc \in Docs
  BY DEF TypeInv, TypeOK, Entries, Collects, Through
<1>1. new.run = run[t] /\ new.stage = stage[t] /\ new.doc = d /\ new.status = status
  BY <1>0, EntryType
<1>2. /\ Others(t) /\ run'[t] = run[t] /\ stage'[t] = stage[t]
      /\ \A x \in Docs : task'[t][x] = IF x = d THEN "none" ELSE task[t][x]
      /\ UNCHANGED <<changes, expired>>
  BY <1>0 DEF Collects
<1>3. /\ rows \subseteq rows' /\ lost \subseteq lost' /\ rows' \subseteq rows \cup {new}
      /\ HasRow(at) => new \in rows' \cup lost'
      /\ ~HasRow(at) => rows' = rows
  BY DEF Collects
<1>4. /\ status = "wrote" <=> at = "applied"
      /\ at \in {"applied", "failed"} => HasRow(at)
      /\ HasRow(at) => status # "skip"
  BY <1>0, StatusFacts
<1>5. status = "wrote" => new \in changes
  BY <1>0, <1>4 DEF LogInv, AppliedInv
<1> HIDE DEF new
<1>6. ASSUME NEW u \in Threads, NEW x \in Docs, task'[u][x] = "applied"
      PROVE  (Entry(u, x, "wrote") \in changes)'
  <2>1. run'[u] = run[u] /\ stage'[u] = stage[u] /\ task[u][x] = "applied"
    BY <1>2, <1>6 DEF Others
  <2> QED
    BY <1>2, <2>1 DEF LogInv, AppliedInv, Entry
<1>7. ASSUME NEW c \in changes, c.run \notin expired'
      PROVE  {c, AsError(c)} \cap (rows' \cup lost') # {} \/ InHand(c)'
  <2>1. CASE {c, AsError(c)} \cap (rows \cup lost) # {}
    BY <1>3, <2>1
  <2>2. ASSUME NEW u \in Threads, run[u] = c.run, stage[u] = c.stage,
               task[u][c.doc] \in {"applied", "failed"}
        PROVE  {c, AsError(c)} \cap (rows' \cup lost') # {} \/ InHand(c)'
    <3>1. CASE u = t /\ c.doc = d
      <4>1. Entry(t, c.doc, StatusOf(task[t][c.doc])) \in {c, AsError(c)}
        BY <2>2, <3>1, RowOf DEF LogInv
      <4>2. new \in {c, AsError(c)}
        BY <1>0, <3>1, <4>1 DEF new
      <4> QED
        BY <1>3, <1>4, <2>2, <3>1, <4>2
    <3>2. CASE ~(u = t /\ c.doc = d)
      <4>1. run'[u] = c.run /\ stage'[u] = c.stage /\ task'[u][c.doc] \in {"applied", "failed"}
        BY <1>0, <1>2, <2>2, <3>2 DEF Others
      <4> QED
        BY <4>1 DEF InHand
    <3> QED
      BY <3>1, <3>2
  <2> QED
    BY <1>2, <1>7, <2>1, <2>2 DEF LogInv, LogTellsWhatChanged
<1>8. \A e \in rows' : e.status # "skip" /\ (e.status = "wrote" => e \in changes')
  BY <1>1, <1>2, <1>3, <1>4, <1>5 DEF LogInv, LogTellsWhatChanged
<1> QED
  BY <1>2, <1>6, <1>7, <1>8 DEF LogInv, AppliedInv, LogTellsWhatChanged, InHand

\* A crash: what was in hand is lost to the log.
LEMMA CrashLog ==
    ASSUME TypeInv, LogInv, Crash, CrashKeeps
    PROVE  LogInv'
<1>1. \A t \in Threads, d \in Docs : task'[t][d] # "applied"
  BY DEF Crash, NoTasks
<1>2. lost \subseteq lost' /\ UNCHANGED <<changes, rows, expired>>
  BY DEF Crash, CrashKeeps
<1>3. ASSUME NEW c \in changes, NEW t \in Threads, run[t] = c.run, stage[t] = c.stage,
             task[t][c.doc] \in {"applied", "failed"}
      PROVE  {c, AsError(c)} \cap lost' # {}
  <2>1. Entry(t, c.doc, StatusOf(task[t][c.doc])) \in {c, AsError(c)}
    BY <1>3, RowOf DEF LogInv
  <2>2. <<t, c.doc>> \in InDoubt
    BY <1>3 DEF InDoubt, TypeInv, TypeOK, Entries
  <2>3. Entry(<<t, c.doc>>[1], <<t, c.doc>>[2],
              StatusOf(task[<<t, c.doc>>[1]][<<t, c.doc>>[2]])) \in lost'
    BY <2>2 DEF Crash
  <2> QED
    BY <2>1, <2>3
<1> QED
  BY <1>1, <1>2, <1>3 DEF LogInv, AppliedInv, LogTellsWhatChanged

LEMMA LogNext == TypeInv /\ LogInv /\ [Next]_vars => LogInv'
<1> SUFFICES ASSUME TypeInv, LogInv, [Next]_vars PROVE LogInv'
  OBVIOUS
<1>1. CASE Idles
  BY <1>1 DEF Idles, LogInv, AppliedInv, LogTellsWhatChanged, Entry
<1>2. ASSUME NEW t \in Threads, NEW d \in Docs, DocKind(t, d), Typed PROVE LogInv'
  BY <1>2, TriesLog, RelapsesLog, CollectsLog DEF DocKind
<1> QED
  BY <1>1, <1>2, StepKinds, ThreadKindLog, CrashLog

LEMMA LogInit == Init => LogInv
BY DEF Init, LogInv, AppliedInv, LogTellsWhatChanged, NoTasks

\* Within the retention period the audit log of activity.db tells every change
\* of a document in Paperless and no other, whatever runs and nudges overlap;
\* what it misses a worker has still in hand, the insert has failed for, or a
\* crash has taken.
THEOREM LogIsTrue == Spec => []LogTellsWhatChanged
<1>1. TypeInv /\ LogInv /\ [Next]_vars => (TypeInv /\ LogInv)'
  BY TypeNext, LogNext
<1>2. LogInv => LogTellsWhatChanged
  BY DEF LogInv
<1> QED
  BY <1>1, <1>2, TypeInit, LogInit, PTL DEF Spec

(***************************************************************************)
(* The reports.                                                            *)
(***************************************************************************)

\* A change is an outcome of its run, if only as an error, or the worker has
\* it in hand.
Reported(c, t) ==
    \/ {c, AsError(c)} \cap outcomes[t] # {}
    \/ c.stage = stage[t] /\ task[t][c.doc] \in {"applied", "failed"}

\* What the run of a thread says of itself, before it is over.  The row of a
\* change may stand before its outcome does: it is a change of the run.
RunTellsWhatItDid(t) ==
    /\ \A e \in outcomes[t] : e.status = "wrote" => e \in changes
    /\ \A c \in changes : c.run = run[t] => ~dry[t] /\ Reported(c, t)
    /\ \A e \in rows : e.run = run[t] /\ e.status # "wrote" => e \in outcomes[t]

\* A report is persisted when the stages of its run are over.
ReportsAreOver ==
    \A p \in reports, t \in Threads :
        p.run = run[t] => pc[t] \notin {"off", "work", "persist"}

ReportInv ==
    /\ \A t \in Threads : RunTellsWhatItDid(t)
    /\ ReportsAreOver
    /\ ReportTellsWhatTheRunDid

\* RunTellsWhatItDid of a thread that keeps its run, when another has moved and
\* what is new in the changes and in the log is of that other one.
LEMMA RunKept ==
    ASSUME NEW u \in Threads, RunTellsWhatItDid(u),
           /\ run'[u] = run[u] /\ dry'[u] = dry[u] /\ stage'[u] = stage[u]
           /\ task'[u] = task[u] /\ outcomes'[u] = outcomes[u],
           changes \subseteq changes',
           \A c \in changes' : c \notin changes => c.run # run[u],
           \A e \in rows' : e \notin rows => e.run # run[u]
    PROVE  RunTellsWhatItDid(u)'
BY DEF RunTellsWhatItDid, Reported

\* So with a report.
LEMMA ReportKept ==
    ASSUME NEW p \in reports, ReportTellsWhatTheRunDid,
           changes \subseteq changes',
           \A c \in changes' : c \notin changes => c.run # p.run,
           \A e \in rows' : e \notin rows => e.run # p.run
    PROVE  /\ \A e \in p.outcomes : e.status = "wrote" => e \in changes'
           /\ \A c \in changes' : c.run = p.run =>
                  ~p.dry /\ {c, AsError(c)} \cap p.outcomes # {}
           /\ \A e \in rows' : e.run = p.run => {e, AsError(e)} \cap p.outcomes # {}
BY DEF ReportTellsWhatTheRunDid

\* A run that is not over has a number of its own, and no report yet.
LEMMA OwnRun ==
    ASSUME TypeInv, ReportsAreOver, NEW t \in Threads, pc[t] \in {"work", "persist"}
    PROVE  /\ run[t] \in Runs /\ run[t] # 0
           /\ \A u \in Threads : u # t => run[u] # run[t]
           /\ \A p \in reports : p.run # run[t]
<1>1. run[t] \in Runs /\ run[t] # 0
  BY DEF TypeInv, ThreadInv, ThreadOK, Runs
<1> QED
  BY <1>1 DEF TypeInv, ThreadInv, ReportsAreOver

\* The steps of a run other than on a document.
LEMMA ThreadKindReport ==
    ASSUME TypeInv, LogInv, ReportInv, Typed, NEW t \in Threads, ThreadKind(t)
    PROVE  ReportInv'
<1>0. /\ ThreadTypeOK /\ RecordTypeOK /\ ThreadOK(t) /\ count["runs"] \in Nat
      /\ \A c \in changes : c.doc \in Docs
  <2>1. \A c \in changes : c.doc \in Docs
    BY DEF TypeInv, TypeOK, Entries
  <2> QED
    BY <2>1, TypeParts DEF TypeInv, ThreadInv, TypeOK
<1>1. Others(t) /\ changes' = changes /\ rows' \subseteq rows
  <2>1. Others(t) /\ changes' = changes /\ Purges
    BY DEF ThreadKind, Moves, Starts, Leaves, Stops, Persists, Opens, Purges
  <2> QED
    BY <1>0, <2>1, PurgeEffect
<1>2. task[t] = NoTasks
  BY <1>0 DEF ThreadKind, Moves, Starts, Leaves, Stops, Persists, Opens, ThreadOK
<1>3. ASSUME NEW u \in Threads, u # t PROVE RunTellsWhatItDid(u)'
  BY <1>1, <1>3, RunKept DEF Others, ReportInv
<1>4. \A c \in changes : Reported(c, t) => {c, AsError(c)} \cap outcomes[t] # {}
  BY <1>0, <1>2 DEF Reported, NoTasks
<1>5. ASSUME run'[t] = run[t], dry'[t] = dry[t], outcomes'[t] = outcomes[t]
      PROVE  RunTellsWhatItDid(t)'
  <2>1. \A c \in changes : c.run = run[t] => ~dry[t] /\ {c, AsError(c)} \cap outcomes[t] # {}
    BY <1>4 DEF ReportInv, RunTellsWhatItDid
  <2>2. \A c \in changes' : c.run = run'[t] => ~dry'[t] /\ Reported(c, t)'
    BY <1>1, <1>5, <2>1 DEF Reported
  <2> QED
    BY <1>1, <1>5, <2>2 DEF ReportInv, RunTellsWhatItDid
<1>6. ASSUME run'[t] \notin Runs \/ run'[t] = count["runs"] + 1, outcomes'[t] = {}
      PROVE  RunTellsWhatItDid(t)'
  <2>1. \A e \in changes \cup rows : e.run \in Runs /\ e.run <= count["runs"]
    BY <1>0 DEF RecordTypeOK, Entries, TypeInv, PastInv
  <2>2. \A e \in changes \cup rows : e.run # run'[t]
    BY <1>0, <1>6, <2>1 DEF Runs
  <2> QED
    BY <1>1, <1>6, <2>2 DEF RunTellsWhatItDid
<1>7. \A p \in reports : /\ \A e \in p.outcomes : e.status = "wrote" => e \in changes'
                         /\ \A c \in changes' : c.run = p.run =>
                                ~p.dry /\ {c, AsError(c)} \cap p.outcomes # {}
                         /\ \A e \in rows' : e.run = p.run => {e, AsError(e)} \cap p.outcomes # {}
  BY <1>1, ReportKept DEF ReportInv
<1>8. CASE reports' = reports
  <2>1. ReportTellsWhatTheRunDid'
    BY <1>7, <1>8 DEF ReportTellsWhatTheRunDid
  <2>2. RunTellsWhatItDid(t)'
    <3>1. \/ run'[t] = run[t] /\ dry'[t] = dry[t] /\ outcomes'[t] = outcomes[t]
          \/ (run'[t] = 0 \/ run'[t] = count["runs"] + 1) /\ outcomes'[t] = {}
      BY <1>0 DEF ThreadKind, Moves, Starts, Leaves, Stops, Persists, Opens, KeepsRun, ThreadOK
    <3> QED
      BY <1>5, <1>6, <3>1 DEF Runs
  <2>3. ASSUME NEW p \in reports, NEW u \in Threads, p.run = run'[u]
        PROVE  pc'[u] \notin {"off", "work", "persist"}
    <3>1. p.run \in Runs /\ p.run <= count["runs"]
      BY <1>0 DEF RecordTypeOK, TypeInv, PastInv
    <3>2. CASE u # t
      BY <1>1, <2>3, <3>2 DEF Others, ReportInv, ReportsAreOver
    <3>3. CASE u = t
      <4>1. run'[t] # 0 /\ run'[t] # count["runs"] + 1
        BY <1>0, <2>3, <3>1, <3>3 DEF Runs
      <4>2. \/ Moves(t)
            \/ run'[t] = run[t] /\ pc[t] \in {"work", "persist"}
        BY <1>8, <4>1, <1>0 DEF ThreadKind, Starts, Leaves, Stops, Opens, KeepsRun, Persists
      <4>3. pc[t] \notin {"work", "persist"} \/ run'[t] # run[t]
        BY <2>3, <3>3 DEF ReportInv, ReportsAreOver
      <4> QED
        BY <3>3, <4>2, <4>3 DEF Moves
    <3> QED
      BY <3>2, <3>3
  <2> QED
    BY <1>3, <1>8, <2>1, <2>2, <2>3 DEF ReportInv, ReportsAreOver
<1>9. CASE Persists(t)
  <2> DEFINE new == ReportOf(t)
  <2>1. new.run = run[t] /\ new.dry = dry[t] /\ new.outcomes = outcomes[t]
    BY DEF ReportOf
  <2>2. /\ reports' = reports \cup {new} /\ KeepsRun(t)
        /\ pc[t] = "persist" /\ pc'[t] = "read"
    BY <1>9 DEF Persists
  <2> HIDE DEF new
  <2>3. RunTellsWhatItDid(t)'
    BY <1>5, <2>2 DEF KeepsRun
  <2>4. /\ \A e \in new.outcomes : e.status = "wrote" => e \in changes'
        /\ \A c \in changes' : c.run = new.run =>
               ~new.dry /\ {c, AsError(c)} \cap new.outcomes # {}
        /\ \A e \in rows' : e.run = new.run => {e, AsError(e)} \cap new.outcomes # {}
    <3>1. \A c \in changes : c.run = run[t] =>
              ~dry[t] /\ {c, AsError(c)} \cap outcomes[t] # {}
      BY <1>4 DEF ReportInv, RunTellsWhatItDid
    <3>2. \A e \in rows : e.status = "wrote" => e \in changes
      BY DEF LogInv, LogTellsWhatChanged
    <3>3. \A e \in rows : e.run = run[t] => {e, AsError(e)} \cap outcomes[t] # {}
      BY <3>1, <3>2 DEF ReportInv, RunTellsWhatItDid
    <3>4. \A e \in outcomes[t] : e.status = "wrote" => e \in changes
      BY DEF ReportInv, RunTellsWhatItDid
    <3> QED
      BY <1>1, <2>1, <3>1, <3>3, <3>4
  <2>5. ReportTellsWhatTheRunDid'
    BY <1>7, <2>2, <2>4 DEF ReportTellsWhatTheRunDid
  <2>6. ASSUME NEW p \in reports', NEW u \in Threads, p.run = run'[u]
        PROVE  pc'[u] \notin {"off", "work", "persist"}
    <3>1. CASE u = t
      BY <2>2, <3>1
    <3>2. CASE u # t
      <4>1. run'[u] = run[u] /\ pc'[u] = pc[u]
        BY <1>1, <3>2 DEF Others
      <4>2. run[u] # run[t]
        BY <2>2, <3>2, OwnRun DEF ReportInv
      <4>3. p \in reports
        BY <2>1, <2>2, <2>6, <4>1, <4>2
      <4> QED
        BY <2>6, <4>1, <4>3 DEF ReportInv, ReportsAreOver
    <3> QED
      BY <3>1, <3>2
  <2> QED
    BY <1>3, <2>3, <2>5, <2>6 DEF ReportInv, ReportsAreOver
<1> QED
  BY <1>8, <1>9 DEF ThreadKind, Moves, Starts, Leaves, Stops, Opens

\* The steps on a document.
LEMMA TriesReport ==
    ASSUME TypeInv, LogInv, ReportInv, Typed, NEW t \in Threads, NEW d \in Docs,
           NEW to \in {"applied", "failed"}, Tries(t, d, to)
    PROVE  ReportInv'
<1> DEFINE new == Entry(t, d, "wrote")
<1>0. /\ task[t] \in [Docs -> Tasks] /\ pc[t] = "work" /\ task[t][d] = "queued"
      /\ \A c \in changes : c \in Entries /\ c.doc \in Docs
  BY DEF TypeInv, TypeOK, Entries, Tries
<1>1. new.run = run[t] /\ new.stage = stage[t] /\ new.doc = d /\ new.status = "wrote"
  BY <1>0, EntryType DEF Statuses
<1>2. /\ Others(t) /\ run'[t] = run[t] /\ dry'[t] = dry[t] /\ stage'[t] = stage[t]
      /\ outcomes'[t] = outcomes[t] /\ pc'[t] = "work"
      /\ \A x \in Docs : task'[t][x] = IF x = d THEN to ELSE task[t][x]
      /\ changes' = changes \/ (~dry[t] /\ changes' = changes \cup {new})
      /\ UNCHANGED <<rows, reports>>
  BY <1>0 DEF Tries
<1> HIDE DEF new
<1>3. /\ \A u \in Threads : u # t => run[u] # run[t]
      /\ \A p \in reports : p.run # run[t]
  BY <1>0, OwnRun DEF ReportInv
<1>4. ASSUME NEW u \in Threads, u # t PROVE RunTellsWhatItDid(u)'
  <2>1. RunTellsWhatItDid(u)
    BY DEF ReportInv
  <2>2. changes \subseteq changes' /\ \A c \in changes' : c \notin changes => c.run # run[u]
    BY <1>1, <1>2, <1>3, <1>4
  <2>3. \A e \in rows' : e \notin rows => e.run # run[u]
    BY <1>2
  <2> QED
    BY <1>2, <1>4, <2>1, <2>2, <2>3, RunKept DEF Others
<1>5. RunTellsWhatItDid(t)'
  <2>1. ASSUME NEW c \in changes', c.run = run'[t] PROVE ~dry'[t] /\ Reported(c, t)'
    <3>1. CASE c \in changes
      <4>1. ~dry[t] /\ Reported(c, t)
        BY <1>2, <2>1, <3>1 DEF ReportInv, RunTellsWhatItDid
      <4>2. task[t][c.doc] \in {"applied", "failed"} => c.doc # d
        BY <1>0
      <4> QED
        BY <1>0, <1>2, <3>1, <4>1, <4>2 DEF Reported
    <3>2. CASE c = new /\ ~dry[t]
      BY <1>1, <1>2, <3>2 DEF Reported
    <3> QED
      BY <1>2, <2>1, <3>1, <3>2
  <2> QED
    BY <1>2, <2>1 DEF ReportInv, RunTellsWhatItDid
<1>6. ReportTellsWhatTheRunDid'
  <2>1. changes \subseteq changes' /\ \A p \in reports, c \in changes' :
            c \notin changes => c.run # p.run
    BY <1>1, <1>2, <1>3
  <2>2. \A e \in rows' : e \in rows
    BY <1>2
  <2>3. \A p \in reports : /\ \A e \in p.outcomes : e.status = "wrote" => e \in changes'
                           /\ \A c \in changes' : c.run = p.run =>
                                  ~p.dry /\ {c, AsError(c)} \cap p.outcomes # {}
                           /\ \A e \in rows' : e.run = p.run => {e, AsError(e)} \cap p.outcomes # {}
    BY <2>1, <2>2, ReportKept DEF ReportInv
  <2> QED
    BY <1>2, <2>3 DEF ReportTellsWhatTheRunDid
<1>7. ReportsAreOver'
  BY <1>2, <1>3 DEF ReportInv, ReportsAreOver, Others
<1> QED
  BY <1>4, <1>5, <1>6, <1>7 DEF ReportInv

LEMMA RelapsesReport ==
    ASSUME TypeInv, LogInv, ReportInv, Typed, NEW t \in Threads, NEW d \in Docs, Relapses(t, d)
    PROVE  ReportInv'
<1> DEFINE new == Entry(t, d, "wrote")
<1>0. /\ task[t] \in [Docs -> Tasks] /\ pc[t] = "work" /\ task[t][d] = "applied"
      /\ \A c \in changes : c \in Entries /\ c.doc \in Docs
  BY DEF TypeInv, TypeOK, Entries, Relapses
<1>1. new.run = run[t] /\ new.status = "wrote"
  BY <1>0, EntryType DEF Statuses
<1>2. /\ Others(t) /\ run'[t] = run[t] /\ dry'[t] = dry[t] /\ stage'[t] = stage[t]
      /\ outcomes'[t] = outcomes[t] /\ pc'[t] = "work"
      /\ \A x \in Docs : task'[t][x] = IF x = d THEN "failed" ELSE task[t][x]
      /\ rows' \subseteq rows \cup {new}
      /\ UNCHANGED <<changes, reports>>
  BY <1>0 DEF Relapses
<1> HIDE DEF new
<1>3. /\ \A u \in Threads : u # t => run[u] # run[t]
      /\ \A p \in reports : p.run # run[t]
  BY <1>0, OwnRun DEF ReportInv
<1>4. ASSUME NEW u \in Threads, u # t PROVE RunTellsWhatItDid(u)'
  <2>1. RunTellsWhatItDid(u)
    BY DEF ReportInv
  <2>2. changes \subseteq changes' /\ \A c \in changes' : c \notin changes => c.run # run[u]
    BY <1>2
  <2>3. \A e \in rows' : e \notin rows => e.run # run[u]
    BY <1>1, <1>2, <1>3, <1>4
  <2> QED
    BY <1>2, <1>4, <2>1, <2>2, <2>3, RunKept DEF Others
<1>5. RunTellsWhatItDid(t)'
  <2>1. ASSUME NEW c \in changes, c.run = run[t] PROVE ~dry'[t] /\ Reported(c, t)'
    <3>1. ~dry[t] /\ Reported(c, t)
      BY <2>1 DEF ReportInv, RunTellsWhatItDid
    <3>2. task[t][c.doc] \in {"applied", "failed"} => task'[t][c.doc] \in {"applied", "failed"}
      BY <1>0, <1>2
    <3> QED
      BY <1>2, <3>1, <3>2 DEF Reported
  <2>2. \A e \in rows' : e.run = run[t] /\ e.status # "wrote" => e \in outcomes[t]
    BY <1>1, <1>2 DEF ReportInv, RunTellsWhatItDid
  <2> QED
    BY <1>2, <2>1, <2>2 DEF ReportInv, RunTellsWhatItDid
<1>6. ReportTellsWhatTheRunDid'
  <2>1. \A p \in reports : \A e \in rows' : e \notin rows => e.run # p.run
    BY <1>1, <1>2, <1>3
  <2>2. \A p \in reports : /\ \A e \in p.outcomes : e.status = "wrote" => e \in changes'
                           /\ \A c \in changes' : c.run = p.run =>
                                  ~p.dry /\ {c, AsError(c)} \cap p.outcomes # {}
                           /\ \A e \in rows' : e.run = p.run =>
                                  {e, AsError(e)} \cap p.outcomes # {}
    BY <1>2, <2>1, ReportKept DEF ReportInv
  <2> QED
    BY <1>2, <2>2 DEF ReportTellsWhatTheRunDid
<1>7. ReportsAreOver'
  BY <1>2, <1>3 DEF ReportInv, ReportsAreOver, Others
<1> QED
  BY <1>4, <1>5, <1>6, <1>7 DEF ReportInv

LEMMA CollectsReport ==
    ASSUME TypeInv, LogInv, ReportInv, Typed, NEW t \in Threads, NEW d \in Docs,
           NEW status \in Statuses, Collects(t, d, status)
    PROVE  ReportInv'
<1> DEFINE new == Entry(t, d, status)
           at == task[t][d]
<1>0. /\ task[t] \in [Docs -> Tasks] /\ pc[t] = "work" /\ at \in Tasks /\ at # "none"
      /\ status = StatusOf(at)
      /\ \A c \in changes : c \in Entries /\ c.doc \in Docs
  BY DEF TypeInv, TypeOK, Entries, Collects, Through
<1>1. new.run = run[t] /\ new.stage = stage[t] /\ new.doc = d /\ new.status = status
  BY <1>0, EntryType
<1>2. /\ Others(t) /\ run'[t] = run[t] /\ dry'[t] = dry[t] /\ stage'[t] = stage[t]
      /\ outcomes'[t] = outcomes[t] \cup {new} /\ pc'[t] = "work"
      /\ \A x \in Docs : task'[t][x] = IF x = d THEN "none" ELSE task[t][x]
      /\ rows' \subseteq rows \cup {new}
      /\ UNCHANGED <<changes, reports>>
  BY <1>0 DEF Collects
<1>3. status = "wrote" => new \in changes
  BY <1>0, StatusFacts DEF LogInv, AppliedInv
<1>4. /\ \A u \in Threads : u # t => run[u] # run[t]
      /\ \A p \in reports : p.run # run[t]
  BY <1>0, OwnRun DEF ReportInv
<1>5. ASSUME NEW c \in changes, c.stage = stage[t], c.run = run[t], c.doc = d,
             at \in {"applied", "failed"}
      PROVE  new \in {c, AsError(c)}
  <2>1. Entry(t, c.doc, StatusOf(task[t][c.doc])) \in {c, AsError(c)}
    BY <1>5, RowOf DEF LogInv
  <2> QED
    BY <1>0, <1>5, <2>1
<1> HIDE DEF new
<1>6. ASSUME NEW u \in Threads, u # t PROVE RunTellsWhatItDid(u)'
  <2>1. RunTellsWhatItDid(u)
    BY DEF ReportInv
  <2>2. changes \subseteq changes' /\ \A c \in changes' : c \notin changes => c.run # run[u]
    BY <1>2
  <2>3. \A e \in rows' : e \notin rows => e.run # run[u]
    BY <1>1, <1>2, <1>4, <1>6
  <2> QED
    BY <1>2, <1>6, <2>1, <2>2, <2>3, RunKept DEF Others
<1>7. RunTellsWhatItDid(t)'
  <2>1. ASSUME NEW c \in changes, c.run = run[t] PROVE ~dry'[t] /\ Reported(c, t)'
    <3>1. ~dry[t] /\ Reported(c, t)
      BY <2>1 DEF ReportInv, RunTellsWhatItDid
    <3>2. CASE {c, AsError(c)} \cap outcomes[t] # {}
      BY <1>2, <3>1, <3>2 DEF Reported
    <3>3. CASE c.doc = d /\ c.stage = stage[t] /\ task[t][c.doc] \in {"applied", "failed"}
      BY <1>2, <1>5, <2>1, <3>1, <3>3 DEF Reported
    <3>4. CASE c.doc # d /\ c.stage = stage[t] /\ task[t][c.doc] \in {"applied", "failed"}
      BY <1>0, <1>2, <3>1, <3>4 DEF Reported
    <3> QED
      BY <3>1, <3>2, <3>3, <3>4 DEF Reported
  <2>2. \A e \in outcomes'[t] : e.status = "wrote" => e \in changes
    BY <1>1, <1>2, <1>3 DEF ReportInv, RunTellsWhatItDid
  <2>3. \A e \in rows' : e.run = run[t] /\ e.status # "wrote" => e \in outcomes'[t]
    BY <1>2 DEF ReportInv, RunTellsWhatItDid
  <2> QED
    BY <1>2, <2>1, <2>2, <2>3 DEF RunTellsWhatItDid
<1>8. ReportTellsWhatTheRunDid'
  <2>1. \A p \in reports : \A e \in rows' : e \notin rows => e.run # p.run
    BY <1>1, <1>2, <1>4
  <2>2. \A p \in reports : /\ \A e \in p.outcomes : e.status = "wrote" => e \in changes'
                           /\ \A c \in changes' : c.run = p.run =>
                                  ~p.dry /\ {c, AsError(c)} \cap p.outcomes # {}
                           /\ \A e \in rows' : e.run = p.run => {e, AsError(e)} \cap p.outcomes # {}
    BY <1>2, <2>1, ReportKept DEF ReportInv
  <2> QED
    BY <1>2, <2>2 DEF ReportTellsWhatTheRunDid
<1>9. ReportsAreOver'
  BY <1>2, <1>4 DEF ReportInv, ReportsAreOver, Others
<1> QED
  BY <1>6, <1>7, <1>8, <1>9 DEF ReportInv

LEMMA CrashReport ==
    ASSUME TypeInv, ReportInv, Crash, CrashKeeps PROVE ReportInv'
<1>1. \A e \in changes \cup rows \cup reports : e.run \in Runs
  BY DEF TypeInv, TypeOK, Entries
<1>2. \A t \in Threads : run'[t] = 0 /\ outcomes'[t] = {}
  BY DEF Crash
<1>3. UNCHANGED <<changes, rows, reports>>
  BY DEF CrashKeeps
<1>4. 0 \notin Runs
  BY DEF Runs
<1>5. \A t \in Threads : RunTellsWhatItDid(t)'
  BY <1>1, <1>2, <1>3, <1>4 DEF RunTellsWhatItDid
<1>6. ReportsAreOver'
  BY <1>1, <1>2, <1>3, <1>4 DEF ReportsAreOver
<1> QED
  BY <1>3, <1>5, <1>6 DEF ReportInv, ReportTellsWhatTheRunDid

LEMMA ReportNext == TypeInv /\ LogInv /\ ReportInv /\ [Next]_vars => ReportInv'
<1> SUFFICES ASSUME TypeInv, LogInv, ReportInv, [Next]_vars PROVE ReportInv'
  OBVIOUS
<1>1. CASE Idles
  <2>1. \A t \in Threads : RunTellsWhatItDid(t)'
    BY <1>1 DEF Idles, ReportInv, RunTellsWhatItDid, Reported
  <2> QED
    BY <1>1, <2>1 DEF Idles, ReportInv, ReportsAreOver, ReportTellsWhatTheRunDid
<1>2. ASSUME NEW t \in Threads, NEW d \in Docs, DocKind(t, d), Typed PROVE ReportInv'
  BY <1>2, TriesReport, RelapsesReport, CollectsReport DEF DocKind
<1> QED
  BY <1>1, <1>2, StepKinds, ThreadKindReport, CrashReport

LEMMA ReportInit == Init => ReportInv
BY DEF Init, ReportInv, RunTellsWhatItDid, ReportsAreOver, ReportTellsWhatTheRunDid

\* A persisted report (report.py) tells what its run did to the documents and
\* what the log has of it, and that of a dry run stands for no change at all,
\* whatever other runs, nudges, failures and crashes come in between.  Where
\* the spend ledger fails between the row of a change and its outcome the two
\* disagree on how the document ended, and the report has it as an error.
THEOREM ReportIsTrue == Spec => []ReportTellsWhatTheRunDid
<1>1. TypeInv /\ LogInv /\ ReportInv /\ [Next]_vars => (TypeInv /\ LogInv /\ ReportInv)'
  BY TypeNext, LogNext, ReportNext
<1>2. ReportInv => ReportTellsWhatTheRunDid
  BY DEF ReportInv
<1> QED
  BY <1>1, <1>2, TypeInit, LogInit, ReportInit, PTL DEF Spec

(***************************************************************************)
(* The tracker of a run that is alone.                                     *)
(***************************************************************************)

OfStage(S, s) == {e \in S : e.stage = s}

Pending(t) == {d \in Docs : task[t][d] # "none"}

\* What AloneTrackerIsExact says of a stage and of the run of a thread.
StageIsExact(t, s) ==
    /\ tracker.stages[s].processed = Cardinality(OfStage(outcomes[t], s))
    /\ tracker.stages[s].total = tracker.stages[s].processed +
           IF s = stage[t] THEN Cardinality(Pending(t)) ELSE 0

RunIsExact(t) ==
    /\ tracker.active <=> pc[t] = "work"
    /\ tracker.counts = CountsOf(outcomes[t])
    /\ \A s \in Stages : StageIsExact(t, s)

ReportsAreExact ==
    \A p \in reports : p.run = tracker.run =>
        ~tracker.active /\ tracker.counts = CountsOf(p.outcomes)

LEMMA ExactParts ==
    AloneTrackerIsExact <=>
        (alone => /\ \A t \in Sweepers : Shown(t) /\ run[t] # 0 => RunIsExact(t)
                  /\ ReportsAreExact)
BY DEF AloneTrackerIsExact, RunIsExact, StageIsExact, OfStage, Pending, ReportsAreExact

LEMMA ExactPartsNext ==
    AloneTrackerIsExact' <=>
        (alone' => /\ \A t \in Sweepers : Shown(t)' /\ run'[t] # 0 => RunIsExact(t)'
                   /\ ReportsAreExact')
BY DEF AloneTrackerIsExact, RunIsExact, StageIsExact, OfStage, Pending, ReportsAreExact

\* Counting a set of outcomes, and one more.
LEMMA CountOneMore ==
    ASSUME NEW S, IsFiniteSet(S), NEW new, new \notin S, NEW T, T = S \cup {new}
    PROVE  /\ \A k \in Statuses :
                  CountsOf(T)[k] = CountsOf(S)[k] + (IF new.status = k THEN 1 ELSE 0)
           /\ \A s : Cardinality(OfStage(T, s)) =
                  Cardinality(OfStage(S, s)) + (IF new.stage = s THEN 1 ELSE 0)
<1>1. ASSUME NEW A, A \subseteq S, NEW B, B = A \cup {new}
      PROVE  Cardinality(B) = Cardinality(A) + 1
  <2>1. IsFiniteSet(A) /\ new \notin A
    BY <1>1, FS_Subset
  <2> QED
    BY <1>1, <2>1, FS_AddElement
<1>2. ASSUME NEW A, A \subseteq S PROVE Cardinality(A) \in Nat
  BY <1>2, FS_Subset, FS_CardinalityType
<1>3. ASSUME NEW k \in Statuses
      PROVE  CountsOf(T)[k] = CountsOf(S)[k] + (IF new.status = k THEN 1 ELSE 0)
  <2> DEFINE old == {e \in S : e.status = k}
             now == {e \in T : e.status = k}
  <2>1. now = IF new.status = k THEN old \cup {new} ELSE old
    OBVIOUS
  <2>2. old \subseteq S
    OBVIOUS
  <2>3. CountsOf(S)[k] = Cardinality(old) /\ CountsOf(T)[k] = Cardinality(now)
    BY DEF CountsOf
  <2> HIDE DEF old, now
  <2> QED
    BY <1>1, <1>2, <2>1, <2>2, <2>3
<1>4. ASSUME NEW s
      PROVE  Cardinality(OfStage(T, s)) =
                 Cardinality(OfStage(S, s)) + (IF new.stage = s THEN 1 ELSE 0)
  <2>1. /\ OfStage(S, s) \subseteq S
        /\ OfStage(T, s) = IF new.stage = s THEN OfStage(S, s) \cup {new} ELSE OfStage(S, s)
    BY DEF OfStage
  <2> QED
    BY <1>1, <1>2, <2>1
<1> QED
  BY <1>3, <1>4

\* The documents in hand, and one less.
LEMMA PendingOneLess ==
    ASSUME TypeInv, Typed, NEW t \in Threads, NEW d \in Docs, task[t][d] # "none",
           \A x \in Docs : task'[t][x] = IF x = d THEN "none" ELSE task[t][x]
    PROVE  Cardinality(Pending(t)) = Cardinality(Pending(t)') + 1
           /\ Cardinality(Pending(t)') \in Nat
<1>1. Pending(t)' = Pending(t) \ {d} /\ d \in Pending(t)
  BY DEF Pending
<1>2. IsFiniteSet(Pending(t))
  BY FS_Subset, RecordsAssumption DEF Pending
<1>3. /\ IsFiniteSet(Pending(t)') /\ Cardinality(Pending(t)') = Cardinality(Pending(t)) - 1
      /\ Cardinality(Pending(t)) \in Nat
  BY <1>1, <1>2, FS_RemoveElement, FS_CardinalityType
<1> QED
  BY <1>3, FS_CardinalityType

\* The run of another thread is shown as before if the tracker is as before.
LEMMA OtherIsExact ==
    ASSUME NEW t, Others(t), UNCHANGED tracker, NEW u \in Threads, u # t
    PROVE  (Shown(u)' <=> Shown(u)) /\ run'[u] = run[u] /\ (RunIsExact(u)' <=> RunIsExact(u))
<1>1. /\ pc'[u] = pc[u] /\ run'[u] = run[u] /\ stage'[u] = stage[u] /\ task'[u] = task[u]
      /\ outcomes'[u] = outcomes[u]
  BY DEF Others
<1>2. Pending(u)' = Pending(u)
  BY <1>1 DEF Pending
<1>3. \A s \in Stages : StageIsExact(u, s)' <=> StageIsExact(u, s)
  BY <1>1, <1>2 DEF StageIsExact
<1> QED
  BY <1>1, <1>3 DEF RunIsExact, Shown, CountsOf

\* A run at work that writes to the tracker while it is shown is the only one
\* shown, and has no report.
LEMMA OnlyOneShown ==
    ASSUME TypeInv, ReportInv, NEW t \in Threads, pc[t] = "work", Others(t), Shown(t),
           tracker'.run = tracker.run, reports' = reports
    PROVE  /\ \A u \in Sweepers : Shown(u)' /\ run'[u] # 0 => u = t
           /\ ReportsAreExact'
<1>1. /\ \A u \in Threads : u # t => run[u] # run[t]
      /\ \A p \in reports : p.run # run[t]
  BY OwnRun DEF ReportInv
<1> QED
  BY <1>1 DEF Shown, Others, ReportsAreExact, Threads

LEMMA CardinalityOfNothing ==
    ASSUME NEW t \in Threads, task[t] = NoTasks PROVE Cardinality(Pending(t)) = 0
<1>1. Pending(t) = {}
  BY DEF Pending, NoTasks
<1> QED
  BY <1>1, FS_EmptySet

LEMMA StartsExact ==
    ASSUME TypeInv, ReportInv, AloneTrackerIsExact, Typed, NEW t \in Threads, Starts(t)
    PROVE  AloneTrackerIsExact'
<1>0. ThreadOK(t) /\ count["runs"] \in Nat /\ Others(t) /\ t \in Threads
  BY DEF TypeInv, ThreadInv, TypeOK, Starts
<1>1. CASE t \notin Sweepers
  <2>1. UNCHANGED <<tracker, alone, reports>>
    BY <1>1 DEF Starts
  <2>2. ReportsAreExact' <=> ReportsAreExact
    BY <2>1 DEF ReportsAreExact
  <2>3. \A u \in Sweepers : u # t /\ u \in Threads
    BY <1>1 DEF Threads
  <2> QED
    BY <1>0, <2>1, <2>2, <2>3, OtherIsExact, ExactParts, ExactPartsNext
<1>2. CASE t \in Sweepers
  <2>1. tracker' = BeginTracking(count["runs"] + 1) /\ run'[t] = count["runs"] + 1
    BY <1>2 DEF Starts
  <2>2. count["runs"] + 1 \in 0..MaxRuns
    BY <2>1 DEF Typed, ThreadTypeOK
  <2>3. Blank(tracker') /\ tracker'.active = TRUE /\ tracker'.run = count["runs"] + 1
    BY <2>1, <2>2, BeginTrackingEffect
  <2>4. \A u \in Threads : run[u] \in Nat /\ run[u] <= count["runs"]
    <3>1. \A u \in Threads : run[u] \in Nat /\ ThreadOK(u)
      BY DEF TypeInv, TypeOK, ThreadInv
    <3> QED
      BY <1>0, <3>1 DEF ThreadOK
  <2>5. \A u \in Sweepers : Shown(u)' /\ run'[u] # 0 => u = t
    BY <1>0, <2>3, <2>4 DEF Shown, Others, Threads
  <2>6. ReportsAreExact'
    <3>1. \A p \in reports : p.run \in Nat /\ p.run <= count["runs"]
      BY DEF TypeInv, TypeOK, PastInv, Runs
    <3> QED
      BY <1>0, <2>3, <3>1 DEF ReportsAreExact, Starts
  <2>7. RunIsExact(t)'
    <3>1. pc'[t] = "work" /\ outcomes'[t] = {} /\ task'[t] = NoTasks
      BY <1>0 DEF Starts, ThreadOK
    <3>2. Pending(t)' = {}
      BY <3>1 DEF Pending, NoTasks
    <3>3. Cardinality(Pending(t)') = 0
      BY <3>2, FS_EmptySet
    <3>4. \A s \in Stages : OfStage(outcomes'[t], s) = {}
      BY <3>1 DEF OfStage
    <3>5. \A s \in Stages : Cardinality(OfStage(outcomes'[t], s)) = 0
      BY <3>4, FS_EmptySet
    <3>6. \A s \in Stages : StageIsExact(t, s)'
      BY <2>3, <3>3, <3>5 DEF StageIsExact, Blank
    <3> QED
      BY <2>3, <3>1, <3>6 DEF RunIsExact, Blank
  <2> QED
    BY <2>5, <2>6, <2>7, ExactPartsNext
<1> QED
  BY <1>1, <1>2

LEMMA LeavesExact ==
    ASSUME TypeInv, ReportInv, AloneTrackerIsExact, Typed, NEW t \in Threads, Leaves(t)
    PROVE  AloneTrackerIsExact'
<1>0. Others(t) /\ run'[t] = 0 /\ reports' = reports
  BY DEF Leaves
<1>1. CASE UNCHANGED <<tracker, alone>>
  <2>1. ReportsAreExact' <=> ReportsAreExact
    BY <1>0, <1>1 DEF ReportsAreExact
  <2> QED
    BY <1>0, <1>1, <2>1, OtherIsExact, ExactParts, ExactPartsNext DEF Threads
<1>2. CASE pc[t] = "work" /\ EndRun(t)
  <2>1. tracker'.run = tracker.run /\ alone' = (alone /\ Shown(t))
    BY <1>2, EndRunEffect
  <2>2. SUFFICES ASSUME alone, Shown(t) PROVE AloneTrackerIsExact'
    BY <2>1, ExactPartsNext
  <2>3. ReportsAreExact' /\ \A u \in Sweepers : Shown(u)' /\ run'[u] # 0 => u = t
    BY <1>0, <1>2, <2>1, <2>2, OnlyOneShown
  <2> QED
    BY <1>0, <2>3, ExactPartsNext
<1> QED
  BY <1>1, <1>2 DEF Leaves

LEMMA StopsExact ==
    ASSUME TypeInv, ReportInv, AloneTrackerIsExact, Typed, NEW t \in Threads, Stops(t)
    PROVE  AloneTrackerIsExact'
<1>0. /\ Others(t) /\ KeepsRun(t) /\ reports' = reports /\ t \in Sweepers
      /\ pc[t] = "work" /\ pc'[t] = "persist" /\ EndRun(t)
  BY DEF Stops
<1>1. /\ tracker'.active = FALSE /\ tracker'.run = tracker.run
      /\ tracker'.stages = tracker.stages /\ tracker'.counts = CountsOf(outcomes[t])
      /\ alone' = (alone /\ Shown(t))
  BY <1>0, EndRunEffect
<1>2. SUFFICES ASSUME alone, Shown(t) PROVE AloneTrackerIsExact'
  BY <1>1, ExactPartsNext
<1>3. ReportsAreExact' /\ \A u \in Sweepers : Shown(u)' /\ run'[u] # 0 => u = t
  BY <1>0, <1>1, <1>2, OnlyOneShown
<1>4. RunIsExact(t)
  BY <1>0, <1>2, OwnRun, ExactParts DEF ReportInv
<1>5. RunIsExact(t)'
  <2>1. Pending(t)' = Pending(t)
    BY <1>0 DEF Pending, KeepsRun
  <2>2. \A s \in Stages : StageIsExact(t, s)'
    BY <1>0, <1>1, <1>4, <2>1 DEF RunIsExact, StageIsExact, KeepsRun
  <2> QED
    BY <1>0, <1>1, <2>2 DEF RunIsExact, KeepsRun
<1> QED
  BY <1>3, <1>5, ExactPartsNext

\* A step that the tracker does not hear of.
LEMMA UnheardExact ==
    ASSUME NEW t \in Threads, AloneTrackerIsExact, Others(t), UNCHANGED <<tracker, alone>>,
           run'[t] = run[t], stage'[t] = stage[t], outcomes'[t] = outcomes[t],
           Pending(t)' = Pending(t), pc'[t] = "work" <=> pc[t] = "work",
           alone /\ ReportsAreExact => ReportsAreExact'
    PROVE  AloneTrackerIsExact'
<1>1. \A s \in Stages : StageIsExact(t, s)' <=> StageIsExact(t, s)
  BY DEF StageIsExact
<1>2. (Shown(t)' <=> Shown(t)) /\ (RunIsExact(t)' <=> RunIsExact(t))
  BY <1>1 DEF Shown, RunIsExact
<1> QED
  BY <1>2, OtherIsExact, ExactParts, ExactPartsNext DEF Threads

LEMMA MovesExact ==
    ASSUME AloneTrackerIsExact, NEW t \in Threads, Moves(t)
    PROVE  AloneTrackerIsExact'
<1>1. Pending(t)' = Pending(t)
  BY DEF Pending, Moves, KeepsRun
<1>2. ReportsAreExact' <=> ReportsAreExact
  BY DEF ReportsAreExact, Moves
<1> QED
  BY <1>1, <1>2, UnheardExact DEF Moves, KeepsRun

LEMMA PersistsExact ==
    ASSUME TypeInv, ReportInv, AloneTrackerIsExact, NEW t \in Threads, Persists(t)
    PROVE  AloneTrackerIsExact'
<1>0. /\ reports' = reports \cup {ReportOf(t)} /\ pc[t] = "persist" /\ pc'[t] = "read"
      /\ UNCHANGED <<tracker, alone>> /\ KeepsRun(t) /\ Others(t)
  BY DEF Persists
<1>1. Pending(t)' = Pending(t)
  BY <1>0 DEF Pending, KeepsRun
<1>2. t \in Sweepers /\ run[t] # 0
  BY <1>0, OwnRun DEF TypeInv, ThreadInv, ThreadOK, ReportInv
<1>3. ASSUME alone, ReportsAreExact PROVE ReportsAreExact'
  <2>1. ReportOf(t).run = run[t] /\ ReportOf(t).outcomes = outcomes[t]
    BY DEF ReportOf
  <2>2. run[t] = tracker.run => RunIsExact(t)
    BY <1>2, <1>3, ExactParts DEF Shown
  <2> QED
    BY <1>0, <1>3, <2>1, <2>2 DEF ReportsAreExact, RunIsExact
<1> QED
  BY <1>0, <1>1, <1>3, UnheardExact DEF KeepsRun

LEMMA TriesExact ==
    ASSUME TypeInv, AloneTrackerIsExact, NEW t \in Threads, NEW d \in Docs,
           NEW to \in {"applied", "failed"}, Tries(t, d, to)
    PROVE  AloneTrackerIsExact'
<1>0. task[t] \in [Docs -> Tasks]
  BY DEF TypeInv, TypeOK
<1>1. Pending(t)' = Pending(t)
  BY <1>0 DEF Pending, Tries
<1>2. ReportsAreExact' <=> ReportsAreExact
  BY DEF ReportsAreExact, Tries
<1> QED
  BY <1>1, <1>2, UnheardExact DEF Tries

LEMMA RelapsesExact ==
    ASSUME TypeInv, AloneTrackerIsExact, NEW t \in Threads, NEW d \in Docs, Relapses(t, d)
    PROVE  AloneTrackerIsExact'
<1>0. task[t] \in [Docs -> Tasks]
  BY DEF TypeInv, TypeOK
<1>1. Pending(t)' = Pending(t)
  BY <1>0 DEF Pending, Relapses
<1>2. ReportsAreExact' <=> ReportsAreExact
  BY DEF ReportsAreExact, Relapses
<1> QED
  BY <1>1, <1>2, UnheardExact DEF Relapses

\* A stage begins: none of its documents is counted yet.
LEMMA OpensExact ==
    ASSUME TypeInv, ReportInv, AloneTrackerIsExact, Typed, NEW t \in Threads,
           NEW among \in SUBSET Docs, Opens(t, among)
    PROVE  AloneTrackerIsExact'
<1> DEFINE now == stage[t] + 1
           queue == Queue(now, among)
<1>0. /\ ThreadOK(t) /\ stage[t] \in 0..2 /\ tracker \in Trackers
      /\ \A e \in outcomes[t] : e.stage \in Nat
  BY TypeParts DEF TypeInv, ThreadInv, TypeOK, RecordTypeOK, Entries, Stages
<1>1. /\ Others(t) /\ reports' = reports /\ pc[t] = "work" /\ pc'[t] = "work"
      /\ task[t] = NoTasks /\ stage[t] < 2 /\ stage'[t] = now /\ outcomes'[t] = outcomes[t]
      /\ task'[t] = [d \in Docs |-> FirstTask(now, queue, d)]
      /\ tracker' = BeginStageIn(tracker, now, Cardinality(queue))
      /\ alone' = (alone /\ Shown(t))
  BY DEF Opens
<1>2. now \in Stages
  BY <1>0, <1>1 DEF Stages
<1>3. queue \subseteq Docs /\ IsFiniteSet(queue) /\ Cardinality(queue) \in Nat
  <2>1. queue \subseteq Docs
    BY DEF Queue
  <2> QED
    BY <2>1, FS_Subset, FS_CardinalityType, RecordsAssumption
<1>4. Pending(t)' = queue
  BY <1>1, <1>3 DEF Pending, FirstTask
<1> HIDE DEF queue
<1>5. /\ tracker'.active = tracker.active /\ tracker'.run = tracker.run
      /\ tracker'.counts = tracker.counts
      /\ tracker'.stages[now].total = Cardinality(queue) /\ tracker'.stages[now].processed = 0
      /\ \A u \in Stages : u # now => tracker'.stages[u] = tracker.stages[u]
  <2>1. tracker \in Trackers /\ tracker' = BeginStageIn(tracker, now, Cardinality(queue))
    BY <1>0, <1>1
  <2> HIDE DEF now
  <2> QED
    BY <1>2, <1>3, <2>1, BeginStageEffect
<1>6. SUFFICES ASSUME alone, Shown(t) PROVE AloneTrackerIsExact'
  BY <1>1, ExactPartsNext
<1>7. ReportsAreExact' /\ \A u \in Sweepers : Shown(u)' /\ run'[u] # 0 => u = t
  BY <1>1, <1>5, <1>6, OnlyOneShown
<1>8. RunIsExact(t)
  BY <1>1, <1>6, OwnRun, ExactParts DEF ReportInv, Shown
<1>9. ASSUME NEW s \in Stages, s = now PROVE StageIsExact(t, s)'
  <2>1. OfStage(outcomes'[t], s) = {}
    <3>1. \A e \in outcomes[t] : e.stage \in Nat /\ e.stage <= stage[t]
      BY <1>0 DEF ThreadOK
    <3>2. outcomes'[t] = outcomes[t] /\ s = stage[t] + 1 /\ stage[t] \in 0..2
      BY <1>0, <1>1, <1>9
    <3> QED
      BY <3>1, <3>2 DEF OfStage
  <2>2. Cardinality(OfStage(outcomes'[t], s)) = 0
    BY <2>1, FS_EmptySet
  <2>3. /\ tracker'.stages[s].total = Cardinality(Pending(t)')
        /\ tracker'.stages[s].processed = 0 /\ s = stage'[t]
        /\ Cardinality(Pending(t)') \in Nat
    BY <1>1, <1>3, <1>4, <1>5, <1>9
  <2> QED
    BY <2>2, <2>3 DEF StageIsExact
<1>10. ASSUME NEW s \in Stages, s # now PROVE StageIsExact(t, s)'
  <2>1. /\ tracker.stages[s].processed = Cardinality(OfStage(outcomes[t], s))
        /\ tracker.stages[s].processed \in Nat
        /\ tracker.stages[s].total = tracker.stages[s].processed + 0
    BY <1>0, <1>1, <1>8, CardinalityOfNothing DEF RunIsExact, StageIsExact, Trackers
  <2>2. outcomes'[t] = outcomes[t] /\ s # stage'[t] /\ tracker'.stages[s] = tracker.stages[s]
    BY <1>1, <1>5, <1>10
  <2> QED
    BY <2>1, <2>2 DEF StageIsExact
<1>11. RunIsExact(t)'
  BY <1>1, <1>5, <1>8, <1>9, <1>10 DEF RunIsExact
<1> QED
  BY <1>7, <1>11, ExactPartsNext

\* The loop takes a document: one more is counted, one less is in hand.
LEMMA CollectsExact ==
    ASSUME TypeInv, ReportInv, AloneTrackerIsExact, Typed, NEW t \in Threads, NEW d \in Docs,
           NEW status \in Statuses, Collects(t, d, status)
    PROVE  AloneTrackerIsExact'
<1> DEFINE new == Entry(t, d, status)
           now == stage[t]
<1>0. /\ ThreadOK(t) /\ tracker \in Trackers /\ task[t] \in [Docs -> Tasks]
  BY TypeParts DEF TypeInv, ThreadInv, TypeOK, RecordTypeOK
<1>1. /\ Others(t) /\ reports' = reports /\ pc[t] = "work" /\ pc'[t] = "work"
      /\ task[t][d] # "none" /\ stage'[t] = now
      /\ outcomes'[t] = outcomes[t] \cup {new}
      /\ tracker' = RecordDocIn(tracker, now, status)
      /\ alone' = (alone /\ Shown(t))
      /\ \A x \in Docs : task'[t][x] = IF x = d THEN "none" ELSE task[t][x]
  BY <1>0 DEF Collects, Through
<1>2. now \in Stages
  BY <1>0, <1>1 DEF ThreadOK
<1>3. new.stage = now /\ new.doc = d /\ new.status = status
  BY <1>1, EntryType
<1> HIDE DEF new
<1>4. new \notin outcomes[t] /\ IsFiniteSet(outcomes[t])
  BY <1>0, <1>1, <1>3 DEF ThreadOK
<1>5. /\ tracker'.active = tracker.active /\ tracker'.run = tracker.run
      /\ tracker'.counts \in [Statuses -> Nat]
      /\ tracker'.counts[status] = tracker.counts[status] + 1
      /\ \A j \in Statuses : j # status => tracker'.counts[j] = tracker.counts[j]
      /\ tracker'.stages[now].total = tracker.stages[now].total
      /\ tracker'.stages[now].processed = tracker.stages[now].processed + 1
      /\ \A u \in Stages : u # now => tracker'.stages[u] = tracker.stages[u]
  BY <1>0, <1>1, <1>2, RecordDocEffect DEF Trackers
<1>6. SUFFICES ASSUME alone, Shown(t) PROVE AloneTrackerIsExact'
  BY <1>1, ExactPartsNext
<1>7. ReportsAreExact' /\ \A u \in Sweepers : Shown(u)' /\ run'[u] # 0 => u = t
  BY <1>1, <1>5, <1>6, OnlyOneShown
<1>8. RunIsExact(t)
  BY <1>1, <1>6, OwnRun, ExactParts DEF ReportInv, Shown
<1>9. /\ \A k \in Statuses : CountsOf(outcomes'[t])[k] =
             CountsOf(outcomes[t])[k] + (IF status = k THEN 1 ELSE 0)
      /\ \A s : Cardinality(OfStage(outcomes'[t], s)) =
             Cardinality(OfStage(outcomes[t], s)) + (IF now = s THEN 1 ELSE 0)
      /\ CountsOf(outcomes[t]) \in [Statuses -> Nat]
  <2>1. outcomes'[t] = outcomes[t] \cup {new}
    BY <1>1
  <2>2. /\ \A k \in Statuses : CountsOf(outcomes'[t])[k] =
               CountsOf(outcomes[t])[k] + (IF new.status = k THEN 1 ELSE 0)
        /\ \A s : Cardinality(OfStage(outcomes'[t], s)) =
               Cardinality(OfStage(outcomes[t], s)) + (IF new.stage = s THEN 1 ELSE 0)
    BY <1>4, <2>1, CountOneMore
  <2>3. CountsOf(outcomes[t]) \in [Statuses -> Nat]
    BY <1>4, CountsType
  <2> QED
    BY <1>3, <2>2, <2>3
<1>10. tracker'.counts = CountsOf(outcomes'[t])
  <2>1. IsFiniteSet(outcomes'[t])
    BY <1>1, <1>4, FS_AddElement
  <2>2. CountsOf(outcomes'[t]) \in [Statuses -> Nat]
    BY <2>1, CountsType
  <2>3. tracker.counts = CountsOf(outcomes[t])
    BY <1>8 DEF RunIsExact
  <2>4. \A k \in Statuses : tracker'.counts[k] = CountsOf(outcomes'[t])[k]
    BY <1>5, <1>9, <2>3
  <2> QED
    BY <1>5, <2>2, <2>4
<1>11. ASSUME NEW s \in Stages PROVE StageIsExact(t, s)'
  <2>0. /\ StageIsExact(t, s)
        /\ tracker.stages[s].processed \in Nat /\ tracker.stages[s].total \in Nat
    BY <1>0, <1>8 DEF RunIsExact, Trackers
  <2>1. CASE s = now
    <3>1. /\ Cardinality(Pending(t)) = Cardinality(Pending(t)') + 1
          /\ Cardinality(Pending(t)') \in Nat
      BY <1>1, PendingOneLess
    <3>2. tracker.stages[s].total = tracker.stages[s].processed + Cardinality(Pending(t))
      BY <2>0, <2>1 DEF StageIsExact
    <3>3. tracker'.stages[s].total = tracker'.stages[s].processed + Cardinality(Pending(t)')
      BY <1>5, <2>0, <2>1, <3>1, <3>2
    <3>4. tracker'.stages[s].processed = Cardinality(OfStage(outcomes'[t], s))
      BY <1>5, <1>9, <2>0, <2>1 DEF StageIsExact
    <3> QED
      BY <1>1, <2>1, <3>3, <3>4 DEF StageIsExact
  <2>2. CASE s # now
    <3>1. tracker.stages[s].total = tracker.stages[s].processed + 0
      BY <2>0, <2>2 DEF StageIsExact
    <3>2. Cardinality(OfStage(outcomes'[t], s)) = Cardinality(OfStage(outcomes[t], s)) + 0
      BY <1>9, <2>2
    <3>3. Cardinality(OfStage(outcomes[t], s)) = tracker.stages[s].processed
      BY <2>0 DEF StageIsExact
    <3> QED
      BY <1>1, <1>5, <2>0, <2>2, <3>1, <3>2, <3>3 DEF StageIsExact
  <2> QED
    BY <2>1, <2>2
<1>12. RunIsExact(t)'
  BY <1>1, <1>5, <1>8, <1>10, <1>11 DEF RunIsExact
<1> QED
  BY <1>7, <1>12, ExactPartsNext

LEMMA CrashExact ==
    ASSUME TypeInv, Crash, CrashKeeps PROVE AloneTrackerIsExact'
<1>1. \A p \in reports : p.run # 0
  BY DEF TypeInv, TypeOK, Runs
<1>2. tracker'.run = 0 /\ reports' = reports /\ \A t \in Threads : run'[t] = 0
  BY IdleEffect DEF Crash, CrashKeeps
<1> QED
  BY <1>1, <1>2, ExactPartsNext DEF ReportsAreExact, Threads

LEMMA ExactNext ==
    TypeInv /\ ReportInv /\ AloneTrackerIsExact /\ [Next]_vars => AloneTrackerIsExact'
<1> SUFFICES ASSUME TypeInv, ReportInv, AloneTrackerIsExact, [Next]_vars
             PROVE  AloneTrackerIsExact'
  OBVIOUS
<1>1. CASE Idles
  BY <1>1 DEF Idles, AloneTrackerIsExact, Shown, CountsOf
<1>2. ASSUME NEW t \in Threads, ThreadKind(t), Typed PROVE AloneTrackerIsExact'
  BY <1>2, MovesExact, StartsExact, LeavesExact, StopsExact, PersistsExact, OpensExact
  DEF ThreadKind
<1>3. ASSUME NEW t \in Threads, NEW d \in Docs, DocKind(t, d), Typed
      PROVE  AloneTrackerIsExact'
  BY <1>3, TriesExact, RelapsesExact, CollectsExact DEF DocKind
<1> QED
  BY <1>1, <1>2, <1>3, StepKinds, CrashExact

\* While no other run and no nudge writes to the process-wide ProgressTracker
\* (progress.py), the dashboard shows a run as it is, document by document,
\* and keeps the figures of its report when it is over.
THEOREM TrackerIsExact == Spec => []AloneTrackerIsExact
<1>1. TypeInv /\ LogInv /\ ReportInv /\ AloneTrackerIsExact /\ [Next]_vars
      => (TypeInv /\ LogInv /\ ReportInv /\ AloneTrackerIsExact)'
  BY TypeNext, LogNext, ReportNext, ExactNext
<1>2. Init => AloneTrackerIsExact
  BY DEF Init, AloneTrackerIsExact, Threads
<1> QED
  BY <1>1, <1>2, TypeInit, LogInit, ReportInit, PTL DEF Spec
=============================================================================
