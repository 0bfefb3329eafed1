----------------------------- MODULE SpendCaps -----------------------------
(***************************************************************************)
(* What the agent pays and what it counts                                  *)
(* (src/src/paperless_assistant/spend.py, obs.py, sweep.py,                *)
(* providers/base.py).  A run goes through its billable stages; each stage *)
(* has its own SpendGovernor and worker pool; every Sweep object has its   *)
(* own SpendLedger, all of them on the file of the data directory.  The    *)
(* webhook's nudges share the Sweep object of the scheduler; a manual run  *)
(* of the dashboard and a run from the command line have their own.        *)
(*                                                                         *)
(* Abstractions.  A provider call costs one unit.  The ledger file is the  *)
(* total of the current period; an unreadable file counts as 0.            *)
(***************************************************************************)
EXTENDS Integers, FiniteSets

CONSTANTS
    Runs,           \* runs that may overlap
    Workers,        \* worker slots, Workers[r] those of run r
    Scheduler,      \* the run of pa serve
    PerRun,         \* spend.per_run, 0 for no cap
    PerPeriod,      \* spend.per_period, 0 for no cap
    MaxAttempts,    \* attempts at a structured answer
    MaxDocuments,   \* bound: documents in the queue of a stage
    MaxCalls,       \* bound: provider calls
    MaxStarts,      \* bound: starts of a run
    MaxFaults       \* bound: failed writes, provider errors, crashes

ASSUME SpendAssumption ==
    /\ IsFiniteSet(Runs)
    /\ DOMAIN Workers = Runs /\ \A r \in Runs : IsFiniteSet(Workers[r])
    /\ PerRun \in Nat /\ PerPeriod \in Nat /\ MaxAttempts \in Nat \ {0}
    /\ Scheduler \in Runs /\ MaxDocuments \in Nat \ {0}
    /\ MaxCalls \in Nat /\ MaxStarts \in Nat /\ MaxFaults \in Nat

VARIABLES
    object,         \* the Sweep object of each run, named for the run that
                    \* made it
    stage,          \* the billable stage each run is in
    dry,            \* is the run a dry run?
    queue,          \* documents no worker has taken yet
    fatal,          \* has a Sweep object latched an account-level error?
    aborted,        \* the abort event of the stage of each run
    raised,         \* fatal errors the main thread of a stage has not seen yet
    governor,       \* SpendGovernor of the stage of each run
    work,           \* what each worker does
    ledger,         \* the total in the file
    paid,           \* history: provider calls of live runs
    booked,         \* history: what calls of add have put in the ledger
    runPaid,        \* history: provider calls of each run
    rejected,       \* history: this sweep has latched an account-level error
    raced,          \* history: two objects were at work at once, or a crash
                    \* fell into a write of the file
    callsLeft, startsLeft, faultsLeft

vars == <<object, stage, dry, queue, fatal, aborted, raised, governor, work,
          ledger, paid, booked, runPaid, rejected, raced, callsLeft,
          startsLeft, faultsLeft>>

Stages == {"reocr", "metadata"}
\* A transcription is one call; a structured answer may take several.
Attempts(s) == IF s = "metadata" THEN MaxAttempts ELSE 1

Steps == {"idle", "gated", "open", "calling", "answered", "booking", "read",
          "writing"}
Fatal == {"config", "account"}
Rest == [at |-> "idle", spent |-> 0, seen |-> 0]

TypeOK ==
    /\ object \in [Runs -> Runs]
    /\ stage \in [Runs -> Stages \cup {"off"}]
    /\ dry \in [Runs -> BOOLEAN]
    /\ queue \in [Runs -> 0 .. MaxDocuments]
    /\ fatal \in [Runs -> BOOLEAN]
    /\ aborted \in [Runs -> BOOLEAN]
    /\ raised \in [Runs -> SUBSET Fatal]
    /\ governor \in [Runs -> Nat]
    /\ DOMAIN work = Runs
    /\ \A r \in Runs :
        work[r] \in [Workers[r] -> [at : Steps, spent : Nat, seen : Nat]]
    /\ ledger \in Nat /\ paid \in Nat /\ booked \in Nat
    /\ runPaid \in [Runs -> Nat]
    /\ rejected \in [Runs -> BOOLEAN]
    /\ raced \in BOOLEAN
    /\ callsLeft \in Nat /\ startsLeft \in Nat /\ faultsLeft \in Nat

Resting(r) == [w \in Workers[r] |-> Rest]

Init ==
    /\ object \in {f \in [Runs -> Runs] : \A r \in Runs : f[r] \in {r, Scheduler}}
    /\ stage = [r \in Runs |-> "off"]
    /\ dry = [r \in Runs |-> FALSE]
    /\ queue = [r \in Runs |-> 0]
    /\ fatal = [r \in Runs |-> FALSE]
    /\ aborted = [r \in Runs |-> FALSE]
    /\ raised = [r \in Runs |-> {}]
    /\ governor = [r \in Runs |-> 0]
    /\ work = [r \in Runs |-> Resting(r)]
    /\ ledger = 0 /\ paid = 0 /\ booked = 0
    /\ runPaid = [r \in Runs |-> 0]
    /\ rejected = [r \in Runs |-> FALSE]
    /\ raced = FALSE
    /\ callsLeft = MaxCalls /\ startsLeft = MaxStarts /\ faultsLeft = MaxFaults

Nudge(r) == object[r] # r
AtWork(r) == stage[r] # "off"
Idle(r) == \A w \in Workers[r] : work[r][w].at = "idle"
\* A sweep drains a queue, a nudge one document if it is eligible.
Queues(r) == IF Nudge(r) THEN {0, 1} ELSE 0 .. MaxDocuments
\* The ledger's lock belongs to the Sweep object, not to the file.
LedgerLocked(o) ==
    \E r \in Runs : object[r] = o /\ \E w \in Workers[r] :
        work[r][w].at \in {"read", "writing"}

----------------------------------------------------------------------------
(* Runs and stages.                                                        *)

OthersAtWork(r) == \E q \in Runs : AtWork(q) /\ object[q] # object[r]

\* run_once forgets the fatal error of the tick before; process_nudge
\* neither resets nor reads the latch.
StartRun(r, d, n) ==
    /\ startsLeft > 0
    /\ ~AtWork(r)
    /\ stage' = [stage EXCEPT ![r] = "reocr"]
    /\ dry' = [dry EXCEPT ![r] = d]
    /\ queue' = [queue EXCEPT ![r] = n]
    /\ fatal' = IF Nudge(r) THEN fatal ELSE [fatal EXCEPT ![r] = FALSE]
    /\ raced' = (raced \/ OthersAtWork(r))
    /\ startsLeft' = startsLeft - 1
    /\ UNCHANGED <<object, aborted, raised, governor, work, ledger, paid,
                   booked, runPaid, rejected, callsLeft, faultsLeft>>

\* A stage is over when its queue is drained and every result was read.
LeaveStage(r, to, n) ==
    /\ Idle(r) /\ queue[r] = 0 /\ raised[r] = {}
    /\ stage' = [stage EXCEPT ![r] = to]
    /\ queue' = [queue EXCEPT ![r] = n]
    /\ aborted' = [aborted EXCEPT ![r] = FALSE]
    /\ governor' = [governor EXCEPT ![r] = 0]
    /\ UNCHANGED <<object, fatal, raised, work, ledger, paid, booked, raced,
                   callsLeft, startsLeft, faultsLeft>>

\* Fault: an account-level error ends only the stage it happened in.
NextStageAnyway(r, n) ==
    /\ stage[r] = "reocr"
    /\ LeaveStage(r, "metadata", n)
    /\ UNCHANGED <<dry, runPaid, rejected>>

\* The next billable stage, with a governor of its own.
NextStage(r, n) ==
    /\ stage[r] = "reocr"
    /\ Nudge(r) \/ ~fatal[r]
    /\ LeaveStage(r, "metadata", n)
    /\ UNCHANGED <<dry, runPaid, rejected>>

EndRun(r) ==
    /\ \/ stage[r] = "metadata"
       \/ stage[r] = "reocr" /\ ~Nudge(r) /\ fatal[r]
    /\ LeaveStage(r, "off", 0)
    /\ dry' = [dry EXCEPT ![r] = FALSE]
    /\ runPaid' = [runPaid EXCEPT ![r] = 0]
    /\ rejected' = [rejected EXCEPT ![r] = FALSE]

\* The main thread of a stage reads the result that failed.  The first
\* fatal error aborts the stage and, when it is about the account, latches.
NoteFatal(r, why) ==
    LET latches == ~aborted[r] /\ why = "account"
    IN /\ why \in raised[r]
       /\ raised' = [raised EXCEPT ![r] = @ \ {why}]
       /\ aborted' = [aborted EXCEPT ![r] = TRUE]
       /\ fatal' = [fatal EXCEPT ![object[r]] = @ \/ latches]
       /\ rejected' = [rejected EXCEPT ![r] = @ \/ (latches /\ ~Nudge(r))]
       /\ UNCHANGED <<object, stage, dry, queue, governor, work, ledger, paid,
                      booked, runPaid, raced, callsLeft, startsLeft,
                      faultsLeft>>

----------------------------------------------------------------------------
(* A worker and its document.                                              *)

Becomes(r, w, rec) == work' = [work EXCEPT ![r][w] = rec]
Moves(r, w, to) == Becomes(r, w, [work[r][w] EXCEPT !.at = to])
OnlyWork == <<object, stage, dry, fatal, aborted, rejected, raced, startsLeft>>

\* Fault: the cap itself may still be spent.
UpToRunCap(r) == PerRun = 0 \/ governor[r] <= PerRun

UnderRunCap(r) == PerRun = 0 \/ governor[r] < PerRun

\* Fault: the period's cap itself may still be spent.
UpToPeriodCap(r) == PerPeriod = 0 \/ ledger <= PerPeriod

UnderPeriodCap(r) == PerPeriod = 0 \/ ledger < PerPeriod

\* Fault: a worker does not notice that the queue is drained.
TakeAnother(r, w) ==
    /\ AtWork(r)
    /\ work[r][w].at = "idle"
    /\ queue' = [queue EXCEPT ![r] = @ - 1]
    /\ Moves(r, w, "open")
    /\ UNCHANGED <<raised, governor, ledger, paid, booked, runPaid,
                   callsLeft, faultsLeft, OnlyWork>>

\* _period_cap_hit, first half; a dry run does not look at the caps here.
\* A document that comes after the abort or over the cap is dropped.
TakeDocument(r, w) ==
    /\ work[r][w].at = "idle"
    /\ queue[r] > 0
    /\ queue' = [queue EXCEPT ![r] = @ - 1]
    /\ Moves(r, w, IF aborted[r] THEN "idle"
                   ELSE IF dry[r] THEN "open"
                   ELSE IF UnderRunCap(r) THEN "gated" ELSE "idle")
    /\ UNCHANGED <<raised, governor, ledger, paid, booked, runPaid,
                   callsLeft, faultsLeft, OnlyWork>>

\* The second half reads the file under the ledger's lock.
CheckPeriod(r, w) ==
    /\ work[r][w].at = "gated"
    /\ ~LedgerLocked(object[r])
    /\ Moves(r, w, IF UnderPeriodCap(r) THEN "open" ELSE "idle")
    /\ UNCHANGED <<queue, raised, governor, ledger, paid, booked, runPaid,
                   callsLeft, faultsLeft, OnlyWork>>

\* The pipelines check the governor once more before they pay.
CheckRun(r, w) ==
    /\ work[r][w].at = "open"
    /\ Moves(r, w, IF UnderRunCap(r) THEN "calling" ELSE "idle")
    /\ UNCHANGED <<queue, raised, governor, ledger, paid, booked, runPaid,
                   callsLeft, faultsLeft, OnlyWork>>

\* One provider call.  An answer off the schema is tried again; when the
\* last one is off too the governor still gets the cost of all of them, but
\* the error passes the ledger by.
CallProvider(r, w, valid) ==
    LET spent == work[r][w].spent + 1
        over == valid \/ spent = Attempts(stage[r])
    IN /\ work[r][w].at = "calling"
       /\ callsLeft > 0
       /\ valid \/ stage[r] = "metadata"
       /\ Becomes(r, w, IF valid THEN [at |-> "answered", spent |-> spent, seen |-> 0]
                        ELSE IF over THEN Rest
                        ELSE [at |-> "calling", spent |-> spent, seen |-> 0])
       /\ governor' = IF over THEN [governor EXCEPT ![r] = @ + spent] ELSE governor
       /\ paid' = IF dry[r] THEN paid ELSE paid + 1
       /\ runPaid' = [runPaid EXCEPT ![r] = @ + 1]
       /\ callsLeft' = callsLeft - 1
       /\ UNCHANGED <<queue, raised, ledger, booked, faultsLeft, OnlyWork>>

\* The provider raises, and what earlier attempts of this document cost is
\* in no total.
ProviderRaises(r, w, why) ==
    /\ work[r][w].at = "calling"
    /\ faultsLeft > 0
    /\ Becomes(r, w, Rest)
    /\ raised' = [raised EXCEPT ![r] = @ \cup (why \cap Fatal)]
    /\ faultsLeft' = faultsLeft - 1
    /\ UNCHANGED <<queue, governor, ledger, paid, booked, runPaid, callsLeft,
                   OnlyWork>>

\* The writes to Paperless succeed; a dry run has nothing to book.
Applied(r, w) ==
    /\ work[r][w].at = "answered"
    /\ IF dry[r] THEN Becomes(r, w, Rest) ELSE Moves(r, w, "booking")
    /\ UNCHANGED <<queue, raised, governor, ledger, paid, booked, runPaid,
                   callsLeft, faultsLeft, OnlyWork>>

\* They fail: the exception passes the ledger by.
ApplyFails(r, w) ==
    /\ work[r][w].at = "answered"
    /\ faultsLeft > 0
    /\ Becomes(r, w, Rest)
    /\ faultsLeft' = faultsLeft - 1
    /\ UNCHANGED <<queue, raised, governor, ledger, paid, booked, runPaid,
                   callsLeft, OnlyWork>>

----------------------------------------------------------------------------
(* SpendLedger.add: read, truncate, write, under the object's lock.        *)

\* Fault: the file is read before the lock is taken.
ReadUnlocked(r, w) ==
    /\ work[r][w].at = "booking"
    /\ Becomes(r, w, [work[r][w] EXCEPT !.at = "read", !.seen = ledger])
    /\ UNCHANGED <<queue, raised, governor, ledger, paid, booked, runPaid,
                   callsLeft, faultsLeft, OnlyWork>>

ReadLedger(r, w) ==
    /\ work[r][w].at = "booking"
    /\ ~LedgerLocked(object[r])
    /\ Becomes(r, w, [work[r][w] EXCEPT !.at = "read", !.seen = ledger])
    /\ UNCHANGED <<queue, raised, governor, ledger, paid, booked, runPaid,
                   callsLeft, faultsLeft, OnlyWork>>

\* write_text opens the file for writing: until the text is there it reads
\* as nothing.
TruncateLedger(r, w) ==
    /\ work[r][w].at = "read"
    /\ Moves(r, w, "writing")
    /\ ledger' = 0
    /\ UNCHANGED <<queue, raised, governor, paid, booked, runPaid, callsLeft,
                   faultsLeft, OnlyWork>>

\* Fault: the cost of every attempt is booked once more.
WriteLedgerTwice(r, w) ==
    /\ work[r][w].at = "writing"
    /\ ledger' = work[r][w].seen + 2 * work[r][w].spent
    /\ booked' = booked + work[r][w].spent
    /\ Becomes(r, w, Rest)
    /\ UNCHANGED <<queue, raised, governor, paid, runPaid, callsLeft,
                   faultsLeft, OnlyWork>>

WriteLedger(r, w) ==
    /\ work[r][w].at = "writing"
    /\ ledger' = work[r][w].seen + work[r][w].spent
    /\ booked' = booked + work[r][w].spent
    /\ Becomes(r, w, Rest)
    /\ UNCHANGED <<queue, raised, governor, paid, runPaid, callsLeft,
                   faultsLeft, OnlyWork>>

\* A process is killed, with every run on its Sweep object; what it was
\* writing stays truncated.
Crash(o) ==
    LET Dead == {r \in Runs : object[r] = o}
        Reset(f, v) == [r \in Runs |-> IF r \in Dead THEN v ELSE f[r]]
    IN /\ faultsLeft > 0
       /\ \E r \in Dead : AtWork(r)
       /\ raced' = (raced \/ \E r \in Dead : \E w \in Workers[r] :
                        work[r][w].at = "writing")
       /\ stage' = Reset(stage, "off")
       /\ dry' = Reset(dry, FALSE)
       /\ queue' = Reset(queue, 0)
       /\ fatal' = [fatal EXCEPT ![o] = FALSE]
       /\ aborted' = Reset(aborted, FALSE)
       /\ raised' = Reset(raised, {})
       /\ governor' = Reset(governor, 0)
       /\ runPaid' = Reset(runPaid, 0)
       /\ rejected' = Reset(rejected, FALSE)
       /\ work' = [r \in Runs |-> IF r \in Dead THEN Resting(r) ELSE work[r]]
       /\ faultsLeft' = faultsLeft - 1
       /\ UNCHANGED <<object, ledger, paid, booked, callsLeft, startsLeft>>

----------------------------------------------------------------------------
RunStep(r) ==
    \/ \E d \in BOOLEAN : \E n \in Queues(r) : StartRun(r, d, n)
    \/ \E n \in Queues(r) : NextStage(r, n)
    \/ EndRun(r)
    \/ \E why \in Fatal : NoteFatal(r, why)
    \/ Crash(r)

WorkerStep(r, w) ==
    \/ TakeDocument(r, w) \/ CheckPeriod(r, w) \/ CheckRun(r, w)
    \/ \E valid \in BOOLEAN : CallProvider(r, w, valid)
    \/ \E why \in {{"other"}, {"config"}, {"account"}} : ProviderRaises(r, w, why)
    \/ Applied(r, w) \/ ApplyFails(r, w)
    \/ ReadLedger(r, w) \/ TruncateLedger(r, w) \/ WriteLedger(r, w)

Next ==
    \/ \E r \in Runs : RunStep(r)
    \/ \E r \in Runs : \E w \in Workers[r] : WorkerStep(r, w)

Spec == Init /\ [][Next]_vars

----------------------------------------------------------------------------
(* Properties.                                                             *)

\* The cap of a run is checked before a document and charged after it: a
\* stage overshoots, but by no more than one document of each worker.
OvershootBounded ==
    PerRun > 0 => \A r \in Runs :
        governor[r] <= PerRun - 1 + Cardinality(Workers[r]) * MaxAttempts

\* However the threads and processes overlap and whatever fails, the ledger
\* never shows more than was paid: the period cap does not stop a run early.
LedgerWithinPaid == ledger <= paid

\* While one Sweep object at a time is at work and none is killed in the
\* middle of a write, its threads lose no update of the ledger.
AloneAddsUp ==
    ~raced /\ (\A r \in Runs : \A w \in Workers[r] : work[r][w].at # "writing")
        => ledger = booked

\* Then the gate of the period is sound too: a live run begins a document
\* only while what was booked is below the cap.
PeriodGateSound ==
    [][PerPeriod > 0 /\ ~raced =>
        \A r \in Runs : \A w \in Workers[r] :
            work[r][w].at = "gated" /\ work'[r][w].at = "open"
                => booked < PerPeriod]_vars

\* Once a sweep knows that the provider rejects the account, none of its
\* workers begins another document, in this stage or in a later one.
FatalStopsTheRun ==
    [][\A r \in Runs : rejected[r] =>
        \A w \in Workers[r] :
            work[r][w].at = "idle" => work'[r][w].at = "idle"]_vars

\* The per-run cap is the cap of the run.
RunCapHolds ==
    PerRun > 0 => \A r \in Runs :
        runPaid[r] <= PerRun - 1 + Cardinality(Workers[r]) * MaxAttempts

\* The governor sees every billable call of its stage.
GovernorSeesEveryCall ==
    \A r \in Runs : Idle(r) /\ stage[r] = "reocr" => governor[r] = runPaid[r]
=============================================================================
