-------------------------- MODULE SpendCaps_proofs --------------------------
(***************************************************************************)
(* Proofs about SpendCaps, for every set of runs and workers, every cap    *)
(* and every bound.                                                        *)
(***************************************************************************)
EXTENDS SpendCaps, FiniteSetTheorems, TLAPS

Slot == [at : Steps, spent : Nat, seen : Nat]

\* What TypeOK says of the workers.
WorkOK ==
    /\ DOMAIN work = Runs
    /\ \A r \in Runs : work[r] \in [Workers[r] -> Slot]

LEMMA RestIsSlot == Rest \in Slot /\ Rest.at = "idle" /\ Rest.spent = 0
  BY DEF Rest, Slot, Steps

\* One worker has moved, and no other.
OneMoved(r, w, rec) ==
    /\ work'[r][w] = rec
    /\ \A q \in Runs : \A v \in Workers[q] :
        work'[q][v] = work[q][v] \/ (q = r /\ v = w)

LEMMA BecomesEffect ==
    ASSUME WorkOK, NEW r \in Runs, NEW w \in Workers[r], NEW rec \in Slot,
           Becomes(r, w, rec)
    PROVE  WorkOK' /\ OneMoved(r, w, rec)
<1>1. work' = [work EXCEPT ![r] = [work[r] EXCEPT ![w] = rec]]
  BY DEF Becomes
<1>2. [work[r] EXCEPT ![w] = rec] \in [Workers[r] -> Slot]
  BY DEF WorkOK
<1>3. work'[r] = [work[r] EXCEPT ![w] = rec] /\ DOMAIN work' = Runs
      /\ \A q \in Runs : q # r => work'[q] = work[q]
  BY <1>1 DEF WorkOK
<1>4. WorkOK'
  BY <1>2, <1>3 DEF WorkOK
<1>5. work'[r][w] = rec /\ \A v \in Workers[r] : v # w => work'[r][v] = work[r][v]
  BY <1>3 DEF WorkOK
<1> QED
  BY <1>3, <1>4, <1>5 DEF OneMoved

\* A worker that only moves keeps what it has spent and seen.
LEMMA MovesEffect ==
    ASSUME WorkOK, NEW r \in Runs, NEW w \in Workers[r], NEW to \in Steps, Moves(r, w, to)
    PROVE  /\ WorkOK'
           /\ OneMoved(r, w, [work[r][w] EXCEPT !.at = to])
           /\ LET rec == [work[r][w] EXCEPT !.at = to]
              IN rec \in Slot /\ rec.at = to /\ rec.spent = work[r][w].spent
                  /\ rec.seen = work[r][w].seen
<1>1. work[r][w] \in Slot
  BY DEF WorkOK
<1> DEFINE rec == [work[r][w] EXCEPT !.at = to]
<1>2. rec \in Slot /\ rec.at = to /\ rec.spent = work[r][w].spent /\ rec.seen = work[r][w].seen
  BY <1>1 DEF Slot
<1>3. Becomes(r, w, rec)
  BY DEF Moves
<1> HIDE DEF rec
<1>4. WorkOK' /\ OneMoved(r, w, rec)
  BY <1>2, <1>3, BecomesEffect
<1> QED
  BY <1>2, <1>4 DEF rec

----------------------------------------------------------------------------
(* What a step of a worker does to it.                                     *)

\* How a worker goes on: the record it had, the one it has, and whether the
\* call it makes is the last one for its document.
Turn(r, w, rec) ==
    LET old == work[r][w]
    IN  \/ /\ TakeDocument(r, w)
           /\ old.at = "idle" /\ rec.at \in {"idle", "open", "gated"}
           /\ rec.at # "idle" => ~aborted[r]
           /\ rec.spent = old.spent
        \/ /\ CheckPeriod(r, w)
           /\ old.at = "gated" /\ rec.at \in {"idle", "open"}
           /\ rec.at = "open" => UnderPeriodCap(r) /\ ~LedgerLocked(object[r])
           /\ rec.spent = old.spent
        \/ /\ CheckRun(r, w)
           /\ old.at = "open" /\ rec.at \in {"idle", "calling"}
           /\ rec.at = "calling" => UnderRunCap(r)
           /\ rec.spent = old.spent
        \/ /\ \E valid \in BOOLEAN : CallProvider(r, w, valid)
           /\ old.at = "calling"
           /\ \/ /\ rec.at = "calling" /\ rec.spent = old.spent + 1
                 /\ rec.spent # Attempts(stage[r]) /\ governor' = governor
              \/ /\ rec = Rest \/ (rec.at = "answered" /\ rec.spent = old.spent + 1)
                 /\ governor' = [governor EXCEPT ![r] = @ + (old.spent + 1)]
        \/ /\ \E why \in {{"other"}, {"config"}, {"account"}} : ProviderRaises(r, w, why)
           /\ old.at = "calling" /\ rec = Rest
        \/ /\ Applied(r, w)
           /\ old.at = "answered"
           /\ IF dry[r] THEN rec = Rest ELSE rec.at = "booking" /\ rec.spent = old.spent
        \/ /\ ApplyFails(r, w)
           /\ old.at = "answered" /\ rec = Rest
        \/ /\ ReadLedger(r, w)
           /\ old.at = "booking" /\ ~LedgerLocked(object[r])
           /\ rec.at = "read" /\ rec.spent = old.spent /\ rec.seen = ledger
        \/ /\ TruncateLedger(r, w)
           /\ old.at = "read" /\ rec.at = "writing" /\ rec.spent = old.spent
           /\ rec.seen = old.seen /\ ledger' = 0
        \/ /\ WriteLedger(r, w)
           /\ old.at = "writing" /\ rec = Rest
           /\ ledger' = old.seen + old.spent /\ booked' = booked + old.spent

LEMMA WorkerTurns ==
    ASSUME WorkOK, ledger \in Nat, NEW r \in Runs, NEW w \in Workers[r], WorkerStep(r, w)
    PROVE  \E rec \in Slot : WorkOK' /\ OneMoved(r, w, rec) /\ Turn(r, w, rec)
<1> DEFINE old == work[r][w]
<1>0. old \in Slot
  BY DEF WorkOK
<1>1. CASE TakeDocument(r, w)
  <2> DEFINE to == IF aborted[r] THEN "idle" ELSE IF dry[r] THEN "open"
                   ELSE IF UnderRunCap(r) THEN "gated" ELSE "idle"
  <2>1. to \in Steps /\ Moves(r, w, to) /\ to \in {"idle", "open", "gated"}
        /\ (to # "idle" => ~aborted[r]) /\ old.at = "idle"
    BY <1>1 DEF TakeDocument, Steps
  <2> DEFINE rec == [old EXCEPT !.at = to]
  <2> HIDE DEF to
  <2>2. WorkOK' /\ OneMoved(r, w, rec) /\ rec \in Slot /\ rec.at = to /\ rec.spent = old.spent
    BY <2>1, MovesEffect
  <2> HIDE DEF rec
  <2>3. Turn(r, w, rec)
    BY <1>1, <2>1, <2>2 DEF Turn
  <2> QED
    BY <2>2, <2>3
<1>2. CASE CheckPeriod(r, w)
  <2> DEFINE to == IF UnderPeriodCap(r) THEN "open" ELSE "idle"
  <2>1. to \in Steps /\ Moves(r, w, to) /\ to \in {"idle", "open"}
        /\ (to = "open" => UnderPeriodCap(r)) /\ ~LedgerLocked(object[r]) /\ old.at = "gated"
    BY <1>2 DEF CheckPeriod, Steps
  <2> DEFINE rec == [old EXCEPT !.at = to]
  <2> HIDE DEF to
  <2>2. WorkOK' /\ OneMoved(r, w, rec) /\ rec \in Slot /\ rec.at = to /\ rec.spent = old.spent
    BY <2>1, MovesEffect
  <2> HIDE DEF rec
  <2>3. Turn(r, w, rec)
    BY <1>2, <2>1, <2>2 DEF Turn
  <2> QED
    BY <2>2, <2>3
<1>3. CASE CheckRun(r, w)
  <2> DEFINE to == IF UnderRunCap(r) THEN "calling" ELSE "idle"
  <2>1. to \in Steps /\ Moves(r, w, to) /\ to \in {"idle", "calling"}
        /\ (to = "calling" => UnderRunCap(r)) /\ old.at = "open"
    BY <1>3 DEF CheckRun, Steps
  <2> DEFINE rec == [old EXCEPT !.at = to]
  <2> HIDE DEF to
  <2>2. WorkOK' /\ OneMoved(r, w, rec) /\ rec \in Slot /\ rec.at = to /\ rec.spent = old.spent
    BY <2>1, MovesEffect
  <2> HIDE DEF rec
  <2>3. Turn(r, w, rec)
    BY <1>3, <2>1, <2>2 DEF Turn
  <2> QED
    BY <2>2, <2>3
<1>4. ASSUME NEW valid \in BOOLEAN, CallProvider(r, w, valid)
      PROVE  \E rec \in Slot : WorkOK' /\ OneMoved(r, w, rec) /\ Turn(r, w, rec)
  <2> DEFINE spent == old.spent + 1
             over == valid \/ spent = Attempts(stage[r])
             answer == [at |-> "answered", spent |-> spent, seen |-> 0]
             again == [at |-> "calling", spent |-> spent, seen |-> 0]
             rec == IF valid THEN answer ELSE IF over THEN Rest ELSE again
  <2>1. spent \in Nat
    BY <1>0 DEF Slot
  <2>2. answer \in Slot /\ again \in Slot
    BY <2>1 DEF Slot, Steps
  <2>3. rec \in Slot
    BY <2>2, RestIsSlot
  <2>4. Becomes(r, w, rec) /\ old.at = "calling"
        /\ governor' = IF over THEN [governor EXCEPT ![r] = @ + spent] ELSE governor
    BY <1>4 DEF CallProvider
  <2>5. \/ /\ rec.at = "calling" /\ rec.spent = old.spent + 1
           /\ rec.spent # Attempts(stage[r]) /\ governor' = governor
        \/ /\ rec = Rest \/ (rec.at = "answered" /\ rec.spent = old.spent + 1)
           /\ governor' = [governor EXCEPT ![r] = @ + (old.spent + 1)]
    BY <2>4
  <2> HIDE DEF rec, over, spent
  <2> QED
    BY <1>4, <2>3, <2>4, <2>5, BecomesEffect DEF Turn
<1>5. CASE \E why \in {{"other"}, {"config"}, {"account"}} : ProviderRaises(r, w, why)
  <2>1. Becomes(r, w, Rest) /\ old.at = "calling"
    BY <1>5 DEF ProviderRaises
  <2> QED
    BY <1>5, <2>1, RestIsSlot, BecomesEffect DEF Turn
<1>6. CASE Applied(r, w)
  <2>1. old.at = "answered"
    BY <1>6 DEF Applied
  <2>2. CASE dry[r]
    <3>1. Becomes(r, w, Rest)
      BY <1>6, <2>2 DEF Applied
    <3> QED
      BY <1>6, <2>1, <2>2, <3>1, RestIsSlot, BecomesEffect DEF Turn
  <2>3. CASE ~dry[r]
    <3>1. Moves(r, w, "booking") /\ "booking" \in Steps
      BY <1>6, <2>3 DEF Applied, Steps
    <3> DEFINE rec == [old EXCEPT !.at = "booking"]
    <3>2. WorkOK' /\ OneMoved(r, w, rec) /\ rec \in Slot /\ rec.at = "booking"
          /\ rec.spent = old.spent
      BY <3>1, MovesEffect
    <3> HIDE DEF rec
    <3>3. Turn(r, w, rec)
      BY <1>6, <2>1, <2>3, <3>2 DEF Turn
    <3> QED
      BY <3>2, <3>3
  <2> QED
    BY <2>2, <2>3
<1>7. CASE ApplyFails(r, w)
  <2>1. Becomes(r, w, Rest) /\ old.at = "answered"
    BY <1>7 DEF ApplyFails
  <2> QED
    BY <1>7, <2>1, RestIsSlot, BecomesEffect DEF Turn
<1>8. CASE ReadLedger(r, w)
  <2> DEFINE rec == [old EXCEPT !.at = "read", !.seen = ledger]
  <2>1. rec \in Slot /\ rec.at = "read" /\ rec.spent = old.spent /\ rec.seen = ledger
    BY <1>0, <1>8 DEF Slot, Steps
  <2>2. Becomes(r, w, rec) /\ old.at = "booking" /\ ~LedgerLocked(object[r])
    BY <1>8 DEF ReadLedger
  <2> HIDE DEF rec
  <2> QED
    BY <1>8, <2>1, <2>2, BecomesEffect DEF Turn
<1>9. CASE TruncateLedger(r, w)
  <2>1. Moves(r, w, "writing") /\ "writing" \in Steps /\ old.at = "read" /\ ledger' = 0
    BY <1>9 DEF TruncateLedger, Steps
  <2> DEFINE rec == [old EXCEPT !.at = "writing"]
  <2>2. WorkOK' /\ OneMoved(r, w, rec) /\ rec \in Slot /\ rec.at = "writing"
        /\ rec.spent = old.spent /\ rec.seen = old.seen
    BY <2>1, MovesEffect
  <2> HIDE DEF rec
  <2>3. Turn(r, w, rec)
    BY <1>9, <2>1, <2>2 DEF Turn
  <2> QED
    BY <2>2, <2>3
<1>10. CASE WriteLedger(r, w)
  <2>1. Becomes(r, w, Rest) /\ old.at = "writing"
        /\ ledger' = old.seen + old.spent /\ booked' = booked + old.spent
    BY <1>10 DEF WriteLedger
  <2> QED
    BY <1>10, <2>1, RestIsSlot, BecomesEffect DEF Turn
<1> QED
  BY <1>1, <1>2, <1>3, <1>4, <1>5, <1>6, <1>7, <1>8, <1>9, <1>10 DEF WorkerStep

----------------------------------------------------------------------------
(* Types, and what a run and its workers agree on.                         *)

\* What TypeOK says of the runs and the counters.
RunsOK ==
    /\ object \in [Runs -> Runs]
    /\ stage \in [Runs -> Stages \cup {"off"}]
    /\ dry \in [Runs -> BOOLEAN]
    /\ queue \in [Runs -> 0 .. MaxDocuments]
    /\ fatal \in [Runs -> BOOLEAN]
    /\ aborted \in [Runs -> BOOLEAN]
    /\ raised \in [Runs -> SUBSET Fatal]
    /\ rejected \in [Runs -> BOOLEAN]

CountersOK ==
    /\ governor \in [Runs -> Nat]
    /\ ledger \in Nat /\ paid \in Nat /\ booked \in Nat
    /\ runPaid \in [Runs -> Nat]
    /\ raced \in BOOLEAN
    /\ callsLeft \in Nat /\ startsLeft \in Nat /\ faultsLeft \in Nat

LEMMA TypeParts == TypeOK <=> RunsOK /\ CountersOK /\ WorkOK
  BY DEF TypeOK, RunsOK, CountersOK, WorkOK, Slot

\* A run that is over has no work; a worker that has not paid has spent
\* nothing, one that calls has an attempt left, and only live runs book.
Calm ==
    /\ \A r \in Runs : object[r] \in {r, Scheduler}
    /\ \A r \in Runs : ~AtWork(r) => Idle(r) /\ queue[r] = 0
    /\ \A r \in Runs : \A w \in Workers[r] :
        /\ work[r][w].at \in {"idle", "gated", "open"} => work[r][w].spent = 0
        /\ work[r][w].at = "calling" => work[r][w].spent < Attempts(stage[r])
        /\ work[r][w].at \in {"booking", "read", "writing"} => ~dry[r]

Base == TypeOK /\ Calm

LEMMA AttemptsPositive == \A s : Attempts(s) \in Nat \ {0}
  BY SpendAssumption DEF Attempts

\* A run is alone in changing its stage, its queue and its kind.
LEMMA RunStepKeepsBase ==
    ASSUME Base, NEW r \in Runs,
           UNCHANGED <<object, work>>, TypeOK',
           \A q \in Runs : q # r =>
            stage'[q] = stage[q] /\ queue'[q] = queue[q] /\ dry'[q] = dry[q],
           Idle(r), stage'[r] = "off" => queue'[r] = 0
    PROVE  Base'
<1>1. \A q \in Runs : Idle(q)' <=> Idle(q)
  BY DEF Idle
<1>2. \A w \in Workers[r] : work[r][w].at = "idle"
  BY DEF Idle
<1>3. \A q \in Runs : ~AtWork(q)' => Idle(q)' /\ queue'[q] = 0
  BY <1>1 DEF Base, Calm, AtWork
<1> QED
  BY <1>2, <1>3 DEF Base, Calm

LEMMA WorkerStepKeepsTypes ==
    ASSUME Base, NEW r \in Runs, NEW w \in Workers[r], WorkerStep(r, w)
    PROVE  TypeOK'
<1>1. RunsOK /\ CountersOK /\ WorkOK
  BY TypeParts DEF Base
<1>2. PICK rec \in Slot : WorkOK' /\ OneMoved(r, w, rec) /\ Turn(r, w, rec)
  BY <1>1, WorkerTurns DEF CountersOK
<1>3. work[r][w] \in Slot /\ work[r][w].spent \in Nat /\ work[r][w].seen \in Nat
  BY <1>1 DEF WorkOK, Slot
<1>4. UNCHANGED <<object, stage, dry, fatal, aborted, rejected, raced, startsLeft>>
  BY DEF WorkerStep, TakeDocument, CheckPeriod, CheckRun, CallProvider, ProviderRaises, Applied,
     ApplyFails, ReadLedger, TruncateLedger, WriteLedger, OnlyWork
<1>5. RunsOK'
  <2>1. CASE UNCHANGED <<queue, raised>>
    BY <1>1, <1>4, <2>1 DEF RunsOK
  <2>2. CASE TakeDocument(r, w)
    <3>1. queue[r] \in 0 .. MaxDocuments /\ queue[r] > 0 /\ raised' = raised
          /\ queue' = [queue EXCEPT ![r] = @ - 1]
      BY <1>1, <2>2 DEF RunsOK, TakeDocument
    <3>2. queue[r] - 1 \in 0 .. MaxDocuments
      BY <3>1, SpendAssumption
    <3> QED
      BY <1>1, <1>4, <3>1, <3>2 DEF RunsOK
  <2>3. ASSUME NEW why, ProviderRaises(r, w, why)
        PROVE  RunsOK'
    BY <1>1, <1>4, <2>3 DEF RunsOK, ProviderRaises
  <2> QED
    BY <2>1, <2>2, <2>3 DEF WorkerStep, CheckPeriod, CheckRun, CallProvider, Applied, ApplyFails,
       ReadLedger, TruncateLedger, WriteLedger
<1>6. CountersOK'
  <2>1. CASE UNCHANGED <<governor, ledger, paid, booked, runPaid, callsLeft>>
             /\ faultsLeft' \in {faultsLeft, faultsLeft - 1} /\ (faultsLeft' # faultsLeft => faultsLeft > 0)
    BY <1>1, <1>4, <2>1 DEF CountersOK
  <2>2. ASSUME NEW valid \in BOOLEAN, CallProvider(r, w, valid)
        PROVE  CountersOK'
    <3>1. /\ governor' = governor \/ governor' = [governor EXCEPT ![r] = @ + (work[r][w].spent + 1)]
          /\ paid' \in {paid, paid + 1}
          /\ runPaid' = [runPaid EXCEPT ![r] = @ + 1]
          /\ callsLeft > 0 /\ callsLeft' = callsLeft - 1
          /\ UNCHANGED <<ledger, booked, faultsLeft>>
      BY <2>2 DEF CallProvider
    <3>2. governor' \in [Runs -> Nat]
      BY <1>1, <1>3, <3>1 DEF CountersOK
    <3>3. runPaid' \in [Runs -> Nat]
      BY <1>1, <3>1 DEF CountersOK
    <3>4. ledger' \in Nat /\ paid' \in Nat /\ booked' \in Nat /\ callsLeft' \in Nat
          /\ startsLeft' \in Nat /\ faultsLeft' \in Nat
      BY <1>1, <1>4, <3>1 DEF CountersOK
    <3>5. raced' \in BOOLEAN
      BY <1>1, <1>4 DEF CountersOK
    <3> QED
      BY <3>2, <3>3, <3>4, <3>5 DEF CountersOK
  <2>3. CASE TruncateLedger(r, w)
    BY <1>1, <1>4, <2>3 DEF CountersOK, TruncateLedger
  <2>4. CASE WriteLedger(r, w)
    BY <1>1, <1>3, <1>4, <2>4 DEF CountersOK, WriteLedger
  <2> QED
    BY <2>1, <2>2, <2>3, <2>4 DEF WorkerStep, TakeDocument, CheckPeriod, CheckRun, ProviderRaises,
       Applied, ApplyFails, ReadLedger
<1> QED
  BY <1>2, <1>5, <1>6 DEF TypeOK, RunsOK, CountersOK, WorkOK, Slot

LEMMA WorkerStepKeepsCalm ==
    ASSUME Base, NEW r \in Runs, NEW w \in Workers[r], WorkerStep(r, w)
    PROVE  Calm'
<1>1. RunsOK /\ CountersOK /\ WorkOK
  BY TypeParts DEF Base
<1>2. PICK rec \in Slot : WorkOK' /\ OneMoved(r, w, rec) /\ Turn(r, w, rec)
  BY <1>1, WorkerTurns DEF CountersOK
<1>3. work[r][w] \in Slot /\ work[r][w].spent \in Nat /\ rec.spent \in Nat
  BY <1>1 DEF WorkOK, Slot
<1>4. UNCHANGED <<object, stage, dry>>
  BY DEF WorkerStep, TakeDocument, CheckPeriod, CheckRun, CallProvider, ProviderRaises, Applied,
     ApplyFails, ReadLedger, TruncateLedger, WriteLedger, OnlyWork
<1>5. \A q \in Runs : queue'[q] = queue[q] \/ (q = r /\ queue[r] > 0)
  BY <1>1 DEF RunsOK, WorkerStep, TakeDocument, CheckPeriod, CheckRun, CallProvider, ProviderRaises,
     Applied, ApplyFails, ReadLedger, TruncateLedger, WriteLedger
<1>6. work[r][w].at # "idle" \/ queue[r] > 0
  BY <1>2 DEF Turn, TakeDocument
<1>7. AtWork(r)
  BY <1>6 DEF Base, Calm, Idle
<1>8. \A q \in Runs : ~AtWork(q)' => Idle(q)' /\ queue'[q] = 0
  <2> SUFFICES ASSUME NEW q \in Runs, ~AtWork(q)'
               PROVE  Idle(q)' /\ queue'[q] = 0
    OBVIOUS
  <2>1. q # r /\ ~AtWork(q)
    BY <1>4, <1>7 DEF AtWork
  <2>2. Idle(q) /\ queue[q] = 0
    BY <2>1 DEF Base, Calm
  <2> QED
    BY <1>2, <1>5, <2>1, <2>2 DEF Idle, OneMoved
<1>9. /\ rec.at \in {"idle", "gated", "open"} => rec.spent = 0
      /\ rec.at = "calling" => rec.spent < Attempts(stage[r])
      /\ rec.at \in {"booking", "read", "writing"} => ~dry[r]
  <2>0. /\ work[r][w].at \in {"idle", "gated", "open"} => work[r][w].spent = 0
        /\ work[r][w].at = "calling" => work[r][w].spent < Attempts(stage[r])
        /\ work[r][w].at \in {"booking", "read", "writing"} => ~dry[r]
        /\ Attempts(stage[r]) \in Nat \ {0}
    BY AttemptsPositive DEF Base, Calm
  <2> QED
    BY <1>2, <1>3, <2>0, RestIsSlot DEF Turn
<1>10. \A q \in Runs : \A v \in Workers[q] :
        /\ work'[q][v].at \in {"idle", "gated", "open"} => work'[q][v].spent = 0
        /\ work'[q][v].at = "calling" => work'[q][v].spent < Attempts(stage'[q])
        /\ work'[q][v].at \in {"booking", "read", "writing"} => ~dry'[q]
  <2> SUFFICES ASSUME NEW q \in Runs, NEW v \in Workers[q]
        PROVE /\ work'[q][v].at \in {"idle", "gated", "open"} => work'[q][v].spent = 0
              /\ work'[q][v].at = "calling" => work'[q][v].spent < Attempts(stage'[q])
              /\ work'[q][v].at \in {"booking", "read", "writing"} => ~dry'[q]
    OBVIOUS
  <2>1. CASE work'[q][v] = work[q][v]
    BY <1>4, <2>1 DEF Base, Calm
  <2>2. CASE q = r /\ v = w
    BY <1>2, <1>4, <1>9, <2>2 DEF OneMoved
  <2> QED
    BY <1>2, <2>1, <2>2 DEF OneMoved
<1> QED
  BY <1>4, <1>8, <1>10 DEF Base, Calm

LEMMA RunsStepKeepsTypes ==
    ASSUME Base, RunsOK', CountersOK', UNCHANGED work
    PROVE  TypeOK'
  BY DEF Base, TypeOK, RunsOK, CountersOK

LEMMA QueuesInBound == \A r \in Runs : Queues(r) \subseteq 0 .. MaxDocuments
  BY SpendAssumption DEF Queues

LEMMA LeaveStageKeepsBase ==
    ASSUME Base, NEW r \in Runs, NEW to \in Stages \cup {"off"}, NEW n \in 0 .. MaxDocuments,
           LeaveStage(r, to, n), dry' \in [Runs -> BOOLEAN], runPaid' \in [Runs -> Nat],
           rejected' \in [Runs -> BOOLEAN],
           \A q \in Runs : q # r => dry'[q] = dry[q], to = "off" => n = 0
    PROVE  Base'
<1>1. RunsOK /\ CountersOK
  BY TypeParts DEF Base
<1>2. RunsOK'
  BY <1>1 DEF RunsOK, LeaveStage
<1>3. CountersOK'
  BY <1>1 DEF CountersOK, LeaveStage
<1>4. TypeOK'
  BY <1>2, <1>3, RunsStepKeepsTypes DEF LeaveStage
<1>5. \A q \in Runs : q # r => stage'[q] = stage[q] /\ queue'[q] = queue[q]
  BY <1>1 DEF RunsOK, LeaveStage
<1>6. stage'[r] = to /\ queue'[r] = n
  BY <1>1 DEF RunsOK, LeaveStage
<1> QED
  BY <1>4, <1>5, <1>6, RunStepKeepsBase DEF LeaveStage

LEMMA CrashKeepsBase ==
    ASSUME Base, NEW o \in Runs, Crash(o)
    PROVE  Base'
<1>1. RunsOK /\ CountersOK /\ WorkOK
  BY TypeParts DEF Base
<1>2. RunsOK'
  <2>1. /\ object' = object
        /\ stage' = [r \in Runs |-> IF object[r] = o THEN "off" ELSE stage[r]]
        /\ dry' = [r \in Runs |-> IF object[r] = o THEN FALSE ELSE dry[r]]
        /\ queue' = [r \in Runs |-> IF object[r] = o THEN 0 ELSE queue[r]]
        /\ fatal' = [fatal EXCEPT ![o] = FALSE]
        /\ aborted' = [r \in Runs |-> IF object[r] = o THEN FALSE ELSE aborted[r]]
        /\ raised' = [r \in Runs |-> IF object[r] = o THEN {} ELSE raised[r]]
        /\ rejected' = [r \in Runs |-> IF object[r] = o THEN FALSE ELSE rejected[r]]
    BY DEF Crash
  <2>2. stage' \in [Runs -> Stages \cup {"off"}] /\ raised' \in [Runs -> SUBSET Fatal]
    BY <1>1, <2>1 DEF RunsOK
  <2>3. queue' \in [Runs -> 0 .. MaxDocuments]
    BY <1>1, <2>1, SpendAssumption DEF RunsOK
  <2>4. dry' \in [Runs -> BOOLEAN] /\ aborted' \in [Runs -> BOOLEAN]
        /\ rejected' \in [Runs -> BOOLEAN]
    BY <1>1, <2>1 DEF RunsOK
  <2>5. fatal' \in [Runs -> BOOLEAN] /\ object' \in [Runs -> Runs]
    BY <1>1, <2>1 DEF RunsOK
  <2> QED
    BY <2>2, <2>3, <2>4, <2>5 DEF RunsOK
<1>3. raced' \in BOOLEAN
  BY DEF Crash
<1>4. CountersOK'
  BY <1>1, <1>3 DEF CountersOK, Crash
<1>5. \A r \in Runs : Resting(r) \in [Workers[r] -> Slot]
  BY RestIsSlot DEF Resting
<1>6. \A r \in Runs : work'[r] = IF object[r] = o THEN Resting(r) ELSE work[r]
  BY DEF Crash
<1>7. WorkOK'
  BY <1>1, <1>5, <1>6 DEF WorkOK, Crash
<1>8. TypeOK'
  BY <1>2, <1>4, <1>7 DEF TypeOK, RunsOK, CountersOK, WorkOK, Slot
<1>9. \A r \in Runs :
        IF object[r] = o
        THEN stage'[r] = "off" /\ queue'[r] = 0 /\ \A w \in Workers[r] : work'[r][w] = Rest
        ELSE stage'[r] = stage[r] /\ queue'[r] = queue[r] /\ dry'[r] = dry[r] /\ work'[r] = work[r]
  BY <1>6 DEF Crash, Resting
<1>10. object' = object
  BY DEF Crash
<1>11. \A r \in Runs : ~AtWork(r)' => Idle(r)' /\ queue'[r] = 0
  BY <1>9, RestIsSlot DEF Base, Calm, AtWork, Idle
<1>12. \A q \in Runs : \A v \in Workers[q] :
        /\ work'[q][v].at \in {"idle", "gated", "open"} => work'[q][v].spent = 0
        /\ work'[q][v].at = "calling" => work'[q][v].spent < Attempts(stage'[q])
        /\ work'[q][v].at \in {"booking", "read", "writing"} => ~dry'[q]
  BY <1>9, RestIsSlot DEF Base, Calm
<1> QED
  BY <1>8, <1>10, <1>11, <1>12 DEF Base, Calm

LEMMA NextKeepsBase ==
    ASSUME Base, [Next]_vars
    PROVE  Base'
<1>0. RunsOK /\ CountersOK
  BY TypeParts DEF Base
<1>1. CASE UNCHANGED vars
  <2>1. TypeOK'
    BY <1>1 DEF vars, Base, TypeOK
  <2>2. Calm'
    BY <1>1 DEF vars, Base, Calm, AtWork, Idle
  <2> QED
    BY <2>1, <2>2 DEF Base
<1>2. ASSUME NEW r \in Runs, NEW w \in Workers[r], WorkerStep(r, w)
      PROVE  Base'
  BY <1>2, WorkerStepKeepsTypes, WorkerStepKeepsCalm DEF Base
<1>3. ASSUME NEW r \in Runs, NEW d \in BOOLEAN, NEW n \in Queues(r), StartRun(r, d, n)
      PROVE  Base'
  <2>1. n \in 0 .. MaxDocuments
    BY QueuesInBound
  <2>2. RunsOK'
    BY <1>0, <1>3, <2>1 DEF RunsOK, StartRun, Stages
  <2>3. raced' \in BOOLEAN
    BY <1>3 DEF StartRun
  <2>4. CountersOK'
    BY <1>0, <1>3, <2>3 DEF CountersOK, StartRun
  <2>5. TypeOK'
    BY <1>3, <2>2, <2>4, RunsStepKeepsTypes DEF StartRun
  <2>6. \A q \in Runs : q # r =>
            stage'[q] = stage[q] /\ queue'[q] = queue[q] /\ dry'[q] = dry[q]
    BY <1>0, <1>3 DEF RunsOK, StartRun
  <2>7. stage'[r] = "reocr" /\ Idle(r)
    BY <1>0, <1>3 DEF RunsOK, StartRun, Base, Calm
  <2> QED
    BY <1>3, <2>5, <2>6, <2>7, RunStepKeepsBase DEF StartRun
<1>4. ASSUME NEW r \in Runs, NEW n \in Queues(r), NextStage(r, n)
      PROVE  Base'
  <2>1. n \in 0 .. MaxDocuments /\ "metadata" \in Stages \cup {"off"}
    BY QueuesInBound DEF Stages
  <2>2. LeaveStage(r, "metadata", n) /\ UNCHANGED <<dry, runPaid, rejected>>
    BY <1>4 DEF NextStage
  <2> QED
    BY <1>0, <2>1, <2>2, LeaveStageKeepsBase DEF RunsOK, CountersOK
<1>5. ASSUME NEW r \in Runs, EndRun(r)
      PROVE  Base'
  <2>1. /\ LeaveStage(r, "off", 0) /\ "off" \in Stages \cup {"off"} /\ 0 \in 0 .. MaxDocuments
        /\ dry' \in [Runs -> BOOLEAN] /\ runPaid' \in [Runs -> Nat]
        /\ rejected' \in [Runs -> BOOLEAN]
        /\ \A q \in Runs : q # r => dry'[q] = dry[q]
    BY <1>0, <1>5, SpendAssumption DEF EndRun, RunsOK, CountersOK
  <2> QED
    BY <2>1, LeaveStageKeepsBase
<1>6. ASSUME NEW r \in Runs, NEW why \in Fatal, NoteFatal(r, why)
      PROVE  Base'
  <2>1. /\ raised' = [raised EXCEPT ![r] = @ \ {why}]
        /\ aborted' = [aborted EXCEPT ![r] = TRUE]
        /\ UNCHANGED <<object, stage, dry, queue, work>>
        /\ CountersOK'
    BY <1>0, <1>6 DEF NoteFatal, CountersOK
  <2>2. fatal' \in [Runs -> BOOLEAN] /\ rejected' \in [Runs -> BOOLEAN]
    <3> DEFINE latches == ~aborted[r] /\ why = "account"
    <3>1. /\ fatal' = [fatal EXCEPT ![object[r]] = @ \/ latches]
          /\ rejected' = [rejected EXCEPT ![r] = @ \/ (latches /\ ~Nudge(r))]
      BY <1>6 DEF NoteFatal
    <3>2. (fatal[object[r]] \/ latches) \in BOOLEAN
          /\ (rejected[r] \/ (latches /\ ~Nudge(r))) \in BOOLEAN
      OBVIOUS
    <3> HIDE DEF latches
    <3> QED
      BY <1>0, <3>1, <3>2 DEF RunsOK
  <2>3. RunsOK'
    BY <1>0, <2>1, <2>2 DEF RunsOK
  <2>4. TypeOK'
    BY <2>1, <2>3, RunsStepKeepsTypes
  <2>5. Calm'
    BY <2>1 DEF Base, Calm, AtWork, Idle
  <2> QED
    BY <2>4, <2>5 DEF Base
<1> QED
  BY <1>1, <1>2, <1>3, <1>4, <1>5, <1>6, CrashKeepsBase DEF Next, RunStep

LEMMA BaseAlways == Spec => []Base
<1>1. Init => Base
  <2> SUFFICES ASSUME Init PROVE Base
    OBVIOUS
  <2>1. \A r \in Runs : Resting(r) \in [Workers[r] -> Slot]
                       /\ \A w \in Workers[r] : Resting(r)[w] = Rest
    BY RestIsSlot DEF Resting
  <2>2. WorkOK
    BY <2>1 DEF Init, WorkOK
  <2>3. RunsOK
    BY SpendAssumption DEF Init, RunsOK, Stages
  <2>4. CountersOK
    BY SpendAssumption DEF Init, CountersOK
  <2>5. Calm
    BY <2>1, RestIsSlot DEF Init, Calm, Idle
  <2> QED
    BY <2>2, <2>3, <2>4, <2>5, TypeParts DEF Base
<1>2. Base /\ [Next]_vars => Base'
  BY NextKeepsBase
<1> QED
  BY <1>1, <1>2, PTL DEF Spec

\* Type correctness of the runs, the workers, the governors and the ledger.
THEOREM TypeCorrect == Spec => []TypeOK
<1>1. Base => TypeOK
  BY DEF Base
<1> QED
  BY <1>1, BaseAlways, PTL

----------------------------------------------------------------------------
(* An account-level error stops the run.                                   *)

\* A run that has latched an account-level error is at work on the sweep's
\* own Sweep object, and both the abort event and the latch still say so.
Latched ==
    \A r \in Runs :
        /\ raised[r] # {} => AtWork(r)
        /\ rejected[r] => AtWork(r) /\ aborted[r] /\ fatal[r] /\ ~Nudge(r)

LEMMA WorkerStepKeepsLatched ==
    ASSUME Base, Latched, NEW r \in Runs, NEW w \in Workers[r], WorkerStep(r, w)
    PROVE  Latched'
<1>1. UNCHANGED <<object, stage, fatal, aborted, rejected>>
  BY DEF WorkerStep, TakeDocument, CheckPeriod, CheckRun, CallProvider, ProviderRaises, Applied,
     ApplyFails, ReadLedger, TruncateLedger, WriteLedger, OnlyWork
<1>2. CASE UNCHANGED raised
  BY <1>1, <1>2 DEF Latched, AtWork, Nudge
<1>3. CASE \E why \in {{"other"}, {"config"}, {"account"}} : ProviderRaises(r, w, why)
  <2>1. AtWork(r)
    BY <1>3 DEF ProviderRaises, Base, Calm, Idle
  <2>2. \A q \in Runs : q # r => raised'[q] = raised[q]
    BY <1>3, TypeParts DEF ProviderRaises, Base, RunsOK
  <2> QED
    BY <1>1, <2>1, <2>2 DEF Latched, AtWork, Nudge
<1> QED
  BY <1>2, <1>3 DEF WorkerStep, TakeDocument, CheckPeriod, CheckRun, CallProvider, Applied,
     ApplyFails, ReadLedger, TruncateLedger, WriteLedger

LEMMA NextKeepsLatched ==
    ASSUME Base, Latched, [Next]_vars
    PROVE  Latched'
<1>0. RunsOK /\ \A r \in Runs : object[r] \in Runs
  BY TypeParts DEF Base, RunsOK
<1>1. CASE UNCHANGED vars
  BY <1>1 DEF vars, Latched, AtWork, Nudge
<1>2. ASSUME NEW r \in Runs, NEW d \in BOOLEAN, NEW n \in Queues(r), StartRun(r, d, n)
      PROVE  Latched'
  <2>1. ~AtWork(r) /\ stage'[r] = "reocr" /\ UNCHANGED <<object, raised, rejected, aborted>>
    BY <1>0, <1>2 DEF StartRun, RunsOK
  <2>2. \A q \in Runs : q # r => stage'[q] = stage[q] /\ fatal'[q] = fatal[q]
    BY <1>0, <1>2 DEF StartRun, RunsOK
  <2> QED
    BY <2>1, <2>2 DEF Latched, AtWork, Nudge
<1>3. ASSUME NEW r \in Runs, NEW n \in Queues(r), NextStage(r, n)
      PROVE  Latched'
  <2>1. /\ stage' = [stage EXCEPT ![r] = "metadata"]
        /\ aborted' = [aborted EXCEPT ![r] = FALSE]
        /\ raised[r] = {} /\ (Nudge(r) \/ ~fatal[r])
        /\ UNCHANGED <<object, fatal, raised, rejected>>
    BY <1>3 DEF NextStage, LeaveStage
  <2>2. ~rejected[r] /\ stage'[r] = "metadata"
    BY <1>0, <2>1 DEF Latched, RunsOK
  <2>3. \A q \in Runs : q # r => stage'[q] = stage[q] /\ aborted'[q] = aborted[q]
    BY <1>0, <2>1 DEF RunsOK
  <2> QED
    BY <2>1, <2>2, <2>3 DEF Latched, AtWork, Nudge
<1>4. ASSUME NEW r \in Runs, EndRun(r)
      PROVE  Latched'
  <2>1. /\ raised[r] = {} /\ UNCHANGED <<object, fatal, raised>>
        /\ ~rejected'[r]
        /\ \A q \in Runs : q # r =>
            stage'[q] = stage[q] /\ aborted'[q] = aborted[q] /\ rejected'[q] = rejected[q]
    BY <1>0, <1>4 DEF EndRun, LeaveStage, RunsOK
  <2> QED
    BY <2>1 DEF Latched, AtWork, Nudge
<1>5. ASSUME NEW r \in Runs, NEW why \in Fatal, NoteFatal(r, why)
      PROVE  Latched'
  <2>1. /\ UNCHANGED <<object, stage>> /\ why \in raised[r]
        /\ raised' = [raised EXCEPT ![r] = @ \ {why}]
        /\ aborted' = [aborted EXCEPT ![r] = TRUE]
    BY <1>5 DEF NoteFatal
  <2>2. AtWork(r) /\ aborted'[r] /\ \A q \in Runs : raised'[q] \subseteq raised[q]
    BY <1>0, <2>1 DEF Latched, RunsOK
  <2> DEFINE latches == ~aborted[r] /\ why = "account"
  <2>3. /\ fatal' = [fatal EXCEPT ![object[r]] = @ \/ latches]
        /\ rejected' = [rejected EXCEPT ![r] = @ \/ (latches /\ ~Nudge(r))]
    BY <1>5 DEF NoteFatal
  <2> HIDE DEF latches
  <2>4. \A q \in Runs : fatal[q] => fatal'[q]
    BY <1>0, <2>3 DEF RunsOK
  <2>5. rejected'[r] => rejected[r] \/ (latches /\ ~Nudge(r))
    BY <1>0, <2>3 DEF RunsOK
  <2>6. latches /\ ~Nudge(r) => fatal'[r]
    BY <1>0, <2>3 DEF RunsOK, Nudge
  <2>7. \A q \in Runs : q # r => aborted'[q] = aborted[q] /\ rejected'[q] = rejected[q]
    BY <1>0, <2>1, <2>3 DEF RunsOK
  <2> QED
    BY <2>1, <2>2, <2>4, <2>5, <2>6, <2>7 DEF Latched, AtWork, Nudge
<1>6. ASSUME NEW o \in Runs, Crash(o)
      PROVE  Latched'
  <2>1. \A r \in Runs :
        IF object[r] = o
        THEN raised'[r] = {} /\ ~rejected'[r]
        ELSE /\ stage'[r] = stage[r] /\ raised'[r] = raised[r]
             /\ aborted'[r] = aborted[r] /\ rejected'[r] = rejected[r]
    BY <1>6 DEF Crash
  <2>2. object' = object /\ \A r \in Runs : r # o => fatal'[r] = fatal[r]
    BY <1>0, <1>6 DEF Crash, RunsOK
  <2> QED
    BY <2>1, <2>2 DEF Latched, AtWork, Nudge
<1> QED
  BY <1>1, <1>2, <1>3, <1>4, <1>5, <1>6, WorkerStepKeepsLatched DEF Next, RunStep

\* A worker leaves "idle" only where the abort event is not set.
LEMMA AbortedStaysIdle ==
    ASSUME Base, NEW r \in Runs, NEW w \in Workers[r], work[r][w].at = "idle", aborted[r],
           [Next]_vars
    PROVE  work'[r][w].at = "idle"
<1>0. RunsOK /\ CountersOK /\ WorkOK
  BY TypeParts DEF Base
<1>1. CASE UNCHANGED work
  BY <1>1
<1>2. ASSUME NEW q \in Runs, NEW v \in Workers[q], WorkerStep(q, v)
      PROVE  work'[r][w].at = "idle"
  <2>1. PICK rec \in Slot : OneMoved(q, v, rec) /\ Turn(q, v, rec)
    BY <1>0, <1>2, WorkerTurns DEF CountersOK
  <2>2. CASE q = r /\ v = w
    BY <2>1, <2>2 DEF Turn, OneMoved
  <2>3. CASE work'[r][w] = work[r][w]
    BY <2>3
  <2> QED
    BY <2>1, <2>2, <2>3 DEF OneMoved
<1>3. ASSUME NEW o \in Runs, Crash(o)
      PROVE  work'[r][w].at = "idle"
  BY <1>3, RestIsSlot DEF Crash, Resting
<1> QED
  BY <1>1, <1>2, <1>3 DEF Next, RunStep, StartRun, NextStage, EndRun, LeaveStage, NoteFatal, vars

\* Once a sweep knows that the provider rejects the account, none of its
\* workers begins another document (sweep.py: the abort event and the fatal
\* latch that run_once reads between the stages).
THEOREM FatalStops == Spec => FatalStopsTheRun
<1>1. Init => Latched
  BY DEF Init, Latched
<1>2. Base /\ Latched /\ [Next]_vars => Latched'
  BY NextKeepsLatched
<1>3. Base /\ Latched /\ [Next]_vars =>
        [\A r \in Runs : rejected[r] =>
            \A w \in Workers[r] : work[r][w].at = "idle" => work'[r][w].at = "idle"]_vars
  BY AbortedStaysIdle DEF Latched
<1> QED
  BY <1>1, <1>2, <1>3, BaseAlways, PTL DEF Spec, FatalStopsTheRun

----------------------------------------------------------------------------
(* How far a stage overshoots the cap of its run.                          *)

\* The workers of a run that are past the last look at the governor.
Calling(r) == {w \in Workers[r] : work[r][w].at = "calling"}

\* Every one of them may still add the cost of one document.
Reserved ==
    PerRun > 0 => \A r \in Runs :
        governor[r] + Cardinality(Calling(r)) * MaxAttempts
            <= PerRun - 1 + Cardinality(Workers[r]) * MaxAttempts

LEMMA CallingFinite ==
    ASSUME NEW r \in Runs, NEW C \in SUBSET Workers[r]
    PROVE  /\ IsFiniteSet(C) /\ Cardinality(C) \in Nat /\ Cardinality(Workers[r]) \in Nat
           /\ Cardinality(C) <= Cardinality(Workers[r])
  BY SpendAssumption, FS_Subset, FS_CardinalityType

LEMMA ProductsGrow ==
    ASSUME NEW m \in Nat, NEW n \in Nat, m <= n
    PROVE  /\ m * MaxAttempts \in Nat /\ n * MaxAttempts \in Nat
           /\ m * MaxAttempts <= n * MaxAttempts
           /\ (n + 1) * MaxAttempts = n * MaxAttempts + MaxAttempts
  BY SpendAssumption

\* What a run has reserved does not grow when it charges nothing and no
\* worker begins to call.
LEMMA ReservedShrinks ==
    ASSUME NEW r \in Runs, NEW before \in Nat, NEW after \in Nat, after <= before,
           NEW C \in SUBSET Workers[r], NEW D \in SUBSET C,
           before + Cardinality(C) * MaxAttempts
               <= PerRun - 1 + Cardinality(Workers[r]) * MaxAttempts
    PROVE  after + Cardinality(D) * MaxAttempts
               <= PerRun - 1 + Cardinality(Workers[r]) * MaxAttempts
<1>1. /\ IsFiniteSet(C) /\ Cardinality(C) \in Nat /\ Cardinality(D) \in Nat
      /\ Cardinality(D) <= Cardinality(C) /\ Cardinality(Workers[r]) \in Nat
  BY CallingFinite, FS_Subset
<1> DEFINE c == Cardinality(C) * MaxAttempts
           d == Cardinality(D) * MaxAttempts
           n == Cardinality(Workers[r]) * MaxAttempts
<1>2. c \in Nat /\ d \in Nat /\ d <= c /\ n \in Nat
  BY <1>1, ProductsGrow
<1>3. before + c <= PerRun - 1 + n
  OBVIOUS
<1> HIDE DEF c, d, n
<1>4. after + d <= PerRun - 1 + n
  BY <1>2, <1>3, SpendAssumption
<1> QED
  BY <1>4 DEF d, n

\* A run that is under its cap may send all its workers.
LEMMA ReservedUnderCap ==
    ASSUME NEW r \in Runs, NEW charged \in Nat, charged < PerRun, NEW C \in SUBSET Workers[r]
    PROVE  charged + Cardinality(C) * MaxAttempts
               <= PerRun - 1 + Cardinality(Workers[r]) * MaxAttempts
<1>1. /\ Cardinality(C) \in Nat /\ Cardinality(Workers[r]) \in Nat
      /\ Cardinality(C) <= Cardinality(Workers[r])
  BY CallingFinite
<1> DEFINE c == Cardinality(C) * MaxAttempts
           n == Cardinality(Workers[r]) * MaxAttempts
<1>2. c \in Nat /\ c <= n /\ n \in Nat
  BY <1>1, ProductsGrow
<1> HIDE DEF c, n
<1>3. charged + c <= PerRun - 1 + n
  BY <1>2, SpendAssumption
<1> QED
  BY <1>3 DEF c, n

\* A worker that is done with its calls charges what it had reserved.
LEMMA ReservedCharged ==
    ASSUME NEW r \in Runs, NEW before \in Nat, NEW cost \in Nat, cost <= MaxAttempts,
           NEW C \in SUBSET Workers[r], NEW w \in C, NEW D \in SUBSET (C \ {w}),
           before + Cardinality(C) * MaxAttempts
               <= PerRun - 1 + Cardinality(Workers[r]) * MaxAttempts
    PROVE  before + cost + Cardinality(D) * MaxAttempts
               <= PerRun - 1 + Cardinality(Workers[r]) * MaxAttempts
<1>1. IsFiniteSet(C) /\ Cardinality(C) \in Nat /\ Cardinality(Workers[r]) \in Nat
  BY CallingFinite
<1>2. IsFiniteSet(C \ {w}) /\ Cardinality(C \ {w}) = Cardinality(C) - 1
  BY <1>1, FS_RemoveElement
<1>3. Cardinality(C \ {w}) \in Nat
  BY <1>2, FS_CardinalityType
<1>4. Cardinality(D) \in Nat /\ Cardinality(D) <= Cardinality(C \ {w})
  BY <1>2, FS_Subset, FS_CardinalityType
<1> DEFINE c == Cardinality(C) * MaxAttempts
           d == Cardinality(D) * MaxAttempts
           n == Cardinality(Workers[r]) * MaxAttempts
<1>5. c \in Nat /\ d \in Nat /\ d + MaxAttempts <= c /\ n \in Nat
  <2> DEFINE k == Cardinality(C \ {w})
  <2>1. k \in Nat /\ Cardinality(C) = k + 1 /\ Cardinality(D) <= k
    BY <1>1, <1>2, <1>3, <1>4
  <2> HIDE DEF k
  <2>2. (k + 1) * MaxAttempts = k * MaxAttempts + MaxAttempts
        /\ Cardinality(D) * MaxAttempts <= k * MaxAttempts
        /\ k * MaxAttempts \in Nat /\ Cardinality(D) * MaxAttempts \in Nat
    BY <1>4, <2>1, ProductsGrow
  <2>3. n \in Nat
    BY <1>1, ProductsGrow
  <2> QED
    BY <2>1, <2>2, <2>3, SpendAssumption
<1>6. before + c <= PerRun - 1 + n
  OBVIOUS
<1> HIDE DEF c, d, n
<1>7. before + cost + d <= PerRun - 1 + n
  BY <1>5, <1>6, SpendAssumption
<1> QED
  BY <1>7 DEF d, n

LEMMA WorkerStepKeepsReserved ==
    ASSUME Base, Reserved, NEW r \in Runs, NEW w \in Workers[r], WorkerStep(r, w)
    PROVE  Reserved'
<1> SUFFICES ASSUME PerRun > 0, NEW q \in Runs
             PROVE  governor'[q] + Cardinality(Calling(q)') * MaxAttempts
                        <= PerRun - 1 + Cardinality(Workers[q]) * MaxAttempts
  BY DEF Reserved
<1>0. RunsOK /\ CountersOK /\ WorkOK
  BY TypeParts DEF Base
<1>1. PICK rec \in Slot : WorkOK' /\ OneMoved(r, w, rec) /\ Turn(r, w, rec)
  BY <1>0, WorkerTurns DEF CountersOK
<1>2. governor[q] \in Nat /\ governor[r] \in Nat /\ Calling(q) \in SUBSET Workers[q]
      /\ Calling(q)' \in SUBSET Workers[q]
  BY <1>0 DEF CountersOK, Calling
<1>3. governor[q] + Cardinality(Calling(q)) * MaxAttempts
          <= PerRun - 1 + Cardinality(Workers[q]) * MaxAttempts
  BY DEF Reserved
<1>4. \A v \in Workers[q] : v \in Calling(q)' =>
          v \in Calling(q) \/ (q = r /\ v = w /\ rec.at = "calling")
  BY <1>1 DEF OneMoved, Calling
<1>5. CASE governor'[q] = governor[q] /\ Calling(q)' \subseteq Calling(q)
  BY <1>2, <1>3, <1>5, ReservedShrinks
<1>6. CASE governor' = governor /\ ~(Calling(q)' \subseteq Calling(q))
  <2>1. q = r /\ rec.at = "calling" /\ work[r][w].at # "calling"
    BY <1>4, <1>6 DEF Calling
  <2>2. UnderRunCap(r)
    BY <1>1, <2>1, RestIsSlot DEF Turn
  <2>3. governor'[q] < PerRun
    BY <1>6, <2>1, <2>2 DEF UnderRunCap
  <2> QED
    BY <1>2, <1>6, <2>3, ReservedUnderCap
<1>7. ASSUME NEW valid \in BOOLEAN, CallProvider(r, w, valid), governor' # governor
      PROVE  governor'[q] + Cardinality(Calling(q)') * MaxAttempts
                 <= PerRun - 1 + Cardinality(Workers[q]) * MaxAttempts
  <2> DEFINE cost == work[r][w].spent + 1
  <2>1. work[r][w].at = "calling" /\ cost \in Nat /\ cost <= MaxAttempts
    <3>1. work[r][w].spent \in Nat /\ work[r][w].at = "calling"
      BY <1>0, <1>7 DEF WorkOK, Slot, CallProvider
    <3>2. work[r][w].spent < Attempts(stage[r])
      BY <3>1 DEF Base, Calm
    <3> QED
      BY <3>1, <3>2, SpendAssumption DEF Attempts
  <2>2. governor' = [governor EXCEPT ![r] = @ + cost] /\ rec.at # "calling"
    <3>1. CASE CallProvider(r, w, valid) /\ governor' = [governor EXCEPT ![r] = @ + cost]
      <4>1. rec = IF valid THEN [at |-> "answered", spent |-> cost, seen |-> 0] ELSE Rest
        <5>1. valid \/ cost = Attempts(stage[r])
          BY <1>7 DEF CallProvider
        <5>2. Becomes(r, w, IF valid THEN [at |-> "answered", spent |-> cost, seen |-> 0] ELSE Rest)
          BY <1>7, <5>1 DEF CallProvider
        <5> QED
          BY <1>0, <1>1, <5>2 DEF Becomes, WorkOK, OneMoved
      <4> QED
        BY <3>1, <4>1, RestIsSlot
    <3> QED
      BY <1>7, <3>1 DEF CallProvider
  <2>3. CASE q = r
    <3>1. governor'[q] = governor[q] + cost
      BY <1>0, <2>2, <2>3 DEF CountersOK
    <3>2. w \in Calling(q) /\ Calling(q)' \in SUBSET (Calling(q) \ {w})
      BY <1>1, <1>4, <2>1, <2>2, <2>3 DEF Calling, OneMoved
    <3> HIDE DEF cost
    <3> QED
      BY <1>2, <1>3, <2>1, <3>1, <3>2, ReservedCharged
  <2>4. CASE q # r
    <3>1. governor'[q] = governor[q] /\ Calling(q)' \subseteq Calling(q)
      BY <1>0, <1>2, <1>4, <2>2, <2>4 DEF CountersOK
    <3> QED
      BY <1>2, <1>3, <3>1, ReservedShrinks
  <2> QED
    BY <2>3, <2>4
<1>8. governor' = governor \/ \E valid \in BOOLEAN : CallProvider(r, w, valid)
  BY DEF WorkerStep, TakeDocument, CheckPeriod, CheckRun, ProviderRaises, Applied,
     ApplyFails, ReadLedger, TruncateLedger, WriteLedger
<1> QED
  BY <1>5, <1>6, <1>7, <1>8

LEMMA NextKeepsReserved ==
    ASSUME Base, Reserved, [Next]_vars
    PROVE  Reserved'
<1>0. RunsOK /\ CountersOK
  BY TypeParts DEF Base
<1>1. ASSUME \A q \in Runs : /\ governor'[q] \in {governor[q], 0}
                             /\ Calling(q)' \subseteq Calling(q)
      PROVE  Reserved'
  <2> SUFFICES ASSUME PerRun > 0, NEW q \in Runs
               PROVE  governor'[q] + Cardinality(Calling(q)') * MaxAttempts
                          <= PerRun - 1 + Cardinality(Workers[q]) * MaxAttempts
    BY DEF Reserved
  <2>1. governor[q] \in Nat /\ governor'[q] \in Nat /\ governor'[q] <= governor[q]
        /\ Calling(q) \in SUBSET Workers[q]
    BY <1>0, <1>1 DEF CountersOK, Calling
  <2>2. governor[q] + Cardinality(Calling(q)) * MaxAttempts
            <= PerRun - 1 + Cardinality(Workers[q]) * MaxAttempts
    BY DEF Reserved
  <2> QED
    BY <1>1, <2>1, <2>2, ReservedShrinks
<1>2. CASE UNCHANGED <<governor, work>>
  BY <1>1, <1>2 DEF Calling
<1>3. ASSUME NEW r \in Runs, NEW to, NEW n, LeaveStage(r, to, n)
      PROVE  Reserved'
  BY <1>0, <1>1, <1>3 DEF LeaveStage, Calling, CountersOK
<1>4. ASSUME NEW o \in Runs, Crash(o)
      PROVE  Reserved'
  <2>1. \A q \in Runs :
        IF object[q] = o THEN governor'[q] = 0 /\ work'[q] = Resting(q)
                         ELSE governor'[q] = governor[q] /\ work'[q] = work[q]
    BY <1>4 DEF Crash
  <2>2. \A q \in Runs : \A w \in Workers[q] : Resting(q)[w].at = "idle"
    BY RestIsSlot DEF Resting
  <2> QED
    BY <1>1, <2>1, <2>2 DEF Calling
<1> QED
  BY <1>2, <1>3, <1>4, WorkerStepKeepsReserved
     DEF Next, RunStep, StartRun, NextStage, EndRun, NoteFatal, vars

\* A stage overshoots the cap of its run by no more than one document of
\* each worker (spend.py: check before, add after).
THEOREM Overshoot == Spec => []OvershootBounded
<1>1. Init => Reserved
  <2> SUFFICES ASSUME Init, PerRun > 0, NEW r \in Runs
               PROVE  governor[r] + Cardinality(Calling(r)) * MaxAttempts
                          <= PerRun - 1 + Cardinality(Workers[r]) * MaxAttempts
    BY DEF Reserved
  <2>1. governor[r] = 0 /\ Calling(r) \in SUBSET Workers[r]
    BY DEF Init, Calling
  <2> QED
    BY <2>1, ReservedUnderCap, SpendAssumption
<1>2. Base /\ Reserved /\ [Next]_vars => Reserved'
  BY NextKeepsReserved
<1>3. Base /\ Reserved => OvershootBounded
  <2> SUFFICES ASSUME Base, Reserved, PerRun > 0, NEW r \in Runs
               PROVE  governor[r] <= PerRun - 1 + Cardinality(Workers[r]) * MaxAttempts
    BY DEF OvershootBounded
  <2>1. governor[r] \in Nat /\ Calling(r) \in SUBSET Workers[r]
    BY TypeParts DEF Base, CountersOK, Calling
  <2> DEFINE c == Cardinality(Calling(r)) * MaxAttempts
             n == Cardinality(Workers[r]) * MaxAttempts
  <2>2. c \in Nat /\ n \in Nat
    BY <2>1, CallingFinite, ProductsGrow
  <2>3. governor[r] + c <= PerRun - 1 + n
    BY DEF Reserved
  <2> HIDE DEF c, n
  <2>4. governor[r] <= PerRun - 1 + n
    BY <2>1, <2>2, <2>3, SpendAssumption
  <2> QED
    BY <2>4 DEF n
<1> QED
  BY <1>1, <1>2, <1>3, BaseAlways, PTL DEF Spec

----------------------------------------------------------------------------
(* Every unit of the ledger was paid.                                      *)

AllWorkers == UNION {Workers[r] : r \in Runs}
Places == Runs \X AllWorkers

\* The payments 1 .. p that are neither in the ledger nor lost, of the place
\* each was made at.
Held(p, own, free, r, w) == {c \in (1 .. p) \ free : own[c] = <<r, w>>}

\* What a worker of a live run has paid and not booked.
Owes(r, w) == IF dry[r] THEN 0 ELSE work[r][w].spent

\* Does the worker go by a total it has read?
HasRead(r, w) == work[r][w].at \in {"read", "writing"}

\* Payments own and free that back the ledger: each worker holds what it
\* has paid, and the free ones are enough for the file and for every total
\* that was read from it.
BackedBy(own, free) ==
    /\ ledger <= Cardinality(free)
    /\ \A r \in Runs : \A w \in Workers[r] :
        /\ Cardinality(Held(paid, own, free, r, w)) = Owes(r, w)
        /\ HasRead(r, w) => work[r][w].seen <= Cardinality(free)

Backed == \E own \in [1 .. paid -> Places] : \E free \in SUBSET (1 .. paid) : BackedBy(own, free)

LEMMA PaymentsFinite ==
    ASSUME NEW p \in Nat, NEW T \in SUBSET (1 .. p)
    PROVE  IsFiniteSet(T) /\ Cardinality(T) \in Nat
<1>1. IsFiniteSet(1 .. p)
  BY FS_Interval
<1>2. IsFiniteSet(T)
  BY <1>1, FS_Subset
<1> QED
  BY <1>2, FS_CardinalityType

\* Payments are let go: with more in the place of free, those of the places
\* in D are free too.
Released(p, own, free, D, more) ==
    /\ Cardinality(free) <= Cardinality(more)
    /\ \A r \in Runs : \A w \in Workers[r] :
        IF <<r, w>> \in D
        THEN /\ Cardinality(Held(p, own, more, r, w)) = 0
             /\ Cardinality(free) + Cardinality(Held(p, own, free, r, w))
                    <= Cardinality(more)
        ELSE Held(p, own, more, r, w) = Held(p, own, free, r, w)

LEMMA LetGo ==
    ASSUME NEW p \in Nat, NEW own \in [1 .. p -> Places], NEW free \in SUBSET (1 .. p),
           NEW D \in SUBSET Places
    PROVE  \E more \in SUBSET (1 .. p) : Released(p, own, free, D, more)
<1> DEFINE more == free \cup {c \in 1 .. p : own[c] \in D}
<1>1. more \in SUBSET (1 .. p) /\ free \in SUBSET more
  OBVIOUS
<1>2. IsFiniteSet(more) /\ Cardinality(free) <= Cardinality(more)
  BY <1>1, PaymentsFinite, FS_Subset
<1>3. ASSUME NEW r \in Runs, NEW w \in Workers[r], <<r, w>> \in D
      PROVE  /\ Cardinality(Held(p, own, more, r, w)) = 0
             /\ Cardinality(free) + Cardinality(Held(p, own, free, r, w)) <= Cardinality(more)
  <2> DEFINE held == Held(p, own, free, r, w)
  <2>1. Held(p, own, more, r, w) = {}
    BY <1>3 DEF Held
  <2>2. held \in SUBSET (1 .. p) /\ held \in SUBSET more /\ free \cap held = {}
    BY <1>3 DEF Held
  <2> HIDE DEF held, more
  <2>3. IsFiniteSet(held) /\ IsFiniteSet(free) /\ Cardinality(held) \in Nat
        /\ Cardinality(free) \in Nat /\ Cardinality({}) = 0
    BY <2>2, PaymentsFinite, FS_EmptySet
  <2>4. Cardinality(free \cup held) = Cardinality(free) + Cardinality(held)
    <3>1. Cardinality(free \cup held)
              = Cardinality(free) + Cardinality(held) - Cardinality(free \cap held)
      BY <2>3, FS_Union
    <3>2. Cardinality(free \cap held) = 0
      BY <2>2, <2>3
    <3> QED
      BY <2>3, <3>1, <3>2
  <2>5. free \cup held \in SUBSET more
    BY <1>1, <2>2
  <2>6. Cardinality(free \cup held) <= Cardinality(more)
    BY <1>2, <2>5, FS_Subset
  <2> QED
    BY <2>1, <2>3, <2>4, <2>6 DEF held
<1>4. ASSUME NEW r \in Runs, NEW w \in Workers[r], <<r, w>> \notin D
      PROVE  Held(p, own, more, r, w) = Held(p, own, free, r, w)
  BY <1>4 DEF Held
<1> HIDE DEF more
<1> QED
  BY <1>1, <1>2, <1>3, <1>4 DEF Released

\* One more payment is made at the place <<r, w>>.
LEMMA OneMorePaid ==
    ASSUME NEW p \in Nat, NEW own \in [1 .. p -> Places], NEW free \in SUBSET (1 .. p),
           NEW r \in Runs, NEW w \in Workers[r]
    PROVE  /\ free \in SUBSET (1 .. p + 1)
           /\ \E next \in [1 .. p + 1 -> Places] :
                /\ Cardinality(Held(p + 1, next, free, r, w))
                       = Cardinality(Held(p, own, free, r, w)) + 1
                /\ \A q \in Runs : \A v \in Workers[q] :
                    <<q, v>> # <<r, w>> =>
                        Held(p + 1, next, free, q, v) = Held(p, own, free, q, v)
<1> DEFINE next == [c \in 1 .. p + 1 |-> IF c = p + 1 THEN <<r, w>> ELSE own[c]]
<1>1. <<r, w>> \in Places
  BY DEF Places, AllWorkers
<1>2. next \in [1 .. p + 1 -> Places]
  <2> SUFFICES ASSUME NEW c \in 1 .. p + 1, c # p + 1
               PROVE  own[c] \in Places
    BY <1>1
  <2>1. c \in 1 .. p
    OBVIOUS
  <2> QED
    BY <2>1
<1>3. free \in SUBSET (1 .. p + 1) /\ p + 1 \notin 1 .. p /\ p + 1 \notin free
      /\ 1 .. p + 1 = (1 .. p) \cup {p + 1}
  OBVIOUS
<1>4. next[p + 1] = <<r, w>> /\ \A c \in 1 .. p : next[c] = own[c]
  BY <1>3
<1> HIDE DEF next
<1>5. Held(p + 1, next, free, r, w) = Held(p, own, free, r, w) \cup {p + 1}
  BY <1>3, <1>4 DEF Held
<1>6. p + 1 \notin Held(p, own, free, r, w) /\ Held(p, own, free, r, w) \in SUBSET (1 .. p)
  BY <1>3 DEF Held
<1>7. Cardinality(Held(p + 1, next, free, r, w)) = Cardinality(Held(p, own, free, r, w)) + 1
  BY <1>5, <1>6, PaymentsFinite, FS_AddElement
<1>8. \A q \in Runs : \A v \in Workers[q] :
        <<q, v>> # <<r, w>> => Held(p + 1, next, free, q, v) = Held(p, own, free, q, v)
  BY <1>3, <1>4 DEF Held
<1> QED
  BY <1>2, <1>3, <1>7, <1>8

\* What a step that pays nothing must respect.
LEMMA NothingPaid ==
    ASSUME Base, Backed, paid' = paid, ledger' \in Nat, ledger' <= ledger,
           \A r \in Runs : \A w \in Workers[r] :
            /\ Owes(r, w)' = Owes(r, w)
            /\ HasRead(r, w)' => \/ work'[r][w].seen <= ledger
                                 \/ HasRead(r, w) /\ work'[r][w].seen = work[r][w].seen,
           WorkOK'
    PROVE  Backed'
<1>1. PICK own \in [1 .. paid -> Places], free \in SUBSET (1 .. paid) : BackedBy(own, free)
  BY DEF Backed
<1>2. ledger \in Nat /\ paid \in Nat
  BY TypeParts DEF Base, CountersOK
<1>3. Cardinality(free) \in Nat
  BY <1>2, PaymentsFinite
<1>4. ledger' <= Cardinality(free)
  BY <1>1, <1>2, <1>3 DEF BackedBy
<1>5. ASSUME NEW r \in Runs, NEW w \in Workers[r]
      PROVE  /\ Cardinality(Held(paid', own, free, r, w)) = Owes(r, w)'
             /\ HasRead(r, w)' => work'[r][w].seen <= Cardinality(free)
  <2>1. work'[r][w].seen \in Nat
    BY DEF WorkOK, Slot
  <2>2. /\ Cardinality(Held(paid, own, free, r, w)) = Owes(r, w)
        /\ HasRead(r, w) => work[r][w].seen <= Cardinality(free)
        /\ ledger <= Cardinality(free)
    BY <1>1 DEF BackedBy
  <2>3. HasRead(r, w)' => work'[r][w].seen <= Cardinality(free)
    BY <1>2, <1>3, <2>1, <2>2
  <2> QED
    BY <2>2, <2>3
<1>6. BackedBy(own, free)'
  BY <1>4, <1>5 DEF BackedBy
<1> QED
  BY <1>6 DEF Backed

\* A step may let go of what the places in D hold; the file may then show
\* what one of them had read and spent.
LEMMA Dropped ==
    ASSUME Base, Backed, paid' = paid, ledger' \in Nat, NEW D \in SUBSET Places, WorkOK',
           \/ ledger' <= ledger
           \/ \E r \in Runs : \E w \in Workers[r] :
                <<r, w>> \in D /\ HasRead(r, w) /\ ledger' = work[r][w].seen + Owes(r, w),
           \A r \in Runs : \A w \in Workers[r] :
            IF <<r, w>> \in D THEN Owes(r, w)' = 0 /\ ~HasRead(r, w)'
            ELSE Owes(r, w)' = Owes(r, w) /\ work'[r][w] = work[r][w]
    PROVE  Backed'
<1>1. PICK own \in [1 .. paid -> Places], free \in SUBSET (1 .. paid) : BackedBy(own, free)
  BY DEF Backed
<1>2. ledger \in Nat /\ paid \in Nat
  BY TypeParts DEF Base, CountersOK
<1>30. PICK more \in SUBSET (1 .. paid) : Released(paid, own, free, D, more)
  BY <1>2, LetGo
<1>3. /\ Cardinality(free) <= Cardinality(more)
      /\ \A r \in Runs : \A w \in Workers[r] :
            IF <<r, w>> \in D
            THEN /\ Cardinality(Held(paid, own, more, r, w)) = 0
                 /\ Cardinality(free) + Cardinality(Held(paid, own, free, r, w))
                        <= Cardinality(more)
            ELSE Held(paid, own, more, r, w) = Held(paid, own, free, r, w)
  BY <1>30 DEF Released
<1>4. Cardinality(free) \in Nat /\ Cardinality(more) \in Nat
  BY <1>2, <1>3, PaymentsFinite
<1>5. ledger' <= Cardinality(more)
  <2>1. CASE ledger' <= ledger
    BY <1>1, <1>2, <1>3, <1>4, <2>1 DEF BackedBy
  <2>2. ASSUME NEW r \in Runs, NEW w \in Workers[r], <<r, w>> \in D, HasRead(r, w),
               ledger' = work[r][w].seen + Owes(r, w)
        PROVE  ledger' <= Cardinality(more)
    <3>1. work[r][w].seen \in Nat /\ Owes(r, w) \in Nat
      BY TypeParts DEF Base, WorkOK, Slot, Owes
    <3>2. work[r][w].seen <= Cardinality(free)
          /\ Cardinality(free) + Owes(r, w) <= Cardinality(more)
      BY <1>1, <1>3, <2>2 DEF BackedBy
    <3> QED
      BY <1>4, <2>2, <3>1, <3>2
  <2> QED
    BY <2>1, <2>2
<1>6. ASSUME NEW r \in Runs, NEW w \in Workers[r]
      PROVE  /\ Cardinality(Held(paid', own, more, r, w)) = Owes(r, w)'
             /\ HasRead(r, w)' => work'[r][w].seen <= Cardinality(more)
  <2>1. CASE <<r, w>> \in D
    BY <1>3, <2>1
  <2>2. CASE <<r, w>> \notin D
    <3>1. Owes(r, w)' = Owes(r, w) /\ work'[r][w] = work[r][w]
      BY <2>2
    <3>2. /\ Cardinality(Held(paid, own, free, r, w)) = Owes(r, w)
          /\ HasRead(r, w) => work[r][w].seen <= Cardinality(free)
      BY <1>1 DEF BackedBy
    <3>3. Held(paid, own, more, r, w) = Held(paid, own, free, r, w)
      BY <1>3, <2>2
    <3>4. work[r][w].seen \in Nat
      BY TypeParts DEF Base, WorkOK, Slot
    <3>5. HasRead(r, w)' => work'[r][w].seen <= Cardinality(more)
      BY <1>3, <1>4, <3>1, <3>2, <3>4 DEF HasRead
    <3> QED
      BY <3>1, <3>2, <3>3, <3>5
  <2> QED
    BY <2>1, <2>2
<1>7. BackedBy(own, more)'
  BY <1>5, <1>6 DEF BackedBy
<1> QED
  BY <1>3, <1>7 DEF Backed

\* A live call pays one unit at the place it is made, which keeps it or, when
\* the document fails, lets go of all it has.
LEMMA CallBacked ==
    ASSUME Base, Backed, NEW r \in Runs, NEW w \in Workers[r], NEW rec \in Slot,
           OneMoved(r, w, rec), ~dry[r], UNCHANGED <<dry, ledger>>, paid' = paid + 1,
           rec.at \notin {"read", "writing"},
           rec.spent = work[r][w].spent + 1 \/ rec.spent = 0
    PROVE  Backed'
<1>1. PICK own \in [1 .. paid -> Places], free \in SUBSET (1 .. paid) : BackedBy(own, free)
  BY DEF Backed
<1>2. ledger \in Nat /\ paid \in Nat
  BY TypeParts DEF Base, CountersOK
<1>10. free \in SUBSET (1 .. paid + 1)
  BY <1>2, OneMorePaid
<1>3. PICK next \in [1 .. paid + 1 -> Places] :
      /\ Cardinality(Held(paid + 1, next, free, r, w))
             = Cardinality(Held(paid, own, free, r, w)) + 1
      /\ \A q \in Runs : \A v \in Workers[q] :
            <<q, v>> # <<r, w>> =>
                Held(paid + 1, next, free, q, v) = Held(paid, own, free, q, v)
  BY <1>2, OneMorePaid
<1>4. Cardinality(free) \in Nat
  BY <1>2, PaymentsFinite
<1>5. /\ ledger <= Cardinality(free)
      /\ \A q \in Runs : \A v \in Workers[q] :
            /\ Cardinality(Held(paid, own, free, q, v)) = Owes(q, v)
            /\ HasRead(q, v) => work[q][v].seen <= Cardinality(free)
  BY <1>1 DEF BackedBy
<1>6. ASSUME NEW q \in Runs, NEW v \in Workers[q], <<q, v>> # <<r, w>>
      PROVE  /\ Owes(q, v)' = Owes(q, v) /\ work'[q][v] = work[q][v]
             /\ HasRead(q, v)' <=> HasRead(q, v)
  BY <1>6 DEF OneMoved, Owes, HasRead
<1>7. ~HasRead(r, w)' /\ Owes(r, w)' = rec.spent /\ Owes(r, w) = work[r][w].spent
  BY DEF OneMoved, Owes, HasRead
<1>8. CASE rec.spent = work[r][w].spent + 1
  <2>1. ASSUME NEW q \in Runs, NEW v \in Workers[q]
        PROVE  /\ Cardinality(Held(paid + 1, next, free, q, v)) = Owes(q, v)'
               /\ HasRead(q, v)' => work'[q][v].seen <= Cardinality(free)
    <3>1. CASE <<q, v>> = <<r, w>>
      BY <1>3, <1>5, <1>7, <1>8, <3>1
    <3>2. CASE <<q, v>> # <<r, w>>
      BY <1>3, <1>5, <1>6, <3>2
    <3> QED
      BY <3>1, <3>2
  <2>2. BackedBy(next, free)'
    BY <1>5, <2>1 DEF BackedBy
  <2> QED
    BY <1>10, <2>2 DEF Backed
<1>9. CASE rec.spent = 0
  <2> DEFINE D == {<<r, w>>}
  <2>0. D \in SUBSET Places /\ paid + 1 \in Nat
    BY <1>2 DEF Places, AllWorkers
  <2>10. PICK more \in SUBSET (1 .. paid + 1) : Released(paid + 1, next, free, D, more)
    BY <1>10, <2>0, LetGo
  <2>1. /\ Cardinality(free) <= Cardinality(more)
        /\ \A q \in Runs : \A v \in Workers[q] :
            IF <<q, v>> \in D
            THEN Cardinality(Held(paid + 1, next, more, q, v)) = 0
            ELSE Held(paid + 1, next, more, q, v) = Held(paid + 1, next, free, q, v)
    BY <2>10 DEF Released
  <2>2. Cardinality(more) \in Nat
    BY <2>0, <2>1, PaymentsFinite
  <2>3. ASSUME NEW q \in Runs, NEW v \in Workers[q]
        PROVE  /\ Cardinality(Held(paid + 1, next, more, q, v)) = Owes(q, v)'
               /\ HasRead(q, v)' => work'[q][v].seen <= Cardinality(more)
    <3>1. CASE <<q, v>> = <<r, w>>
      BY <1>7, <1>9, <2>1, <3>1
    <3>2. CASE <<q, v>> # <<r, w>>
      <4>1. work[q][v].seen \in Nat
        BY TypeParts DEF Base, WorkOK, Slot
      <4>2. Cardinality(Held(paid + 1, next, more, q, v)) = Owes(q, v)'
        BY <1>3, <1>5, <1>6, <2>1, <3>2
      <4>3. HasRead(q, v)' => work'[q][v].seen <= Cardinality(more)
        BY <1>4, <1>5, <1>6, <2>1, <2>2, <3>2, <4>1
      <4> QED
        BY <4>2, <4>3
    <3> QED
      BY <3>1, <3>2
  <2>4. ledger' <= Cardinality(more)
    BY <1>2, <1>4, <1>5, <2>1, <2>2
  <2>5. BackedBy(next, more)'
    BY <2>3, <2>4 DEF BackedBy
  <2> QED
    BY <2>1, <2>5 DEF Backed
<1> QED
  BY <1>8, <1>9

LEMMA WorkerPaysNothing ==
    ASSUME Base, Backed, NEW r \in Runs, NEW w \in Workers[r], NEW rec \in Slot, WorkOK',
           OneMoved(r, w, rec), UNCHANGED <<dry, paid>>, ledger' \in Nat, ledger' <= ledger,
           dry[r] \/ rec.spent = work[r][w].spent,
           rec.at \in {"read", "writing"} =>
              rec.seen <= ledger \/ (HasRead(r, w) /\ rec.seen = work[r][w].seen)
    PROVE  Backed'
<1>1. ASSUME NEW q \in Runs, NEW v \in Workers[q]
      PROVE  /\ Owes(q, v)' = Owes(q, v)
             /\ HasRead(q, v)' => \/ work'[q][v].seen <= ledger
                                  \/ HasRead(q, v) /\ work'[q][v].seen = work[q][v].seen
  <2>1. CASE q = r /\ v = w
    BY <2>1 DEF OneMoved, Owes, HasRead
  <2>2. CASE work'[q][v] = work[q][v]
    BY <2>2 DEF Owes, HasRead
  <2> QED
    BY <2>1, <2>2 DEF OneMoved
<1> QED
  BY <1>1, NothingPaid

LEMMA WorkerDrops ==
    ASSUME Base, Backed, NEW r \in Runs, NEW w \in Workers[r], WorkOK',
           OneMoved(r, w, Rest), UNCHANGED <<dry, paid>>, ledger' \in Nat,
           \/ ledger' <= ledger
           \/ HasRead(r, w) /\ ledger' = work[r][w].seen + Owes(r, w)
    PROVE  Backed'
<1> DEFINE D == {<<r, w>>}
<1>1. D \in SUBSET Places /\ <<r, w>> \in D
  BY DEF Places, AllWorkers
<1>2. ASSUME NEW q \in Runs, NEW v \in Workers[q]
      PROVE  IF <<q, v>> \in D THEN Owes(q, v)' = 0 /\ ~HasRead(q, v)'
             ELSE Owes(q, v)' = Owes(q, v) /\ work'[q][v] = work[q][v]
  <2>1. CASE q = r /\ v = w
    BY <2>1, RestIsSlot DEF OneMoved, Owes, HasRead
  <2>2. CASE ~(q = r /\ v = w)
    BY <2>2 DEF OneMoved, Owes
  <2> QED
    BY <2>1, <2>2
<1> HIDE DEF D
<1> QED
  BY <1>1, <1>2, Dropped

LEMMA WorkerStepKeepsBacked ==
    ASSUME Base, Backed, NEW r \in Runs, NEW w \in Workers[r], WorkerStep(r, w)
    PROVE  Backed'
<1>0. RunsOK /\ CountersOK /\ WorkOK /\ ledger \in Nat /\ booked \in Nat
  BY TypeParts DEF Base, CountersOK
<1>1. PICK rec \in Slot : WorkOK' /\ OneMoved(r, w, rec) /\ Turn(r, w, rec)
  BY <1>0, WorkerTurns
<1>2. work[r][w] \in Slot /\ work[r][w].spent \in Nat /\ work[r][w].seen \in Nat
  BY <1>0 DEF WorkOK, Slot
<1>3. UNCHANGED dry
  BY DEF WorkerStep, TakeDocument, CheckPeriod, CheckRun, CallProvider, ProviderRaises, Applied,
     ApplyFails, ReadLedger, TruncateLedger, WriteLedger, OnlyWork
<1> DEFINE old == work[r][w]
<1>4. CASE /\ UNCHANGED <<ledger, paid>> /\ rec.at \notin {"read", "writing"}
           /\ rec.spent = old.spent
  BY <1>0, <1>1, <1>3, <1>4, WorkerPaysNothing
<1>5. CASE UNCHANGED <<ledger, paid>> /\ rec = Rest
  BY <1>0, <1>1, <1>3, <1>5, WorkerDrops
<1>6. ASSUME NEW valid \in BOOLEAN, CallProvider(r, w, valid), old.at = "calling",
             \/ rec.at = "calling" /\ rec.spent = old.spent + 1
             \/ rec = Rest \/ (rec.at = "answered" /\ rec.spent = old.spent + 1)
      PROVE  Backed'
  <2>1. ledger' = ledger /\ paid' = IF dry[r] THEN paid ELSE paid + 1
    BY <1>6 DEF CallProvider
  <2>2. rec.at \notin {"read", "writing"} /\ (rec.spent = old.spent + 1 \/ rec.spent = 0)
    BY <1>6, RestIsSlot
  <2>3. CASE dry[r]
    BY <1>0, <1>1, <1>3, <2>1, <2>2, <2>3, WorkerPaysNothing
  <2>4. CASE ~dry[r]
    BY <1>1, <1>3, <2>1, <2>2, <2>4, CallBacked
  <2> QED
    BY <2>3, <2>4
<1>7. CASE ReadLedger(r, w) /\ rec.at = "read" /\ rec.spent = old.spent /\ rec.seen = ledger
  BY <1>0, <1>1, <1>3, <1>7, WorkerPaysNothing DEF ReadLedger
<1>8. CASE /\ TruncateLedger(r, w) /\ rec.at = "writing" /\ rec.spent = old.spent
           /\ rec.seen = old.seen /\ ledger' = 0 /\ old.at = "read"
  <2>1. HasRead(r, w) /\ ledger' \in Nat /\ ledger' <= ledger /\ paid' = paid
    BY <1>0, <1>8 DEF HasRead, TruncateLedger
  <2> QED
    BY <1>1, <1>3, <1>8, <2>1, WorkerPaysNothing
<1>9. CASE /\ WriteLedger(r, w) /\ rec = Rest /\ old.at = "writing"
           /\ ledger' = old.seen + old.spent
  <2>1. HasRead(r, w) /\ paid' = paid /\ ledger' \in Nat
    BY <1>2, <1>9 DEF HasRead, WriteLedger
  <2>2. Owes(r, w) = old.spent
    BY <1>9 DEF Owes, Base, Calm
  <2> QED
    BY <1>1, <1>3, <1>9, <2>1, <2>2, WorkerDrops
<1>10. CASE TakeDocument(r, w) \/ CheckPeriod(r, w) \/ CheckRun(r, w)
  <2>1. UNCHANGED <<ledger, paid>>
    BY <1>10 DEF TakeDocument, CheckPeriod, CheckRun
  <2>2. old.at \in {"idle", "gated", "open"}
    BY <1>10 DEF TakeDocument, CheckPeriod, CheckRun
  <2> QED
    BY <1>1, <1>4, <2>1, <2>2 DEF Turn
<1>11. CASE Applied(r, w)
  <2>1. UNCHANGED <<ledger, paid>> /\ old.at = "answered"
    BY <1>11 DEF Applied
  <2> QED
    BY <1>1, <1>4, <1>5, <2>1 DEF Turn
<1>12. ASSUME NEW why, ProviderRaises(r, w, why), rec = Rest
       PROVE  Backed'
  BY <1>5, <1>12 DEF ProviderRaises
<1>13. CASE ApplyFails(r, w) /\ rec = Rest
  BY <1>5, <1>13 DEF ApplyFails
<1> QED
  BY <1>1, <1>6, <1>7, <1>8, <1>9, <1>10, <1>11, <1>12, <1>13 DEF Turn

LEMMA NextKeepsBacked ==
    ASSUME Base, Backed, [Next]_vars
    PROVE  Backed'
<1>0. Base' /\ WorkOK' /\ ledger \in Nat
  BY NextKeepsBase, TypeParts DEF Base, TypeOK, WorkOK, Slot, CountersOK
<1>1. ASSUME UNCHANGED <<ledger, paid, work>>,
             \A r \in Runs : dry'[r] = dry[r] \/ Idle(r)
      PROVE  Backed'
  <2>1. ASSUME NEW r \in Runs, NEW w \in Workers[r]
        PROVE  Owes(r, w)' = Owes(r, w)
    <3>1. Idle(r) => work[r][w].spent = 0
      BY DEF Idle, Base, Calm
    <3> QED
      BY <1>1, <3>1 DEF Owes
  <2>2. \A r \in Runs : \A w \in Workers[r] :
            HasRead(r, w)' => HasRead(r, w) /\ work'[r][w].seen = work[r][w].seen
    BY <1>1 DEF HasRead
  <2>3. ledger' = ledger /\ ledger' \in Nat /\ paid' = paid /\ ledger' <= ledger
    BY <1>0, <1>1
  <2> QED
    BY <1>0, <2>1, <2>2, <2>3, NothingPaid
<1>2. CASE UNCHANGED vars
  BY <1>1, <1>2 DEF vars
<1>3. ASSUME NEW r \in Runs, NEW d \in BOOLEAN, NEW n \in Queues(r), StartRun(r, d, n)
      PROVE  Backed'
  <2>1. Idle(r) /\ dry' = [dry EXCEPT ![r] = d] /\ UNCHANGED <<ledger, paid, work>>
    BY <1>3 DEF StartRun, Base, Calm
  <2>2. \A q \in Runs : dry'[q] = dry[q] \/ Idle(q)
    BY <2>1, TypeParts DEF Base, RunsOK
  <2> QED
    BY <1>1, <2>1, <2>2
<1>4. ASSUME NEW r \in Runs, NEW n \in Queues(r), NextStage(r, n)
      PROVE  Backed'
  BY <1>1, <1>4 DEF NextStage, LeaveStage
<1>5. ASSUME NEW r \in Runs, EndRun(r)
      PROVE  Backed'
  <2>1. Idle(r) /\ dry' = [dry EXCEPT ![r] = FALSE] /\ UNCHANGED <<ledger, paid, work>>
    BY <1>5 DEF EndRun, LeaveStage
  <2>2. \A q \in Runs : dry'[q] = dry[q] \/ Idle(q)
    BY <2>1, TypeParts DEF Base, RunsOK
  <2> QED
    BY <1>1, <2>1, <2>2
<1>6. ASSUME NEW r \in Runs, NEW why \in Fatal, NoteFatal(r, why)
      PROVE  Backed'
  BY <1>1, <1>6 DEF NoteFatal
<1>7. ASSUME NEW o \in Runs, Crash(o)
      PROVE  Backed'
  <2> DEFINE D == {x \in Places : object[x[1]] = o}
  <2>1. UNCHANGED <<ledger, paid>>
    BY <1>7 DEF Crash
  <2>2. \A r \in Runs :
            IF object[r] = o THEN work'[r] = Resting(r) ELSE work'[r] = work[r] /\ dry'[r] = dry[r]
    BY <1>7 DEF Crash
  <2>3. ASSUME NEW r \in Runs, NEW w \in Workers[r]
        PROVE  <<r, w>> \in D <=> object[r] = o
    BY DEF Places, AllWorkers
  <2>4. ASSUME NEW r \in Runs, NEW w \in Workers[r]
        PROVE  IF <<r, w>> \in D THEN Owes(r, w)' = 0 /\ ~HasRead(r, w)'
               ELSE Owes(r, w)' = Owes(r, w) /\ work'[r][w] = work[r][w]
    <3>1. CASE object[r] = o
      <4>1. work'[r][w] = Rest
        BY <2>2, <3>1 DEF Resting
      <4> QED
        BY <2>3, <3>1, <4>1, RestIsSlot DEF Owes, HasRead
    <3>2. CASE object[r] # o
      BY <2>2, <2>3, <3>2 DEF Owes
    <3> QED
      BY <3>1, <3>2
  <2>5. D \in SUBSET Places
    OBVIOUS
  <2> HIDE DEF D
  <2>6. ledger' <= ledger /\ ledger' \in Nat
    BY <1>0, <2>1
  <2> QED
    BY <1>0, <2>1, <2>4, <2>5, <2>6, Dropped
<1> QED
  BY <1>2, <1>3, <1>4, <1>5, <1>6, <1>7, WorkerStepKeepsBacked DEF Next, RunStep

\* The ledger never shows more than was paid, whatever threads, processes
\* and crashes do to the file (spend.py: SpendLedger.add).
THEOREM LedgerIsPaid == Spec => []LedgerWithinPaid
<1>1. Init => Backed
  <2> SUFFICES ASSUME Init PROVE Backed
    OBVIOUS
  <2> DEFINE own == [c \in 1 .. 0 |-> c]
  <2>1. 1 .. 0 = {} /\ paid = 0 /\ ledger = 0
    BY DEF Init
  <2>2. own \in [1 .. paid -> Places] /\ {} \in SUBSET (1 .. paid)
    BY <2>1
  <2>3. ASSUME NEW r \in Runs, NEW w \in Workers[r]
        PROVE  Cardinality(Held(paid, own, {}, r, w)) = Owes(r, w) /\ ~HasRead(r, w)
    <3>1. work[r][w] = Rest
      BY DEF Init, Resting
    <3>2. Owes(r, w) = 0 /\ ~HasRead(r, w)
      BY <3>1, RestIsSlot DEF Owes, HasRead
    <3>3. Held(paid, own, {}, r, w) = {}
      BY <2>1 DEF Held
    <3>4. Cardinality(Held(paid, own, {}, r, w)) = 0
      BY <3>3, FS_EmptySet
    <3> QED
      BY <3>2, <3>4
  <2>4. Cardinality({}) = 0
    BY FS_EmptySet
  <2> HIDE DEF own
  <2>5. BackedBy(own, {})
    BY <2>1, <2>3, <2>4 DEF BackedBy
  <2> QED
    BY <2>2, <2>5 DEF Backed
<1>2. Base /\ Backed /\ [Next]_vars => Backed'
  BY NextKeepsBacked
<1>3. Base /\ Backed => LedgerWithinPaid
  <2> SUFFICES ASSUME Base, Backed PROVE ledger <= paid
    BY DEF LedgerWithinPaid
  <2>1. PICK own \in [1 .. paid -> Places], free \in SUBSET (1 .. paid) : BackedBy(own, free)
    BY DEF Backed
  <2>2. ledger \in Nat /\ paid \in Nat
    BY TypeParts DEF Base, CountersOK
  <2>3. IsFiniteSet(1 .. paid) /\ Cardinality(1 .. paid) = paid
    BY <2>2, FS_Interval
  <2>4. Cardinality(free) <= paid /\ Cardinality(free) \in Nat
    <3>1. Cardinality(free) <= Cardinality(1 .. paid)
      BY <2>3, FS_Subset
    <3>2. Cardinality(free) \in Nat
      BY <2>2, PaymentsFinite
    <3> QED
      BY <2>3, <3>1, <3>2
  <2> QED
    BY <2>1, <2>2, <2>4 DEF BackedBy
<1> QED
  BY <1>1, <1>2, <1>3, BaseAlways, PTL DEF Spec

----------------------------------------------------------------------------
(* One Sweep object at a time loses no update of the ledger.               *)

OneObject == \A q \in Runs : \A r \in Runs : AtWork(q) /\ AtWork(r) => object[q] = object[r]

OneInFile ==
    \A q \in Runs : \A v \in Workers[q] : \A r \in Runs : \A w \in Workers[r] :
        HasRead(q, v) /\ HasRead(r, w) => q = r /\ v = w

SeenIsBooked == \A r \in Runs : \A w \in Workers[r] : HasRead(r, w) => work[r][w].seen = booked

NoneWriting == \A r \in Runs : \A w \in Workers[r] : work[r][w].at # "writing"

\* While no two objects were at work at once, the object's lock is a lock of
\* the file: one worker at a time goes by a total it has read, which is what
\* was booked.
Exclusive ==
    ~raced => OneObject /\ OneInFile /\ SeenIsBooked /\ (NoneWriting => ledger = booked)

\* The lock keeps everybody else out of the file.
LEMMA LockIsExclusive ==
    ASSUME Base, OneObject, NEW r \in Runs, AtWork(r), ~LedgerLocked(object[r])
    PROVE  \A q \in Runs : \A v \in Workers[q] : ~HasRead(q, v)
<1> SUFFICES ASSUME NEW q \in Runs, NEW v \in Workers[q], HasRead(q, v)
             PROVE  FALSE
  OBVIOUS
<1>1. AtWork(q)
  BY DEF HasRead, Base, Calm, Idle
<1>2. object[q] = object[r]
  BY <1>1 DEF OneObject
<1> QED
  BY <1>2 DEF LedgerLocked, HasRead

LEMMA WorkerStepKeepsExclusive ==
    ASSUME Base, Exclusive, NEW r \in Runs, NEW w \in Workers[r], WorkerStep(r, w)
    PROVE  Exclusive'
<1>0. RunsOK /\ CountersOK /\ WorkOK /\ ledger \in Nat /\ booked \in Nat
  BY TypeParts DEF Base, CountersOK
<1>1. PICK rec \in Slot : WorkOK' /\ OneMoved(r, w, rec) /\ Turn(r, w, rec)
  BY <1>0, WorkerTurns
<1>2. UNCHANGED <<object, stage, raced>>
  BY DEF WorkerStep, TakeDocument, CheckPeriod, CheckRun, CallProvider, ProviderRaises, Applied,
     ApplyFails, ReadLedger, TruncateLedger, WriteLedger, OnlyWork
<1> DEFINE old == work[r][w]
<1>3. /\ HasRead(r, w)' <=> rec.at \in {"read", "writing"}
      /\ work'[r][w] = rec
      /\ \A q \in Runs : \A v \in Workers[q] :
            ~(q = r /\ v = w) => work'[q][v] = work[q][v] /\ (HasRead(q, v)' <=> HasRead(q, v))
  BY <1>1 DEF OneMoved, HasRead
<1> SUFFICES ASSUME ~raced
             PROVE  OneObject' /\ OneInFile' /\ SeenIsBooked' /\ (NoneWriting' => ledger' = booked')
  BY <1>2 DEF Exclusive
<1>4. OneObject /\ OneInFile /\ SeenIsBooked /\ (NoneWriting => ledger = booked)
  BY DEF Exclusive
<1>5. OneObject'
  BY <1>2, <1>4 DEF OneObject, AtWork
<1>6. CASE UNCHANGED <<ledger, booked>> /\ rec.at \notin {"read", "writing"} /\ ~HasRead(r, w)
  <2>1. OneInFile'
    BY <1>3, <1>4, <1>6 DEF OneInFile
  <2>2. SeenIsBooked'
    BY <1>3, <1>4, <1>6 DEF SeenIsBooked
  <2>3. NoneWriting' => NoneWriting
    BY <1>3, <1>6 DEF NoneWriting, HasRead
  <2> QED
    BY <1>4, <1>5, <1>6, <2>1, <2>2, <2>3
<1>7. CASE /\ ReadLedger(r, w) /\ old.at = "booking" /\ ~LedgerLocked(object[r])
           /\ rec.at = "read" /\ rec.seen = ledger
  <2>1. AtWork(r)
    BY <1>7 DEF Base, Calm, Idle
  <2>2. \A q \in Runs : \A v \in Workers[q] : ~HasRead(q, v)
    BY <1>4, <1>7, <2>1, LockIsExclusive
  <2>3. UNCHANGED <<ledger, booked>> /\ ledger = booked
    BY <1>4, <1>7, <2>2 DEF ReadLedger, NoneWriting, HasRead
  <2>4. OneInFile'
    BY <1>3, <2>2 DEF OneInFile
  <2>5. SeenIsBooked'
    BY <1>3, <1>7, <2>2, <2>3 DEF SeenIsBooked
  <2> QED
    BY <1>5, <2>3, <2>4, <2>5
<1>8. CASE /\ TruncateLedger(r, w) /\ old.at = "read" /\ rec.at = "writing" /\ rec.seen = old.seen
  <2>1. booked' = booked /\ HasRead(r, w) /\ HasRead(r, w)'
    BY <1>3, <1>8 DEF TruncateLedger, HasRead
  <2>2. OneInFile'
    BY <1>3, <1>4, <2>1 DEF OneInFile
  <2>3. SeenIsBooked'
    BY <1>3, <1>4, <1>8, <2>1 DEF SeenIsBooked
  <2>4. ~NoneWriting'
    BY <1>3, <1>8 DEF NoneWriting
  <2> QED
    BY <1>5, <2>2, <2>3, <2>4
<1>9. CASE /\ old.at = "writing" /\ rec = Rest
           /\ ledger' = old.seen + old.spent /\ booked' = booked + old.spent
  <2>1. HasRead(r, w) /\ ~HasRead(r, w)'
    BY <1>3, <1>9, RestIsSlot DEF HasRead
  <2>2. old.seen = booked
    BY <1>4, <2>1 DEF SeenIsBooked
  <2>3. \A q \in Runs : \A v \in Workers[q] : ~HasRead(q, v)'
    BY <1>3, <1>4, <2>1 DEF OneInFile
  <2> QED
    BY <1>5, <1>9, <2>2, <2>3 DEF OneInFile, SeenIsBooked
<1>10. CASE TakeDocument(r, w) \/ CheckPeriod(r, w) \/ CheckRun(r, w) \/ Applied(r, w)
            \/ ApplyFails(r, w) \/ (\E valid \in BOOLEAN : CallProvider(r, w, valid))
            \/ (\E why \in {{"other"}, {"config"}, {"account"}} : ProviderRaises(r, w, why))
  <2>1. UNCHANGED <<ledger, booked>> /\ old.at \in {"idle", "gated", "open", "calling", "answered"}
    BY <1>10 DEF TakeDocument, CheckPeriod, CheckRun, Applied, ApplyFails, CallProvider,
       ProviderRaises
  <2>2. rec.at \notin {"read", "writing"}
    BY <1>1, <2>1, RestIsSlot DEF Turn
  <2> QED
    BY <1>6, <2>1, <2>2 DEF HasRead
<1> QED
  BY <1>1, <1>7, <1>8, <1>9, <1>10 DEF Turn

LEMMA NextKeepsExclusive ==
    ASSUME Base, Exclusive, [Next]_vars
    PROVE  Exclusive'
<1>0. RunsOK /\ raced \in BOOLEAN
  BY TypeParts DEF Base, CountersOK
<1>1. ASSUME UNCHANGED <<object, ledger, booked, work, raced>>, OneObject => OneObject'
      PROVE  Exclusive'
  <2>1. /\ OneInFile => OneInFile' /\ (SeenIsBooked => SeenIsBooked')
        /\ NoneWriting' => NoneWriting
    BY <1>1 DEF OneInFile, SeenIsBooked, NoneWriting, HasRead
  <2> QED
    BY <1>1, <2>1 DEF Exclusive
<1>2. CASE UNCHANGED vars
  BY <1>1, <1>2 DEF vars, OneObject, AtWork
<1>3. ASSUME NEW r \in Runs, NEW d \in BOOLEAN, NEW n \in Queues(r), StartRun(r, d, n)
      PROVE  Exclusive'
  <2>1. UNCHANGED <<object, ledger, booked, work>> /\ raced' = (raced \/ OthersAtWork(r))
        /\ \A q \in Runs : q # r => stage'[q] = stage[q]
    BY <1>0, <1>3 DEF StartRun, RunsOK
  <2>2. /\ OneInFile => OneInFile' /\ (SeenIsBooked => SeenIsBooked')
        /\ NoneWriting' => NoneWriting
    BY <2>1 DEF OneInFile, SeenIsBooked, NoneWriting, HasRead
  <2>3. OneObject /\ ~OthersAtWork(r) => OneObject'
    BY <2>1 DEF OneObject, OthersAtWork, AtWork
  <2> QED
    BY <2>1, <2>2, <2>3 DEF Exclusive
<1>4. ASSUME NEW r \in Runs, NEW to \in {"metadata", "off"}, NEW n, LeaveStage(r, to, n),
             AtWork(r)
      PROVE  Exclusive'
  <2>1. UNCHANGED <<object, ledger, booked, work, raced>>
        /\ \A q \in Runs : q # r => stage'[q] = stage[q]
    BY <1>0, <1>4 DEF LeaveStage, RunsOK
  <2>2. OneObject => OneObject'
    BY <1>4, <2>1 DEF OneObject, AtWork
  <2> QED
    BY <1>1, <2>1, <2>2
<1>5. ASSUME NEW r \in Runs, NEW why \in Fatal, NoteFatal(r, why)
      PROVE  Exclusive'
  BY <1>1, <1>5 DEF NoteFatal, OneObject, AtWork
<1>6. ASSUME NEW o \in Runs, Crash(o)
      PROVE  Exclusive'
  <2>1. /\ UNCHANGED <<object, ledger, booked>>
        /\ \A r \in Runs :
            IF object[r] = o THEN work'[r] = Resting(r) /\ stage'[r] = "off"
                             ELSE work'[r] = work[r] /\ stage'[r] = stage[r]
        /\ raced' = (raced \/ \E r \in {r \in Runs : object[r] = o} : \E w \in Workers[r] :
                        work[r][w].at = "writing")
    BY <1>6 DEF Crash
  <2>2. \A r \in Runs : \A w \in Workers[r] :
            IF object[r] = o THEN ~HasRead(r, w)' /\ work'[r][w].at # "writing"
                             ELSE work'[r][w] = work[r][w] /\ (HasRead(r, w)' <=> HasRead(r, w))
    BY <2>1, RestIsSlot DEF Resting, HasRead
  <2>3. OneObject => OneObject'
    BY <2>1 DEF OneObject, AtWork
  <2>4. OneInFile => OneInFile'
    BY <2>2 DEF OneInFile
  <2>5. SeenIsBooked => SeenIsBooked'
    BY <2>1, <2>2 DEF SeenIsBooked
  <2>6. ~raced' /\ NoneWriting' => NoneWriting
    <3> SUFFICES ASSUME ~raced', NoneWriting', NEW r \in Runs, NEW w \in Workers[r]
                 PROVE  work[r][w].at # "writing"
      BY DEF NoneWriting
    <3>1. object[r] = o => work[r][w].at # "writing"
      BY <2>1
    <3>2. object[r] # o => work[r][w].at # "writing"
      BY <2>2 DEF NoneWriting
    <3> QED
      BY <3>1, <3>2
  <2> QED
    BY <2>1, <2>3, <2>4, <2>5, <2>6 DEF Exclusive
<1>7. ASSUME NEW r \in Runs, NEW n \in Queues(r), NextStage(r, n)
      PROVE  Exclusive'
  BY <1>4, <1>7 DEF NextStage, AtWork
<1>8. ASSUME NEW r \in Runs, EndRun(r)
      PROVE  Exclusive'
  BY <1>4, <1>8 DEF EndRun, AtWork
<1> QED
  BY <1>2, <1>3, <1>5, <1>6, <1>7, <1>8, WorkerStepKeepsExclusive DEF Next, RunStep

LEMMA ExclusiveAlways == Spec => [](Base /\ Exclusive)
<1>1. Init => Exclusive
  <2> SUFFICES ASSUME Init PROVE Exclusive
    OBVIOUS
  <2>1. \A r \in Runs : \A w \in Workers[r] : ~HasRead(r, w) /\ work[r][w].at # "writing"
    BY RestIsSlot DEF Init, Resting, HasRead
  <2>2. OneObject /\ ledger = booked
    BY DEF Init, OneObject, AtWork
  <2> QED
    BY <2>1, <2>2 DEF Exclusive, OneInFile, SeenIsBooked
<1>2. Base /\ Exclusive /\ [Next]_vars => Exclusive'
  BY NextKeepsExclusive
<1> QED
  BY <1>1, <1>2, BaseAlways, PTL DEF Spec

\* While one Sweep object at a time is at work, its threads lose no update of
\* the ledger (spend.py: the lock of SpendLedger.add).
THEOREM LoneLedgerAddsUp == Spec => []AloneAddsUp
<1>1. Base /\ Exclusive => AloneAddsUp
  BY DEF Exclusive, NoneWriting, AloneAddsUp
<1> QED
  BY <1>1, ExclusiveAlways, PTL

\* Then a live run begins a document only while what was booked is below the
\* cap of the period (sweep.py: the second half of _period_cap_hit).
THEOREM PeriodGate == Spec => PeriodGateSound
<1>1. ASSUME Base, Exclusive, Next, PerPeriod > 0, ~raced, NEW r \in Runs, NEW w \in Workers[r],
             work[r][w].at = "gated", work'[r][w].at = "open"
      PROVE  booked < PerPeriod
  <2>0. RunsOK /\ CountersOK /\ WorkOK
    BY <1>1, TypeParts DEF Base
  <2>1. work # work'
    BY <1>1
  <2>2. ASSUME NEW q \in Runs, NEW v \in Workers[q], WorkerStep(q, v)
        PROVE  booked < PerPeriod
    <3>1. PICK rec \in Slot : OneMoved(q, v, rec) /\ Turn(q, v, rec)
      BY <2>0, <2>2, WorkerTurns DEF CountersOK
    <3>2. q = r /\ v = w /\ rec.at = "open"
      BY <1>1, <3>1 DEF OneMoved
    <3>3. UnderPeriodCap(r) /\ ~LedgerLocked(object[r])
      BY <1>1, <3>1, <3>2, RestIsSlot DEF Turn
    <3>4. AtWork(r)
      BY <1>1 DEF Base, Calm, Idle
    <3>5. \A p \in Runs : \A u \in Workers[p] : ~HasRead(p, u)
      BY <1>1, <3>3, <3>4, LockIsExclusive DEF Exclusive
    <3>6. ledger = booked
      BY <1>1, <3>5 DEF Exclusive, NoneWriting, HasRead
    <3> QED
      BY <1>1, <3>3, <3>6 DEF UnderPeriodCap
  <2>3. ASSUME NEW o \in Runs, Crash(o)
        PROVE  booked < PerPeriod
    <3>1. work'[r] = Resting(r) \/ work'[r] = work[r]
      BY <2>3 DEF Crash
    <3> QED
      BY <1>1, <3>1, RestIsSlot DEF Resting
  <2> QED
    BY <1>1, <2>1, <2>2, <2>3
       DEF Next, RunStep, StartRun, NextStage, EndRun, LeaveStage, NoteFatal
<1>2. Base /\ Exclusive /\ [Next]_vars =>
        [PerPeriod > 0 /\ ~raced =>
            \A r \in Runs : \A w \in Workers[r] :
                work[r][w].at = "gated" /\ work'[r][w].at = "open"
                    => booked < PerPeriod]_vars
  BY <1>1
<1> QED
  BY <1>2, ExclusiveAlways, PTL DEF Spec, PeriodGateSound

=============================================================================
