----------------------------- MODULE PagedBatch -----------------------------
(***************************************************************************)
(* A batch over the library: `pa triage`, `pa metadata`, and the scripts   *)
(* stage0_triage.py and stage2_metadata.py they come from.  A command      *)
(* pages through the list of documents, builds its queue from the copies   *)
(* it got, and drains the queue with a pool of workers.  The documents are *)
(* legible ones: the metadata stage leaves garbage to the other stage.     *)
(*                                                                         *)
(* Paperless pages by number over a list that lives on: while the command  *)
(* asks for one page after the other, documents arrive, are deleted, or    *)
(* move because their date is edited, and all that follow shift.           *)
(***************************************************************************)
EXTENDS Naturals, Sequences, FiniteSets, SequencesExt

CONSTANTS
    Documents,
    Scripts,        \* the scripts, or the commands?
    Library,        \* the documents there are at the beginning, in their order
    PageSize,
    Limits,         \* values of --limit, 0 for none
    PoolSize,       \* --workers
    MaxForces,      \* bound: triage commands with --force
    MaxChanges,     \* bound: changes of the list
    MaxFailures     \* bound: failures

ASSUME BatchAssumption ==
    /\ Scripts \in BOOLEAN
    /\ Library \in Seq(Documents) /\ IsInjective(Library)
    /\ {PageSize, PoolSize} \subseteq Nat \ {0}
    /\ Limits \subseteq Nat /\ 0 \in Limits
    /\ {MaxForces, MaxChanges, MaxFailures} \subseteq Nat

VARIABLES
    list,       \* Paperless: the documents, in the order of its list
    stage,      \* Paperless: how far each document is
    deleted,    \* Paperless: the documents that were deleted
    phase,      \* where the command is
    kind,       \* which command it is
    limit,      \* its --limit,
    force,      \* its --force
    dryRun,     \* and its --dry-run
    page,       \* the page it asks for next
    queue,      \* the copies it has taken
    next,       \* the place in the queue the pool takes next
    busy,       \* the places the workers are at
    paid,       \* history: the provider calls for each document, but for
                \* those whose answer was not written
    redone,     \* history: how often triage took each document back
    standing,   \* history: the documents this command should take
    churn,      \* history: what happened to the list while it was paged
    shifted,    \* history: did a document come in during the paging of a command?
    count       \* counters of the bounds

listVars == <<list, stage, deleted>>
commandVars == <<phase, kind, limit, force, dryRun, page, queue, next, busy>>
historyVars == <<paid, redone, standing, churn, shifted>>
batchVars == <<listVars, commandVars, historyVars, count>>

Kinds == {"triage", "metadata"}

\* 0: new, 1: triaged, 2: has metadata.
Written == [k \in Kinds |-> IF k = "triage" THEN 1 ELSE 2]
Copies == [doc : Documents, stage : 0..2]

BatchTypeOK ==
    /\ list \in Seq(Documents) /\ IsInjective(list)
    /\ stage \in [Documents -> 0..2]
    /\ deleted \subseteq Documents
    /\ phase \in {"idle", "paging", "draining"}
    /\ kind \in Kinds
    /\ limit \in Limits
    /\ force \in BOOLEAN
    /\ dryRun \in BOOLEAN
    /\ page \in Nat \ {0}
    /\ queue \in Seq(Copies)
    /\ next \in 1..(Len(queue) + 1)
    /\ busy \subseteq 1..Len(queue)
    /\ paid \in [Documents -> Nat]
    /\ redone \in [Documents -> Nat]
    /\ standing \subseteq Documents
    /\ churn \subseteq {"in", "out"}
    /\ shifted \in BOOLEAN
    /\ count \in [{"forces", "changes", "troubles"} -> Nat]

BatchInit ==
    /\ list = Library
    /\ stage \in [Documents -> {0, 2}]
    /\ \A d \in Documents \ ToSet(Library) : stage[d] = 0
    /\ deleted = {}
    /\ phase = "idle"
    /\ kind = "triage"
    /\ limit = 0
    /\ force = FALSE
    /\ dryRun = FALSE
    /\ page = 1
    /\ queue = <<>>
    /\ next = 1
    /\ busy = {}
    /\ paid = [d \in Documents |-> 0]
    /\ redone = [d \in Documents |-> 0]
    /\ standing = {}
    /\ churn = {}
    /\ shifted = FALSE
    /\ count = [forces |-> 0, changes |-> 0, troubles |-> 0]

CountUp(b, bound) ==
    /\ count[b] < bound
    /\ count' = [count EXCEPT ![b] = @ + 1]

Trouble == CountUp("troubles", MaxFailures)

Copy(d) == [doc |-> d, stage |-> stage[d]]

CopiesOf(docs) == [i \in DOMAIN docs |-> Copy(docs[i])]

----------------------------------------------------------------------------
(* The list, as the REST API serves it.                                    *)

Least(a, b) == IF a <= b THEN a ELSE b

Results(n) == SubSeq(list, (n - 1) * PageSize + 1, Least(n * PageSize, Len(list)))

\* Asked for a page that is not there any more, Paperless answers 404.
HasPage(n) == n = 1 \/ (n - 1) * PageSize < Len(list)

HasNext(n) == n * PageSize < Len(list)

----------------------------------------------------------------------------
(* The command.                                                            *)

\* Triage takes every document; the metadata stage those that are new or
\* triaged.
Takes(k, c) == k = "metadata" => c.stage < 2

\* Only triage has --force; both have --dry-run.
Start(k, l, f) ==
    /\ phase = "idle"
    /\ IF f THEN k = "triage" /\ CountUp("forces", MaxForces) ELSE UNCHANGED count
    /\ phase' = "paging"
    /\ kind' = k
    /\ limit' = l
    /\ force' = f
    /\ dryRun' \in BOOLEAN
    /\ page' = 1
    /\ standing' = {d \in ToSet(list) : Takes(k, Copy(d))}
    /\ churn' = {}
    /\ UNCHANGED <<listVars, queue, next, busy, paid, redone, shifted>>

Full(q) == limit > 0 /\ Len(q) >= limit

UpToLimit(q) == IF Full(q) THEN SubSeq(q, 1, limit) ELSE q

\* The members of a set of numbers, in their order.
InOrder(S) ==
    [n \in 1..Cardinality(S) |->
        CHOOSE i \in S : Cardinality({j \in S : j <= i}) = n]

\* Fault: the loop over a page ends at the first document it does not take.
TakenUpToMiss(k, copies) ==
    LET misses == {i \in DOMAIN copies : ~Takes(k, copies[i])}
    IN  IF misses = {} THEN copies
        ELSE SubSeq(copies, 1, (CHOOSE i \in misses : \A j \in misses : i <= j) - 1)

\* What a page adds to the queue.
Taken(k, copies) ==
    LET places == {i \in DOMAIN copies : Takes(k, copies[i])}
    IN  [n \in 1..Cardinality(places) |-> copies[InOrder(places)[n]]]

\* One request of iter_documents, and the loop over its results.
FetchPage ==
    LET q == UpToLimit(queue \o Taken(kind, CopiesOf(Results(page))))
    IN  /\ phase = "paging"
        /\ HasPage(page)
        /\ queue' = q
        /\ IF Full(q) \/ ~HasNext(page)
           THEN phase' = "draining" /\ page' = 1
           ELSE page' = page + 1 /\ UNCHANGED phase
        /\ UNCHANGED <<listVars, kind, limit, force, dryRun, next, busy, historyVars, count>>

End ==
    /\ phase' = "idle"
    /\ kind' = "triage"
    /\ limit' = 0
    /\ force' = FALSE
    /\ dryRun' = FALSE
    /\ page' = 1
    /\ queue' = <<>>
    /\ next' = 1
    /\ busy' = {}
    /\ standing' = {}
    /\ churn' = {}

\* The page has gone, or the request fails for good: the command fails before
\* it has done anything.
FetchFails ==
    /\ phase = "paging"
    /\ IF HasPage(page) THEN Trouble ELSE UNCHANGED count
    /\ End
    /\ UNCHANGED <<listVars, paid, redone, shifted>>

\* Fault: only the exact label is skipped.
SkipsTriagedOnly(c) == kind = "triage" /\ ~force /\ c.stage = 1

\* Without --force triage skips what is triaged or further; the script only
\* what is triaged.
Skips(c) ==
    kind = "triage" /\ ~force /\ IF Scripts THEN c.stage = 1 ELSE c.stage >= 1

\* A worker begins with a document, and decides by the copy; the metadata
\* stage calls the provider.
Take ==
    LET c == queue[next]
    IN  /\ phase = "draining"
        /\ next <= Len(queue)
        /\ Cardinality(busy) < PoolSize
        /\ next' = next + 1
        /\ busy' = IF Skips(c) THEN busy ELSE busy \cup {next}
        /\ paid' = IF kind = "metadata" THEN [paid EXCEPT ![c.doc] = @ + 1] ELSE paid
        /\ UNCHANGED <<listVars, phase, kind, limit, force, dryRun, page, queue,
                       redone, standing, churn, shifted, count>>

\* The PATCH of a document that is still there lands, whether or not the
\* command hears of it.
Write(i) ==
    LET d == queue[i].doc
    IN  /\ i \in busy
        /\ ~dryRun
        /\ d \notin deleted
        /\ stage' = [stage EXCEPT ![d] = Written[kind]]
        /\ redone' = IF kind = "triage" /\ force /\ stage[d] = 2
                     THEN [redone EXCEPT ![d] = @ + 1] ELSE redone
        /\ busy' = busy \ {i}
        /\ UNCHANGED <<list, deleted, phase, kind, limit, force, dryRun, page, queue, next,
                       paid, standing, churn, shifted, count>>

\* Nothing is written at these places.
InVain(places) ==
    paid' = [d \in Documents |->
        paid[d] - IF kind = "metadata"
                  THEN Cardinality({i \in places : queue[i].doc = d}) ELSE 0]

\* A dry run reports what it would write: the metadata stage has called the
\* provider for it all the same.
Report(i) ==
    /\ i \in busy
    /\ dryRun
    /\ busy' = busy \ {i}
    /\ InVain({i})
    /\ UNCHANGED <<listVars, phase, kind, limit, force, dryRun, page, queue, next,
                   redone, standing, churn, shifted, count>>

\* A document that fails is reported; the others go on.  (The loop of
\* cmd_triage does not catch the exception: the command ends without its
\* summary, but not before the pool is empty.)
WriteFails(i) ==
    /\ i \in busy
    /\ IF queue[i].doc \in deleted THEN UNCHANGED count ELSE Trouble
    /\ busy' = busy \ {i}
    /\ InVain({i})
    /\ UNCHANGED <<listVars, phase, kind, limit, force, dryRun, page, queue, next,
                   redone, standing, churn, shifted>>

FinishBatch ==
    /\ phase = "draining"
    /\ next > Len(queue)
    /\ busy = {}
    /\ End
    /\ UNCHANGED <<listVars, paid, redone, shifted, count>>

Kill ==
    /\ phase # "idle"
    /\ Trouble
    /\ End
    /\ InVain(busy)
    /\ UNCHANGED <<listVars, redone, shifted>>

----------------------------------------------------------------------------
(* The users and the consumer of Paperless.                                *)

Changed(how, newList) ==
    /\ CountUp("changes", MaxChanges)
    /\ list' = newList
    /\ churn' = IF phase = "paging" THEN churn \cup how ELSE churn
    /\ shifted' = (shifted \/ (phase = "paging" /\ "in" \in how))
    /\ UNCHANGED <<commandVars, paid, redone>>

\* The list is ordered by the date of the document: it comes in anywhere.
Arrive(d) ==
    /\ d \notin ToSet(list) \cup deleted
    /\ \E i \in 1..(Len(list) + 1) : Changed({"in"}, InsertAt(list, i, d))
    /\ UNCHANGED <<stage, deleted, standing>>

Delete(i) ==
    /\ Changed({"out"}, RemoveAt(list, i))
    /\ deleted' = deleted \cup {list[i]}
    /\ standing' = standing \ {list[i]}
    /\ UNCHANGED stage

Redate(i, j) ==
    /\ i # j
    /\ Changed({"in", "out"}, InsertAt(RemoveAt(list, i), j, list[i]))
    /\ UNCHANGED <<stage, deleted, standing>>

CommandStep ==
    \/ \E k \in Kinds, l \in Limits, f \in BOOLEAN : Start(k, l, f)
    \/ FetchPage \/ FetchFails \/ Take \/ FinishBatch \/ Kill
    \/ \E i \in busy : Write(i) \/ Report(i) \/ WriteFails(i)

ListStep ==
    \/ \E d \in Documents : Arrive(d)
    \/ \E i \in DOMAIN list : Delete(i) \/ \E j \in DOMAIN list : Redate(i, j)

BatchNext == CommandStep \/ ListStep

BatchSpec == BatchInit /\ [][BatchNext]_batchVars

----------------------------------------------------------------------------
(* Properties.                                                             *)

\* Without a limit, a command misses no document that was there for it when
\* it began and still is, unless a document left its place during the paging.
StandingIsQueued ==
    phase = "draining" /\ limit = 0 /\ "out" \notin churn =>
        standing \subseteq {queue[i].doc : i \in DOMAIN queue}

\* However the commands are repeated, no answer is written and paid for twice
\* for one document, but once more each time a forced triage takes the
\* document back; unless a document came in during some paging: then the end
\* of a page is served once more at the head of the next one.
PaidOncePerWrite ==
    ~shifted => \A d \in Documents : paid[d] <= 1 + redone[d]
=============================================================================
