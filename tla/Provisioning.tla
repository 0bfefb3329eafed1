---------------------------- MODULE Provisioning ----------------------------
(***************************************************************************)
(* Who creates objects in Paperless-ngx, and how                           *)
(* (src/src/paperless_assistant/provision.py, taxonomy.py, doctor.py, and  *)
(* the retries of client.py): `pa setup`, the setup of the dashboard, and  *)
(* the workers of a metadata run, which create the tags the model names.   *)
(*                                                                         *)
(* Paperless is outside the repository.  Whether it refuses a second       *)
(* object of the same name is left open, as is what becomes of a request   *)
(* that is answered with a transient error: it may have been carried out.  *)
(*                                                                         *)
(* A field has the type and the options wanted, almost ("near": another    *)
(* number for the score, a select without some option), or another type.   *)
(***************************************************************************)
EXTENDS Integers, Sequences, FiniteSets

CONSTANTS
    FieldOrder,     \* the required fields, in the order they are provisioned
    Score,          \* the one that may be any number
    ReviewTag,      \* the tag of review that a metadata run resolves
    Topics,         \* tags, correspondents and types the model names
    WebRequests,    \* requests for a setup in the dashboard
    Cli,            \* the command `pa setup`
    Workers,        \* worker threads of a run
    MaxTries,       \* attempts of a request
    MaxStarts,      \* bound: setups, runs and documents
    MaxTroubles     \* bound: transient errors and interventions of a human

Fields == {FieldOrder[i] : i \in 1..Len(FieldOrder)}
Tags == {ReviewTag} \cup Topics
Setups == WebRequests \cup {Cli}

ASSUME ProvisioningAssumption ==
    /\ FieldOrder \in Seq(Fields)
    /\ \A i, j \in 1..Len(FieldOrder) : FieldOrder[i] = FieldOrder[j] => i = j
    /\ Score \in Fields /\ (Fields \X BOOLEAN) \cap Tags = {}
    /\ Cli \notin WebRequests
    /\ {MaxTries, MaxStarts, MaxTroubles} \subseteq Nat /\ MaxTries > 0

VARIABLES
    renamed,        \* the fields to which the settings give other names
    unique,         \* does Paperless refuse a name it has?
    copies,         \* how many objects of each name Paperless has
    kind,           \* what each field is
    gate,           \* _SETUP_IN_PROGRESS
    setups,         \* the setups
    run,            \* the metadata run and the cache of its taxonomy
    workers,        \* what each worker thread does with the tag it wants
    crowded,        \* history: two of these were at work at once, or a human
                    \* was, or a request was carried out and answered an error
    edited,         \* history: a human edited fields or tags during a setup
    removed,        \* history: tags a human removed since the cache was loaded
    settled,        \* history: kinds of setup that have nothing left to do
    startsLeft, troublesLeft

paperless == <<copies, kind>>
history == <<crowded, edited, removed, settled>>
vars == <<renamed, unique, paperless, gate, setups, run, workers, history,
          startsLeft, troublesLeft>>

\* required_fields: a name is the built-in one, or the one in the settings.
Names == Fields \X BOOLEAN
NameOf(f) == <<f, f \in renamed>>
Kinds == {"absent", "wanted", "near", "other"}
Group(s) == IF s = Cli THEN "cli" ELSE "web"

Idle == [at |-> "idle", found |-> {}, todo |-> <<>>, missing |-> FALSE,
         tries |-> 0, ok |-> TRUE, created |-> FALSE]
NoRun == [at |-> "none", cache |-> {}, missing |-> FALSE, tries |-> 0]
NoWork == [at |-> "idle", topic |-> ReviewTag, tries |-> 0]

\* A setup, a run or a worker goes to another place, or tries once more.
At(r, place) == [r EXCEPT !.at = place]
Again(r) == [r EXCEPT !.tries = @ - 1]

Init ==
    /\ renamed \in SUBSET (Fields \ {Score})
    /\ unique \in BOOLEAN
    /\ copies = [o \in Names \cup Tags |-> 0]
    /\ kind = [n \in Names |-> "absent"]
    /\ gate = FALSE
    /\ setups = [s \in Setups |-> Idle]
    /\ run = NoRun
    /\ workers = [w \in Workers |-> NoWork]
    /\ crowded = FALSE /\ edited = FALSE
    /\ removed = {} /\ settled = {}
    /\ startsLeft = MaxStarts
    /\ troublesLeft = MaxTroubles

SettingUp == {s \in Setups : setups[s].at # "idle"}
\* Who may be creating objects, besides s: the dashboard counts once.
Busy == {Group(s) : s \in SettingUp} \cup (IF run.at = "none" THEN {} ELSE {"run"})

----------------------------------------------------------------------------
(* A request that creates, with the retries of PaperlessClient.request.    *)

\* Fault: a type Paperless does not know.
CreateAsText(name) ==
    /\ copies' = [copies EXCEPT ![name] = @ + 1]
    /\ kind' = IF name \in Names THEN [kind EXCEPT ![name] = "text"] ELSE kind

Create(name) ==
    /\ copies' = [copies EXCEPT ![name] = @ + 1]
    /\ kind' = IF name \in Names /\ copies[name] = 0
                 THEN [kind EXCEPT ![name] = "wanted"] ELSE kind

Refuses(name) == unique /\ copies[name] > 0

\* Bound: Paperless takes a name twice, never a third time.
\* A transient error: carried out or not, the request is sent again while
\* there are tries left.
Unanswered(name) ==
    /\ troublesLeft > 0
    /\ troublesLeft' = troublesLeft - 1
    /\ crowded' = TRUE
    /\ \/ UNCHANGED paperless
       \/ ~Refuses(name) /\ copies[name] < 2 /\ Create(name)

----------------------------------------------------------------------------
(* Setup: Provisioner.run.                                                 *)

\* Fault: no look at the flag.
StartUngated(s) ==
    /\ setups[s].at = "idle"
    /\ startsLeft > 0
    /\ startsLeft' = startsLeft - 1
    /\ gate' = (gate \/ s # Cli)
    /\ setups' = [setups EXCEPT ![s] = [Idle EXCEPT !.at = "fields"]]
    /\ crowded' = (crowded \/ Busy \ {Group(s)} # {})
    /\ edited' = (edited /\ SettingUp # {})
    /\ UNCHANGED <<renamed, unique, paperless, run, workers, removed, settled,
                   troublesLeft>>

\* run_setup lets one request in; the command knows nothing of it.
StartSetup(s) ==
    /\ setups[s].at = "idle"
    /\ s # Cli => ~gate
    /\ startsLeft > 0
    /\ startsLeft' = startsLeft - 1
    /\ gate' = (gate \/ s # Cli)
    /\ setups' = [setups EXCEPT ![s] = [Idle EXCEPT !.at = "fields"]]
    /\ crowded' = (crowded \/ Busy \ {Group(s)} # {})
    /\ edited' = (edited /\ SettingUp # {})
    /\ UNCHANGED <<renamed, unique, paperless, run, workers, removed, settled,
                   troublesLeft>>

\* cmd_setup does not hand over the configured names; run_setup does.
NameFor(s, f) == IF s = Cli THEN <<f, FALSE>> ELSE NameOf(f)

\* The fields are listed once, before any of them is created.
Listed(r, found, todo) ==
    [r EXCEPT !.at = "ensure", !.found = found, !.todo = todo, !.tries = MaxTries]

ToEnsure(s) ==
    [i \in 1..Len(FieldOrder) |-> NameFor(s, FieldOrder[i])] \o <<ReviewTag>>

ListFields(s) ==
    /\ setups[s].at = "fields"
    /\ setups' = [setups EXCEPT
            ![s] = Listed(@, {n \in Names : copies[n] > 0}, ToEnsure(s))]
    /\ UNCHANGED <<renamed, unique, paperless, gate, run, workers, history,
                   startsLeft, troublesLeft>>

NextUp(s) == Head(setups[s].todo)
Ensuring(s) == setups[s].at = "ensure" /\ setups[s].todo # <<>>
IsField(s) == NextUp(s) \in Names
Ensured(r, ok, created) ==
    [r EXCEPT !.todo = Tail(@), !.missing = FALSE, !.tries = MaxTries,
              !.ok = @ /\ ok, !.created = @ \/ created]
Done(s, ok, created) == [setups EXCEPT ![s] = Ensured(@, ok, created)]
Missed(r) == [r EXCEPT !.missing = TRUE]

Compatible(f, k) == k = "wanted" \/ (f = Score /\ k = "near")

\* Fault: a field that does not fit is made to fit.
RepairField(s) ==
    /\ Ensuring(s) /\ IsField(s) /\ NextUp(s) \in setups[s].found
    /\ setups' = Done(s, TRUE, FALSE)
    /\ kind' = [kind EXCEPT ![NextUp(s)] = "wanted"]
    /\ UNCHANGED <<renamed, unique, copies, gate, run, workers, history,
                   startsLeft, troublesLeft>>

\* Fault: any field that is there will do.
AcceptField(s) ==
    /\ Ensuring(s) /\ IsField(s) /\ NextUp(s) \in setups[s].found
    /\ setups' = Done(s, TRUE, FALSE)
    /\ UNCHANGED <<renamed, unique, paperless, gate, run, workers, history,
                   startsLeft, troublesLeft>>

\* A field that is there is reported as it is, never changed.
CheckField(s) ==
    /\ Ensuring(s) /\ IsField(s) /\ NextUp(s) \in setups[s].found
    /\ setups' = Done(s, Compatible(NextUp(s)[1], kind[NextUp(s)]), FALSE)
    /\ UNCHANGED <<renamed, unique, paperless, gate, run, workers, history,
                   startsLeft, troublesLeft>>

\* Fault: the tag is taken to be missing.
AssumeMissing(s) ==
    /\ Ensuring(s) /\ ~IsField(s) /\ ~setups[s].missing
    /\ setups' = [setups EXCEPT ![s] = Missed(@)]
    /\ UNCHANGED <<renamed, unique, paperless, gate, run, workers, history,
                   startsLeft, troublesLeft>>

LookForTag(s) ==
    /\ Ensuring(s) /\ ~IsField(s) /\ ~setups[s].missing
    /\ setups' = IF copies[NextUp(s)] > 0 THEN Done(s, TRUE, FALSE)
                 ELSE [setups EXCEPT ![s] = Missed(@)]
    /\ UNCHANGED <<renamed, unique, paperless, gate, run, workers, history,
                   startsLeft, troublesLeft>>

Creating(s) ==
    /\ Ensuring(s)
    /\ IF IsField(s) THEN NextUp(s) \notin setups[s].found ELSE setups[s].missing

SetupCreates(s) ==
    /\ Creating(s)
    /\ ~Refuses(NextUp(s)) /\ copies[NextUp(s)] < 2
    /\ Create(NextUp(s))
    /\ setups' = Done(s, TRUE, TRUE)
    /\ UNCHANGED <<renamed, unique, gate, run, workers, history, startsLeft,
                   troublesLeft>>

\* The exception of a request ends the setup; the flag is cleared in a
\* finally.
Abandon(s) ==
    /\ setups' = [setups EXCEPT ![s] = Idle]
    /\ gate' = (gate /\ s = Cli)

SetupRefused(s) ==
    /\ Creating(s)
    /\ Refuses(NextUp(s))
    /\ Abandon(s)
    /\ UNCHANGED <<renamed, unique, paperless, run, workers, history,
                   startsLeft, troublesLeft>>

SetupUnanswered(s) ==
    /\ Creating(s)
    /\ Unanswered(NextUp(s))
    /\ IF setups[s].tries > 1
         THEN setups' = [setups EXCEPT ![s] = Again(@)] /\ UNCHANGED gate
         ELSE Abandon(s)
    /\ UNCHANGED <<renamed, unique, run, workers, edited, removed, settled,
                   startsLeft>>

FinishSetup(s) ==
    /\ setups[s].at = "ensure" /\ setups[s].todo = <<>>
    /\ Abandon(s)
    /\ settled' = IF setups[s].ok /\ ~edited THEN settled \cup {Group(s)}
                                             ELSE settled
    /\ UNCHANGED <<renamed, unique, paperless, run, workers, crowded, edited,
                   removed, startsLeft, troublesLeft>>

----------------------------------------------------------------------------
(* A metadata run: the fields, the taxonomy, the tag of review, and the    *)
(* workers.                                                                *)

\* The resolver of custom fields wants every field there, whatever its type.
StartRun ==
    /\ run.at = "none"
    /\ startsLeft > 0
    /\ \A f \in Fields : copies[NameOf(f)] > 0
    /\ startsLeft' = startsLeft - 1
    /\ run' = [NoRun EXCEPT !.at = "review", !.tries = MaxTries,
                            !.cache = {t \in Tags : copies[t] > 0}]
    /\ removed' = {}
    /\ crowded' = (crowded \/ Busy # {})
    /\ UNCHANGED <<renamed, unique, paperless, gate, setups, workers, edited,
                   settled, troublesLeft>>

\* get_or_create_tag does not look into the cache.
LookForReviewTag ==
    /\ run.at = "review" /\ ~run.missing
    /\ run' = IF copies[ReviewTag] > 0 THEN At(run, "work") ELSE Missed(run)
    /\ UNCHANGED <<renamed, unique, paperless, gate, setups, workers, history,
                   startsLeft, troublesLeft>>

CreateReviewTag ==
    /\ run.at = "review" /\ run.missing
    /\ \/ /\ ~Refuses(ReviewTag) /\ copies[ReviewTag] < 2
          /\ Create(ReviewTag)
          /\ run' = [At(run, "work") EXCEPT !.missing = FALSE]
          /\ UNCHANGED <<troublesLeft, crowded>>
       \/ /\ Refuses(ReviewTag)
          /\ run' = NoRun
          /\ UNCHANGED <<paperless, troublesLeft, crowded>>
       \/ /\ Unanswered(ReviewTag)
          /\ run' = IF run.tries > 1 THEN Again(run) ELSE NoRun
    /\ UNCHANGED <<renamed, unique, gate, setups, workers, edited, removed,
                   settled, startsLeft>>

Wanting(r, topic) == [At(r, "wants") EXCEPT !.topic = topic]

TakeDocument(w, topic) ==
    /\ run.at = "work"
    /\ workers[w].at = "idle"
    /\ startsLeft > 0
    /\ startsLeft' = startsLeft - 1
    /\ workers' = [workers EXCEPT ![w] = Wanting(@, topic)]
    /\ UNCHANGED <<renamed, unique, paperless, gate, setups, run, history,
                   troublesLeft>>

Cached(w) == workers[w].topic \in run.cache
Cache(topic) == [run EXCEPT !.cache = @ \cup {topic}]
LockFree == \A w \in Workers : workers[w].at # "creates"
Finds(w) == workers' = [workers EXCEPT ![w] = NoWork]

FindInCache(w) ==
    /\ workers[w].at = "wants" /\ Cached(w)
    /\ Finds(w)
    /\ UNCHANGED <<renamed, unique, paperless, gate, setups, run, history,
                   startsLeft, troublesLeft>>

WaitForLock(w) ==
    /\ workers[w].at = "wants" /\ ~Cached(w)
    /\ workers' = [workers EXCEPT ![w] = At(@, "waits")]
    /\ UNCHANGED <<renamed, unique, paperless, gate, setups, run, history,
                   startsLeft, troublesLeft>>

Creator(r) == [At(r, "creates") EXCEPT !.tries = MaxTries]

\* Fault: no second look inside the lock.
TakeLockBlindly(w) ==
    /\ workers[w].at = "waits" /\ LockFree
    /\ workers' = [workers EXCEPT ![w] = Creator(@)]
    /\ UNCHANGED <<renamed, unique, paperless, gate, setups, run, history,
                   startsLeft, troublesLeft>>

\* Fault: the name is in the cache before it is in Paperless.
TakeLockAndCache(w) ==
    /\ workers[w].at = "waits" /\ LockFree
    /\ IF Cached(w) THEN Finds(w) /\ UNCHANGED run
       ELSE /\ workers' = [workers EXCEPT ![w] = Creator(@)]
            /\ run' = Cache(workers[w].topic)
    /\ UNCHANGED <<renamed, unique, paperless, gate, setups, history,
                   startsLeft, troublesLeft>>

TakeLock(w) ==
    /\ workers[w].at = "waits" /\ LockFree
    /\ IF Cached(w) THEN Finds(w)
       ELSE workers' = [workers EXCEPT ![w] = Creator(@)]
    /\ UNCHANGED <<renamed, unique, paperless, gate, setups, run, history,
                   startsLeft, troublesLeft>>

\* The lock is held until the answer is there; a refusal fails the document
\* and leaves the cache without the name.
WorkerCreates(w) ==
    LET topic == workers[w].topic
    IN /\ workers[w].at = "creates"
       /\ \/ /\ ~Refuses(topic) /\ copies[topic] < 2
             /\ Create(topic)
             /\ run' = Cache(topic)
             /\ Finds(w)
             /\ UNCHANGED <<troublesLeft, crowded>>
          \/ /\ Refuses(topic)
             /\ workers' = [workers EXCEPT ![w] = At(@, "failed")]
             /\ UNCHANGED <<paperless, run, troublesLeft, crowded>>
          \/ /\ Unanswered(topic)
             /\ workers' = IF workers[w].tries > 1
                             THEN [workers EXCEPT ![w] = Again(@)]
                             ELSE [workers EXCEPT ![w] = At(@, "failed")]
             /\ UNCHANGED run
       /\ UNCHANGED <<renamed, unique, gate, setups, edited, removed, settled,
                      startsLeft>>

FinishRun ==
    /\ run.at = "work"
    /\ \A w \in Workers : workers[w].at \in {"idle", "failed"}
    /\ run' = NoRun
    /\ workers' = [w \in Workers |-> NoWork]
    /\ removed' = {}
    /\ UNCHANGED <<renamed, unique, paperless, gate, setups, crowded, edited,
                   settled, startsLeft, troublesLeft>>

----------------------------------------------------------------------------
(* A human at the Paperless UI.                                            *)

HumanActs ==
    /\ troublesLeft > 0
    /\ troublesLeft' = troublesLeft - 1
    /\ crowded' = (crowded \/ Busy # {})
    /\ edited' = (edited \/ SettingUp # {})
    /\ settled' = {}
    /\ UNCHANGED <<renamed, unique, gate, setups, run, workers, startsLeft>>

HumanMakesField(n, k) ==
    /\ copies' = [copies EXCEPT ![n] = 1]
    /\ kind' = [kind EXCEPT ![n] = k]
    /\ HumanActs
    /\ UNCHANGED removed

HumanMakesTag(t) ==
    /\ copies[t] = 0
    /\ copies' = [copies EXCEPT ![t] = 1]
    /\ HumanActs
    /\ UNCHANGED <<kind, removed>>

HumanRemovesTag(t) ==
    /\ copies[t] > 0
    /\ copies' = [copies EXCEPT ![t] = 0]
    /\ removed' = removed \cup {t}
    /\ HumanActs
    /\ UNCHANGED kind

----------------------------------------------------------------------------
SetupStep(s) ==
    \/ StartSetup(s) \/ ListFields(s) \/ CheckField(s) \/ LookForTag(s)
    \/ SetupCreates(s) \/ SetupRefused(s) \/ SetupUnanswered(s) \/ FinishSetup(s)

WorkerStep(w) ==
    \/ \E topic \in Topics : TakeDocument(w, topic)
    \/ FindInCache(w) \/ WaitForLock(w) \/ TakeLock(w) \/ WorkerCreates(w)

HumanStep ==
    \/ \E n \in Names : \E k \in {"near", "other"} : HumanMakesField(n, k)
    \/ \E t \in Tags : HumanMakesTag(t) \/ HumanRemovesTag(t)

Next ==
    \/ \E s \in Setups : SetupStep(s)
    \/ StartRun \/ LookForReviewTag \/ CreateReviewTag \/ FinishRun
    \/ \E w \in Workers : WorkerStep(w)
    \/ HumanStep

Spec == Init /\ [][Next]_vars

----------------------------------------------------------------------------
(* Properties.                                                             *)

TypeOK ==
    /\ renamed \subseteq Fields /\ unique \in BOOLEAN
    /\ copies \in [Names \cup Tags -> 0..2]
    /\ kind \in [Names -> Kinds]
    /\ gate \in BOOLEAN
    /\ setups \in [Setups -> [at : {"idle", "fields", "ensure"},
                              found : SUBSET Names, todo : Seq(Names \cup Tags),
                              missing : BOOLEAN, tries : 0..MaxTries,
                              ok : BOOLEAN, created : BOOLEAN]]
    /\ run \in [at : {"none", "review", "work"}, cache : SUBSET Tags,
                missing : BOOLEAN, tries : 0..MaxTries]
    /\ workers \in [Workers -> [at : {"idle", "wants", "waits", "creates", "failed"},
                                topic : Tags, tries : 0..MaxTries]]
    /\ {crowded, edited} \subseteq BOOLEAN
    /\ removed \subseteq Tags /\ settled \subseteq {"cli", "web"}
    /\ {startsLeft, troublesLeft} \subseteq Nat

\* What `pa doctor` asks of the fields and the tags.
Healthy ==
    /\ \A f \in Fields : copies[NameOf(f)] > 0 /\ Compatible(f, kind[NameOf(f)])
    /\ copies[ReviewTag] > 0

\* However the requests of the dashboard and the workers of a run interleave,
\* one at work alone creates no name twice, even if Paperless would take it.
NamesStayUnique == ~crowded => \A o \in Names \cup Tags : copies[o] <= 1

\* ... and no document fails because of a tag.
AloneNoDocumentFails == ~crowded => \A w \in Workers : workers[w].at # "failed"

\* The cache of a run names tags that exist, or that a human has removed.
CacheIsTrue == \A t \in run.cache : copies[t] > 0 \/ t \in removed

\* A setup in the dashboard that reports success leaves what the doctor asks.
SetupOkIsHealthy ==
    [][\A s \in WebRequests :
        FinishSetup(s) /\ setups[s].ok /\ ~edited => Healthy]_vars

\* A setup after one that succeeded creates nothing.
SecondSetupIsNoop ==
    [][\A s \in Setups :
        FinishSetup(s) /\ Group(s) \in settled => ~setups[s].created]_vars

\* The program never changes a field that exists.
NeverClobbers ==
    [][~HumanStep => \A n \in Names : kind[n] # "absent" => kind'[n] = kind[n]]_vars

\* `pa setup` that reports success leaves what the doctor asks.
CliSetupOkIsHealthy ==
    [][FinishSetup(Cli) /\ setups[Cli].ok /\ ~edited => Healthy]_vars
=============================================================================
