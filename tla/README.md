# Verification of Paperless Assistant

TLA+ models of `bradsp/paperless-assistant`: a Python program that triages,
re-OCRs and extracts metadata for the documents of a Paperless-ngx server, and
the control plane that hosts it for several tenants. The models are translated
from the source under `src/`; every path below is relative to the repository,
and `PA/` stands for `src/src/paperless_assistant/`, `CP/` for
`src/src/paperless_control_plane/`. `PROJECT.json` maps each definition to the
lines it models.

## 1. The system and its parts

| Part (source) | State it keeps | Operations | Talks to | What makes it correct |
|---|---|---|---|---|
| Hosted agent (`PA/hosted.py`, `hosted_state.py`) | files: credential, job cursor, result queue; memory: identity, job in hand | enroll, heartbeat, poll, execute, flush | control plane over HTTP, engines by call | a delivered job is carried out and reported, not run twice without cause |
| Transport (`PA/transport.py`) | none | request with timeout | HTTP | an error never counts as success |
| Control-plane store (`CP/store.py`) | one JSON file: tokens, agents, queues, results | mint, enroll, revoke, rotate, enqueue, lease, ack | called by the HTTP API and the CLI | no job leaves a queue without an acknowledgement |
| Control-plane API (`CP/app.py`, `server.py`) | none of its own; one thread per request | enroll, work (long poll), results, heartbeat, inference, admin | store, billing, direct runner | only authenticated agents act, only entitled ones spend |
| Control-plane CLI (`CP/cli.py`) | a second copy of the store file | mint-token, enqueue, revoke, billing commands | the same file as the server | what it writes takes effect |
| Billing and inference proxy (`CP/billing.py`, `inference.py`) | per-tenant subscription, usage and cap | check, forward, meter | upstream provider | usage is metered; the overshoot over the cap is bounded |
| Direct targets (`CP/direct.py`) | allow-listed tenant servers, review records | add, revoke, record a review, run | sweep engine in process | the registry holds the targets added and not revoked, each under its own id; a revoked one is not run again |
| Stage selection (`PA/stages.py`, `config.py`) | none (reads document fields) | fetch triage, re-OCR and metadata queues | REST client | a document is eligible for a stage exactly when it should be |
| Sweep (`PA/sweep.py`) | run report, fatal-provider latch | `run_once`: triage, re-OCR, metadata | engines, ledger, cursor | one run processes what is due, within the caps |
| Re-OCR engine (`PA/ocr.py`) | none | snapshot, transcribe, upload, wait, mark superseded | Paperless, providers | no document is replaced without a snapshot |
| Metadata engine (`PA/metadata.py`, `taxonomy.py`, `fields.py`) | name-to-id cache | snapshot, extract, PATCH | Paperless, providers | never loses tags or fields of the document |
| Snapshots (`PA/safety.py`) | one file per document and stage | snapshot, load, restore, merge | Paperless | restore brings back what was overwritten |
| Spend (`PA/spend.py`, `obs.py`, `providers/base.py`) | per-run total; day and month ledger file | check, add, period totals | every paid call | money spent is recorded; caps bound it |
| Nudge queue (`PA/webhook.py`) | file of pending and done document ids | enqueue, next pending, mark done, resume | Paperless webhook, sweep | no accepted nudge is lost, and none wedges the queue |
| Serve loop, cursor, pause (`PA/sweep.py`, `obs.py`) | cursor file, pause flag | tick, first-run guard | sweep engine, webhook server | the loop survives errors; a paused program does not run |
| Settings UI (`PA/webui.py`) | `RunManager`: one manual run at a time; config file | start run, pause, save settings | sweep engine on a thread | one manual run at a time; status tells the truth |
| REST client (`PA/client.py`) | API version noted from a reply | get, patch, post, task poll, paging | Paperless | a batch misses no document and takes none twice |
| Provisioning (`PA/provision.py`, `taxonomy.py`) | cache of taxonomy | ensure tags and fields, look up or create | Paperless | a name is created once; success means a run can start |
| Progress, report and audit log (`PA/progress.py`, `report.py`, `activity.py`) | counters in memory, report files, SQLite | begin, step, end, record, prune | UI | they tell what the run did |
| Layered settings (`PA/config.py`) | none | defaults, file, environment, overrides | CLI, dashboard | what is shown is what runs use |
| Batches (`PA/cli.py`, `src/stage*.py`) | none | page, queue, drain a pool | REST client, engines | no document is paid for twice |
| Dashboards, doctor, init, prompts, provider adapters | HTML, text | queries, rendering, wire formats | — | not protocol state; left out |

How they interact: `serve` runs the scheduler on its main thread, a webhook
server and a settings UI with one thread per request, and one thread per manual
run. There is no worker thread for nudges: the thread that serves a webhook
request drains the queue itself, and at start-up the main thread does; all of them call the same sweep engine on the same Paperless server
and the same files of the data directory. In hosted mode the agent is a single
thread that pulls jobs from a control plane, which serves each request on a
thread of its own under one store lock.

Where it is hard: results and acknowledgements crossing lost messages, crashes
between two file writes, leases that expire while the work goes on, runs that
overlap on one document with copies read before a model call, check-then-act on
caps, files shared by threads and by processes. `PROJECT.json` lists each such
place at its line under `hazards`, with the property that covers it or the
reason why none does.

## 2. Hosted job delivery: `ControlPlaneStore`, `HostedAgent`, `JobDelivery`

`ControlPlaneStore` is the store of the control plane. Every method of
`ControlPlaneStore` in `store.py` holds one re-entrant lock from its first read
to the atomic replacement of the file, so each is one action: `MintToken`,
`EnrollAs`, `RevokeAgent`, `RotateCredential`, `Enqueue`, `Lease`, `Ack`. The
clock is abstracted to one bit per dispatched entry: `VisibilityElapses` ends
its timer at any time, and `ReclaimExpired` — which the code runs at the head of
`lease_next` — makes such entries deliverable again. A queue is a set of entries
ordered by an enqueue stamp, because `lease_next` takes the first deliverable
entry and `ack` removes by id.

`HostedAgent` EXTENDS it with the agent and the network. The agent's durable
state is three files (`creds`, `cursor`, `outbox`), each replaced atomically.
A step of the agent is the code between two durable effects, so that
`CrashAgent` can strike between any two of them; `pc` names the places:

| `pc` | code |
|---|---|
| `loop` → `enroll` | `ensure_enrolled` (hosted.py:228-254) |
| `loop` → `heartbeat` | `maybe_heartbeat` (347-374) |
| `flush` → `push` → `acking` → `flushed` | `flush_results` (322-344), removal of the result and cursor write being two files |
| `poll` | `poll_once` (257-277) |
| `pulled`, `executing`, `running`, `executed` | `_execute_and_push` (279-311): cursor, cursor, engine run, cursor, result queue |

Requests are records in a set; a request whose caller gave up (`live = FALSE`)
may still be served later, which is how a delayed or duplicated push is
modelled. `FailCall` is every way a call ends in `TransportError`. The long poll
authenticates in `HandleWork` and hands out a job in `ServeParked`. An exception
of the engine is not caught by `run` (only `TransportError` and `RevokedError`
are), so it is the same action as a crash, and the container is restarted
(`docker-compose.example.yml`: `restart: unless-stopped`).

`JobDelivery` is what hosted mode promises of a job: new, pending, done,
reported, with one final report. `HostedAgent!DeliversJobs` checks that the
whole protocol implements it, under the refinement mapping `Phase`.

Bounds: `MaxCrashes`, `MaxLosses`, `MaxEnqueues`, `MaxCred`. One crash and one
loss are the interesting case: each property concerns one job and one gap
between two durable effects, a second crash restarts from the same files, and
two jobs are enough for a flush to carry another job's result.

Fairness (`FairSpec`): the container is restarted, the agent thread keeps
running, the server serves the call that waits, and each visibility timer ends.
The operator, crashes and losses get none.

| Run | Question | Result |
|---|---|---|
| `hosted_safety` | two jobs, a crash, a loss: nothing lost or run twice; refinement of `JobDelivery`; each job queued for the holder of the valid credential leaves the queue | holds |
| `hosted_reenroll` | two registrations, revocation, rotation: what the agent calls acknowledged has left the queue it pulls from | holds |

`hosted_safety` sets `RepeatIds = FALSE`: the operator gives
each job a fresh id, which is what the CLI does by default. With `RepeatIds =
TRUE` and three enqueues TLC violates `EveryJobIsAcked`: for a job that was
acknowledged and is enqueued again, hosted.py:289 pushes nothing.

`ReportIsFinal` (no job is reported twice with different results) holds in the
instance of `hosted_safety` too; it is no longer one of its properties.

More statements fail in this model and keep their definitions, but no run:
`CrashKeepsResult` (hosted_state.py:39 "a crash after executing-but-before-acking
leaves the result queued": not one between hosted.py:305 and 310),
`AckedLeavesEveryQueue` (store.py:300, ack "Removes it from the queue": not from
the queue of the id the agent had before it enrolled again),
`JobRunsOnce` (hosted.py:41 "NOT re-executed": a crash between lines 303 and 305
makes a redelivered job run again) and `RevokedGetsNoJob` (store.py:226 "A
revoked agent's calls are rejected": a request parked before the revocation
still leases a job).

## 3. Documents going through the stages: `DocumentStages`

One module stands for `stages.py`, the processing half of `sweep.py`,
`ocr.py`, `metadata.py` and `safety.py`, because their correctness is one
protocol between a run, the Paperless server, the snapshot directory and the
cursor file.

| State | Code |
|---|---|
| `docs` | the documents of the server: `ai_stage`, `ocr_quality`, tags, what the user added, and the garbage score of the text |
| `made` | the review tags `get_or_create_tag` has created |
| `snapshots` | `/data/snapshots/<stage>/<id>.json` |
| `firstRunDone` | `cursor.json` |
| `pc`, `target`, `dry` | a run: its stage, the document of a nudge, the resolved dry-run flag |
| `view` | the documents as the stage fetched them; every PATCH is computed from this copy |
| `step` | how far the workers are with each document of the queue |
| `stopped` | `Sweep._fatal_provider_error`, shared by the scheduler and the webhook worker |
| `origin` | history: the scan a copy goes back to |
| `paid`, `wasted`, `proposed`, `dryRuns` | history: provider answers paid for, those thrown away, those a dry run only reported, and dry runs begun |

A run is `BeginRun` (`run_once`, or `process_nudge` for one document), then
stage by stage `EnterStage` (the review tag, then the fetch, as in
sweep.py:527-531), then for each document, in any order because `_drain` uses a
pool: `SaveSnapshot`, `Pay`, and `WriteTriage`, `WriteMetadata` or `Upload` →
`CarryOver` → `MarkSuperseded`. Each is the code between two effects, so another
run, a user (`UserEdit`), an error (`GiveUp`, `ProviderRejects`) or a crash
(`CrashRun`, `CrashInSnapshot`) can come between any two.

What is left out: text, titles and taxonomy (only "the program tagged it"),
deletion of documents, snapshot retention (off by default), the amounts of the
spend caps (a cap is one reason for `GiveUp`), pausing. A nudge for a document
without text changes nothing and is no action.

Bounds: `NDocs` ids, some of them free for copies. A transcription is only begun
when an id is free (`HasRoom`); otherwise the re-OCR cap is taken to be reached.
Two documents with one copy each, or one with a copy of its copy, are the
shapes the properties distinguish; scores are 10 or 90 around the threshold of
55 because only the comparison with it is used. `MaxFailures` and `MaxEdits`
count crashes, errors and edits. `MaxDryRuns` (`MayBegin`) bounds the dry nudges;
the sweeps that are dry because none has completed yet are bounded by the crashes
that keep them from completing.

Fairness (`FairSpec`): the scheduler begins a sweep again and again (strong
fairness, because a nudge may find the runner idle first; in the code the
scheduler is a thread of its own) and a run that began goes on. Nothing is
promised of nudges, users or failures.

| Run | Question | Result |
|---|---|---|
| `documents_one` | one run at a time with a failure and an edit: payments are accounted for, the first sweep is dry, and every document settles in spite of the failure | holds |
| `documents_two` | two overlapping runs over three ids: what survives stale copies, namely that snapshots come first, that only garbage is sent to re-OCR and that what is superseded has its replacement | holds |
| `documents_limited` | every document is triaged, with a limit | violated: the limit is applied before the filter |

A dry run is not free: `Pay` calls the provider and only then looks at `dry_run`
(ocr.py:248 before 257, metadata.py:262 before 264), so the dry first sweep and
the sweep after it both pay for a document. `PaidWorkIsAccountedFor` counts that:
the payments of a stage for a document are at most one, plus the answers thrown
away, plus the dry runs' proposals, of which each dry run makes at most one.

`StageAdvances` and `PaidWorkIsAccountedFor` hold of the program only
while its runs do not overlap; nothing in the code keeps a manual run, the
scheduler, the webhook worker and a CLI process apart.
`SupersededHasReplacement` (following docs/re-ocr.md and deleting everything
tagged `superseded` never loses a scan), `SnapshotPredatesWrite`,
`OnlyGarbageIsReocred` and `FirstSweepIsDry` hold even then.

`StageAdvances` and `GarbageIsReplaced` hold in the instance of
`documents_one` too, and are not among its properties; that a lone run keeps
`StageAdvances` is proved for every instance (`LoneRunAdvances`).

More statements fail and keep their definitions, but no run. `StageAdvances`
with two runners (config.py:51 "it must never be re-triaged back to `triaged`");
`OnlyGarbageIsReocred` with `ScoreField = "integer"` (the field holds 10, which
is compared with 0.55); `ReocredGetsMetadata` with `reocr_done` eligible
(docs/configuration.md:172: the score that was carried over keeps the copies
out);
`UserEditsSurvive` (metadata.py:184 "Merge-not-clobber tags": what the user adds
between the fetch of a stage and its PATCH is erased), `WriteIsReversible`
(docs/troubleshooting.md:73 "state before each write is captured": a crash inside
`write_text` leaves a cut-off snapshot, which the next run keeps) and
`DryRunMakesNothing` (docs/usage.md:64 "Propose only; write nothing.": the review
tags are created before the stages look at dry-run).

## 4. The serve process: `NudgeQueue`, `ServeProcess`

`NudgeQueue` is the persisted list of nudged documents. One lock covers each
method from its read of the file to the atomic replacement of it, so each is one
operator: `Enqueue` and `Debounce` (the two returns of `enqueue`), `IsNext`
(`next_pending`, which leaves the entry in the list), `MarkDone`. The list is
kept as the place of each document in it. Whether a nudge falls within the
debounce window of the last one is left open; it must have had one.

`ServeProcess` EXTENDS it with the threads of `pa serve`: `"main"` (the scheduled
sweep, and the drain at start-up), one per webhook request (`Handlers`), and
`"manual"` (a run from the dashboard). What a run does to a document is the
subject of `DocumentStages`; here a document is scanned, ready or handled.

| `pc` | code |
|---|---|
| `down`, `off` | the process, or the thread, does not run |
| `drain` | `NudgeProcessor.drain`, before `next_pending` (webhook.py:191-194) |
| `begin` with a document in `hand` | `process_nudge`, before its first effect (sweep.py:731-774) |
| `work` with a document in `hand` | the stages of `process_nudge` (776-793) |
| `mark` | `process_nudge` returned or raised, `mark_done` is next (webhook.py:203) |
| `tick` | the head of the loop of `serve` (sweep.py:923-957), its sleep included |
| `work` with `hand` empty | `run_once`, with `due` documents left |
| `begin` of `"manual"` | `RunManager._run` before the sweep has its fields |

The code tells two kinds of exception apart. What derives from `Exception` is
caught by the drain, the loop and `RunManager` (`FailNudge`, `FailSweep`,
`FailWork`). A missing custom field raises `SystemExit` (fields.py:64), which
none of them catches: `ThreadExits` ends the process on the main thread and the
thread elsewhere, which also leaves `in_progress` of the `RunManager` set.

`Crash` may strike anywhere and leaves the files; `Setup` puts a lost field back
at any time. Reads of `dry`, of the pause switch and of the document happen in
one step, `FetchNudged`: nothing this process does to a document can depend on
a change between them that it would not see in the next step as well.

| Run | Question | Result |
|---|---|---|
| `serve` | two documents, two handlers, a manual run; one crash, exception, pause or lost field anywhere: is an accepted nudge ever lost, does a drain empty the queue, is every document handled in the end? | holds |

Bounds: `MaxRequests` = 2 (webhook requests and manual runs) puts two threads on
the queue at once, or a manual run next to one; `MaxTroubles` = 1 is one
disturbance at any point of that. A third request repeats a nudge of a document
that was nudged before, and the theorem below covers any number of them for
safety.

Fairness (`FairSpec`): the container is restarted (`docker-compose.example.yml`:
`restart: unless-stopped`), and each thread keeps running. Failures, requests,
the pause switch, Paperless and the return of a lost field get none; so
`DrainEmpties` and `EveryDocumentIsHandled` are stated up to a pause or a
missing field, which do stop the program by design.

Three statements fail in this model and keep their definitions, but no run:
`LoopSurvives` (sweep.py:943 "the loop must survive ANY tick error": a
`SystemExit` ends it, and the container is restarted in a loop until the field
is back), `InProgressMeansRunning` (webui.py: after a `SystemExit` in a manual
run, all later ones are refused with 409) and `NoDocumentInTwoHands` (a handler
that drains the queue takes the document another handler is processing, so two
threads pay for the same document).

## 5. The vendor side: `StateFile`, `BillingStore`, `DirectTargets`, `VendorProcesses`

The control plane keeps three JSON files, each behind a store object that reads
it once and replaces it whole at every change. `StateFile` is that discipline
alone: `Open` (`__init__`), `Save` (an operation, under the store's lock),
`Close` (the process is gone), `SaveAndClose` (a command). Two of its steps fail:
`OpenUnread` is a file that cannot be read or parsed, which leaves an empty copy
(store.py:129, billing.py:101, direct.py:183), and `SaveFails` a save that raises
after the copy was changed. `shared` remembers which processes had the file while
another had it too, `apart` those whose last read or save failed.
`VendorProcesses` INSTANCEs it three times, for the agents and jobs, for billing
and for the direct targets; `BillingStore` and `DirectTargets` are the operations on
the contents of the last two. The registry of targets is a function keyed by id,
as the dict of the code is: an id that is given out twice replaces a target.

| State | Code |
|---|---|
| `storeDisk`, `billDisk`, `targDisk` | the files |
| `storeCopy`, `billCopy`, `targCopy` | what the server, the operator commands (`CP/cli.py`) and a direct run hold of them |
| `call` | what each server thread, or worker of a direct run, does with an inference call: authenticated, entitled, admitted by the cap, paid (app.py, inference.py:183-240) |
| `command`, `run` | the commands under way, and the target record a direct run read when it began |
| `opened`, `answered`, `said`, `added`, `revoked`, `mixed` | history |

A command is two steps, the read of its file and its one operation, so that the
server, a direct run or another command can save in between; `Operators` are the
processes commands can overlap in. `revoke` and `direct-revoke` of what their copy does
not know end without a save. A command that fails to save ends (`CommandFails`); a
server that fails to save answers with an error and keeps the change in memory. A
call is one step per lock it takes. The server and a direct run can be stopped
between any two steps.

| Run | Question | Result |
|---|---|---|
| `vendor` | a server with two threads, commands that overlap, a direct run, and files that cannot be read or saved: by how much can a spend cap be overshot, is every answered call in the ledger of its process, what survives a kill of a process that has its files for itself, does the registry of targets hold what was added and not revoked? | holds |

`LoneIsOnDisk` says what a process can rely on: one that had its file for itself,
could read it and whose last save worked holds what the file holds.
`RegistryIsWhatWasDone` speaks of histories in which the users of the registry came
one after the other and could read it (`~mixed`); revocations, runs, kills and
failed saves between them are all there.

Bounds: one tenant and two calls above a cap of 1 are enough for two threads to
pass the check together; `Operators` = 2 lets two commands read the same file;
`MaxCommands` = 3 allows a target to be added, revoked and added again;
`MaxStarts` = 2 is a restart of the server, or a server and a direct run;
`MaxTroubles` = 1 is a read or a save that fails anywhere. The operators and the
threads of the server are interchangeable (`Alike`).

What does not hold:

- What the definitions `SuspendedIsRefused` and `RevokedNeverRuns` state, and TLC
  violates both: the server never reads the billing file again, so a tenant
  suspended with `subscribe` keeps being served and the next metered call
  overwrites the suspension (docs/phase6-acceptance.md:205 expects a 402); and a
  direct run that ends saves the registry it read when it began, which brings a
  target revoked meanwhile back (cli.py:214).
- `RegistryIsWhatWasDone` without `~mixed`: two `direct-add` commands that read the same
  registry give out the same id, and a direct run that ends takes an id given out
  meanwhile back, to be given out again.
- `LoneIsOnDisk` with the processes in `apart`: a server that could not read its file
  starts from an empty one, and its first save replaces what the file held.

## 6. Caps and the ledger: `SpendCaps`

The `SpendGovernor` of a stage (`spend.py`), the `SpendLedger` file
(`obs.py:79-140`), the retry that makes a rejected answer cost a second call
(`providers/base.py`), and the parts of `sweep.py` that tie them: the period
gate before a document, the fatal-error latch, the ledger entry at the end of a
stage. A worker goes `idle` → `gated` → `open` → call → charge; the ledger is
read, added to and replaced in separate steps under the lock of its object.
`object` says which Sweep object a run works with: nudges share the scheduler's,
a manual run makes its own (webui.py), and so does a process of the command
line.

| Run | Question | Result |
|---|---|---|
| `spend` | a sweep of two workers beside a nudge or a run of its own: how far is a cap overshot, can the ledger show more than was paid, does it add up while one object is at work, does a rejected account stop the sweep? | holds |

Bounds: caps of one unit and a cost of one unit per call put every call at the
boundary; five calls let three workers fail an answer and retry beside a run
that starts anew; one fault is one lost write, provider error or crash.
`PeriodGateSound` (below the period cap while nothing raced) holds in the same
instance and follows from `AloneAddsUp`.

Two statements fail and keep their definitions: `RunCapHolds` (`per_run` caps
each billable stage of a run, not the run, because `_run_reocr` and
`_run_metadata` each make a governor) and `GovernorSeesEveryCall` (the cost of a
first attempt is lost when the second one raises, base.py:141).

## 7. Settings and the dashboard: `LayeredSettings`, `Dashboard`

`LayeredSettings` is `config.py` as functions: defaults, `ApplyYaml`,
`ApplyEnv`, `ApplyOverrides`, and `Locked`, which the page uses to tell what the
environment overrides. The two lists of variables are kept apart, as in the code:
those `_apply_env` reads (`WithVariable`) and those of `ENV_OVERRIDE_KEYS` (`Listed`). A
setting has a default, a value and another value; a file is its keys and may hold
a value that does not cast, not be YAML at all, or hold a key the loader refuses.

`Dashboard` EXTENDS it with a page in a browser, request threads that read the
file, validate and write it in place (`webui.py:191-400`, `_post_config`; a key
that a block does not know is dropped, `Known`), hand edits, restarts, and the
manual run, which loads the file anew with the overrides its options name
(`RunManager`, `_overrides_from_options`): dry-run always, re-OCR, the limit and the
spend cap when they are given.

| Run | Question | Result |
|---|---|---|
| `dashboard` | is a save lost, does it take effect, does a form change settings nobody edited, does a run use what the page shows, can it write without having been asked? | holds |

What the properties set apart is part of the result. Two saves at once lose one,
and a crash inside a write leaves half a file (`disturbed`): that hazard is in the
model, and no property forbids it. The form of the page
sends all its fields (`saveSettings`, webui.py:1813), so a page loaded before
somebody else's save puts the old values back: only a `fresh` form changes
nothing but what was edited. The data directory can be moved by the file itself,
after which later saves go to another file. `SavedTakesEffect` excepts the variables
that count without being shown as locks (`Silent`): those of the webhook, which
`ENV_OVERRIDE_KEYS` does not list, and an empty `PA_DRY_RUN`.

Bounds: five keys stand for the kinds of setting (an empty variable counts; it does
not; the variable is not listed; no variable; a key that a save drops), two of
them settings a run may name; two requests overlap, with manual runs without end;
one trouble is a hand edit or a crash around them. With three keys (dry-run, a
limit, re-OCR) two troubles were checked as well.

Three statements fail and keep their definition, without a run. Two are of the
repository: `SavedUnlessLocked` (config.py:848 says a setting that the environment
overrides must be shown read-only; config.py:1159-1164 reads three variables that
850-898 does not list; the key `port` and one request show it) and
`ReocrOnlyIfAsked` (webui.py:163 says "`reocr` else off"; webui.py:168 leaves the
configured value, so that a file with re-OCR on decides; two requests show it). The
third is `InProgressMeansRunning` (a run that ends in `SystemExit`, raised for a
missing custom field, leaves `RunManager` busy for ever, webui.py:125).

## 8. Who creates objects in Paperless: `Provisioning`

`pa setup`, the setup of the dashboard behind its gate
(`_SETUP_IN_PROGRESS`), and the workers of a metadata run, which create the tags,
correspondents and types a model names (`taxonomy.py:51-79`), all look first and
create then. A request may be answered with a transient error after it was
carried out, and is retried by `client.request`; whether Paperless refuses a name
it has is left open, so both answers are checked.

| `at` of a setup or worker | code |
|---|---|
| `fields`, `ensure` | `ensure_fields` lists once, then one field or tag after the other (provision.py:116-182) |
| `wants`, `waits`, `creates` | the cache, the lock and the POST of `_resolve_or_create` |

| Run | Question | Result |
|---|---|---|
| `setup` | two requests, the command and a run of two workers: is a name created twice, does a document fail for a tag, does a success leave what `pa doctor` asks, does a second setup create anything? | holds |

`NamesStayUnique` and `AloneNoDocumentFails` are stated while nothing else
creates objects (`crowded`): a setup beside a run, two processes, or a retry of a
POST that was carried out do create a name twice, or fail, in the model as in the
code. Both also need a tag of review that the model does not name: the tag
`get_or_create_tag` makes (taxonomy.py:81-89) is not put into the cache of the run,
which was loaded before, so in the run that makes it a worker asked for the same
name creates it again, or its document fails. With `Topics = {topic, review}` TLC
finds both, which is why the theorems about them assume `ReviewTag \notin Topics`.
`CacheIsTrue` and `NeverClobbers` (no existing field is changed) hold in
the same instance.

Bounds: the two fields are one that may be any number and one with options; one
review tag and one topic; two attempts instead of six per request, because only
"answered at last" and "given up" differ.

`CliSetupOkIsHealthy` fails: `cmd_setup` (cli.py:301) does not pass the field and
stage names of the settings to the `Provisioner`, although provision.py:108 says
"`pa setup` provisions the CONFIGURED names"; it reports "Setup OK", and every
run then ends because the configured fields are missing. The dashboard passes
them (webui.py:746).

## 9. What a run leaves behind: `RunRecords`

The tracker (`progress.py`), the rows of the audit log and their retention
(`activity.py`, `sweep.py:242-302`), the persisted report (`report.py`) and the
cursor file (`obs.py:143-185`, written in place), as the threads of one process
write them. A run works on its documents one effect
at a time: PATCH, then row, then spend ledger, then report line and tracker; then it
prunes the log, persists, and rewrites the cursor file twice (`record_run`,
`mark_first_run_done`), each as read, truncate and write. The ledger is a file too
(`sweep.py:545`, `:628`): when `ledger.add` raises after the row of a change stands,
`_drain` makes an error of the document, with an ERROR row beside the `done` row
(`LedgerFails`). Log and report then disagree on how the document ended, and
`ReportTellsWhatTheRunDid` says no more than that such a row has its outcome in the
report, if only as an error.

| Run | Question | Result |
|---|---|---|
| `records` | the scheduler, a manual run and a nudge overlap, fail and are killed: is every change in the log and in the report, is anything in them that was not done, is the tracker exact, can the first-run mark be lost? | holds |

What was found while writing it: the `run_id` of a row is that of the report of
the stage, not of the sweep; a nudge writes into the tracker without `begin_run`,
so it mixes with, or resets, the figures of the run on display (the reason for
`alone`); a run that fails in a later stage persists no report of the earlier
ones. `ActiveMeansRunning` fails and keeps its definition: `run_once` calls
`begin_run` at sweep.py:361 and reads the custom fields before its `try`, so a
Paperless that does not answer leaves the tracker active, against the comment at
sweep.py:390 ("so the dashboard doesn't show a stuck run").

Bounds: two runs of the three threads overlap in every way over one document, which
each may take to both stages; two troubles are failed inserts, reads, writes,
ledgers or persists, or kills, at any two points. Two documents and three threads are
past the five minutes of a run; two documents were checked with one sweep
and the nudge. Documents, and the sweep threads, are interchangeable (SYMMETRY; no
liveness is checked).

## 10. Batches over a list that changes: `PagedBatch`

`pa triage`, `pa metadata` and the scripts stage0 and stage2 they come from ask
for the documents page by page (`client.py:178-190`), queue copies of what they
take and drain the queue with a pool, for real or as a dry run (`--dry-run`),
triage also with `--force`. Meanwhile documents arrive, are deleted or
change their place in the list.

| Run | Question | Result |
|---|---|---|
| `batch` | is a document missed, and is an answer written and paid for twice for one document? | holds, for documents that keep their place, but once more for each forced triage |

Both properties say what the code depends on: when a document leaves its place
while a command pages, those behind it move up and one can be missed; when one
comes in, they move down and one is served twice, taken twice and, by the
metadata batch, paid for twice. `pa triage --force` (`cli.py:97`) takes a document
with metadata back to `triaged`, so that the next metadata batch pays for it again:
`redone` counts these, and the property allows one more payment for each. `paid`
leaves out the answers that were not written, those of failed writes, of killed
commands and of `pa metadata --dry-run`, which calls the provider for every document
it reports (`metadata.py:262`): dry runs cost as often as they are repeated.
`Scripts = TRUE` is the test of
`stage0_triage.py:203`, which skips only documents that are exactly `triaged`:
TLC then violates `PaidOncePerWrite`, because a second triage without `--force`
takes documents with metadata back and the next metadata batch pays for them again.
The commands do not (`stages.py:52`); the scripts are kept as they were
(docs/architecture.md:25).

Bounds: three documents on pages of two and one that may arrive give every shift
of a page boundary; one change, one failure or kill, one
forced triage, commands without end.

## Proofs

`HostedAgent_proofs` proves, for every set of jobs, agents and tokens and every
bound, from `StoreAssumption` and `AgentAssumption` and what is said at a theorem:

- `TypeCorrect`: `Spec => []TypeOK`.
- `NoJobIsLost`: `Spec => []NoJobLost`. `NoJobLost` is not inductive: that an
  acknowledgement removes only jobs that were carried out depends on what is in
  flight. `IInv` adds `DoneInv` (a queued result is of an executed job), 
  `Vouched` (so is the result in any request in flight, however old) and
  `RunInv` (the program counter agrees with the cursor).
- `RunsAccounted`: `Spec => []RunsAreAccountedFor`, from the same `IInv`.

- `AckedStaysOut`: `Spec => []AckedHereIsAckedThere`, if no id is enqueued twice
  (`~RepeatIds`, as in both runs). What is acknowledged stays out because it is
  never queued again (`NeverRequeued`) and the agent never goes back to an
  earlier queue: `IdentityInv` says the identity in use is the one on disk and
  nothing is queued for an id not yet handed out, `GoneInv` that nothing
  acknowledged is queued for the id on disk, nor for one a reply is about to
  make it. A late reply is harmless by `CallInv` (the agent waits for one request
  only, the last it made); `KnownInv` says that whatever the agent works on was
  submitted.
- `JobsAreDelivered`: `Spec => DeliversJobs`, the refinement of `JobDelivery`, if
  there is one agent id and no job id is enqueued twice: every step is one step
  of the promised life of one job, or a stutter. What has to hold in between is
  `ReportInv`: the report of a job is the same in the agent's queue file, in any
  request in flight, however old, and at the control plane. The hypotheses are
  those of `hosted_safety`. An agent that enrolled again acknowledges a job in a
  queue it is not in, and a job id enqueued again starts a second life;
  `JobDelivery` promises neither.

The proofs have one step per action; the lemmas before them say what an update
of one field of an entry or a request leaves alone.

`DocumentStages_proofs` proves, for every number of documents and overlapping
runs, every set of garbage scores, every configuration and every bound, from
`StagesAssumption` and `CopyAssumption` (the markers `NoCopy` and `Torn` are not
documents) only:

- `TypeCorrect`: `Spec => []TypeOK`, by the inductive `TypeInv`, which adds
  `Held`: a document in hand has a fetched copy and belongs to a running stage.
- `SnapshotsFirst`: `Spec => []SnapshotPredatesWrite` when triage is not forced.
  The property says nothing of the copies runs hold, and those are what is
  written to the snapshot directory, so `SnapInv` adds that a fetched copy is of
  a stage before the one that works on it or has a snapshot already, and that
  work past the snapshot has one. Finished documents may be made eligible for
  metadata again (`metadata_done` in `EligibleRoles`): they are never saved a
  second time because each of them, re-OCRed copies included, has its metadata
  snapshot, which is one more conjunct. The copy a re-OCR uploads is written
  without a snapshot; that it is never mistaken for a scan is `ScanInv`. The
  condition is needed: a forced triage of a re-OCRed copy saves a document that
  is already past triage.
- `FirstSweepDry`: `Spec => []FirstSweepIsDry`. `DryInv` adds that before the
  first sweep has completed every run is dry, and that a dry run never has an
  answer, or a triage snapshot, in hand.
- `GarbageOnly`: `Spec => []OnlyGarbageIsReocred` with a float score field.
  `ScoreInv` adds that a triaged document has the score of its own text, which
  needs `ScanInv`: a fetched copy, however stale, has the text of its document.
- `ReplacementStays`: `Spec => []SupersededHasReplacement`. A replacement can
  itself be marked, by a run that re-OCRs it or because it was uploaded from a
  copy with the mark, so `RankInv` says that the documents can be ranked such
  that each one that is marked, or that a run is about to mark, has one of its
  scan below it that a stage has written. An upload ranks the new document below
  the old one, or level with it when the run saw the old one marked
  (`UploadRank`); the lowest written document of a scan is then unmarked.
- `LoneRunPaysOnce`: `Spec => []PaidWorkIsAccountedFor`, and `LoneRunAdvances`:
  `Spec => StageAdvances`, when triage is not forced and there is one run at a
  time (the set of runners has at most one member; how many runs it makes, one
  after the other, is not bounded). That is what `documents_one` has and what the
  code does not enforce: two overlapping runs pay twice for a document both have
  queued, and a stale triage takes it back. The first theorem also needs that
  `metadata_done` is not eligible, since a user who makes it eligible asks for
  metadata to be extracted, and paid for, on every sweep; the second does not.
  `PaidInv` says where a payment that was neither wasted nor a dry run's is: the stage
  has been through with the document (`Done`), or a run has the answer in hand
  (`Taken`). It needs that no document goes back, and `QueueInv` gives that: a run
  works on documents that are open to it (`Open`: its stage is not done with
  them, or is metadata and may do them again), and the copy it uploads is not
  among them, so it writes the copy without disturbing what it fetched. Every
  other step is `Accounted`: it pays nothing, and what leaves the hand is counted
  as wasted. `ProposeInv` is about the dry runs: one that may still propose a stage
  for a document (`Still`) is not among those that did, because a run enters its
  stages in order and drops a document with its proposal.

Each action has an effect lemma; steps are then sorted into quiet ones (drop
work, change no stage), entering a stage, saving, paying, writing and uploading
(`StepKinds`), and each part of the invariant is proved once per kind. The SMT
backend cannot take the empty string, so facts about the stage `""` are proved
by Zenon.

`Queues_proofs` proves, of `ServeProcess`, for every finite set of documents, every
set of handler threads and every bound, from `QueueAssumption` and `ServeAssumption`:

- `TypeCorrect`: `Spec => []TypeOK`. That a new entry has a place within the
  list of all documents needs the cardinality of the pending set
  (`PlaceForOneMore`, from the library's facts about finite sets).
- `AcceptedIsQueued`: `Spec => []AcceptedStaysQueued`. `Finish` takes out of the
  list whatever is in hand, so `PromiseInv` adds that a document at `mark` is no
  longer owed anything, and that what is queued or in hand was promised, which
  keeps a document from being promised again. Steps that leave list and promises
  alone are proved by one lemma, `QuietStep`.

and of `PagedBatch`, for every set of documents (finite or not), every library, every
size of the pages and of the pool, every set of limits and every bound, from
`BatchAssumption`:

- `BatchTypes`: `BatchSpec => []BatchInv`, the types with the shape of the pool
  (`PoolShape`: a worker holds only what the pool has taken) and `PaysInHand`: the
  copies in hand of a document were paid for, so a call that was in vain can be
  taken back from its count.
- `NoneIsMissed`: `BatchSpec => []StandingIsQueued`. The property speaks of the time
  after the paging; `StandingIsAhead` says that until then each document the
  command should take is queued, or at a place of the list the command has not
  come to. An arrival moves it on, a page queues it or leaves it behind the end of
  the page, and a last page has nothing behind it.
- `NoneIsPaidTwice`: `BatchSpec => []PaidOncePerWrite` for the commands
  (`~Scripts`; for the scripts it is false, see section 10). While nothing came in
  during a paging, a queue has no document twice (`QueuedOnce`), because what is
  queued is never again on a page to come (`QueuedIsBehind`: a deletion moves
  documents towards the command, never away from it); so what waits is unwritten
  (`WaitingIsUnwritten`), what was paid for is written or in hand (`PaidIsWritten`),
  and triage without `--force` touches new documents only (`TriageOfNew`), which a
  forced one need not: `Kept`, the payments less the forced returns, is what stays
  at one.

They rest on what taking a place out of a sequence and putting one in does
(`RemovedAt`, `InsertedAt`), and on `InOrderLists`: the numbers of a finite set, taken
by their ranks, are all there and each once. The queue of a page is built of them,
since the operators that filter a sequence are recursive.

`VendorProcesses_proofs` proves, for every set of tenants, hosts, operators whose
commands overlap, threads and workers, every cap and every bound, from
`VendorAssumption` and `NoCopyAssumption` (the marker `NoCopy` is no billing store)
only:

- `LoneProcessIsOnDisk`: `Spec => []LoneIsOnDisk`. Every action does to each of
  the three files nothing, one read, one save or one exit, and a read or a save may
  fail (`NextIsFileSteps`); `FileStepKeepsLone` shows once that such a step keeps
  `Lone`, whatever the file holds. `Lone` adds what makes it inductive: two
  processes that hold a file at the same time are both marked as having shared it.
- `RegistryIsKept`: `Spec => []RegistryIsWhatWasDone`, by `RegInv`: until two had the
  registry at once or one could not read it, at most one process holds it, its copy
  is the file, and the counter is past every id that was ever given out or revoked.
  `AddEntries`, `RevokeEntries` and `ReviewEntries` say what the three operations do
  to the targets a registry has.
- `LedgerKeepsEveryCall`: `Spec => []LedgerAddsUp`. `Metered` adds that a process
  with a call under way holds the store, and that one without it has answered
  nothing since.
- `OvershootIsBounded`: `Spec => []SpendBounded`. By `LedgerAddsUp` what a process
  has of a tenant's spend is never below what it found, so a call that passes the
  check shows the process found less than the cap; metering then moves one call
  from the calls under way to the ledger. Whatever is past the check is a set of
  the process's own threads, and finite.

`SpendCaps_proofs` proves, for every finite set of runs, each with any finite set
of workers, every pair of caps, every number of attempts and every bound, from
`SpendAssumption` only (the theorems below need type correctness and `Calm`: what
a worker may hold at each of its steps, and that a run that is over has none at
work):

- `TypeCorrect`: `Spec => []TypeOK`.
- `Overshoot`: `Spec => []OvershootBounded`. What a governor shows is not bounded
  by the check alone: every worker that has passed it may still add a document.
  `Reserved` counts those workers with what they have shown.
- `LedgerIsPaid`: `Spec => []LedgerWithinPaid`. The sum over the workers of what
  they have not booked is no operator the provers can handle; instead `Backed`
  says that the payments 1 to `paid` can be shared out: to each worker as many as
  it has still to book, and of the others at least as many as the file shows and
  as any total a worker has read. A call adds a payment of its worker, a write
  frees those of its worker, a crash or a refused write frees them unbooked
  (`Released`).
- `LoneLedgerAddsUp`: `Spec => []AloneAddsUp`. `Exclusive` adds that while nothing
  raced, one worker at a time goes by a total it has read, and that this total is
  what was booked: the lock of the object is a lock of the file.
- `PeriodGate`: `Spec => PeriodGateSound`, from `Exclusive`.
- `FatalStops`: `Spec => FatalStopsTheRun`. `Latched` adds that a run that knows is
  aborted and has left the latch of its object set.

`Dashboard_proofs` proves, for every finite set of settings, every layer they are
in, every set of request threads and every bound, from `SettingsAssumption` and
`DashboardAssumption` only:

- `TypeCorrect`: `Spec => []TypeOK`.
- `OnlyIfAsked`: `Spec => []WritesOnlyIfAsked`, and `RunUsesShown`:
  `Spec => RunUsesWhatIsShown`. Both rest on `ResolveAt`, which says layer by layer
  what `load_settings` makes of a setting; the options of a run are any
  (`NamedAreKeys`).
- `LoneSaves`: `Spec => []LoneSavesKept`, and `SavedCounts`:
  `Spec => []SavedTakesEffect`. `Kept` says what a save under way is about to write
  (what the edits have made of the file, with its own on top), also while the
  file is torn, and that until two saves overlap there is one.
- `FreshForm`: `Spec => FreshFormChangesOneSetting`. `Repeats` adds that a fresh page
  shows what the file says and that a form sent from it repeats the page in all it
  was not edited in.

`RunRecords_proofs` proves, for every finite set of documents, every set of
sweepers and nudgers and every bound, from `RecordsAssumption` only:

- `TypeCorrect`: `Spec => []TypeOK`, by `TypeInv`, which adds what a thread may hold
  where it is (`ThreadInv`; no two make the same run) and that no run is recorded
  that has not begun (`PastInv`).
- `FirstRunDone`: `Spec => []FirstRunStaysDone`. The property is inductive: a run that
  stops writing to the cursor file has just seen or written the flag in it.
- `LogIsTrue`: `Spec => []LogTellsWhatChanged`. `AppliedInv` adds that what a worker
  takes for applied has reached Paperless.
- `ReportIsTrue`: `Spec => []ReportTellsWhatTheRunDid`. `ReportInv` says the same of the
  outcomes a run holds in memory (`RunTellsWhatItDid`: a change it has not reported
  yet, its worker has in hand; a row of a change may come before its outcome, so that
  `LogInv` is needed for the rows), and that a run which is not over has no report.
- `TrackerIsExact`: `Spec => []AloneTrackerIsExact`, with the cardinalities of the
  outcomes and of the documents in hand (`CountOneMore`, `PendingOneLess`). That a
  run is shown by nobody else rests on `ThreadInv` and `ReportInv`.

The actions are first sorted into kinds by what they do to the records and to
the thread (`StepKinds`): a step on the cursor file, a start, an end, a stage, a
report, a document tried, one the ledger fails, a document collected. Each invariant is proved per kind.

`Provisioning_proofs` proves, for every sequence of fields, every set of topics,
requests and workers and every bound, from `ProvisioningAssumption` only (no field
is required twice, no name of a field is one of a tag):

- `TypeCorrect`: `Spec => []TypeOK`.
- `NamesUnique`: `Spec => []NamesStayUnique`, and `NoDocumentFails`:
  `Spec => []AloneNoDocumentFails`, both under `ReviewTag \notin Topics` (section 8
  says why it is needed). `IInv` says that the flag of the dashboard is the presence of
  one request (`GateInv`), that a setup has each name left once (`TodoInv`), and that
  one worker creates what is not in the cache (`LockInv`). `AloneInv` adds, while
  nothing else creates objects, that what is about to be created is not there.
- `SetupOkHealthy`: `Spec => SetupOkIsHealthy`, from `HealthInv`: until a human edits,
  a setup that reports no trouble has each field still to do, or there and compatible;
  and what was not there when it listed the fields is not there, or as wanted.
  Neither a second setup nor a run beside it disturbs this (`ProvidedStays`).
- `SecondSetupNoop`: `Spec => SecondSetupIsNoop`, from `HealthInv` and `SettledInv`:
  after a success, the setups of its kind find every name they want.
- `CacheTrue`: `Spec => []CacheIsTrue`, and `Clobbers`: `Spec => NeverClobbers`, because
  all the program does to Paperless is add (`ProgramGrows`).

Here too the actions are sorted into kinds first (`StepKinds`).

Only model-checked: all liveness. The types of the queue modules and of the abstract
specifications are part of the type invariants above.

## What a run checks, and what it does not

Every property of a passing run has a mutant in `PROJECT.json`: a definition of
the model is replaced by a faulty one a bug in that code would give, and the
property fails. The type invariants of `VendorProcesses`, `SpendCaps`,
`Dashboard`, `Provisioning`, `RunRecords` and `PagedBatch` (`BatchTypeOK`), and the statements
the sections above say hold "in the same instance", were checked with TLC while
the modules were written and can be added to the configuration of the run. So
can, with the constants named there, the statements that are said to fail; one
of them is kept as a run (`documents_limited`), because it concerns what the
documentation says of ordinary use.

The runs say `CHECK_DEADLOCK FALSE` where the bounds make the system stop. In all
instances a bound ends an unbounded supply (requests, failures, commands), never
a step of the program.

## Not modelled

- The dashboards of the control plane, the pages and queries of the local one,
  authentication and HTTP framing: they read, and change nothing.
- Provider adapters, prompts, prices: translation to wire formats.
- PDF rendering and the garbage heuristic: data to the properties.
- The restore of a snapshot, the eviction of the results cache, the turn of a
  spend period, the back-off times of the client, the allow-list of a direct
  session, the torn read of the pause file, log rotation.
- The doctor beyond what it asks of fields and tags, `pa init`, the container
  entry point.

## Plan

Done: `ControlPlaneStore`, `HostedAgent`*, `JobDelivery`; `DocumentStages`*;
`NudgeQueue`, `ServeProcess`*; `StateFile`, `BillingStore`, `DirectTargets`,
`VendorProcesses`*; `SpendCaps`*; `LayeredSettings`, `Dashboard`*; `Provisioning`*;
`RunRecords`*; `PagedBatch`* (a star: has proofs; `ServeProcess` and `PagedBatch` share
a proof module).

Every invariant and action property that a run checks is stated by a theorem.
