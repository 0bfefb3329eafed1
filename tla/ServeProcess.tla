---------------------------- MODULE ServeProcess ----------------------------
(***************************************************************************)
(* The process of `pa serve`: the scheduled sweep on the main thread, a    *)
(* thread per webhook request, and a thread for a manual run from the      *)
(* dashboard (src/src/paperless_assistant/sweep.py, webhook.py, webui.py). *)
(*                                                                         *)
(* What a run does to a document is the subject of DocumentStages; here a  *)
(* document is ready once it has text, and handled once a run that writes  *)
(* has had it in hand.  A step is the code between two effects on a file,  *)
(* on the Paperless server, or on what another thread reads.               *)
(*                                                                         *)
(* An exception derived from Exception and a SystemExit are different      *)
(* things to this code: the handlers catch only the former.  A SystemExit  *)
(* is raised whenever a required custom field is not on the server.        *)
(***************************************************************************)
EXTENDS NudgeQueue

CONSTANTS
    Handlers,       \* threads that serve webhook requests
    MaxRequests,    \* bound: webhook requests and manual runs
    MaxTroubles     \* bound: crashes, exceptions, losses of a custom field, and
                    \*        changes of the pause switch

ASSUME ServeAssumption ==
    /\ {"main", "manual"} \cap Handlers = {}
    /\ {MaxRequests, MaxTroubles} \subseteq Nat

VARIABLES
    life,           \* Paperless: the documents
    fieldsPresent,  \* Paperless: are the required custom fields there?
    paused,         \* file: paused.json
    firstRunDone,   \* file: cursor.json
    pc,             \* where each thread is
    hand,           \* the nudged document a thread works on
    due,            \* the documents a thread has fetched and not yet dealt with
    dry,            \* does the run of a thread write nothing?
    inProgress,     \* RunManager._state: is a manual run in progress?
    promise,        \* history: what the queue owes to each document
    counts          \* counters of the bounds

serverVars == <<life, fieldsPresent>>
fileVars == <<paused, firstRunDone>>
threadVars == <<pc, hand, due, dry>>
vars == <<queueVars, serverVars, fileVars, threadVars, inProgress, promise, counts>>

Threads == Handlers \cup {"main", "manual"}
Bounds == [requests |-> MaxRequests, troubles |-> MaxTroubles]

\* A document without text, or none at all, is "scanned".
Lives == {"scanned", "ready", "handled"}

\* "down" and "off" are of the main thread and the others when they do not run.
Places == {"down", "off", "drain", "begin", "work", "mark", "tick"}

TypeOK ==
    /\ QueueTypeOK
    /\ life \in [Docs -> Lives]
    /\ fieldsPresent \in BOOLEAN
    /\ paused \in BOOLEAN
    /\ firstRunDone \in BOOLEAN
    /\ pc \in [Threads -> Places]
    /\ hand \in [Threads -> Docs \cup {NoDoc}]
    /\ due \in [Threads -> SUBSET Docs]
    /\ dry \in [Threads -> BOOLEAN]
    /\ inProgress \in BOOLEAN
    /\ promise \in [Docs -> {"none", "owed", "kept"}]
    /\ counts \in [DOMAIN Bounds -> Nat]

Down == [w \in Threads |-> IF w = "main" THEN "down" ELSE "off"]

Init ==
    /\ QueueInit
    /\ life \in [Docs -> {"scanned", "ready"}]
    /\ fieldsPresent = TRUE
    /\ paused = FALSE
    /\ firstRunDone = FALSE
    /\ pc = Down
    /\ hand = [w \in Threads |-> NoDoc]
    /\ due = [w \in Threads |-> {}]
    /\ dry = [w \in Threads |-> FALSE]
    /\ inProgress = FALSE
    /\ promise = [d \in Docs |-> "none"]
    /\ counts = [b \in DOMAIN Bounds |-> 0]

Count(b) ==
    /\ counts[b] < Bounds[b]
    /\ counts' = [counts EXCEPT ![b] = @ + 1]

At(w, label) == pc[w] = label

Nudged(w, label) == At(w, label) /\ hand[w] # NoDoc

GoTo(w, label) == pc' = [pc EXCEPT ![w] = label]

----------------------------------------------------------------------------
(* The process.                                                            *)

\* Every thread dies with the process; the files stay.
ProcessEnds ==
    /\ pc' = Down
    /\ hand' = [w \in Threads |-> NoDoc]
    /\ due' = [w \in Threads |-> {}]
    /\ dry' = [w \in Threads |-> FALSE]
    /\ inProgress' = FALSE

\* compose: restart: unless-stopped.  What was pending is drained first.
StartProcess ==
    /\ At("main", "down")
    /\ GoTo("main", "drain")
    /\ UNCHANGED <<queueVars, serverVars, fileVars, hand, due, dry, inProgress,
                   promise, counts>>

Crash ==
    /\ ~At("main", "down")
    /\ Count("troubles")
    /\ ProcessEnds
    /\ UNCHANGED <<queueVars, serverVars, fileVars, promise>>

\* A SystemExit ends the thread: the process if it is the main thread; a
\* handler or a manual run ends silently, and RunManager is not told.
ThreadExits(w) ==
    /\ IF w = "main" THEN ProcessEnds
       ELSE /\ GoTo(w, "off")
            /\ hand' = [hand EXCEPT ![w] = NoDoc]
            /\ UNCHANGED <<due, dry, inProgress>>
    /\ UNCHANGED <<queueVars, serverVars, fileVars, promise, counts>>

----------------------------------------------------------------------------
(* Nudges.                                                                 *)

Listening == At("main", "tick") \/ (At("main", "work") /\ hand["main"] = NoDoc)

\* do_POST, of an authenticated request with a document id.  The handler
\* drains the whole queue, not only its own document.
Nudge(w, d) ==
    /\ Listening
    /\ At(w, "off")
    /\ Count("requests")
    /\ Enqueue(d)
    /\ GoTo(w, "drain")
    /\ promise' = [promise EXCEPT ![d] = IF @ = "none" THEN "owed" ELSE @]
    /\ UNCHANGED <<serverVars, fileVars, hand, due, dry, inProgress>>

DebouncedNudge(d) ==
    /\ Listening
    /\ Debounce(d)
    /\ Count("requests")
    /\ UNCHANGED <<queueVars, serverVars, fileVars, threadVars, inProgress, promise>>

\* Fault: the document is taken out of the list before it is processed.
TakeNextOut(w) ==
    /\ At(w, "drain")
    /\ \E d \in Docs :
          /\ IsNext(d)
          /\ MarkDone(d)
          /\ hand' = [hand EXCEPT ![w] = d]
    /\ GoTo(w, "begin")
    /\ UNCHANGED <<serverVars, fileVars, due, dry, inProgress, promise, counts>>

TakeNext(w) ==
    /\ At(w, "drain")
    /\ \E d \in Docs : IsNext(d) /\ hand' = [hand EXCEPT ![w] = d]
    /\ GoTo(w, "begin")
    /\ UNCHANGED <<queueVars, serverVars, fileVars, due, dry, inProgress,
                   promise, counts>>

EndDrain(w) ==
    /\ At(w, "drain")
    /\ Pending = {}
    /\ GoTo(w, IF w = "main" THEN "tick" ELSE "off")
    /\ UNCHANGED <<queueVars, serverVars, fileVars, hand, due, dry, inProgress,
                   promise, counts>>

\* The call of process_nudge is over, one way or the other.
Returned(w) ==
    /\ GoTo(w, "mark")
    /\ promise' = [promise EXCEPT ![hand[w]] = IF @ = "owed" THEN "kept" ELSE @]
    /\ dry' = [dry EXCEPT ![w] = FALSE]

\* What the stages do to a document, in a run that writes.
Handle(w, d) == life' = IF dry[w] THEN life ELSE [life EXCEPT ![d] = "handled"]

\* A nudge is dropped while automatic processing is paused, or when the
\* document is not there, has no text yet, or is handled already.
SkipNudge(w) ==
    /\ Nudged(w, "begin")
    /\ paused \/ (fieldsPresent /\ life[hand[w]] # "ready")
    /\ Returned(w)
    /\ UNCHANGED <<queueVars, serverVars, fileVars, hand, due, inProgress, counts>>

FetchNudged(w) ==
    /\ Nudged(w, "begin")
    /\ ~paused /\ fieldsPresent /\ life[hand[w]] = "ready"
    /\ GoTo(w, "work")
    /\ dry' = [dry EXCEPT ![w] = ~firstRunDone]
    /\ UNCHANGED <<queueVars, serverVars, fileVars, hand, due, inProgress, promise, counts>>

NudgeExits(w) ==
    /\ Nudged(w, "begin")
    /\ ~paused /\ ~fieldsPresent
    /\ ThreadExits(w)

EndNudge(w) ==
    /\ Nudged(w, "work")
    /\ Handle(w, hand[w])
    /\ Returned(w)
    /\ UNCHANGED <<queueVars, fieldsPresent, fileVars, hand, due, inProgress, counts>>

\* An exception in process_nudge is logged, and the document marked all the same.
FailNudge(w) ==
    /\ \/ Nudged(w, "begin") /\ ~paused
       \/ Nudged(w, "work")
    /\ Count("troubles")
    /\ Returned(w)
    /\ UNCHANGED <<queueVars, serverVars, fileVars, hand, due, inProgress>>

\* Fault: a handler processes one document and leaves the rest.
FinishOne(w) ==
    /\ At(w, "mark")
    /\ MarkDone(hand[w])
    /\ hand' = [hand EXCEPT ![w] = NoDoc]
    /\ GoTo(w, IF w = "main" THEN "tick" ELSE "off")
    /\ UNCHANGED <<serverVars, fileVars, due, dry, inProgress, promise, counts>>

Finish(w) ==
    /\ At(w, "mark")
    /\ MarkDone(hand[w])
    /\ hand' = [hand EXCEPT ![w] = NoDoc]
    /\ GoTo(w, "drain")
    /\ UNCHANGED <<serverVars, fileVars, due, dry, inProgress, promise, counts>>

----------------------------------------------------------------------------
(* Sweeps, scheduled and manual.                                           *)

\* run_once fetches what is due.
FetchAll(w, d) ==
    /\ fieldsPresent
    /\ GoTo(w, "work")
    /\ due' = [due EXCEPT ![w] = {x \in Docs : life[x] = "ready"}]
    /\ dry' = [dry EXCEPT ![w] = d]
    /\ UNCHANGED <<queueVars, serverVars, fileVars, hand, inProgress, promise, counts>>

\* A tick of the scheduler, after the interval or the shorter retry delay;
\* paused, it only sleeps.
TickPaused ==
    /\ At("main", "tick")
    /\ paused
    /\ UNCHANGED vars

Tick ==
    /\ At("main", "tick")
    /\ ~paused
    /\ FetchAll("main", ~firstRunDone)

TickExits ==
    /\ At("main", "tick")
    /\ ~paused /\ ~fieldsPresent
    /\ ThreadExits("main")

\* RunManager.start refuses while a run is in progress.
StartManual ==
    /\ ~At("main", "down")
    /\ ~inProgress
    /\ Count("requests")
    /\ inProgress' = TRUE
    /\ GoTo("manual", "begin")
    /\ UNCHANGED <<queueVars, serverVars, fileVars, hand, due, dry, promise>>

\* The user chose whether the run writes; it does not look at the pause.
BeginManual ==
    /\ At("manual", "begin")
    /\ \E d \in BOOLEAN : FetchAll("manual", d)

ManualExits ==
    /\ At("manual", "begin")
    /\ ~fieldsPresent
    /\ ThreadExits("manual")

\* A stage of the sweep is done with a document.
Work(w, d) ==
    /\ At(w, "work")
    /\ d \in due[w]
    /\ due' = [due EXCEPT ![w] = @ \ {d}]
    /\ Handle(w, d)
    /\ UNCHANGED <<queueVars, fieldsPresent, fileVars, pc, hand, dry, inProgress,
                   promise, counts>>

\* What fails for one document leaves it for the next sweep.
FailWork(w, d) ==
    /\ At(w, "work")
    /\ d \in due[w]
    /\ Count("troubles")
    /\ due' = [due EXCEPT ![w] = @ \ {d}]
    /\ UNCHANGED <<queueVars, serverVars, fileVars, pc, hand, dry, inProgress, promise>>

SweepOver(w) ==
    /\ GoTo(w, IF w = "main" THEN "tick" ELSE "off")
    /\ due' = [due EXCEPT ![w] = {}]
    /\ dry' = [dry EXCEPT ![w] = FALSE]
    /\ inProgress' = (inProgress /\ w = "main")

\* Fault: a sweep does not record that the first one is done.
EndSweepForgets(w) ==
    /\ At(w, "work") /\ hand[w] = NoDoc
    /\ due[w] = {}
    /\ SweepOver(w)
    /\ UNCHANGED <<queueVars, serverVars, fileVars, hand, promise, counts>>

EndSweep(w) ==
    /\ At(w, "work") /\ hand[w] = NoDoc
    /\ due[w] = {}
    /\ SweepOver(w)
    /\ firstRunDone' = TRUE
    /\ UNCHANGED <<queueVars, serverVars, paused, hand, promise, counts>>

\* An exception ends the sweep: the loop retries, RunManager records it.
FailSweep(w) ==
    /\ At(w, "work") \/ At(w, "begin")
    /\ hand[w] = NoDoc
    /\ Count("troubles")
    /\ SweepOver(w)
    /\ UNCHANGED <<queueVars, serverVars, fileVars, hand, promise>>

----------------------------------------------------------------------------
(* The rest of the world.                                                  *)

\* Paperless extracts the text of a document.
Extract(d) ==
    /\ life[d] = "scanned"
    /\ life' = [life EXCEPT ![d] = "ready"]
    /\ UNCHANGED <<queueVars, fieldsPresent, fileVars, threadVars, inProgress,
                   promise, counts>>

\* The pause switch, from the dashboard or the CLI.
SetPaused ==
    /\ Count("troubles")
    /\ paused' = ~paused
    /\ UNCHANGED <<queueVars, serverVars, firstRunDone, threadVars, inProgress, promise>>

\* A user renames or removes a custom field; `pa setup` creates it again.
LoseField ==
    /\ fieldsPresent
    /\ Count("troubles")
    /\ fieldsPresent' = FALSE
    /\ UNCHANGED <<queueVars, life, fileVars, threadVars, inProgress, promise>>

Setup ==
    /\ ~fieldsPresent
    /\ fieldsPresent' = TRUE
    /\ UNCHANGED <<queueVars, life, fileVars, threadVars, inProgress, promise, counts>>

----------------------------------------------------------------------------
ThreadStep(w) ==
    \/ TakeNext(w) \/ EndDrain(w) \/ SkipNudge(w) \/ FetchNudged(w) \/ NudgeExits(w)
    \/ EndNudge(w) \/ Finish(w) \/ EndSweep(w)
    \/ \E d \in Docs : Work(w, d)

MainStep == ThreadStep("main") \/ StartProcess \/ Tick \/ TickPaused \/ TickExits

ManualStep == ThreadStep("manual") \/ BeginManual \/ ManualExits

World ==
    \/ \E w \in Handlers, d \in Docs : Nudge(w, d)
    \/ \E w \in Threads : FailNudge(w) \/ FailSweep(w) \/ \E d \in Docs : FailWork(w, d)
    \/ \E d \in Docs : Extract(d) \/ DebouncedNudge(d)
    \/ StartManual \/ Crash \/ SetPaused \/ LoseField \/ Setup

Next ==
    \/ MainStep
    \/ ManualStep
    \/ \E w \in Handlers : ThreadStep(w)
    \/ World

Spec == Init /\ [][Next]_vars

\* The container is restarted and its threads keep running; users, Paperless
\* and failures are promised nothing.
FairSpec ==
    /\ Spec
    /\ WF_vars(MainStep)
    /\ WF_vars(ManualStep)
    /\ \A w \in Handlers : WF_vars(ThreadStep(w))

----------------------------------------------------------------------------
(* Properties.                                                             *)

\* webhook.py, "restart-safe": a document whose nudge was accepted stays in
\* the file until a call of process_nudge for it has come to an end, whatever
\* crashes come in between.
AcceptedStaysQueued == \A d \in Docs : promise[d] = "owed" => d \in Pending

\* webhook.py:202, "must not wedge the queue": whatever process_nudge raises
\* short of a SystemExit, the queue a thread is draining gets empty.
DrainEmpties ==
    \A d \in Docs :
        d \in Pending /\ (\E w \in Threads \ {"manual"} : At(w, "drain")) ~>
            d \notin Pending \/ ~fieldsPresent

\* sweep.py, "the scheduled sweep remains AUTHORITATIVE": every document with
\* text is handled in the end, also when its nudge was debounced, dropped, or
\* lost in a crash, unless the user pauses the program or a field is missing.
EveryDocumentIsHandled ==
    \A d \in Docs : life[d] = "ready" ~>
        life[d] = "handled" \/ paused \/ ~fieldsPresent

\* webui.py, RunManager: a run is refused only "when one is already in
\* progress".  Fails: _run catches Exception, and a SystemExit is not one, so
\* no manual run starts again before the process is restarted.
InProgressMeansRunning == inProgress => ~At("manual", "off")

\* sweep.py:943, "the loop must survive ANY tick error".  Fails for the same
\* reason: a tick without its custom fields ends the process.
LoopSurvives ==
    [][At("main", "tick") /\ pc'["main"] = "down" => counts' # counts]_vars

\* docs/phase4-acceptance.md:24, nudges "do not double-process / double-spend".
\* Fails: a handler that drains takes the document another one has in hand.
NoDocumentInTwoHands ==
    \A v, w \in Threads : v # w /\ hand[v] = hand[w] => hand[v] = NoDoc
=============================================================================
