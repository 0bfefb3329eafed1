---------------------------- MODULE HostedAgent ----------------------------
(***************************************************************************)
(* The hosted-mode agent (src/src/paperless_assistant/hosted.py and        *)
(* hosted_state.py) pulling jobs from the control plane over HTTP          *)
(* (src/src/paperless_control_plane/app.py).                               *)
(*                                                                         *)
(* The agent is one thread.  Its durable state is the credential file, the *)
(* job cursor and the result queue; everything else dies with the process. *)
(* A step of the agent is the code between two durable effects: a file     *)
(* replacement, a request sent, a reply read.  A request may be lost, its  *)
(* reply may be lost, and a request whose caller gave up stays in flight   *)
(* and may still be served.  The control plane writes its state before it  *)
(* answers, so a control-plane restart is the loss of what is in flight.   *)
(***************************************************************************)
EXTENDS ControlPlaneStore

CONSTANTS
    NoJob, NoAgent, NoToken,
    MaxCrashes,     \* bound: agent crashes and engine failures
    MaxLosses       \* bound: requests, replies and connections lost

ASSUME AgentAssumption ==
    /\ NoJob \notin Jobs
    /\ NoAgent \notin Agents
    /\ NoToken \notin Tokens
    /\ MaxCrashes \in Nat
    /\ MaxLosses \in Nat

VARIABLES
    creds,          \* disk: agent-credential.json
    cursor,         \* disk: hosted-cursor.json, the stage of each job
    outbox,         \* disk: hosted-results.json, results still to push
    pc,             \* where the agent thread is
    identity,       \* memory: the credential in use
    envToken,       \* memory: PA_ENROLLMENT_TOKEN of this container start
    job,            \* memory: the job in hand
    item,           \* memory: the job whose result is being pushed
    requests,       \* HTTP requests in flight or parked at the server
    reply,          \* the reply on its way to the agent
    crashes, losses,\* counters of the bounds
    runs,           \* history: engine runs started for each job
    wasted          \* history: engine runs that died before the cursor moved

diskVars == <<creds, cursor, outbox>>
memVars  == <<identity, envToken, job, item>>
netVars  == <<requests, reply>>
envVars  == <<crashes, losses>>
histVars == <<runs, wasted>>
vars == <<storeVars, diskVars, pc, memVars, netVars, envVars, histVars>>

\* JOB_STAGES, by rank; 0 is "not in the cursor file".
Pulled == 1
Executing == 2
Executed == 3
Acked == 4

\* Fault: stages counted instead of compared.
LaterByCounting(x, y) == x + 1

Later(x, y) == IF x < y THEN y ELSE x

Identity == [agent : Agents \cup {NoAgent}, cred : Nat]
NoIdentity == [agent |-> NoAgent, cred |-> 0]

RequestRecord ==
    [op : {"enroll", "work", "results", "heartbeat"},
     id : Identity, token : Tokens \cup {NoToken},
     job : Jobs \cup {NoJob}, result : Results \cup {NoResult},
     live : BOOLEAN,     \* the caller is still waiting
     parked : BOOLEAN]   \* authenticated, waiting for a job

Request == {r \in RequestRecord : r.parked => r.id.agent \in Agents}

Reply == [status : {"none", "ok", "nowork", "unauth", "error"},
          id : Identity, job : Jobs \cup {NoJob}]

NoReply == [status |-> "none", id |-> NoIdentity, job |-> NoJob]

Labels == {"down", "loop", "enroll", "heartbeat", "flush", "push", "acking",
           "flushed", "poll", "pulled", "executing", "running", "executed"}

TypeOK ==
    /\ StoreTypeOK
    /\ creds \in Identity
    /\ cursor \in [Jobs -> 0..Acked]
    /\ outbox \in [Jobs -> Results \cup {NoResult}]
    /\ pc \in Labels
    /\ identity \in Identity
    /\ envToken \in Tokens \cup {NoToken}
    /\ job \in Jobs \cup {NoJob}
    /\ item \in Jobs \cup {NoJob}
    /\ requests \subseteq Request
    /\ reply \in Reply
    /\ crashes \in Nat
    /\ losses \in Nat
    /\ runs \in [Jobs -> Nat]
    /\ wasted \in [Jobs -> Nat]

Init ==
    /\ StoreInit
    /\ creds = NoIdentity
    /\ cursor = [j \in Jobs |-> 0]
    /\ outbox = [j \in Jobs |-> NoResult]
    /\ pc = "down"
    /\ identity = NoIdentity
    /\ envToken = NoToken
    /\ job = NoJob
    /\ item = NoJob
    /\ requests = {}
    /\ reply = NoReply
    /\ crashes = 0
    /\ losses = 0
    /\ runs = [j \in Jobs |-> 0]
    /\ wasted = [j \in Jobs |-> 0]

----------------------------------------------------------------------------
(* The control plane's HTTP handlers.                                      *)

\* The handler is done with r; only a caller that still waits sees the reply.
Respond(r, status, id, j) ==
    /\ requests' = requests \ {r}
    /\ reply' = IF r.live THEN [status |-> status, id |-> id, job |-> j]
                          ELSE reply

Accepted(r) == r.id.agent \in Agents /\ Authentic(r.id.agent, r.id.cred)

HandleEnroll(r) ==
    /\ r.op = "enroll"
    /\ \/ \E a \in Agents :
            /\ EnrollAs(r.token, a)
            /\ Respond(r, "ok", [agent |-> a, cred |-> registry[a].cred], NoJob)
       \/ /\ r.token \notin Tokens \/ tokens[r.token] # "minted"
          /\ Respond(r, "unauth", NoIdentity, NoJob)
          /\ UNCHANGED storeVars

\* Authentication happens once, before the request is parked.
HandleWork(r) ==
    /\ r.op = "work"
    /\ ~r.parked
    /\ \/ /\ ~Accepted(r)
          /\ Respond(r, "unauth", NoIdentity, NoJob)
          /\ UNCHANGED storeVars
       \/ /\ Accepted(r)
          /\ \E e \in Deliverable(r.id.agent) :
                /\ Lease(r.id.agent, e)
                /\ Respond(r, "ok", r.id, e.job)
       \/ /\ Accepted(r)
          /\ Deliverable(r.id.agent) = {}
          /\ requests' = (requests \ {r}) \cup {[r EXCEPT !.parked = TRUE]}
          /\ UNCHANGED <<storeVars, reply>>

\* A job becomes deliverable while the request is parked, or its 25 s end.
ServeParked(r) ==
    /\ r.parked
    /\ \/ \E e \in Deliverable(r.id.agent) :
            /\ Lease(r.id.agent, e)
            /\ Respond(r, "ok", r.id, e.job)
       \/ /\ Respond(r, "nowork", r.id, NoJob)
          /\ UNCHANGED storeVars

HandleResults(r) ==
    /\ r.op = "results"
    /\ \/ /\ ~Accepted(r)
          /\ Respond(r, "unauth", NoIdentity, NoJob)
          /\ UNCHANGED storeVars
       \/ /\ Accepted(r)
          /\ Ack(r.id.agent, r.job, r.result)
          /\ Respond(r, "ok", r.id, r.job)

\* The recorded heartbeat is read by dashboards only.
HandleHeartbeat(r) ==
    /\ r.op = "heartbeat"
    /\ Respond(r, IF Accepted(r) THEN "ok" ELSE "unauth", r.id, NoJob)
    /\ UNCHANGED storeVars

Handle(r) ==
    /\ \/ HandleEnroll(r) \/ HandleWork(r) \/ ServeParked(r)
       \/ HandleResults(r) \/ HandleHeartbeat(r)
    /\ UNCHANGED <<diskVars, pc, memVars, envVars, histVars>>

----------------------------------------------------------------------------
(* The agent thread.                                                       *)

Send(op, id, t, j, res) ==
    /\ requests' = requests \cup
        {[op |-> op, id |-> id, token |-> t, job |-> j, result |-> res,
          live |-> TRUE, parked |-> FALSE]}
    /\ reply' = NoReply

Read(status) ==
    /\ reply.status = status
    /\ reply' = NoReply
    /\ UNCHANGED requests

AgentUnchanged == UNCHANGED <<storeVars, envVars>>

\* JobCursor.advance: a stage never moves backwards.
Advance(j, stage) == cursor' = [cursor EXCEPT ![j] = Later(@, stage)]

\* The container (re)starts: identity is whatever credential is on disk.
StartAgent(t) ==
    /\ pc = "down"
    /\ pc' = "loop"
    /\ identity' = creds
    /\ envToken' = t
    /\ UNCHANGED <<diskVars, job, item, netVars, histVars>>
    /\ AgentUnchanged

\* ensure_enrolled without a stored credential: no token ends the process.
BeginEnroll ==
    /\ pc = "loop"
    /\ identity = NoIdentity
    /\ \/ /\ envToken = NoToken
          /\ pc' = "down"
          /\ UNCHANGED netVars
       \/ /\ envToken # NoToken
          /\ pc' = "enroll"
          /\ Send("enroll", NoIdentity, envToken, NoJob, NoResult)
    /\ UNCHANGED <<diskVars, memVars, histVars>>
    /\ AgentUnchanged

\* The credential is saved before it is used.  A rejected token raises
\* EnrollmentError, which nothing catches; a lost call is retried later.
EndEnroll ==
    /\ pc = "enroll"
    /\ \/ /\ creds' = reply.id
          /\ identity' = reply.id
          /\ pc' = "loop"
          /\ Read("ok")
       \/ /\ Read("unauth")
          /\ pc' = "down"
          /\ UNCHANGED <<creds, identity>>
       \/ /\ Read("error")
          /\ pc' = "loop"
          /\ UNCHANGED <<creds, identity>>
    /\ UNCHANGED <<cursor, outbox, envToken, job, item, histVars>>
    /\ AgentUnchanged

\* maybe_heartbeat, when its interval has passed.
SendHeartbeat ==
    /\ pc = "loop"
    /\ identity # NoIdentity
    /\ pc' = "heartbeat"
    /\ Send("heartbeat", identity, NoToken, NoJob, NoResult)
    /\ UNCHANGED <<diskVars, memVars, histVars>>
    /\ AgentUnchanged

\* _on_revoked: the credential is dropped and the loop ends.
Revoked ==
    /\ Read("unauth")
    /\ creds' = NoIdentity
    /\ identity' = NoIdentity
    /\ pc' = "down"
    /\ job' = NoJob
    /\ item' = NoJob
    /\ UNCHANGED <<cursor, outbox, envToken, histVars>>
    /\ AgentUnchanged

EndHeartbeat ==
    /\ pc = "heartbeat"
    /\ \/ Revoked
       \/ /\ Read("ok") \/ Read("error")
          /\ pc' = "flush"
          /\ UNCHANGED <<diskVars, memVars, histVars>>
          /\ AgentUnchanged

BeginPoll ==
    /\ pc = "loop"
    /\ identity # NoIdentity
    /\ pc' = "flush"
    /\ UNCHANGED <<diskVars, memVars, netVars, histVars>>
    /\ AgentUnchanged

\* flush_results: one queued result at a time.  The order of the pushes is
\* not kept: each concerns its own job and a failure ends the pass.
PushResult ==
    /\ pc = "flush"
    /\ \E j \in Jobs :
        /\ outbox[j] # NoResult
        /\ item' = j
        /\ Send("results", identity, NoToken, j, outbox[j])
    /\ pc' = "push"
    /\ UNCHANGED <<diskVars, identity, envToken, job, histVars>>
    /\ AgentUnchanged

FlushDone ==
    /\ pc = "flush"
    /\ \A j \in Jobs : outbox[j] = NoResult
    /\ pc' = "flushed"
    /\ UNCHANGED <<diskVars, memVars, netVars, histVars>>
    /\ AgentUnchanged

\* Fault: a push whose reply was lost counts as delivered.
EndPushUnconfirmed ==
    /\ pc = "push"
    /\ \/ Revoked
       \/ /\ Read("ok") \/ Read("error")
          /\ pc' = "acking"
          /\ outbox' = [outbox EXCEPT ![item] = NoResult]
          /\ UNCHANGED <<creds, cursor, memVars, histVars>>
          /\ AgentUnchanged

\* 200: the result leaves the queue file, and then the cursor file says so.
EndPush ==
    /\ pc = "push"
    /\ \/ Revoked
       \/ /\ Read("error")
          /\ pc' = "flushed"
          /\ item' = NoJob
          /\ UNCHANGED <<diskVars, identity, envToken, job, histVars>>
          /\ AgentUnchanged
       \/ /\ Read("ok")
          /\ pc' = "acking"
          /\ outbox' = [outbox EXCEPT ![item] = NoResult]
          /\ UNCHANGED <<creds, cursor, memVars, histVars>>
          /\ AgentUnchanged

MarkAcked ==
    /\ pc = "acking"
    /\ Advance(item, Acked)
    /\ item' = NoJob
    /\ pc' = "flush"
    /\ UNCHANGED <<creds, outbox, identity, envToken, job, netVars, histVars>>
    /\ AgentUnchanged

\* The flush before a poll is followed by the poll, even when it was cut
\* short; the flush after a job ends the iteration.
AfterFlush ==
    /\ pc = "flushed"
    /\ \/ /\ job = NoJob
          /\ pc' = "poll"
          /\ Send("work", identity, NoToken, NoJob, NoResult)
          /\ UNCHANGED memVars
       \/ /\ job # NoJob
          /\ pc' = "loop"
          /\ job' = NoJob
          /\ UNCHANGED <<identity, envToken, item, netVars>>
    /\ UNCHANGED <<diskVars, histVars>>
    /\ AgentUnchanged

NoWork ==
    /\ pc = "poll"
    /\ \/ Revoked
       \/ /\ Read("nowork") \/ Read("error")
          /\ pc' = "loop"
          /\ UNCHANGED <<diskVars, memVars, histVars>>
          /\ AgentUnchanged

\* Fault: a job that was started counts as done.
DedupeStarted ==
    /\ pc = "poll"
    /\ cursor[reply.job] >= Executing
    /\ outbox' = IF outbox[reply.job] = NoResult /\ cursor[reply.job] < Acked
                 THEN [outbox EXCEPT ![reply.job] = "already_done"]
                 ELSE outbox
    /\ pc' = "flush"
    /\ UNCHANGED <<creds, cursor>>

\* Fault: a queued result is replaced when its job comes back.
DedupeOverwriting ==
    /\ pc = "poll"
    /\ cursor[reply.job] >= Executed
    /\ outbox' = [outbox EXCEPT ![reply.job] = "already_done"]
    /\ pc' = "flush"
    /\ UNCHANGED <<creds, cursor>>

\* A delivery of a job the cursor says is executed only makes sure that a
\* result is on its way, unless the cursor says it was acknowledged.
DedupeJob ==
    /\ pc = "poll"
    /\ cursor[reply.job] >= Executed
    /\ outbox' = IF outbox[reply.job] = NoResult /\ cursor[reply.job] < Acked
                 THEN [outbox EXCEPT ![reply.job] = "already_done"]
                 ELSE outbox
    /\ pc' = "flush"
    /\ UNCHANGED <<creds, cursor>>

\* Fault: the cursor is not looked at before the job is run.
TakeUnchecked ==
    /\ pc = "poll"
    /\ Advance(reply.job, Pulled)
    /\ pc' = "pulled"
    /\ UNCHANGED <<creds, outbox>>

TakeJob ==
    /\ pc = "poll"
    /\ cursor[reply.job] < Executed
    /\ Advance(reply.job, Pulled)
    /\ pc' = "pulled"
    /\ UNCHANGED <<creds, outbox>>

ReceiveJob ==
    /\ reply.job \in Jobs
    /\ DedupeJob \/ TakeJob
    /\ job' = reply.job
    /\ Read("ok")
    /\ UNCHANGED <<identity, envToken, item, histVars>>
    /\ AgentUnchanged

\* Fault: the job is recorded as executed before it is run.
MarkExecutedFirst ==
    /\ pc = "pulled"
    /\ Advance(job, Executed)
    /\ pc' = "executing"
    /\ UNCHANGED <<creds, outbox, memVars, netVars, histVars>>
    /\ AgentUnchanged

MarkExecuting ==
    /\ pc = "pulled"
    /\ Advance(job, Executing)
    /\ pc' = "executing"
    /\ UNCHANGED <<creds, outbox, memVars, netVars, histVars>>
    /\ AgentUnchanged

RunJob ==
    /\ pc = "executing"
    /\ runs' = [runs EXCEPT ![job] = @ + 1]
    /\ pc' = "running"
    /\ UNCHANGED <<diskVars, memVars, netVars, wasted>>
    /\ AgentUnchanged

MarkExecuted ==
    /\ pc = "running"
    /\ Advance(job, Executed)
    /\ pc' = "executed"
    /\ UNCHANGED <<creds, outbox, memVars, netVars, histVars>>
    /\ AgentUnchanged

QueueResult ==
    /\ pc = "executed"
    /\ outbox' = [outbox EXCEPT ![job] = "completed"]
    /\ pc' = "flush"
    /\ UNCHANGED <<creds, cursor, memVars, netVars, histVars>>
    /\ AgentUnchanged

----------------------------------------------------------------------------
(* The environment.                                                        *)

\* Nobody waits for the requests in flight any more.
Abandoned == {[r EXCEPT !.live = FALSE] : r \in requests}

\* The process dies: a crash anywhere, or an exception of the engine, which
\* the loop does not catch.
CrashAgent ==
    /\ pc # "down"
    /\ crashes < MaxCrashes
    /\ crashes' = crashes + 1
    /\ pc' = "down"
    /\ identity' = NoIdentity
    /\ job' = NoJob
    /\ item' = NoJob
    /\ requests' = Abandoned
    /\ reply' = NoReply
    /\ wasted' = IF pc = "running" THEN [wasted EXCEPT ![job] = @ + 1] ELSE wasted
    /\ UNCHANGED <<storeVars, diskVars, envToken, losses, runs>>

LostReply == [NoReply EXCEPT !.status = "error"]

\* The agent's call fails with TransportError: the request never arrived,
\* or it is still out there, or it was served and the reply got lost.
FailCall ==
    /\ losses < MaxLosses
    /\ losses' = losses + 1
    /\ \/ \E r \in requests : r.live /\ requests' = requests \ {r}
       \/ (\E r \in requests : r.live) /\ requests' = Abandoned
       \/ reply.status \notin {"none", "error"} /\ UNCHANGED requests
    /\ reply' = LostReply
    /\ UNCHANGED <<storeVars, diskVars, pc, memVars, crashes, histVars>>

StoreStep ==
    /\ \/ \E t \in Tokens : MintToken(t)
       \/ \E a \in Agents : RevokeAgent(a) \/ RotateCredential(a)
       \/ \E a \in Agents, j \in Jobs : Enqueue(a, j)
       \/ \E a \in Agents : \E e \in queue[a] : VisibilityElapses(a, e)
    /\ UNCHANGED <<diskVars, pc, memVars, netVars, envVars, histVars>>

AgentStep ==
    \/ BeginEnroll \/ EndEnroll
    \/ SendHeartbeat \/ EndHeartbeat
    \/ BeginPoll \/ PushResult \/ FlushDone \/ EndPush \/ MarkAcked \/ AfterFlush
    \/ NoWork \/ ReceiveJob
    \/ MarkExecuting \/ RunJob \/ MarkExecuted \/ QueueResult

Next ==
    \/ \E t \in Tokens \cup {NoToken} : StartAgent(t)
    \/ AgentStep
    \/ \E r \in requests : Handle(r)
    \/ CrashAgent
    \/ FailCall
    \/ StoreStep

Spec == Init /\ [][Next]_vars

\* The container is restarted, the agent thread runs, the server serves the
\* call the agent waits for, and time passes.  Nothing makes the operator
\* act, a crash or a loss happen, or an abandoned request arrive.
ElapseFor(a, j) ==
    /\ \E e \in queue[a] : e.job = j /\ VisibilityElapses(a, e)
    /\ UNCHANGED <<diskVars, pc, memVars, netVars, envVars, histVars>>

Fairness ==
    /\ WF_vars(\E t \in Tokens \cup {NoToken} : StartAgent(t))
    /\ WF_vars(AgentStep)
    /\ WF_vars(\E r \in requests : r.live /\ Handle(r))
    /\ \A a \in Agents, j \in Jobs : WF_vars(ElapseFor(a, j))

FairSpec == Spec /\ Fairness
----------------------------------------------------------------------------
(* Properties.                                                             *)

\* An engine run of the job came to its end and was recorded.
CarriedOut(j) ==
    runs[j] > wasted[j] + (IF pc = "running" /\ job = j THEN 1 ELSE 0)

\* A job that was submitted is either still in a queue of the control plane
\* or was carried out by the engine: no lease, lost message, crash or
\* acknowledgement makes one disappear undone.
NoJobLost ==
    \A j \in submitted : j \in Outstanding \/ CarriedOut(j)

\* The agent calls a job acknowledged only when the control plane took it
\* out of the queue this agent pulls from, whatever replies were lost.
AckedHereIsAckedThere ==
    \A j \in Jobs : \A a \in {creds.agent, identity.agent} \cap Agents :
        cursor[j] = Acked => j \notin JobsOf(a)

\* The engine runs a job a second time only to replace a run that died
\* before the cursor file recorded it, however often it is delivered.
RunsAreAccountedFor == \A j \in Jobs : runs[j] <= 1 + wasted[j]

\* A report with counts and spend is never replaced by a bare
\* "already_done", in whatever order pushes and redeliveries arrive.
ReportIsFinal ==
    [][\A j \in Jobs : results[j] = "completed" => results'[j] = "completed"]_results

HoldsCredential(a) ==
    /\ registry[a].state = "active"
    /\ creds = [agent |-> a, cred |-> registry[a].cred]

\* A job queued for the agent that holds the valid credential leaves the
\* queue, unless the operator revokes or rotates that credential first.
EveryJobIsAcked ==
    \A a \in Agents, j \in Jobs :
        (j \in JobsOf(a) /\ HoldsCredential(a))
            ~> (j \notin JobsOf(a) \/ ~HoldsCredential(a))

\* The jobs as hosted mode promises them (module JobDelivery).
Phase(j) ==
    IF j \notin submitted THEN "new"
    ELSE IF j \notin Outstanding THEN "reported"
    ELSE IF CarriedOut(j) THEN "done" ELSE "pending"

Delivery == INSTANCE JobDelivery WITH
    Reports <- Results, NoReport <- NoResult,
    phase <- [j \in Jobs |-> Phase(j)], report <- results

\* The agent and the control plane together implement those promises.
DeliversJobs == Delivery!Spec

\* hosted_state.py: "a crash after executing-but-before-acking leaves the
\* result queued".
CrashKeepsResult ==
    \A j \in Outstanding :
        pc = "down" /\ cursor[j] = Executed => outbox[j] # NoResult

\* hosted.py: "a redelivered (at-least-once) job is NOT re-executed and NOT
\* re-billed".
JobRunsOnce == \A j \in Jobs : runs[j] <= 1

\* store.py: an acknowledged job is removed from the queue "so it is NOT
\* redelivered".
AckedLeavesEveryQueue ==
    \A j \in Jobs : cursor[j] = Acked => j \notin Outstanding

\* store.py: "A revoked agent's calls are rejected": no entry is handed out
\* for an agent that is already revoked.
RevokedGetsNoJob ==
    [][\A a \in Agents : registry[a].state = "revoked" =>
          \A e \in queue'[a] : e.state = "dispatched" => e \in queue[a]]_vars
=============================================================================
