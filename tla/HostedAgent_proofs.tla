------------------------- MODULE HostedAgent_proofs -------------------------
(***************************************************************************)
(* Proofs about HostedAgent for every set of jobs, agents and tokens and   *)
(* every value of the bounds.                                              *)
(***************************************************************************)
EXTENDS HostedAgent, TLAPS

USE DEF Pulled, Executing, Executed, Acked

(***************************************************************************)
(* Type correctness.  First what the building blocks of the actions do to  *)
(* the variables they write.                                               *)
(***************************************************************************)

\* Putting a request in flight keeps the network well typed.
LEMMA SendType ==
    ASSUME TypeOK, NEW op \in {"enroll", "work", "results", "heartbeat"},
           NEW id \in Identity, NEW t \in Tokens \cup {NoToken},
           NEW j \in Jobs \cup {NoJob}, NEW res \in Results \cup {NoResult},
           Send(op, id, t, j, res)
    PROVE  requests' \subseteq Request /\ reply' \in Reply
<1>1. [op |-> op, id |-> id, token |-> t, job |-> j, result |-> res,
       live |-> TRUE, parked |-> FALSE] \in Request
  BY DEF Request, RequestRecord
<1>2. NoReply \in Reply
  BY DEF NoReply, Reply, NoIdentity, Identity
<1> QED
  BY <1>1, <1>2 DEF Send, TypeOK

\* Reading a reply keeps the network well typed.
LEMMA ReadType ==
    ASSUME TypeOK, NEW status, Read(status)
    PROVE  requests' \subseteq Request /\ reply' \in Reply
<1>1. NoReply \in Reply
  BY DEF NoReply, Reply, NoIdentity, Identity
<1> QED
  BY <1>1 DEF Read, TypeOK

\* Answering a request keeps the network well typed.
LEMMA RespondType ==
    ASSUME TypeOK, NEW r \in requests,
           NEW status \in {"ok", "nowork", "unauth"}, NEW id \in Identity,
           NEW j \in Jobs \cup {NoJob}, Respond(r, status, id, j)
    PROVE  requests' \subseteq Request /\ reply' \in Reply
<1>1. [status |-> status, id |-> id, job |-> j] \in Reply
  BY DEF Reply
<1> QED
  BY <1>1 DEF Respond, TypeOK

\* Giving up the calls in flight keeps the network well typed.
LEMMA AbandonedType ==
    ASSUME TypeOK
    PROVE  Abandoned \subseteq Request
<1>1. ASSUME NEW r \in requests
      PROVE  [r EXCEPT !.live = FALSE] \in Request
  <2>1. r \in RequestRecord /\ (r.parked => r.id.agent \in Agents)
    BY DEF TypeOK, Request
  <2>2. [r EXCEPT !.live = FALSE] \in RequestRecord
    BY <2>1 DEF RequestRecord
  <2>3. /\ [r EXCEPT !.live = FALSE].parked = r.parked
        /\ [r EXCEPT !.live = FALSE].id = r.id
    BY <2>1 DEF RequestRecord
  <2> QED
    BY <2>1, <2>2, <2>3 DEF Request
<1> QED
  BY <1>1 DEF Abandoned

\* Handing out an entry keeps the queues well typed, and the entry's job is
\* a job.
LEMMA LeaseType ==
    ASSUME TypeOK, NEW a \in Agents, NEW e \in Deliverable(a), Lease(a, e)
    PROVE  StoreTypeOK' /\ e.job \in Jobs
<1>1. ReclaimExpired(queue[a]) \subseteq Entry
  BY DEF TypeOK, StoreTypeOK, ReclaimExpired, Entry, EntryStates
<1>2. e \in Entry /\ [e EXCEPT !.state = "dispatched"] \in Entry
  BY <1>1 DEF Deliverable, Entry, EntryStates
<1>3. queue' \in [Agents -> SUBSET Entry]
  BY <1>1, <1>2 DEF Lease, TypeOK, StoreTypeOK
<1> QED
  BY <1>2, <1>3 DEF Lease, TypeOK, StoreTypeOK, Entry

\* The operator's actions and the passing of time keep the store well typed.
LEMMA StoreStepType ==
    ASSUME TypeOK, StoreStep
    PROVE  StoreTypeOK'
<1> USE DEF TypeOK, StoreTypeOK
<1>1. ASSUME NEW t \in Tokens, MintToken(t)
      PROVE  StoreTypeOK'
  BY <1>1 DEF MintToken
<1>2. ASSUME NEW a \in Agents, RevokeAgent(a) \/ RotateCredential(a)
      PROVE  StoreTypeOK'
  <2>1. \A c \in Nat : \A s \in {"absent", "active", "revoked"} :
          [state |-> s, cred |-> c] \in AgentRecord
    BY DEF AgentRecord
  <2>2. [registry[a] EXCEPT !.state = "revoked"] \in AgentRecord
        /\ [registry[a] EXCEPT !.cred = @ + 1] \in AgentRecord
    BY DEF AgentRecord
  <2> QED
    BY <1>2, <2>2 DEF RevokeAgent, RotateCredential
<1>3. ASSUME NEW a \in Agents, NEW j \in Jobs, Enqueue(a, j)
      PROVE  StoreTypeOK'
  <2>1. [job |-> j, at |-> stamp, state |-> "queued"] \in Entry
    BY DEF Entry, EntryStates
  <2> QED
    BY <1>3, <2>1 DEF Enqueue
<1>4. ASSUME NEW a \in Agents, NEW e \in queue[a], VisibilityElapses(a, e)
      PROVE  StoreTypeOK'
  <2>1. [e EXCEPT !.state = "expired"] \in Entry
    BY DEF Entry, EntryStates
  <2> QED
    BY <1>4, <2>1 DEF VisibilityElapses
<1> QED
  BY <1>1, <1>2, <1>3, <1>4 DEF StoreStep

\* The control plane's handlers keep the store and the network well typed.
LEMMA HandleType ==
    ASSUME TypeOK, NEW r \in requests, Handle(r)
    PROVE  TypeOK'
<1>1. r \in Request /\ r.id \in Identity /\ NoIdentity \in Identity
  BY DEF TypeOK, Request, RequestRecord, NoIdentity, Identity
<1>2. SUFFICES StoreTypeOK' /\ requests' \subseteq Request /\ reply' \in Reply
  BY DEF Handle, TypeOK, diskVars, memVars, envVars, histVars
<1>3. UNCHANGED storeVars => StoreTypeOK'
  BY DEF storeVars, TypeOK, StoreTypeOK
<1>4. CASE HandleEnroll(r)
  <2>1. CASE \E a \in Agents :
               /\ EnrollAs(r.token, a)
               /\ Respond(r, "ok", [agent |-> a, cred |-> registry[a].cred], NoJob)
    <3>1. PICK a \in Agents :
               /\ EnrollAs(r.token, a)
               /\ Respond(r, "ok", [agent |-> a, cred |-> registry[a].cred], NoJob)
      BY <2>1
    <3>2. registry[a] \in AgentRecord
      BY DEF TypeOK, StoreTypeOK
    <3>3. [agent |-> a, cred |-> registry[a].cred] \in Identity
          /\ [registry[a] EXCEPT !.state = "active"] \in AgentRecord
      BY <3>2 DEF Identity, AgentRecord
    <3>4. StoreTypeOK'
      BY <3>1, <3>3 DEF EnrollAs, TypeOK, StoreTypeOK
    <3> QED
      BY <3>1, <3>3, <3>4, RespondType
  <2>2. CASE Respond(r, "unauth", NoIdentity, NoJob) /\ UNCHANGED storeVars
    BY <2>2, <1>1, <1>3, RespondType
  <2> QED
    BY <1>4, <2>1, <2>2 DEF HandleEnroll
<1>5. CASE HandleWork(r)
  <2>1. CASE Respond(r, "unauth", NoIdentity, NoJob) /\ UNCHANGED storeVars
    BY <2>1, <1>1, <1>3, RespondType
  <2>2. ASSUME NEW e \in Deliverable(r.id.agent), r.id.agent \in Agents,
               Lease(r.id.agent, e), Respond(r, "ok", r.id, e.job)
        PROVE  StoreTypeOK' /\ requests' \subseteq Request /\ reply' \in Reply
    BY <2>2, <1>1, LeaseType, RespondType
  <2>3. CASE /\ r.id.agent \in Agents
             /\ requests' = (requests \ {r}) \cup {[r EXCEPT !.parked = TRUE]}
             /\ UNCHANGED <<storeVars, reply>>
    <3>1. [r EXCEPT !.parked = TRUE] \in Request
      BY <2>3, <1>1 DEF Request, RequestRecord
    <3> QED
      BY <2>3, <3>1, <1>3 DEF TypeOK
  <2> QED
    BY <1>5, <2>1, <2>2, <2>3 DEF HandleWork, Accepted
<1>6. CASE ServeParked(r)
  <2> r.id.agent \in Agents
    BY <1>6, <1>1 DEF ServeParked, Request
  <2>1. ASSUME NEW e \in Deliverable(r.id.agent),
               Lease(r.id.agent, e), Respond(r, "ok", r.id, e.job)
        PROVE  StoreTypeOK' /\ requests' \subseteq Request /\ reply' \in Reply
    BY <2>1, <1>1, LeaseType, RespondType
  <2>2. CASE Respond(r, "nowork", r.id, NoJob) /\ UNCHANGED storeVars
    BY <2>2, <1>1, <1>3, RespondType
  <2> QED
    BY <1>6, <2>1, <2>2 DEF ServeParked
<1>7. CASE HandleResults(r)
  <2>1. CASE Respond(r, "unauth", NoIdentity, NoJob) /\ UNCHANGED storeVars
    BY <2>1, <1>1, <1>3, RespondType
  <2>2. CASE /\ Ack(r.id.agent, r.job, r.result)
             /\ Respond(r, "ok", r.id, r.job)
    <3>1. r.job \in Jobs \cup {NoJob} /\ r.result \in Results \cup {NoResult}
      BY <1>1 DEF Request, RequestRecord
    <3>2. StoreTypeOK'
      BY <2>2, <3>1 DEF Ack, TypeOK, StoreTypeOK
    <3> QED
      BY <2>2, <3>1, <3>2, <1>1, RespondType
  <2> QED
    BY <1>7, <2>1, <2>2 DEF HandleResults
<1>8. CASE HandleHeartbeat(r)
  BY <1>8, <1>1, <1>3, RespondType DEF HandleHeartbeat
<1> QED
  BY <1>4, <1>5, <1>6, <1>7, <1>8 DEF Handle

\* Every step of the agent thread keeps its files and memory well typed.
LEMMA AgentStepType ==
    ASSUME TypeOK, AgentStep
    PROVE  TypeOK'
<1> USE DEF TypeOK
<1>1. NoIdentity \in Identity
  BY DEF NoIdentity, Identity
<1>2. UNCHANGED storeVars => StoreTypeOK'
  BY DEF storeVars, StoreTypeOK
<1>3. \A j, stage : stage \in 0..Acked /\ Advance(j, stage)
          => cursor' \in [Jobs -> 0..Acked]
  BY DEF Advance, Later
<1>4. reply.id \in Identity /\ reply.job \in Jobs \cup {NoJob}
  BY DEF Reply
<1> USE <1>1, <1>2, <1>3, <1>4
    DEF AgentUnchanged, memVars, netVars, diskVars, envVars, histVars, Labels
<1>5. ASSUME Revoked PROVE TypeOK'
  BY <1>5, ReadType DEF Revoked
<1>6. CASE BeginEnroll
  <2>1. CASE UNCHANGED netVars /\ pc' = "down"
    BY <1>6, <2>1 DEF BeginEnroll
  <2>2. CASE pc' = "enroll" /\ Send("enroll", NoIdentity, envToken, NoJob, NoResult)
    BY <1>6, <2>2, SendType DEF BeginEnroll
  <2> QED
    BY <1>6, <2>1, <2>2 DEF BeginEnroll
<1>7. CASE EndEnroll
  BY <1>7, ReadType DEF EndEnroll
<1>8. CASE SendHeartbeat
  BY <1>8, SendType DEF SendHeartbeat
<1>9. CASE EndHeartbeat
  BY <1>9, <1>5, ReadType DEF EndHeartbeat
<1>10. CASE BeginPoll
  BY <1>10 DEF BeginPoll
<1>11. CASE PushResult
  <2>1. PICK j \in Jobs : /\ item' = j
                          /\ Send("results", identity, NoToken, j, outbox[j])
    BY <1>11 DEF PushResult
  <2>2. requests' \subseteq Request /\ reply' \in Reply
    BY <2>1, SendType
  <2> QED
    BY <1>11, <2>1, <2>2 DEF PushResult
<1>12. CASE FlushDone
  BY <1>12 DEF FlushDone
<1>13. CASE EndPush
  <2>1. CASE Read("error") /\ pc' = "flushed"
    BY <1>13, <1>5, <2>1, ReadType DEF EndPush
  <2>2. CASE Read("ok") /\ outbox' = [outbox EXCEPT ![item] = NoResult]
    BY <1>13, <1>5, <2>2, ReadType DEF EndPush
  <2> QED
    BY <1>13, <1>5, <2>1, <2>2 DEF EndPush
<1>14. CASE MarkAcked
  BY <1>14 DEF MarkAcked
<1>15. CASE AfterFlush
  <2>1. CASE Send("work", identity, NoToken, NoJob, NoResult) /\ pc' = "poll"
    BY <1>15, <2>1, SendType DEF AfterFlush
  <2>2. CASE UNCHANGED netVars
    BY <1>15, <2>2 DEF AfterFlush
  <2> QED
    BY <1>15, <2>1, <2>2 DEF AfterFlush
<1>16. CASE NoWork
  BY <1>16, <1>5, ReadType DEF NoWork
<1>17. CASE ReceiveJob
  <2>1. CASE DedupeJob
    BY <1>17, <2>1, ReadType DEF ReceiveJob, DedupeJob, Results
  <2>2. CASE TakeJob
    BY <1>17, <2>2, ReadType DEF ReceiveJob, TakeJob
  <2> QED
    BY <1>17, <2>1, <2>2 DEF ReceiveJob
<1>18. CASE MarkExecuting
  BY <1>18 DEF MarkExecuting
<1>19. CASE RunJob
  <2>1. \A j \in Jobs : runs[j] \in Nat /\ runs[j] + 1 \in Nat
    OBVIOUS
  <2>2. runs' \in [Jobs -> Nat]
    BY <1>19, <2>1 DEF RunJob
  <2> QED
    BY <1>19, <2>2 DEF RunJob
<1>20. CASE MarkExecuted
  BY <1>20 DEF MarkExecuted
<1>21. CASE QueueResult
  BY <1>21 DEF QueueResult, Results
<1> QED
  BY <1>6, <1>7, <1>8, <1>9, <1>10, <1>11, <1>12, <1>13, <1>14, <1>15,
     <1>16, <1>17, <1>18, <1>19, <1>20, <1>21 DEF AgentStep

\* TypeOK is inductive.
LEMMA TypeStep == TypeOK /\ [Next]_vars => TypeOK'
<1> SUFFICES ASSUME TypeOK, [Next]_vars PROVE TypeOK'
  OBVIOUS
<1>1. ASSUME NEW t \in Tokens \cup {NoToken}, StartAgent(t)
      PROVE  TypeOK'
  BY <1>1 DEF StartAgent, AgentUnchanged, TypeOK, StoreTypeOK, storeVars,
              diskVars, netVars, envVars, histVars, Labels
<1>2. CASE AgentStep
  BY <1>2, AgentStepType
<1>3. ASSUME NEW r \in requests, Handle(r)
      PROVE  TypeOK'
  BY <1>3, HandleType
<1>4. CASE CrashAgent
  <2>1. NoIdentity \in Identity /\ NoReply \in Reply
    BY DEF NoReply, Reply, NoIdentity, Identity
  <2>2. wasted' \in [Jobs -> Nat]
    <3>1. \A j \in Jobs : wasted[j] \in Nat /\ wasted[j] + 1 \in Nat
      BY DEF TypeOK
    <3> QED
      BY <1>4, <3>1 DEF CrashAgent, TypeOK
  <2> QED
    BY <1>4, <2>1, <2>2, AbandonedType
       DEF CrashAgent, TypeOK, StoreTypeOK, storeVars, diskVars, Labels
<1>5. CASE FailCall
  <2>1. LostReply \in Reply
    BY DEF LostReply, NoReply, Reply, NoIdentity, Identity
  <2>2. requests' \subseteq Request
    BY <1>5, AbandonedType DEF FailCall, TypeOK
  <2> QED
    BY <1>5, <2>1, <2>2
       DEF FailCall, TypeOK, StoreTypeOK, storeVars, diskVars, memVars, histVars
<1>6. CASE StoreStep
  BY <1>6, StoreStepType
     DEF StoreStep, TypeOK, diskVars, memVars, netVars, envVars, histVars
<1>7. CASE UNCHANGED vars
  BY <1>7 DEF vars, TypeOK, StoreTypeOK, storeVars, diskVars, memVars,
              netVars, envVars, histVars
<1> QED
  BY <1>1, <1>2, <1>3, <1>4, <1>5, <1>6, <1>7 DEF Next

\* Every variable of the agent, the store and the network keeps its type.
THEOREM TypeCorrect == Spec => []TypeOK
<1>1. Init => TypeOK
  BY DEF Init, StoreInit, TypeOK, StoreTypeOK, AgentRecord, Identity,
         NoIdentity, Reply, NoReply, Labels
<1> QED
  BY <1>1, TypeStep, PTL DEF Spec

----------------------------------------------------------------------------
(***************************************************************************)
(* No job is lost.  The inductive invariant adds that whatever can lead to *)
(* an acknowledgement (a result in the queue file, on the wire, or about   *)
(* to be written) concerns a job whose cursor says it was executed.        *)
(***************************************************************************)

Queued(j) == \E a \in Agents : \E e \in queue[a] : e.job = j

Working == {"pulled", "executing", "running", "executed"}

Vouched ==
    /\ pc \in Working => job \in Jobs
    /\ \A j \in Jobs : outbox[j] # NoResult => cursor[j] >= Executed
    /\ \A r \in requests :
          r.op = "results" => r.job \in Jobs /\ cursor[r.job] >= Executed
    /\ pc = "executed" => cursor[job] >= Executed
    /\ pc \in {"push", "acking"} => item \in Jobs /\ cursor[item] >= Executed

DoneInv ==
    /\ \A j \in submitted : Queued(j) \/ cursor[j] >= Executed
    /\ Vouched

\* A job is outstanding exactly when some queue holds an entry for it.
LEMMA OutstandingQueued == \A j : j \in Outstanding <=> Queued(j)
BY DEF Outstanding, JobsOf, Queued

\* No step takes the recorded stage of a job back.
LEMMA CursorRises ==
    ASSUME TypeOK, [Next]_vars
    PROVE  \A j \in Jobs : cursor'[j] \in Nat /\ cursor'[j] >= cursor[j]
<1>1. \A j \in Jobs : cursor[j] \in Nat
  BY DEF TypeOK
<1>2. CASE UNCHANGED cursor
  BY <1>1, <1>2
<1>3. ASSUME NEW k, NEW stage \in 0..Acked, Advance(k, stage)
      PROVE  \A j \in Jobs : cursor'[j] \in Nat /\ cursor'[j] >= cursor[j]
  BY <1>1, <1>3 DEF Advance, Later, TypeOK
<1>4. \/ UNCHANGED cursor
      \/ Advance(item, Acked)
      \/ Advance(reply.job, Pulled)
      \/ Advance(job, Executing)
      \/ Advance(job, Executed)
  <2> USE DEF diskVars
  <2>1. AgentStep => \/ UNCHANGED cursor
                     \/ Advance(item, Acked)
                     \/ Advance(reply.job, Pulled)
                     \/ Advance(job, Executing)
                     \/ Advance(job, Executed)
    BY DEF AgentStep, BeginEnroll, EndEnroll, SendHeartbeat, EndHeartbeat,
           BeginPoll, PushResult, FlushDone, EndPush, MarkAcked, AfterFlush,
           NoWork, ReceiveJob, DedupeJob, TakeJob, MarkExecuting, RunJob,
           MarkExecuted, QueueResult, Revoked
  <2> QED
    BY <2>1 DEF Next, StartAgent, Handle, CrashAgent, FailCall, StoreStep, vars
<1> QED
  BY <1>2, <1>3, <1>4

\* What vouches for an acknowledgement keeps doing so.
LEMMA VouchedStep ==
    ASSUME TypeOK, TypeOK', Vouched, [Next]_vars
    PROVE  Vouched'
<1>1. \A j \in Jobs : cursor[j] \in Nat /\ cursor'[j] \in Nat /\ cursor'[j] >= cursor[j]
  BY CursorRises DEF TypeOK
<1> USE DEF Vouched, Working
\* Requests and files that stay, or only disappear, are vouched for.
<1>2. ASSUME \A r \in requests' : r.op = "results" =>
                 \E q \in requests : q.op = "results" /\ q.job = r.job,
             \A j \in Jobs : outbox'[j] # NoResult => outbox[j] # NoResult,
             pc' \in Working => pc \in Working /\ job' = job,
             pc' = "executed" => pc = "executed",
             pc' \in {"push", "acking"} => pc \in {"push", "acking"} /\ item' = item
      PROVE  Vouched'
  BY <1>1, <1>2
<1>3. CASE AgentStep
  <2> USE DEF AgentUnchanged, diskVars, memVars, netVars, histVars, Send, Read
  <2>1. CASE PushResult
    <3>1. PICK j \in Jobs : /\ outbox[j] # NoResult
                            /\ item' = j
                            /\ Send("results", identity, NoToken, j, outbox[j])
      BY <2>1 DEF PushResult
    <3> QED
      BY <1>1, <2>1, <3>1 DEF PushResult
  <2>2. CASE EndPush
    BY <1>1, <2>2 DEF EndPush, Revoked, TypeOK
  <2>3. CASE ReceiveJob
    BY <1>1, <2>3 DEF ReceiveJob, DedupeJob, TakeJob, TypeOK
  <2>4. CASE MarkExecuted
    <3>1. job \in Jobs
      BY <2>4 DEF MarkExecuted
    <3> QED
      BY <1>1, <2>4, <3>1 DEF MarkExecuted, Advance, Later, TypeOK
  <2>5. CASE QueueResult
    BY <1>1, <2>5 DEF QueueResult, TypeOK
  <2>6. CASE \/ BeginEnroll \/ EndEnroll \/ SendHeartbeat \/ EndHeartbeat
             \/ BeginPoll \/ FlushDone \/ MarkAcked \/ AfterFlush \/ NoWork
             \/ MarkExecuting \/ RunJob
    <3>1. \A r \in requests' : r.op = "results" => r \in requests
      BY <2>6 DEF BeginEnroll, EndEnroll, SendHeartbeat, EndHeartbeat,
             BeginPoll, FlushDone, MarkAcked, AfterFlush, NoWork,
             MarkExecuting, RunJob, Revoked
    <3>2. /\ UNCHANGED outbox
          /\ pc' \notin {"executed", "push", "acking"}
          /\ pc' \in Working => pc \in Working /\ job' = job
      BY <2>6 DEF BeginEnroll, EndEnroll, SendHeartbeat, EndHeartbeat,
             BeginPoll, FlushDone, MarkAcked, AfterFlush, NoWork,
             MarkExecuting, RunJob, Revoked
    <3> QED
      BY <1>2, <3>1, <3>2
  <2> QED
    BY <1>3, <2>1, <2>2, <2>3, <2>4, <2>5, <2>6 DEF AgentStep
<1>4. ASSUME NEW r \in requests, Handle(r)
      PROVE  Vouched'
  <2>1. \A q \in requests' : \E p \in requests : q.op = p.op /\ q.job = p.job
    <3>1. requests' \subseteq requests \cup {[r EXCEPT !.parked = TRUE]}
      BY <1>4 DEF Handle, HandleEnroll, HandleWork, ServeParked,
                  HandleResults, HandleHeartbeat, Respond
    <3>2. /\ [r EXCEPT !.parked = TRUE].op = r.op
          /\ [r EXCEPT !.parked = TRUE].job = r.job
      BY DEF TypeOK, Request, RequestRecord
    <3> QED
      BY <3>1, <3>2
  <2> QED
    BY <1>2, <1>4, <2>1 DEF Handle, diskVars, memVars
<1>5. Abandoned = requests
          \/ \A q \in Abandoned : \E p \in requests : q.op = p.op /\ q.job = p.job
  <2>1. \A p \in requests : /\ [p EXCEPT !.live = FALSE].op = p.op
                            /\ [p EXCEPT !.live = FALSE].job = p.job
    BY DEF TypeOK, Request, RequestRecord
  <2> QED
    BY <2>1 DEF Abandoned
<1>6. CASE CrashAgent
  BY <1>2, <1>5, <1>6 DEF CrashAgent, diskVars
<1>7. CASE FailCall
  <2>1. \A q \in requests' : \E p \in requests : q.op = p.op /\ q.job = p.job
    BY <1>5, <1>7 DEF FailCall
  <2> QED
    BY <1>2, <1>7, <2>1 DEF FailCall, diskVars, memVars
<1>8. CASE \/ \E t \in Tokens \cup {NoToken} : StartAgent(t)
           \/ StoreStep \/ UNCHANGED vars
  BY <1>2, <1>8 DEF StartAgent, StoreStep, vars, diskVars, memVars, netVars
<1> QED
  BY <1>3, <1>4, <1>6, <1>7, <1>8 DEF Next

\* DoneInv is inductive, given type correctness.
LEMMA DoneStep ==
    ASSUME TypeOK, TypeOK', DoneInv, [Next]_vars
    PROVE  DoneInv'
<1>1. \A j \in Jobs : cursor[j] \in Nat /\ cursor'[j] \in Nat /\ cursor'[j] >= cursor[j]
  BY CursorRises DEF TypeOK
<1>2. Vouched /\ Vouched'
  BY VouchedStep DEF DoneInv
<1>3. SUFFICES ASSUME NEW j \in submitted'
               PROVE  Queued(j)' \/ cursor'[j] >= Executed
  BY <1>2 DEF DoneInv
<1>4. j \in Jobs /\ submitted \subseteq Jobs
  BY DEF TypeOK, StoreTypeOK
\* It is enough that a queued job stays queued or has been executed.
<1>5. ASSUME j \in submitted, Queued(j) => Queued(j)' \/ cursor'[j] >= Executed
      PROVE  Queued(j)' \/ cursor'[j] >= Executed
  BY <1>1, <1>4, <1>5 DEF DoneInv
<1>6. CASE UNCHANGED <<queue, submitted>>
  BY <1>5, <1>6 DEF Queued
<1>7. ASSUME NEW a \in Agents, NEW e \in Deliverable(a), Lease(a, e)
      PROVE  Queued(j)' \/ cursor'[j] >= Executed
  <2>1. \A f \in queue[a] : \E g \in queue'[a] : g.job = f.job
    <3>1. \A f \in queue[a] : \E g \in ReclaimExpired(queue[a]) : g.job = f.job
      <4> TAKE f \in queue[a]
      <4> DEFINE g == IF f.state = "expired" THEN [f EXCEPT !.state = "queued"] ELSE f
      <4>1. g.job = f.job
        BY DEF TypeOK, StoreTypeOK, Entry
      <4>2. g \in ReclaimExpired(queue[a])
        BY DEF ReclaimExpired
      <4> QED
        BY <4>1, <4>2
    <3>2. queue'[a] = (ReclaimExpired(queue[a]) \ {e})
                          \cup {[e EXCEPT !.state = "dispatched"]}
      BY <1>7 DEF Lease, TypeOK, StoreTypeOK
    <3>3. [e EXCEPT !.state = "dispatched"].job = e.job
      <4>1. e \in Entry
        BY <1>7 DEF Deliverable, ReclaimExpired, Entry, EntryStates, TypeOK, StoreTypeOK
      <4> QED
        BY <4>1 DEF Entry
    <3> QED
      BY <3>1, <3>2, <3>3
  <2>2. \A b \in Agents \ {a} : queue'[b] = queue[b]
    BY <1>7 DEF Lease, TypeOK, StoreTypeOK
  <2> QED
    BY <1>5, <1>7, <2>1, <2>2 DEF Queued, Lease
<1>8. ASSUME NEW r \in requests, Handle(r)
      PROVE  Queued(j)' \/ cursor'[j] >= Executed
  <2>1. CASE UNCHANGED storeVars
    BY <1>6, <2>1 DEF storeVars
  <2>2. CASE HandleEnroll(r)
    BY <1>6, <2>1, <2>2 DEF HandleEnroll, EnrollAs
  <2>3. CASE HandleWork(r)
    BY <1>7, <2>1, <2>3 DEF HandleWork, Accepted
  <2>4. CASE ServeParked(r)
    BY <1>7, <2>1, <2>4 DEF ServeParked, TypeOK, Request
  <2>5. CASE HandleResults(r)
    <3>1. CASE Ack(r.id.agent, r.job, r.result)
      <4>1. cursor[r.job] >= Executed /\ r.job \in Jobs
        BY <1>2, <2>5 DEF HandleResults, Vouched
      <4>2. \A b \in Agents : \A f \in queue[b] :
              f.job # r.job => f \in queue'[b]
        BY <3>1 DEF Ack, TypeOK, StoreTypeOK
      <4>3. submitted' = submitted
        BY <3>1 DEF Ack
      <4>4. Queued(j) => Queued(j)' \/ j = r.job
        BY <4>2 DEF Queued
      <4> QED
        BY <1>1, <1>5, <4>1, <4>3, <4>4
    <3> QED
      BY <2>1, <2>5, <3>1 DEF HandleResults
  <2>6. CASE HandleHeartbeat(r)
    BY <2>1, <2>6 DEF HandleHeartbeat
  <2> QED
    BY <1>8, <2>2, <2>3, <2>4, <2>5, <2>6 DEF Handle
<1>9. CASE StoreStep
  <2>1. ASSUME NEW a \in Agents, NEW k \in Jobs, Enqueue(a, k)
        PROVE  Queued(j)' \/ cursor'[j] >= Executed
    <3>1. \A b \in Agents : queue[b] \subseteq queue'[b]
      BY <2>1 DEF Enqueue, TypeOK, StoreTypeOK
    <3>2. \E f \in queue'[a] : f.job = k
      <4> DEFINE f == [job |-> k, at |-> stamp, state |-> "queued"]
      <4>1. f \in queue'[a]
        BY <2>1 DEF Enqueue, TypeOK, StoreTypeOK
      <4> QED
        BY <4>1
    <3>3. j = k \/ j \in submitted
      BY <2>1 DEF Enqueue
    <3> QED
      BY <1>5, <3>1, <3>2, <3>3 DEF Queued
  <2>2. ASSUME NEW a \in Agents, NEW e \in queue[a], VisibilityElapses(a, e)
        PROVE  Queued(j)' \/ cursor'[j] >= Executed
    <3>1. [e EXCEPT !.state = "expired"].job = e.job
      BY DEF TypeOK, StoreTypeOK, Entry
    <3>2. \A b \in Agents : \A f \in queue[b] : \E g \in queue'[b] : g.job = f.job
      BY <2>2, <3>1 DEF VisibilityElapses, TypeOK, StoreTypeOK
    <3> QED
      BY <1>5, <2>2, <3>2 DEF Queued, VisibilityElapses
  <2> QED
    BY <1>6, <1>9, <2>1, <2>2
       DEF StoreStep, MintToken, RevokeAgent, RotateCredential
<1>10. CASE AgentStep
  BY <1>6, <1>10 DEF AgentStep, AgentUnchanged, storeVars, BeginEnroll,
     EndEnroll, SendHeartbeat, EndHeartbeat, BeginPoll, PushResult, FlushDone,
     EndPush, MarkAcked, AfterFlush, NoWork, ReceiveJob, MarkExecuting, RunJob,
     MarkExecuted, QueueResult, Revoked
<1>11. CASE \/ \E t \in Tokens \cup {NoToken} : StartAgent(t)
            \/ CrashAgent \/ FailCall \/ UNCHANGED vars
  BY <1>6, <1>11 DEF StartAgent, AgentUnchanged, CrashAgent, FailCall, vars, storeVars
<1> QED
  BY <1>8, <1>9, <1>10, <1>11 DEF Next

\* DoneInv holds in every reachable state.
LEMMA DoneCorrect == Spec => []DoneInv
<1>1. Init => DoneInv
  BY DEF Init, StoreInit, DoneInv, Vouched, Working
<1>2. TypeOK /\ TypeOK' /\ DoneInv /\ [Next]_vars => DoneInv'
  BY DoneStep
<1> QED
  BY <1>1, <1>2, TypeCorrect, PTL DEF Spec

----------------------------------------------------------------------------
(***************************************************************************)
(* Every engine run is accounted for.  The strengthening says exactly how  *)
(* many runs a job has had: the wasted ones, plus one once the cursor      *)
(* recorded it or while it is under way.                                   *)
(***************************************************************************)

InFlight(j) == cursor[j] >= Executed \/ (pc = "running" /\ job = j)

RunInv ==
    /\ pc \in {"pulled", "executing", "running"} => cursor[job] < Executed
    /\ \A j \in Jobs : runs[j] = wasted[j] + (IF InFlight(j) THEN 1 ELSE 0)

\* RunInv is inductive, given type correctness and DoneInv.
LEMMA RunStep ==
    ASSUME TypeOK, TypeOK', DoneInv, DoneInv', RunInv, [Next]_vars
    PROVE  RunInv'
<1>1. \A j \in Jobs : /\ cursor[j] \in Nat /\ cursor'[j] \in Nat
                      /\ runs[j] \in Nat /\ wasted[j] \in Nat
  BY DEF TypeOK
<1>2. pc \in Working => job \in Jobs
  BY DEF DoneInv, Vouched
<1> USE <1>1, <1>2 DEF RunInv, InFlight, Working
<1>3. ASSUME UNCHANGED <<cursor, runs, wasted>>,
             pc' = "running" <=> pc = "running",
             pc' = "running" => job' = job,
             pc' \in {"pulled", "executing"} =>
                pc \in {"pulled", "executing"} /\ job' = job
      PROVE  RunInv'
  BY <1>3
<1>4. CASE AgentStep
  <2> USE DEF diskVars, memVars, histVars
  <2>1. CASE MarkAcked
    <3>1. item \in Jobs /\ cursor[item] >= Executed
      BY <2>1 DEF MarkAcked, DoneInv, Vouched
    <3>2. \A j \in Jobs : cursor'[j] >= Executed <=> cursor[j] >= Executed
      BY <2>1, <3>1 DEF MarkAcked, Advance, Later, TypeOK
    <3> QED
      BY <2>1, <3>2 DEF MarkAcked
  <2>2. CASE ReceiveJob
    <3>1. CASE DedupeJob
      BY <2>2, <3>1 DEF ReceiveJob, DedupeJob
    <3>2. CASE TakeJob
      <4>1. /\ \A j \in Jobs : cursor'[j] >= Executed <=> cursor[j] >= Executed
            /\ cursor'[job'] < Executed
        BY <2>2, <3>2 DEF ReceiveJob, TakeJob, Advance, Later, TypeOK
      <4> QED
        BY <2>2, <3>2, <4>1 DEF ReceiveJob, TakeJob
    <3> QED
      BY <2>2, <3>1, <3>2 DEF ReceiveJob
  <2>3. CASE MarkExecuting
    <3>1. /\ \A j \in Jobs : cursor'[j] >= Executed <=> cursor[j] >= Executed
          /\ cursor'[job] < Executed
      BY <2>3 DEF MarkExecuting, Advance, Later, TypeOK
    <3> QED
      BY <2>3, <3>1 DEF MarkExecuting
  <2>4. CASE RunJob
    BY <2>4 DEF RunJob, TypeOK
  <2>5. CASE MarkExecuted
    <3>1. \A j \in Jobs : cursor'[j] >= Executed <=> cursor[j] >= Executed \/ j = job
      BY <2>5 DEF MarkExecuted, Advance, Later, TypeOK
    <3> QED
      BY <2>5, <3>1 DEF MarkExecuted
  <2>6. CASE \/ BeginEnroll \/ EndEnroll \/ SendHeartbeat \/ EndHeartbeat
             \/ BeginPoll \/ PushResult \/ FlushDone \/ EndPush \/ AfterFlush
             \/ NoWork \/ QueueResult
    BY <1>3, <2>6 DEF BeginEnroll, EndEnroll, SendHeartbeat, EndHeartbeat,
       BeginPoll, PushResult, FlushDone, EndPush, AfterFlush, NoWork,
       QueueResult, Revoked
  <2> QED
    BY <1>4, <2>1, <2>2, <2>3, <2>4, <2>5, <2>6 DEF AgentStep
<1>5. CASE CrashAgent
  BY <1>5 DEF CrashAgent, diskVars, TypeOK
<1>6. CASE \/ \E t \in Tokens \cup {NoToken} : StartAgent(t)
           \/ \E r \in requests : Handle(r)
           \/ FailCall \/ StoreStep \/ UNCHANGED vars
  BY <1>3, <1>6 DEF StartAgent, Handle, FailCall, StoreStep, vars, diskVars,
                    memVars, histVars
<1> QED
  BY <1>4, <1>5, <1>6 DEF Next

\* RunInv holds in every reachable state.
LEMMA RunCorrect == Spec => []RunInv
<1>1. Init => RunInv
  <2> SUFFICES ASSUME Init PROVE RunInv
    OBVIOUS
  <2>1. pc = "down"
    BY DEF Init
  <2>2. \A j \in Jobs : cursor[j] = 0 /\ runs[j] = 0 /\ wasted[j] = 0
    BY DEF Init
  <2>3. \A j \in Jobs : ~InFlight(j)
    BY <2>1, <2>2 DEF InFlight
  <2>4. pc \notin {"pulled", "executing", "running"}
    BY <2>1
  <2>5. \A j \in Jobs : runs[j] = wasted[j] + (IF InFlight(j) THEN 1 ELSE 0)
    <3> TAKE j \in Jobs
    <3>1. (IF InFlight(j) THEN 1 ELSE 0) = 0
      BY <2>3
    <3> QED
      BY <2>2, <3>1
  <2> QED
    BY <2>4, <2>5 DEF RunInv
<1>2. TypeOK /\ TypeOK' /\ DoneInv /\ DoneInv' /\ RunInv /\ [Next]_vars => RunInv'
  BY RunStep
<1> QED
  BY <1>1, <1>2, TypeCorrect, DoneCorrect, PTL DEF Spec

\* The engine runs a job again only to replace a run that died unrecorded.
THEOREM RunsAccounted == Spec => []RunsAreAccountedFor
<1>1. TypeOK /\ RunInv => RunsAreAccountedFor
  BY DEF TypeOK, RunInv, RunsAreAccountedFor
<1> QED
  BY <1>1, TypeCorrect, RunCorrect, PTL

\* A submitted job is still queued at the control plane or was carried out:
\* a job the cursor file calls executed has had a run that was not wasted.
THEOREM NoJobIsLost == Spec => []NoJobLost
<1>1. TypeOK /\ DoneInv /\ RunInv => NoJobLost
  <2> SUFFICES ASSUME TypeOK, DoneInv, RunInv, NEW j \in submitted
               PROVE  j \in Outstanding \/ CarriedOut(j)
    BY DEF NoJobLost
  <2>1. j \in Jobs /\ wasted[j] \in Nat
    BY DEF TypeOK, StoreTypeOK
  <2>2. CASE Queued(j)
    BY <2>2, OutstandingQueued
  <2>3. CASE cursor[j] >= Executed
    <3>1. ~(pc = "running" /\ job = j)
      BY <2>1, <2>3 DEF RunInv, Executed, TypeOK
    <3>2. runs[j] = wasted[j] + 1
      BY <2>1, <2>3 DEF RunInv, InFlight
    <3> QED
      BY <2>1, <3>1, <3>2 DEF CarriedOut
  <2> QED
    BY <2>2, <2>3 DEF DoneInv
<1> QED
  BY <1>1, TypeCorrect, DoneCorrect, RunCorrect, PTL

----------------------------------------------------------------------------
(***************************************************************************)
(* What a step does to the jobs in the queues.                             *)
(***************************************************************************)

JobsStay == \A a \in Agents : JobsOf(a)' = JobsOf(a)

\* Expired entries that count as queued again are of the same jobs.
LEMMA ReclaimKeepsJobs ==
    ASSUME TypeOK, NEW a \in Agents
    PROVE  /\ ReclaimExpired(queue[a]) \subseteq Entry
           /\ {e.job : e \in ReclaimExpired(queue[a])} = JobsOf(a)
<1>1. queue[a] \subseteq Entry
  BY DEF TypeOK, StoreTypeOK
<1>2. ASSUME NEW e \in queue[a]
      PROVE  LET f == IF e.state = "expired" THEN [e EXCEPT !.state = "queued"] ELSE e
             IN  f \in Entry /\ f.job = e.job
  BY <1>1 DEF Entry, EntryStates
<1> QED
  BY <1>1, <1>2 DEF ReclaimExpired, JobsOf

\* Handing out an entry leaves its job in the queue.
LEMMA LeaseKeepsJobs ==
    ASSUME TypeOK, NEW a \in Agents, NEW e \in Deliverable(a), Lease(a, e)
    PROVE  /\ JobsStay /\ e.job \in JobsOf(a)
           /\ UNCHANGED <<tokens, registry, stamp, results, submitted>>
<1>1. e \in ReclaimExpired(queue[a]) /\ e \in Entry
  BY ReclaimKeepsJobs DEF Deliverable
<1>2. [e EXCEPT !.state = "dispatched"].job = e.job
  BY <1>1 DEF Entry
<1>3. /\ queue'[a] = (ReclaimExpired(queue[a]) \ {e}) \cup {[e EXCEPT !.state = "dispatched"]}
      /\ \A b \in Agents : b # a => queue'[b] = queue[b]
  BY DEF Lease, TypeOK, StoreTypeOK
<1>4. {f.job : f \in queue'[a]} = {f.job : f \in ReclaimExpired(queue[a])}
  BY <1>1, <1>2, <1>3
<1>5. JobsOf(a)' = JobsOf(a)
  BY <1>4, ReclaimKeepsJobs DEF JobsOf
<1>6. \A b \in Agents : b # a => JobsOf(b)' = JobsOf(b)
  BY <1>3 DEF JobsOf
<1>7. e.job \in {f.job : f \in ReclaimExpired(queue[a])}
  BY <1>1
<1> QED
  BY <1>5, <1>6, <1>7, ReclaimKeepsJobs DEF JobsStay, Lease

\* Neither does the visibility timer of an entry.
LEMMA ElapseKeepsJobs ==
    ASSUME TypeOK, NEW a \in Agents, NEW e \in queue[a], VisibilityElapses(a, e)
    PROVE  JobsStay
<1>1. [e EXCEPT !.state = "expired"].job = e.job
  BY DEF TypeOK, StoreTypeOK, Entry
<1>2. /\ queue'[a] = (queue[a] \ {e}) \cup {[e EXCEPT !.state = "expired"]}
      /\ \A b \in Agents : b # a => queue'[b] = queue[b]
  BY DEF VisibilityElapses, TypeOK, StoreTypeOK
<1>3. {f.job : f \in queue'[a]} = {f.job : f \in queue[a]}
  BY <1>1, <1>2
<1> QED
  BY <1>2, <1>3 DEF JobsStay, JobsOf

\* An enqueue adds its job to one queue.
LEMMA EnqueueAddsJob ==
    ASSUME TypeOK, NEW a \in Agents, NEW j \in Jobs, Enqueue(a, j)
    PROVE  /\ JobsOf(a)' = JobsOf(a) \cup {j}
           /\ \A b \in Agents : b # a => JobsOf(b)' = JobsOf(b)
<1>1. [job |-> j, at |-> stamp, state |-> "queued"].job = j
  OBVIOUS
<1>2. /\ queue'[a] = queue[a] \cup {[job |-> j, at |-> stamp, state |-> "queued"]}
      /\ \A b \in Agents : b # a => queue'[b] = queue[b]
  BY DEF Enqueue, TypeOK, StoreTypeOK
<1> QED
  BY <1>1, <1>2 DEF JobsOf

\* An acknowledgement takes its job out of one queue.
LEMMA AckDropsJob ==
    ASSUME TypeOK, NEW a \in Agents, NEW j \in Jobs, NEW res, Ack(a, j, res)
    PROVE  /\ JobsOf(a)' = JobsOf(a) \ {j}
           /\ \A b \in Agents : b # a => JobsOf(b)' = JobsOf(b)
           /\ results'[j] = res
           /\ \A k \in Jobs : k # j => results'[k] = results[k]
           /\ UNCHANGED <<tokens, registry, stamp, submitted>>
<1>1. /\ queue'[a] = {e \in queue[a] : e.job # j}
      /\ \A b \in Agents : b # a => queue'[b] = queue[b]
  BY DEF Ack, TypeOK, StoreTypeOK
<1> QED
  BY <1>1 DEF JobsOf, Ack, TypeOK, StoreTypeOK

\* A job is in some queue.
LEMMA QueuedSomewhere == \A j : Queued(j) <=> \E a \in Agents : j \in JobsOf(a)
BY DEF Queued, JobsOf

----------------------------------------------------------------------------
(***************************************************************************)
(* The call the agent waits for.                                           *)
(***************************************************************************)

\* The one request the agent waits for is the one it has just made, with its
\* present identity, and is gone when there is a reply.
CallInv ==
    /\ \A r \in requests : r.live =>
          /\ reply.status = "none"
          /\ r.id = identity
          /\ \/ pc = "enroll" /\ r.op = "enroll"
             \/ pc = "heartbeat" /\ r.op = "heartbeat"
             \/ pc = "poll" /\ r.op = "work"
             \/ pc = "push" /\ r.op = "results" /\ r.job = item /\ r.result = outbox[item]
    /\ \A q \in requests : \A r \in requests : q.live /\ r.live => q = r
    /\ \A r \in requests : r.parked => r.op = "work"
    /\ reply.status # "none" => pc \in {"enroll", "heartbeat", "push", "poll"}

\* The outcomes of a request the control plane has looked at.
Enrolled(r) ==
    /\ r.op = "enroll"
    /\ \E a \in Agents :
          /\ EnrollAs(r.token, a)
          /\ Respond(r, "ok", [agent |-> a, cred |-> registry[a].cred], NoJob)

Told(r) ==
    /\ UNCHANGED storeVars
    /\ \E status \in {"ok", "unauth", "nowork"} : \E id \in Identity :
          /\ status = "ok" => r.op = "heartbeat"
          /\ Respond(r, status, id, NoJob)

Handed(r) ==
    /\ r.op = "work" \/ r.parked
    /\ r.id.agent \in Agents
    /\ \E e \in Deliverable(r.id.agent) :
          Lease(r.id.agent, e) /\ Respond(r, "ok", r.id, e.job)

Kept(r) ==
    /\ r.op = "work"
    /\ requests' = (requests \ {r}) \cup {[r EXCEPT !.parked = TRUE]}
    /\ UNCHANGED <<storeVars, reply>>

Acknowledged(r) ==
    /\ r.op = "results"
    /\ r.id.agent \in Agents
    /\ Ack(r.id.agent, r.job, r.result)
    /\ Respond(r, "ok", r.id, r.job)

LEMMA HandleCases ==
    ASSUME TypeOK, NEW r \in requests, Handle(r)
    PROVE  /\ UNCHANGED <<diskVars, pc, memVars, envVars, histVars>>
           /\ Enrolled(r) \/ Told(r) \/ Handed(r) \/ Kept(r) \/ Acknowledged(r)
<1>1. r \in Request /\ r.id \in Identity /\ NoIdentity \in Identity
  BY DEF TypeOK, Request, RequestRecord, NoIdentity, Identity
<1> SUFFICES Enrolled(r) \/ Told(r) \/ Handed(r) \/ Kept(r) \/ Acknowledged(r)
  BY DEF Handle
<1>2. ASSUME NEW id \in Identity, UNCHANGED storeVars,
             Respond(r, "unauth", id, NoJob) \/ Respond(r, "nowork", id, NoJob)
      PROVE  Told(r)
  BY <1>2 DEF Told
<1>3. CASE HandleEnroll(r)
  BY <1>1, <1>2, <1>3 DEF HandleEnroll, Enrolled
<1>4. CASE HandleWork(r)
  BY <1>1, <1>2, <1>4 DEF HandleWork, Accepted, Handed, Kept
<1>5. CASE ServeParked(r)
  BY <1>1, <1>2, <1>5 DEF ServeParked, Request, Handed
<1>6. CASE HandleResults(r)
  BY <1>1, <1>2, <1>6 DEF HandleResults, Accepted, Acknowledged
<1>7. CASE HandleHeartbeat(r)
  BY <1>1, <1>7 DEF HandleHeartbeat, Told
<1> QED
  BY <1>3, <1>4, <1>5, <1>6, <1>7 DEF Handle

\* When nobody waits and there is no reply to read, the agent is free to do
\* whatever comes next.
LEMMA NobodyWaits ==
    ASSUME \A r \in requests' : ~r.live /\ (r.parked => r.op = "work"),
           reply'.status # "none" => pc' \in {"enroll", "heartbeat", "push", "poll"}
    PROVE  CallInv'
BY DEF CallInv

\* The request of a new call is the only one somebody waits for.
LEMMA SendCalls ==
    ASSUME CallInv, reply.status = "none", \A r \in requests : ~r.live,
           NEW op, NEW t, NEW j, NEW res,
           Send(op, identity, t, j, res), identity' = identity,
           \/ pc' = "enroll" /\ op = "enroll"
           \/ pc' = "heartbeat" /\ op = "heartbeat"
           \/ pc' = "poll" /\ op = "work"
           \/ pc' = "push" /\ op = "results" /\ j = item' /\ res = outbox'[item']
    PROVE  CallInv'
<1> DEFINE n == [op |-> op, id |-> identity, token |-> t, job |-> j, result |-> res,
                 live |-> TRUE, parked |-> FALSE]
<1>1. /\ n.op = op /\ n.id = identity /\ n.job = j /\ n.result = res
      /\ n.live /\ ~n.parked
  OBVIOUS
<1>2. requests' = requests \cup {n} /\ reply'.status = "none"
  BY DEF Send, NoReply
<1> HIDE DEF n
<1>3. \A r \in requests' : r = n \/ (~r.live /\ (r.parked => r.op = "work"))
  BY <1>2 DEF CallInv
<1> QED
  BY <1>1, <1>2, <1>3 DEF CallInv

\* The control plane answers the caller that waits, or nobody.
LEMMA HandleCalls ==
    ASSUME TypeOK, CallInv, NEW r \in requests, Handle(r)
    PROVE  CallInv'
<1>1. UNCHANGED <<pc, identity, item, outbox>>
  BY HandleCases DEF diskVars, memVars
<1>2. ASSUME NEW status, NEW id, NEW j, Respond(r, status, id, j)
      PROVE  CallInv'
  <2>1. requests' = requests \ {r}
    BY <1>2 DEF Respond
  <2>2. CASE r.live
    <3>1. \A q \in requests' : ~q.live
      BY <2>1, <2>2 DEF CallInv
    <3> QED
      BY <1>1, <2>1, <2>2, <3>1 DEF CallInv
  <2>3. CASE ~r.live
    <3>1. reply' = reply
      BY <1>2, <2>3 DEF Respond
    <3> QED
      BY <1>1, <2>1, <3>1 DEF CallInv
  <2> QED
    BY <2>2, <2>3
<1>3. CASE Kept(r)
  <2> DEFINE p == [r EXCEPT !.parked = TRUE]
  <2>1. r \in RequestRecord
    BY DEF TypeOK, Request
  <2>2. /\ p.live = r.live /\ p.id = r.id /\ p.op = r.op
        /\ p.job = r.job /\ p.result = r.result
    BY <2>1 DEF RequestRecord
  <2>3. requests' = (requests \ {r}) \cup {p} /\ reply' = reply /\ r.op = "work"
    BY <1>3 DEF Kept
  <2> HIDE DEF p
  <2> QED
    BY <1>1, <2>2, <2>3 DEF CallInv
<1> QED
  BY <1>2, <1>3, HandleCases DEF Enrolled, Told, Handed, Acknowledged

\* A call given up is waited for no more.
LEMMA AbandonedCalls ==
    ASSUME TypeOK, CallInv
    PROVE  \A q \in Abandoned :
              /\ ~q.live /\ (q.parked => q.op = "work")
              /\ \E r \in requests : q.op = r.op /\ q.job = r.job /\ q.result = r.result
<1>1. ASSUME NEW r \in requests
      PROVE  LET q == [r EXCEPT !.live = FALSE]
             IN  /\ ~q.live /\ (q.parked => q.op = "work")
                 /\ q.op = r.op /\ q.job = r.job /\ q.result = r.result
  BY DEF TypeOK, Request, RequestRecord, CallInv
<1> QED
  BY <1>1 DEF Abandoned

\* CallInv is inductive, given type correctness.
LEMMA CallStep ==
    ASSUME TypeOK, CallInv, [Next]_vars
    PROVE  CallInv'
<1>1. pc \notin {"enroll", "heartbeat", "push", "poll"} =>
        reply.status = "none" /\ \A r \in requests : ~r.live
  BY DEF CallInv
<1>2. \A r \in requests : r.parked => r.op = "work"
  BY DEF CallInv
<1>3. ASSUME NEW status \in {"ok", "unauth", "nowork", "error"}, Read(status)
      PROVE  CallInv'
  <2>1. requests' = requests /\ reply'.status = "none" /\ reply.status # "none"
    BY <1>3 DEF Read, NoReply
  <2>2. \A r \in requests : ~r.live
    BY <2>1 DEF CallInv
  <2> QED
    BY <1>2, <2>1, <2>2, NobodyWaits
<1>4. ASSUME UNCHANGED netVars,
             pc \notin {"enroll", "heartbeat", "push", "poll"}
      PROVE  CallInv'
  BY <1>1, <1>2, <1>4, NobodyWaits DEF netVars
<1>5. CASE AgentStep
  <2> USE DEF memVars
  <2>1. CASE BeginEnroll
    <3>1. CASE UNCHANGED netVars
      BY <1>4, <2>1, <3>1 DEF BeginEnroll
    <3>2. CASE /\ pc' = "enroll"
               /\ Send("enroll", NoIdentity, envToken, NoJob, NoResult)
      BY <1>1, <2>1, <3>2, SendCalls DEF BeginEnroll
    <3> QED
      BY <2>1, <3>1, <3>2 DEF BeginEnroll
  <2>2. CASE SendHeartbeat
    BY <1>1, <2>2, SendCalls DEF SendHeartbeat
  <2>3. CASE PushResult
    <3>1. PICK j \in Jobs : /\ item' = j
                            /\ Send("results", identity, NoToken, j, outbox[j])
      BY <2>3 DEF PushResult
    <3>2. UNCHANGED <<outbox, identity>> /\ pc' = "push" /\ pc = "flush"
      BY <2>3 DEF PushResult, diskVars
    <3> QED
      BY <1>1, <3>1, <3>2, SendCalls
  <2>4. CASE AfterFlush
    <3>1. CASE pc' = "poll" /\ Send("work", identity, NoToken, NoJob, NoResult)
      BY <1>1, <2>4, <3>1, SendCalls DEF AfterFlush
    <3>2. CASE UNCHANGED netVars
      BY <1>4, <2>4, <3>2 DEF AfterFlush
    <3> QED
      BY <2>4, <3>1, <3>2 DEF AfterFlush
  <2>5. CASE EndEnroll \/ EndHeartbeat \/ EndPush \/ NoWork \/ ReceiveJob
    BY <1>3, <2>5 DEF EndEnroll, EndHeartbeat, EndPush, NoWork, ReceiveJob, Revoked
  <2>6. CASE \/ BeginPoll \/ FlushDone \/ MarkAcked \/ MarkExecuting
             \/ RunJob \/ MarkExecuted \/ QueueResult
    BY <1>4, <2>6 DEF BeginPoll, FlushDone, MarkAcked, MarkExecuting, RunJob,
                      MarkExecuted, QueueResult
  <2> QED
    BY <1>5, <2>1, <2>2, <2>3, <2>4, <2>5, <2>6 DEF AgentStep
<1>6. ASSUME NEW t \in Tokens \cup {NoToken}, StartAgent(t)
      PROVE  CallInv'
  BY <1>4, <1>6 DEF StartAgent
<1>7. CASE CrashAgent
  <2>1. requests' = Abandoned /\ reply'.status = "none"
    BY <1>7 DEF CrashAgent, NoReply
  <2> QED
    BY <2>1, AbandonedCalls, NobodyWaits
<1>8. CASE FailCall
  <2>1. pc' = pc
    BY <1>8 DEF FailCall
  <2>2. CASE \E r \in requests : r.live /\ requests' = requests \ {r}
    <3>1. PICK r \in requests : r.live /\ requests' = requests \ {r}
      BY <2>2
    <3> QED
      BY <1>1, <1>2, <2>1, <3>1, NobodyWaits DEF CallInv
  <2>3. CASE (\E r \in requests : r.live) /\ requests' = Abandoned
    BY <1>1, <2>1, <2>3, AbandonedCalls, NobodyWaits
  <2>4. CASE reply.status \notin {"none", "error"} /\ requests' = requests
    <3>1. \A r \in requests : ~r.live
      BY <2>4 DEF CallInv
    <3> QED
      BY <1>1, <1>2, <2>1, <2>4, <3>1, NobodyWaits
  <2> QED
    BY <1>8, <2>2, <2>3, <2>4 DEF FailCall
<1>9. CASE StoreStep \/ UNCHANGED vars
  BY <1>9 DEF StoreStep, vars, diskVars, memVars, netVars, CallInv
<1> QED
  BY <1>5, <1>6, <1>7, <1>8, <1>9, HandleCalls DEF Next

\* CallInv holds in every reachable state.
LEMMA CallCorrect == Spec => []CallInv
<1>1. Init => CallInv
  BY DEF Init, NoReply, CallInv
<1>2. TypeOK /\ CallInv /\ [Next]_vars => CallInv'
  BY CallStep
<1> QED
  BY <1>1, <1>2, TypeCorrect, PTL DEF Spec

----------------------------------------------------------------------------
(***************************************************************************)
(* Which jobs are known to the agent, and where they are queued.           *)
(***************************************************************************)

Submitting(a, j) ==
    /\ Enqueue(a, j)
    /\ JobsOf(a)' = JobsOf(a) \cup {j}
    /\ \A b \in Agents : b # a => JobsOf(b)' = JobsOf(b)
    /\ UNCHANGED <<diskVars, pc, memVars, netVars, envVars, histVars>>

\* What happens to the queues: nothing, an enqueue or an acknowledgement.
LEMMA QueueStep ==
    ASSUME TypeOK, [Next]_vars
    PROVE  \/ JobsStay /\ UNCHANGED <<submitted, results>>
           \/ \E a \in Agents : \E j \in Jobs : Submitting(a, j)
           \/ \E r \in requests : Handle(r) /\ Acknowledged(r)
<1> USE DEF storeVars
<1>1. CASE UNCHANGED <<queue, submitted, results>>
  BY <1>1 DEF JobsStay, JobsOf
<1>2. ASSUME NEW r \in requests, Handle(r)
      PROVE  \/ JobsStay /\ UNCHANGED <<submitted, results>>
             \/ Acknowledged(r)
  <2>1. CASE Enrolled(r) \/ Told(r) \/ Kept(r)
    <3>1. Enrolled(r) => UNCHANGED <<queue, submitted, results>>
      BY DEF Enrolled, EnrollAs
    <3>2. Told(r) \/ Kept(r) => UNCHANGED <<queue, submitted, results>>
      BY DEF Told, Kept
    <3>3. JobsStay
      BY <2>1, <3>1, <3>2 DEF JobsStay, JobsOf
    <3> QED
      BY <2>1, <3>1, <3>2, <3>3
  <2>2. CASE Handed(r)
    BY <2>2, LeaseKeepsJobs DEF Handed
  <2> QED
    BY <1>2, <2>1, <2>2, HandleCases
<1>3. CASE StoreStep
  <2>1. ASSUME NEW a \in Agents, NEW e \in queue[a], VisibilityElapses(a, e)
        PROVE  JobsStay /\ UNCHANGED <<submitted, results>>
    BY <2>1, ElapseKeepsJobs DEF VisibilityElapses
  <2>2. ASSUME NEW a \in Agents, NEW j \in Jobs, Enqueue(a, j)
        PROVE  Submitting(a, j)
    BY <1>3, <2>2, EnqueueAddsJob DEF StoreStep, Submitting
  <2> QED
    BY <1>1, <1>3, <2>1, <2>2 DEF StoreStep, MintToken, RevokeAgent, RotateCredential
<1>4. CASE AgentStep
  BY <1>1, <1>4 DEF AgentStep, AgentUnchanged, BeginEnroll,
     EndEnroll, SendHeartbeat, EndHeartbeat, BeginPoll, PushResult, FlushDone,
     EndPush, MarkAcked, AfterFlush, NoWork, ReceiveJob, MarkExecuting, RunJob,
     MarkExecuted, QueueResult, Revoked
<1>5. CASE \/ \E t \in Tokens \cup {NoToken} : StartAgent(t)
           \/ CrashAgent \/ FailCall \/ UNCHANGED vars
  BY <1>1, <1>5 DEF StartAgent, AgentUnchanged, CrashAgent, FailCall, vars
<1> QED
  BY <1>2, <1>3, <1>4, <1>5 DEF Next

\* A job that has left a queue does not come back to it, unless the operator
\* repeats its id.
LEMMA NeverRequeued ==
    ASSUME TypeOK, [Next]_vars, ~RepeatIds, NEW j \in submitted
    PROVE  /\ j \in submitted'
           /\ \A a \in Agents : j \notin JobsOf(a) => j \notin JobsOf(a)'
           /\ ~Queued(j) => ~Queued(j)'
<1>1. j \in Jobs
  BY DEF TypeOK, StoreTypeOK
<1>2. j \in submitted' /\ \A a \in Agents : j \notin JobsOf(a) => j \notin JobsOf(a)'
  <2>1. CASE JobsStay /\ UNCHANGED <<submitted, results>>
    BY <2>1 DEF JobsStay
  <2>2. ASSUME NEW a \in Agents, NEW k \in Jobs, Submitting(a, k)
        PROVE  j \in submitted' /\ \A b \in Agents : j \notin JobsOf(b) => j \notin JobsOf(b)'
    <3>1. k \notin submitted /\ submitted' = submitted \cup {k}
      BY <2>2 DEF Submitting, Enqueue
    <3> QED
      BY <2>2, <3>1 DEF Submitting
  <2>3. ASSUME NEW r \in requests, Acknowledged(r)
        PROVE  j \in submitted' /\ \A b \in Agents : j \notin JobsOf(b) => j \notin JobsOf(b)'
    <3>1. \A b \in Agents : queue'[b] \subseteq queue[b]
      BY <2>3 DEF Acknowledged, Ack, TypeOK, StoreTypeOK
    <3> QED
      BY <2>3, <3>1 DEF Acknowledged, Ack, JobsOf
  <2> QED
    BY <2>1, <2>2, <2>3, QueueStep
<1>3. ~Queued(j) => ~Queued(j)'
  <2>1. Queued(j)' <=> \E a \in Agents : j \in JobsOf(a)'
    BY DEF Queued, JobsOf
  <2> QED
    BY <1>2, <2>1, QueuedSomewhere
<1> QED
  BY <1>2, <1>3

\* Only jobs that were submitted are queued, handed out, worked on or
\* recorded by the agent.
KnownInv ==
    /\ \A j \in Jobs : cursor[j] > 0 \/ Queued(j) => j \in submitted
    /\ pc \in Working => job \in submitted
    /\ pc = "poll" /\ reply.status = "ok" => reply.job \in submitted

\* KnownInv is inductive, given type correctness, DoneInv and CallInv.
LEMMA KnownStep ==
    ASSUME TypeOK, TypeOK', DoneInv, CallInv, KnownInv, [Next]_vars
    PROVE  KnownInv'
<1>1. submitted \subseteq submitted'
  BY QueueStep DEF Submitting, Enqueue, Acknowledged, Ack
<1>2. \A j \in Jobs : cursor[j] \in Nat /\ cursor'[j] \in Nat
  BY DEF TypeOK
<1>3. \A j \in Jobs : Queued(j)' => j \in submitted'
  <2> SUFFICES ASSUME NEW j \in Jobs, NEW a \in Agents, j \in JobsOf(a)'
               PROVE  j \in submitted'
    BY DEF Queued, JobsOf
  <2>1. j \in JobsOf(a) => j \in submitted'
    BY <1>1, QueuedSomewhere DEF KnownInv
  <2>2. CASE JobsStay
    BY <2>1, <2>2 DEF JobsStay
  <2>3. ASSUME NEW b \in Agents, NEW k \in Jobs, Submitting(b, k)
        PROVE  j \in submitted'
    BY <2>1, <2>3 DEF Submitting, Enqueue
  <2>4. ASSUME NEW r \in requests, Acknowledged(r)
        PROVE  j \in submitted'
    <3>1. queue'[a] \subseteq queue[a]
      BY <2>4 DEF Acknowledged, Ack, TypeOK, StoreTypeOK
    <3> QED
      BY <2>1, <3>1 DEF JobsOf
  <2> QED
    BY <2>2, <2>3, <2>4, QueueStep
\* A step that advances no job's cursor from 0 and hands out nothing.
<1>4. ASSUME \A j \in Jobs : cursor'[j] > 0 => cursor[j] > 0 \/ j \in submitted,
             pc' \in Working => job' \in submitted,
             pc' = "poll" /\ reply'.status = "ok" => reply'.job \in submitted
      PROVE  KnownInv'
  BY <1>1, <1>3, <1>4 DEF KnownInv
<1>5. CASE AgentStep
  <2> USE DEF diskVars, memVars
  <2>1. ASSUME NEW k \in submitted, NEW stage \in 0..Acked, Advance(k, stage)
        PROVE  \A j \in Jobs : cursor'[j] > 0 => cursor[j] > 0 \/ j \in submitted
    BY <1>2, <2>1 DEF Advance, Later, TypeOK
  <2>2. CASE ReceiveJob
    <3>1. reply.job \in submitted
      BY <2>2 DEF ReceiveJob, DedupeJob, TakeJob, Read, KnownInv
    <3>2. CASE DedupeJob
      BY <1>4, <2>2, <3>2 DEF ReceiveJob, DedupeJob, Working
    <3>3. CASE TakeJob
      BY <1>4, <2>1, <2>2, <3>1, <3>3 DEF ReceiveJob, TakeJob
    <3> QED
      BY <2>2, <3>2, <3>3 DEF ReceiveJob
  <2>3. CASE MarkExecuting \/ MarkExecuted
    <3>1. job \in submitted /\ job' = job
      BY <2>3 DEF MarkExecuting, MarkExecuted, KnownInv, Working
    <3>2. pc' # "poll"
      BY <2>3 DEF MarkExecuting, MarkExecuted
    <3> QED
      BY <1>4, <2>1, <2>3, <3>1, <3>2 DEF MarkExecuting, MarkExecuted
  <2>4. CASE MarkAcked
    <3>1. item \in Jobs /\ cursor[item] >= Executed
      BY <2>4 DEF MarkAcked, DoneInv, Vouched
    <3>2. item \in submitted
      BY <1>2, <3>1 DEF KnownInv
    <3> QED
      BY <1>4, <2>1, <2>4, <3>2 DEF MarkAcked, Working
  <2>5. CASE RunJob
    BY <1>4, <2>5 DEF RunJob, KnownInv, Working
  <2>6. CASE \/ BeginEnroll \/ EndEnroll \/ SendHeartbeat \/ EndHeartbeat
             \/ BeginPoll \/ PushResult \/ FlushDone \/ EndPush \/ AfterFlush
             \/ NoWork \/ QueueResult
    <3>1. UNCHANGED cursor /\ pc' \notin Working
      BY <2>6 DEF BeginEnroll, EndEnroll, SendHeartbeat, EndHeartbeat, Working,
         BeginPoll, PushResult, FlushDone, EndPush, AfterFlush, NoWork,
         QueueResult, Revoked
    <3>2. pc' = "poll" => reply'.status = "none"
      BY <2>6 DEF BeginEnroll, EndEnroll, SendHeartbeat, EndHeartbeat, NoReply,
         BeginPoll, PushResult, FlushDone, EndPush, AfterFlush, NoWork,
         QueueResult, Revoked, Send
    <3> QED
      BY <1>4, <3>1, <3>2
  <2> QED
    BY <1>5, <2>2, <2>3, <2>4, <2>5, <2>6 DEF AgentStep
<1>6. ASSUME NEW r \in requests, Handle(r)
      PROVE  KnownInv'
  <2>1. UNCHANGED <<cursor, pc, job>>
    BY <1>6, HandleCases DEF diskVars, memVars
  <2>2. CASE reply' = reply
    BY <1>4, <2>1, <2>2 DEF KnownInv
  <2>3. CASE reply' # reply
    <3>1. CASE Handed(r)
      <4>1. PICK e \in Deliverable(r.id.agent) :
               Lease(r.id.agent, e) /\ Respond(r, "ok", r.id, e.job)
        BY <3>1 DEF Handed
      <4>2. e.job \in JobsOf(r.id.agent) /\ r.id.agent \in Agents /\ e.job \in Jobs
        BY <3>1, <4>1, LeaseKeepsJobs, LeaseType DEF Handed
      <4>3. reply'.job = e.job
        BY <2>3, <4>1 DEF Respond
      <4>4. e.job \in submitted
        BY <4>2, QueuedSomewhere DEF KnownInv
      <4> QED
        BY <1>4, <2>1, <4>3, <4>4 DEF KnownInv
    <3>2. CASE Enrolled(r) \/ Told(r) \/ Acknowledged(r)
      <4>1. r.live
        BY <2>3, <3>2 DEF Enrolled, Told, Acknowledged, Respond
      <4>2. pc = "poll" => r.op = "work"
        BY <4>1 DEF CallInv
      <4>3. pc = "poll" => reply'.status # "ok"
        BY <2>3, <3>2, <4>1, <4>2 DEF Enrolled, Told, Acknowledged, Respond
      <4> QED
        BY <1>4, <2>1, <4>3 DEF KnownInv
    <3> QED
      BY <1>6, <2>3, <3>1, <3>2, HandleCases DEF Kept
  <2> QED
    BY <2>2, <2>3
<1>7. CASE CrashAgent
  BY <1>4, <1>7 DEF CrashAgent, diskVars, Working
<1>8. CASE FailCall
  BY <1>4, <1>8 DEF FailCall, diskVars, memVars, LostReply, NoReply, KnownInv
<1>9. CASE \/ \E t \in Tokens \cup {NoToken} : StartAgent(t)
           \/ StoreStep \/ UNCHANGED vars
  BY <1>4, <1>9 DEF StartAgent, StoreStep, vars, diskVars, memVars, netVars,
                    Working, KnownInv
<1> QED
  BY <1>5, <1>6, <1>7, <1>8, <1>9 DEF Next

\* KnownInv holds in every reachable state.
LEMMA KnownCorrect == Spec => []KnownInv
<1>1. Init => KnownInv
  BY DEF Init, StoreInit, KnownInv, Queued, Working
<1>2. TypeOK /\ TypeOK' /\ DoneInv /\ CallInv /\ KnownInv /\ [Next]_vars => KnownInv'
  BY KnownStep
<1> QED
  BY <1>1, <1>2, TypeCorrect, DoneCorrect, CallCorrect, PTL DEF Spec

----------------------------------------------------------------------------
(***************************************************************************)
(* What the agent calls acknowledged is out of the queue it pulls from.    *)
(* An agent id is handed out once, so that a queue is never pulled from    *)
(* again by an agent that enrolled anew, and what was acknowledged from it *)
(* stays out.                                                              *)
(***************************************************************************)

\* The identity in use is the one on disk, and nothing is queued for an agent
\* that was never enrolled.
IdentityInv ==
    /\ identity \in {NoIdentity, creds}
    /\ pc # "down" => identity = creds
    /\ \A a \in Agents : registry[a].state = "absent" => JobsOf(a) = {}

\* No acknowledged job is queued for the agent on disk, or for the one a
\* reply makes it; the job being acknowledged has left its queue too.
GoneInv ==
    /\ \A j \in Jobs : \A a \in Agents :
          cursor[j] = Acked /\ a = creds.agent => j \notin JobsOf(a)
    /\ \A j \in Jobs : \A a \in Agents :
          cursor[j] = Acked /\ pc = "enroll" /\ reply.status = "ok" /\ a = reply.id.agent
              => j \notin JobsOf(a)
    /\ pc = "acking" \/ (pc = "push" /\ reply.status = "ok") =>
          \A a \in Agents : a = identity.agent => item \notin JobsOf(a)

\* IdentityInv is inductive, given type correctness.
LEMMA IdentityStep ==
    ASSUME TypeOK, IdentityInv, [Next]_vars
    PROVE  IdentityInv'
<1>1. \A a \in Agents : registry'[a].state = "absent" => registry[a].state = "absent"
  <2>1. CASE UNCHANGED registry
    BY <2>1
  <2>2. ASSUME NEW r \in requests, Handle(r)
        PROVE  \A a \in Agents : registry'[a].state = "absent" => registry[a].state = "absent"
    <3>1. ASSUME NEW b \in Agents, EnrollAs(r.token, b)
          PROVE  \A a \in Agents : registry'[a].state = "absent" => registry[a].state = "absent"
      BY <3>1 DEF EnrollAs, TypeOK, StoreTypeOK
    <3> QED
      BY <2>1, <2>2, <3>1, HandleCases
         DEF Enrolled, Told, Handed, Kept, Acknowledged, Lease, Ack, storeVars
  <2>3. CASE StoreStep
    <3>1. ASSUME NEW b \in Agents, RevokeAgent(b) \/ RotateCredential(b)
          PROVE  \A a \in Agents : registry'[a].state = "absent" => registry[a].state = "absent"
      BY <3>1 DEF RevokeAgent, RotateCredential, TypeOK, StoreTypeOK, AgentRecord
    <3> QED
      BY <2>1, <2>3, <3>1 DEF StoreStep, MintToken, Enqueue, VisibilityElapses
  <2>4. CASE AgentStep
    BY <2>1, <2>4 DEF AgentStep, AgentUnchanged, storeVars, BeginEnroll,
       EndEnroll, SendHeartbeat, EndHeartbeat, BeginPoll, PushResult, FlushDone,
       EndPush, MarkAcked, AfterFlush, NoWork, ReceiveJob, MarkExecuting, RunJob,
       MarkExecuted, QueueResult, Revoked
  <2> QED
    BY <2>1, <2>2, <2>3, <2>4
       DEF Next, StartAgent, AgentUnchanged, CrashAgent, FailCall, vars, storeVars
<1>2. \A a \in Agents : registry'[a].state = "absent" => JobsOf(a)' = {}
  <2> SUFFICES ASSUME NEW a \in Agents, registry'[a].state = "absent"
               PROVE  JobsOf(a)' = {}
    OBVIOUS
  <2>1. registry[a].state = "absent" /\ JobsOf(a) = {}
    BY <1>1 DEF IdentityInv
  <2>2. ASSUME NEW b \in Agents, NEW j \in Jobs, Submitting(b, j)
        PROVE  JobsOf(a)' = {}
    <3>1. b # a
      BY <2>1, <2>2 DEF Submitting, Enqueue
    <3> QED
      BY <2>1, <2>2, <3>1 DEF Submitting
  <2>3. ASSUME NEW r \in requests, Acknowledged(r)
        PROVE  JobsOf(a)' = {}
    <3>1. queue'[a] \subseteq queue[a]
      BY <2>3 DEF Acknowledged, Ack, TypeOK, StoreTypeOK
    <3> QED
      BY <2>1, <3>1 DEF JobsOf
  <2> QED
    BY <2>1, <2>2, <2>3, QueueStep DEF JobsStay
<1>3. identity' \in {NoIdentity, creds'} /\ (pc' # "down" => identity' = creds')
  <2> USE DEF IdentityInv, diskVars, memVars
  <2>1. CASE AgentStep
    BY <2>1 DEF AgentStep, BeginEnroll,
       EndEnroll, SendHeartbeat, EndHeartbeat, BeginPoll, PushResult, FlushDone,
       EndPush, MarkAcked, AfterFlush, NoWork, ReceiveJob, DedupeJob, TakeJob,
       MarkExecuting, RunJob, MarkExecuted, QueueResult, Revoked
  <2> QED
    BY <2>1 DEF Next, StartAgent, Handle, CrashAgent, FailCall, StoreStep, vars
<1> QED
  BY <1>2, <1>3 DEF IdentityInv

\* GoneInv is inductive, given the invariants above, when no id is repeated.
LEMMA GoneStep ==
    ASSUME ~RepeatIds, TypeOK, TypeOK', DoneInv, CallInv, KnownInv,
           IdentityInv, GoneInv, [Next]_vars
    PROVE  GoneInv'
<1>1. \A j \in Jobs : cursor[j] \in Nat
  BY DEF TypeOK
<1>2. ASSUME NEW j \in Jobs, cursor[j] >= Executed
      PROVE  \A a \in Agents : j \notin JobsOf(a) => j \notin JobsOf(a)'
  <2>1. j \in submitted
    BY <1>1, <1>2 DEF KnownInv
  <2> QED
    BY <2>1, NeverRequeued
<1>3. pc \in {"push", "acking"} => item \in Jobs /\ cursor[item] >= Executed
  BY DEF DoneInv, Vouched
\* A step that acknowledges nothing anew and changes no identity.
<1>4. ASSUME \A j \in Jobs : cursor'[j] = Acked => cursor[j] = Acked,
             \/ creds' = creds
             \/ creds'.agent = NoAgent
             \/ pc = "enroll" /\ reply.status = "ok" /\ creds' = reply.id,
             pc' # "enroll" \/ reply'.status # "ok"
                \/ (pc = "enroll" /\ UNCHANGED reply),
             pc' = "acking" \/ (pc' = "push" /\ reply'.status = "ok") =>
                /\ pc = "acking" \/ (pc = "push" /\ reply.status = "ok")
                /\ UNCHANGED <<identity, item>>
      PROVE  GoneInv'
  <2>1. NoAgent \notin Agents
    BY AgentAssumption
  <2> QED
    BY <1>1, <1>2, <1>3, <1>4, <2>1 DEF GoneInv
<1>5. CASE AgentStep
  <2> USE DEF diskVars, memVars, netVars
  <2>1. ASSUME NEW k, NEW stage \in {Pulled, Executing, Executed}, Advance(k, stage)
        PROVE  \A j \in Jobs : cursor'[j] = Acked => cursor[j] = Acked
    BY <1>1, <2>1 DEF Advance, Later, TypeOK
  <2>2. CASE EndEnroll
    BY <1>4, <2>2 DEF EndEnroll, Read
  <2>3. ASSUME Revoked
        PROVE  GoneInv'
    BY <1>4, <2>3 DEF Revoked, NoIdentity
  <2>4. CASE EndPush
    BY <1>4, <2>3, <2>4 DEF EndPush, Read
  <2>5. CASE MarkAcked
    <3>1. \A j \in Jobs : cursor'[j] = Acked => cursor[j] = Acked \/ j = item
      BY <1>1, <1>3, <2>5 DEF MarkAcked, Advance, Later, TypeOK
    <3>2. identity = creds /\ UNCHANGED <<creds, reply>> /\ pc = "acking" /\ pc' = "flush"
      BY <2>5 DEF MarkAcked, IdentityInv
    <3> QED
      BY <1>2, <1>3, <3>1, <3>2 DEF GoneInv
  <2>6. CASE ReceiveJob
    <3>1. CASE DedupeJob
      BY <1>4, <2>6, <3>1 DEF ReceiveJob, DedupeJob
    <3>2. CASE TakeJob
      BY <1>4, <2>1, <2>6, <3>2 DEF ReceiveJob, TakeJob
    <3> QED
      BY <2>6, <3>1, <3>2 DEF ReceiveJob
  <2>7. CASE MarkExecuting
    BY <1>4, <2>1, <2>7 DEF MarkExecuting
  <2>8. CASE MarkExecuted
    BY <1>4, <2>1, <2>8 DEF MarkExecuted
  <2>9. CASE \/ BeginEnroll \/ SendHeartbeat \/ PushResult \/ AfterFlush
    <3>1. UNCHANGED <<creds, cursor>> /\ pc' # "acking"
      BY <2>9 DEF BeginEnroll, SendHeartbeat, PushResult, AfterFlush
    <3>2. pc' \in {"enroll", "push"} => reply'.status = "none"
      BY <2>9 DEF BeginEnroll, SendHeartbeat, PushResult, AfterFlush, Send, NoReply
    <3> QED
      BY <1>4, <3>1, <3>2
  <2>10. CASE EndHeartbeat \/ BeginPoll \/ FlushDone \/ NoWork \/ RunJob \/ QueueResult
    BY <1>4, <2>3, <2>10 DEF EndHeartbeat, BeginPoll, FlushDone, NoWork, RunJob, QueueResult
  <2> QED
    BY <1>5, <2>2, <2>4, <2>5, <2>6, <2>7, <2>8, <2>9, <2>10 DEF AgentStep
<1>6. ASSUME NEW r \in requests, Handle(r)
      PROVE  GoneInv'
  <2>1. UNCHANGED <<cursor, creds, pc, identity, item>>
    BY <1>6, HandleCases DEF diskVars, memVars
  <2>2. CASE reply' = reply
    BY <1>4, <2>1, <2>2
  <2>3. CASE reply' # reply
    <3>1. CASE Enrolled(r)
      <4>1. PICK a \in Agents :
              /\ EnrollAs(r.token, a)
              /\ Respond(r, "ok", [agent |-> a, cred |-> registry[a].cred], NoJob)
        BY <3>1 DEF Enrolled
      <4>2. JobsOf(a) = {} /\ UNCHANGED queue
        BY <4>1 DEF EnrollAs, IdentityInv
      <4>3. reply'.id.agent = a /\ r.live
        BY <2>3, <4>1 DEF Respond
      <4>4. pc = "enroll"
        BY <3>1, <4>3 DEF CallInv, Enrolled
      <4>5. \A b \in Agents : JobsOf(b)' = JobsOf(b)
        BY <4>2 DEF JobsOf
      <4> QED
        BY <2>1, <4>2, <4>3, <4>4, <4>5 DEF GoneInv
    <3>2. CASE Acknowledged(r)
      <4>1. r.live
        BY <2>3, <3>2 DEF Acknowledged, Respond
      <4>2. pc = "push" /\ r.job = item /\ r.id = identity /\ r.id.agent \in Agents
        BY <3>2, <4>1 DEF CallInv, Acknowledged
      <4>3. item \notin JobsOf(r.id.agent)'
        <5>1. r.job \in Jobs /\ Ack(r.id.agent, r.job, r.result)
          BY <1>3, <3>2, <4>2 DEF Acknowledged
        <5>2. JobsOf(r.id.agent)' = JobsOf(r.id.agent) \ {r.job}
          BY <4>2, <5>1, AckDropsJob
        <5> QED
          BY <4>2, <5>2
      <4>4. \A a \in Agents : a = identity'.agent => item' \notin JobsOf(a)'
        BY <2>1, <4>2, <4>3
      <4> QED
        BY <1>1, <1>2, <2>1, <4>2, <4>4 DEF GoneInv
    <3>3. CASE Told(r) \/ Handed(r)
      <4>1. r.live
        BY <2>3, <3>3 DEF Told, Handed, Respond
      <4>2. reply'.status = "ok" => pc \in {"heartbeat", "poll"}
        BY <3>3, <4>1 DEF CallInv, Told, Handed, Respond
      <4>3. pc \notin {"enroll", "push", "acking"} \/ reply'.status # "ok"
        BY <4>2
      <4>4. pc # "acking"
        BY <4>1 DEF CallInv
      <4> QED
        BY <1>4, <2>1, <4>3, <4>4
    <3> QED
      BY <1>6, <2>3, <3>1, <3>2, <3>3, HandleCases DEF Kept
  <2> QED
    BY <2>2, <2>3
<1>7. CASE CrashAgent
  BY <1>4, <1>7 DEF CrashAgent, diskVars
<1>8. CASE FailCall
  BY <1>4, <1>8 DEF FailCall, diskVars, memVars, LostReply
<1>9. CASE \/ \E t \in Tokens \cup {NoToken} : StartAgent(t)
           \/ StoreStep \/ UNCHANGED vars
  BY <1>4, <1>9 DEF StartAgent, StoreStep, vars, diskVars, memVars, netVars
<1> QED
  BY <1>5, <1>6, <1>7, <1>8, <1>9 DEF Next

\* A job the agent calls acknowledged is not in the queue the agent pulls
\* from (hosted.py: the cursor moves to "acked" only on a 200; store.py: ack),
\* when the operator does not repeat an id.
THEOREM AckedStaysOut ==
    ASSUME ~RepeatIds
    PROVE  Spec => []AckedHereIsAckedThere
<1>1. Init => IdentityInv /\ GoneInv
  BY DEF Init, StoreInit, IdentityInv, GoneInv, JobsOf
<1>2. TypeOK /\ IdentityInv /\ [Next]_vars => IdentityInv'
  BY IdentityStep
<1>3. TypeOK /\ TypeOK' /\ DoneInv /\ CallInv /\ KnownInv /\ IdentityInv /\ GoneInv
        /\ [Next]_vars => GoneInv'
  BY GoneStep
<1>4. IdentityInv /\ GoneInv => AckedHereIsAckedThere
  <2>1. NoIdentity.agent \notin Agents
    BY AgentAssumption DEF NoIdentity
  <2> QED
    BY <2>1 DEF IdentityInv, GoneInv, AckedHereIsAckedThere
<1> QED
  BY <1>1, <1>2, <1>3, <1>4, TypeCorrect, DoneCorrect, CallCorrect, KnownCorrect,
     PTL DEF Spec

----------------------------------------------------------------------------
(***************************************************************************)
(* A report is the same wherever it is: in the queue file, in a request,   *)
(* however old, and at the control plane.  One agent is assumed, for with  *)
(* two a report may be acknowledged in a queue the job is not in, and no   *)
(* id is repeated.                                                         *)
(***************************************************************************)

LoneAgent == \A a \in Agents : \A b \in Agents : a = b

Settled(j, res) == ~Queued(j) /\ results[j] = res

\* Nobody has said anything of the job yet.
Unanswered(j) ==
    /\ Queued(j)
    /\ outbox[j] = NoResult
    /\ \A r \in requests : r.op = "results" => r.job # j

SentInv ==
    \A r \in requests : r.op = "results" =>
        /\ r.result \in Results
        /\ \/ outbox[r.job] = r.result
           \/ outbox[r.job] = NoResult /\ Settled(r.job, r.result)

KeptInv ==
    \A j \in submitted : outbox[j] # NoResult => Queued(j) \/ results[j] = outbox[j]

HandInv ==
    /\ pc = "executed" => Unanswered(job)
    /\ pc = "poll" /\ reply.status = "ok" =>
          outbox[reply.job] # NoResult \/ Unanswered(reply.job)

PushInv ==
    /\ pc = "push" => outbox[item] # NoResult
    /\ pc = "push" /\ reply.status = "ok" => Settled(item, outbox[item])

ReportInv == SentInv /\ KeptInv /\ HandInv /\ PushInv

\* What is queued, recorded or on its way concerns submitted jobs.
LEMMA OnlySubmitted ==
    ASSUME TypeOK, DoneInv, KnownInv
    PROVE  /\ \A j \in Jobs : outbox[j] # NoResult => j \in submitted
           /\ \A r \in requests : r.op = "results" => r.job \in submitted /\ r.job \in Jobs
           /\ pc \in {"push", "acking"} => item \in submitted
           /\ submitted \subseteq Jobs
<1>1. \A j \in Jobs : cursor[j] \in Nat
  BY DEF TypeOK
<1> QED
  BY <1>1 DEF TypeOK, StoreTypeOK, DoneInv, Vouched, KnownInv

\* Steps that are no acknowledgement leave results and, of the jobs already
\* submitted, the queues alone.
LEMMA QueuesCalm ==
    ASSUME TypeOK, ~RepeatIds,
           \/ JobsStay /\ UNCHANGED <<submitted, results>>
           \/ \E a \in Agents : \E j \in Jobs : Submitting(a, j)
    PROVE  /\ UNCHANGED results
           /\ \A j \in submitted : Queued(j)' <=> Queued(j)
<1>1. \A j : Queued(j)' <=> \E a \in Agents : j \in JobsOf(a)'
  BY DEF Queued, JobsOf
<1>2. CASE JobsStay /\ UNCHANGED results
  BY <1>1, <1>2, QueuedSomewhere DEF JobsStay
<1>3. ASSUME NEW a \in Agents, NEW k \in Jobs, Submitting(a, k)
      PROVE  /\ UNCHANGED results
             /\ \A j \in submitted : Queued(j)' <=> Queued(j)
  <2>1. k \notin submitted /\ UNCHANGED results
    BY <1>3 DEF Submitting, Enqueue
  <2>2. \A j \in submitted : \A b \in Agents : j \in JobsOf(b)' <=> j \in JobsOf(b)
    BY <1>3, <2>1 DEF Submitting
  <2> QED
    BY <1>1, <2>1, <2>2, QueuedSomewhere
<1> QED
  BY <1>2, <1>3

\* An acknowledgement settles its job and leaves the others alone.
LEMMA AckSettles ==
    ASSUME TypeOK, LoneAgent, DoneInv, NEW r \in requests, Acknowledged(r)
    PROVE  /\ Settled(r.job, r.result)'
           /\ \A j \in Jobs : j # r.job =>
                 (Queued(j)' <=> Queued(j)) /\ results'[j] = results[j]
           /\ UNCHANGED submitted
<1>1. r.job \in Jobs /\ r.id.agent \in Agents /\ Ack(r.id.agent, r.job, r.result)
  BY DEF Acknowledged, DoneInv, Vouched
<1>2. /\ JobsOf(r.id.agent)' = JobsOf(r.id.agent) \ {r.job}
      /\ results'[r.job] = r.result
      /\ \A k \in Jobs : k # r.job => results'[k] = results[k]
      /\ UNCHANGED submitted
  BY <1>1, AckDropsJob
<1>3. \A a \in Agents : JobsOf(a)' = JobsOf(a) \ {r.job}
  BY <1>1, <1>2 DEF LoneAgent
<1>4. \A j : Queued(j)' <=> \E a \in Agents : j \in JobsOf(a)'
  BY DEF Queued, JobsOf
<1> QED
  BY <1>2, <1>3, <1>4, QueuedSomewhere DEF Settled

\* Steps that say nothing new of any job.
LEMMA SayNothing ==
    ASSUME TypeOK, DoneInv, KnownInv, ReportInv,
           UNCHANGED <<results, outbox>>,
           \A j \in submitted : Queued(j)' <=> Queued(j),
           \A r \in requests' : r.op = "results" =>
              \E q \in requests : q.op = "results" /\ q.job = r.job /\ q.result = r.result,
           pc' = "executed" => pc = "executed" /\ job' = job,
           pc' = "poll" /\ reply'.status = "ok" => pc = "poll" /\ reply' = reply,
           pc' = "push" => pc = "push" /\ item' = item,
           pc' = "push" /\ reply'.status = "ok" => reply.status = "ok",
           submitted' \subseteq Jobs
    PROVE  ReportInv'
<1>1. SentInv'
  <2> SUFFICES ASSUME NEW r \in requests', r.op = "results"
               PROVE  /\ r.result \in Results
                      /\ \/ outbox'[r.job] = r.result
                         \/ outbox'[r.job] = NoResult /\ Settled(r.job, r.result)'
    BY DEF SentInv
  <2>1. PICK q \in requests : q.op = "results" /\ q.job = r.job /\ q.result = r.result
    OBVIOUS
  <2> QED
    BY <2>1, OnlySubmitted DEF ReportInv, SentInv, Settled
<1>2. KeptInv'
  BY OnlySubmitted DEF ReportInv, KeptInv
<1>3. \A j \in submitted : Unanswered(j) => Unanswered(j)'
  BY DEF Unanswered
<1>4. HandInv'
  <2>1. pc' = "executed" => Unanswered(job)'
    BY <1>3 DEF ReportInv, HandInv, KnownInv, Working, Unanswered
  <2>2. pc' = "poll" /\ reply'.status = "ok" => 
          outbox'[reply'.job] # NoResult \/ Unanswered(reply.job)'
    BY <1>3 DEF ReportInv, HandInv, KnownInv, Unanswered
  <2> QED
    BY <2>1, <2>2 DEF HandInv
<1>5. PushInv'
  BY OnlySubmitted DEF ReportInv, PushInv, Settled
<1> QED
  BY <1>1, <1>2, <1>4, <1>5 DEF ReportInv

\* The control plane's handlers keep the reports consistent.
LEMMA HandleReports ==
    ASSUME ~RepeatIds, LoneAgent, TypeOK, TypeOK', DoneInv, CallInv, KnownInv,
           ReportInv, NEW r \in requests, Handle(r), [Next]_vars
    PROVE  ReportInv'
<1>1. UNCHANGED <<outbox, pc, job, item>>
  BY HandleCases DEF diskVars, memVars
<1>2. submitted' \subseteq Jobs
  BY DEF TypeOK, StoreTypeOK
<1>3. NoResult \notin Results
  BY StoreAssumption
<1>4. CASE Acknowledged(r)
  <2>1. /\ r.job \in Jobs /\ r.job \in submitted /\ r.op = "results"
        /\ requests' = requests \ {r}
        /\ reply' = reply \/ (r.live /\ reply'.status = "ok")
    BY <1>4, OnlySubmitted DEF Acknowledged, Respond
  <2>2. /\ Settled(r.job, r.result)'
        /\ \A j \in Jobs : j # r.job =>
              (Queued(j)' <=> Queued(j)) /\ results'[j] = results[j]
        /\ UNCHANGED submitted
    BY <1>4, AckSettles
  <2>3. r.result \in Results /\ outbox[r.job] \in {r.result, NoResult}
        /\ (outbox[r.job] = NoResult => Settled(r.job, r.result))
    BY <1>3, <2>1 DEF ReportInv, SentInv
  <2>4. SentInv'
    <3> SUFFICES ASSUME NEW s \in requests', s.op = "results"
                 PROVE  /\ s.result \in Results
                        /\ \/ outbox'[s.job] = s.result
                           \/ outbox'[s.job] = NoResult /\ Settled(s.job, s.result)'
      BY DEF SentInv
    <3>1. s \in requests /\ s.job \in Jobs /\ s.result \in Results
          /\ \/ outbox[s.job] = s.result
             \/ outbox[s.job] = NoResult /\ Settled(s.job, s.result)
      BY <2>1, OnlySubmitted DEF ReportInv, SentInv
    <3>2. CASE s.job # r.job
      BY <1>1, <2>2, <3>1, <3>2 DEF Settled
    <3>3. CASE s.job = r.job
      BY <1>1, <1>3, <2>2, <2>3, <3>1, <3>3 DEF Settled
    <3> QED
      BY <3>2, <3>3
  <2>5. KeptInv'
    <3> SUFFICES ASSUME NEW j \in submitted, outbox[j] # NoResult
                 PROVE  Queued(j)' \/ results'[j] = outbox[j]
      BY <1>1, <2>2 DEF KeptInv
    <3>1. CASE j # r.job
      BY <2>2, <3>1, OnlySubmitted DEF ReportInv, KeptInv
    <3>2. CASE j = r.job
      BY <2>2, <2>3, <3>2 DEF Settled
    <3> QED
      BY <3>1, <3>2
  <2>6. ASSUME NEW j \in Jobs, Unanswered(j)
        PROVE  Unanswered(j)'
    <3>1. j # r.job
      BY <2>1, <2>6 DEF Unanswered
    <3> QED
      BY <1>1, <2>1, <2>2, <2>6, <3>1 DEF Unanswered
  <2>7. r.live => pc = "push" /\ r.job = item
    BY <2>1 DEF CallInv
  <2>8. HandInv'
    <3>1. pc' = "executed" => Unanswered(job)'
      BY <1>1, <2>6, OnlySubmitted DEF ReportInv, HandInv, KnownInv, Working
    <3>2. pc' = "poll" /\ reply'.status = "ok" =>
            outbox'[reply'.job] # NoResult \/ Unanswered(reply.job)'
      BY <1>1, <2>1, <2>6, <2>7, OnlySubmitted DEF ReportInv, HandInv, KnownInv
    <3>3. pc' = "poll" => reply' = reply
      BY <1>1, <2>1, <2>7
    <3> QED
      BY <3>1, <3>2, <3>3 DEF HandInv
  <2>9. PushInv'
    <3>1. pc = "push" => outbox[item] # NoResult /\ item \in Jobs
      BY OnlySubmitted DEF ReportInv, PushInv
    <3>2. pc = "push" /\ item = r.job => Settled(item, outbox[item])'
      BY <1>1, <2>2, <2>3, <3>1 DEF Settled
    <3>3. pc = "push" /\ item # r.job /\ reply'.status = "ok" => Settled(item, outbox[item])'
      <4>1. pc = "push" /\ item # r.job => reply' = reply
        BY <2>1, <2>7
      <4> QED
        BY <1>1, <2>2, <3>1, <4>1 DEF ReportInv, PushInv, Settled
    <3> QED
      BY <1>1, <3>1, <3>2, <3>3 DEF PushInv
  <2> QED
    BY <2>4, <2>5, <2>8, <2>9 DEF ReportInv
<1>5. CASE ~Acknowledged(r)
  <2>1. \/ JobsStay /\ UNCHANGED <<submitted, results>>
        \/ \E a \in Agents : \E j \in Jobs : Submitting(a, j)
    <3>1. CASE Enrolled(r) \/ Told(r) \/ Kept(r)
      <4>1. Enrolled(r) => UNCHANGED <<queue, submitted, results>>
        BY DEF Enrolled, EnrollAs
      <4>2. Told(r) \/ Kept(r) => UNCHANGED <<queue, submitted, results>>
        BY DEF Told, Kept, storeVars
      <4>3. JobsStay
        BY <3>1, <4>1, <4>2 DEF JobsStay, JobsOf
      <4> QED
        BY <3>1, <4>1, <4>2, <4>3
    <3>2. CASE Handed(r)
      BY <3>2, LeaseKeepsJobs DEF Handed
    <3> QED
      BY <1>5, <3>1, <3>2, HandleCases
  <2>2. UNCHANGED results /\ \A j \in submitted : Queued(j)' <=> Queued(j)
    BY <2>1, QueuesCalm
  <2>3. \A s \in requests' : s.op = "results" => s \in requests
    <3>1. CASE Kept(r)
      <4>1. [r EXCEPT !.parked = TRUE].op = r.op
        BY DEF TypeOK, Request, RequestRecord
      <4> QED
        BY <3>1, <4>1 DEF Kept
    <3> QED
      BY <1>5, <3>1, HandleCases DEF Enrolled, Told, Handed, Respond
  <2>4. CASE reply' = reply
    BY <1>1, <1>2, <2>2, <2>3, <2>4, SayNothing
  <2>5. CASE reply' # reply /\ (reply'.status # "ok" \/ pc \notin {"poll", "push"})
    BY <1>1, <1>2, <2>2, <2>3, <2>5, SayNothing
  <2>6. CASE reply' # reply /\ reply'.status = "ok" /\ pc \in {"poll", "push"}
    <3>1. Handed(r) /\ pc = "poll" /\ r.live
      BY <1>5, <2>6, HandleCases DEF Enrolled, Told, Handed, Kept, Respond, CallInv
    <3>2. PICK e \in Deliverable(r.id.agent) :
             Lease(r.id.agent, e) /\ Respond(r, "ok", r.id, e.job)
      BY <3>1 DEF Handed
    <3>3. e.job \in JobsOf(r.id.agent) /\ r.id.agent \in Agents /\ e.job \in Jobs
          /\ reply'.job = e.job
      BY <3>1, <3>2, LeaseKeepsJobs, LeaseType DEF Handed, Respond
    <3>4. Queued(e.job) /\ e.job \in submitted
      BY <3>3, QueuedSomewhere DEF KnownInv
    <3>5. outbox[e.job] = NoResult => Unanswered(e.job)'
      BY <1>1, <1>3, <2>2, <2>3, <3>3, <3>4 DEF ReportInv, SentInv, Settled, Unanswered
    <3>6. SentInv' /\ KeptInv'
      <4>1. SentInv'
        BY <1>1, <2>2, <2>3, OnlySubmitted DEF ReportInv, SentInv, Settled
      <4>2. submitted' = submitted
        BY <3>2 DEF Lease
      <4> QED
        BY <1>1, <2>2, <4>1, <4>2 DEF ReportInv, KeptInv
    <3>7. HandInv' /\ PushInv'
      BY <1>1, <3>1, <3>3, <3>5 DEF HandInv, PushInv
    <3> QED
      BY <3>6, <3>7 DEF ReportInv
  <2> QED
    BY <2>4, <2>5, <2>6
<1> QED
  BY <1>4, <1>5

\* A job whose engine run has just ended is queued, and nobody has said
\* anything of it.
LEMMA UntouchedWhileRunning ==
    ASSUME TypeOK, DoneInv, KnownInv, RunInv, pc \in {"pulled", "executing", "running"}
    PROVE  job \in submitted /\ cursor[job] < Executed /\ Unanswered(job)
<1>1. job \in Jobs /\ job \in submitted /\ cursor[job] \in Nat /\ cursor[job] < Executed
  BY DEF TypeOK, DoneInv, Vouched, KnownInv, RunInv, Working
<1> QED
  BY <1>1 DEF DoneInv, Vouched, Unanswered

\* ReportInv is inductive, given the invariants above.
LEMMA ReportStep ==
    ASSUME ~RepeatIds, LoneAgent, TypeOK, TypeOK', DoneInv, DoneInv', CallInv, KnownInv,
           RunInv, ReportInv, [Next]_vars
    PROVE  ReportInv'
<1>1. submitted' \subseteq Jobs /\ NoResult \notin Results
  BY StoreAssumption DEF TypeOK, StoreTypeOK
<1>2. CASE AgentStep
  <2>1. UNCHANGED <<queue, submitted, results>>
    BY <1>2 DEF AgentStep, AgentUnchanged, storeVars, BeginEnroll,
       EndEnroll, SendHeartbeat, EndHeartbeat, BeginPoll, PushResult, FlushDone,
       EndPush, MarkAcked, AfterFlush, NoWork, ReceiveJob, MarkExecuting, RunJob,
       MarkExecuted, QueueResult, Revoked
  <2>2. \A j : Queued(j)' <=> Queued(j)
    BY <2>1 DEF Queued
  <2> USE DEF diskVars, memVars, netVars
  <2>3. CASE PushResult
    <3>1. PICK j \in Jobs : /\ outbox[j] # NoResult
                            /\ item' = j
                            /\ Send("results", identity, NoToken, j, outbox[j])
      BY <2>3 DEF PushResult
    <3> DEFINE n == [op |-> "results", id |-> identity, token |-> NoToken, job |-> j,
                     result |-> outbox[j], live |-> TRUE, parked |-> FALSE]
    <3>2. n.op = "results" /\ n.job = j /\ n.result = outbox[j]
      OBVIOUS
    <3>3. requests' = requests \cup {n} /\ reply'.status = "none"
      BY <3>1 DEF Send, NoReply
    <3> HIDE DEF n
    <3>4. UNCHANGED outbox /\ pc' = "push" /\ outbox[j] \in Results
      BY <2>3, <3>1 DEF PushResult, TypeOK
    <3>5. SentInv'
      BY <2>1, <2>2, <3>2, <3>3, <3>4 DEF ReportInv, SentInv, Settled
    <3>6. KeptInv' /\ HandInv' /\ PushInv'
      BY <2>1, <2>2, <3>1, <3>3, <3>4 DEF ReportInv, KeptInv, HandInv, PushInv
    <3> QED
      BY <3>5, <3>6 DEF ReportInv
  <2>4. CASE EndPush /\ pc' = "acking"
    <3>1. /\ outbox' = [outbox EXCEPT ![item] = NoResult]
          /\ pc = "push" /\ reply.status = "ok" /\ UNCHANGED requests
      BY <2>4 DEF EndPush, Revoked, Read
    <3>2. item \in Jobs /\ item \in submitted
      BY <3>1, OnlySubmitted
    <3>3. outbox[item] # NoResult /\ Settled(item, outbox[item])
      BY <3>1 DEF ReportInv, PushInv
    <3>4. outbox'[item] = NoResult /\ \A j \in Jobs : j # item => outbox'[j] = outbox[j]
      BY <3>1, <3>2 DEF TypeOK
    <3>5. SentInv'
      BY <2>1, <2>2, <3>1, <3>3, <3>4, OnlySubmitted DEF ReportInv, SentInv, Settled
    <3>6. KeptInv'
      BY <1>1, <2>1, <2>2, <3>4 DEF ReportInv, KeptInv
    <3> QED
      BY <2>4, <3>5, <3>6 DEF ReportInv, HandInv, PushInv
  <2>5. CASE ReceiveJob
    <3>1. /\ reply.job \in Jobs /\ pc = "poll" /\ reply.status = "ok"
          /\ UNCHANGED requests /\ job' = reply.job
          /\ pc' \in {"flush", "pulled"}
      BY <2>5 DEF ReceiveJob, DedupeJob, TakeJob, Read
    <3>2. CASE UNCHANGED outbox
      BY <1>1, <2>1, <2>2, <3>1, <3>2, SayNothing
    <3>3. CASE outbox' # outbox
      <4>1. /\ outbox[reply.job] = NoResult
            /\ outbox' = [outbox EXCEPT ![reply.job] = "already_done"]
        BY <2>5, <3>3 DEF ReceiveJob, DedupeJob, TakeJob
      <4>2. Unanswered(reply.job)
        BY <3>1, <4>1 DEF ReportInv, HandInv
      <4>3. \A j \in Jobs : j # reply.job => outbox'[j] = outbox[j]
        BY <4>1
      <4>4. SentInv'
        BY <2>1, <2>2, <3>1, <4>2, <4>3, OnlySubmitted
           DEF ReportInv, SentInv, Settled, Unanswered
      <4>5. KeptInv'
        BY <1>1, <2>1, <2>2, <4>2, <4>3 DEF ReportInv, KeptInv, Unanswered
      <4> QED
        BY <3>1, <4>4, <4>5 DEF ReportInv, HandInv, PushInv
    <3> QED
      BY <3>2, <3>3
  <2>6. CASE QueueResult
    <3>1. /\ pc = "executed" /\ pc' = "flush" /\ UNCHANGED requests
          /\ outbox' = [outbox EXCEPT ![job] = "completed"]
      BY <2>6 DEF QueueResult
    <3>2. Unanswered(job)
      BY <3>1 DEF ReportInv, HandInv
    <3>3. \A j \in Jobs : j # job => outbox'[j] = outbox[j]
      BY <3>1 DEF TypeOK
    <3>4. SentInv'
      BY <2>1, <2>2, <3>1, <3>2, <3>3, OnlySubmitted
         DEF ReportInv, SentInv, Settled, Unanswered
    <3>5. KeptInv'
      BY <1>1, <2>1, <2>2, <3>2, <3>3 DEF ReportInv, KeptInv, Unanswered
    <3> QED
      BY <3>1, <3>4, <3>5 DEF ReportInv, HandInv, PushInv
  <2>7. CASE MarkExecuted
    <3>1. /\ pc = "running" /\ pc' = "executed"
          /\ UNCHANGED <<job, outbox, requests>>
      BY <2>7 DEF MarkExecuted
    <3>2. Unanswered(job)
      BY <3>1, UntouchedWhileRunning
    <3>3. Unanswered(job)'
      BY <2>2, <3>1, <3>2 DEF Unanswered
    <3>4. SentInv' /\ KeptInv'
      BY <2>1, <2>2, <3>1 DEF ReportInv, SentInv, KeptInv, Settled
    <3> QED
      BY <3>1, <3>3, <3>4 DEF ReportInv, HandInv, PushInv
  <2>8. CASE \/ BeginEnroll \/ EndEnroll \/ SendHeartbeat \/ EndHeartbeat
             \/ BeginPoll \/ FlushDone \/ (EndPush /\ pc' # "acking") \/ MarkAcked
             \/ AfterFlush \/ NoWork \/ MarkExecuting \/ RunJob
    <3>1. UNCHANGED outbox /\ pc' \notin {"executed", "push"}
      BY <2>8 DEF BeginEnroll, EndEnroll, SendHeartbeat, EndHeartbeat,
         BeginPoll, FlushDone, EndPush, MarkAcked, AfterFlush, NoWork,
         MarkExecuting, RunJob, Revoked
    <3>2. /\ pc' = "poll" => reply'.status = "none"
          /\ \A r \in requests' : r.op = "results" => r \in requests
      BY <2>8 DEF BeginEnroll, EndEnroll, SendHeartbeat, EndHeartbeat,
         BeginPoll, FlushDone, EndPush, MarkAcked, AfterFlush, NoWork,
         MarkExecuting, RunJob, Revoked, Send, Read, NoReply
    <3> QED
      BY <1>1, <2>1, <2>2, <3>1, <3>2, SayNothing
  <2> QED
    BY <1>2, <2>3, <2>4, <2>5, <2>6, <2>7, <2>8 DEF AgentStep
<1>3. ASSUME NEW r \in requests, Handle(r)
      PROVE  ReportInv'
  BY <1>3, HandleReports
<1>4. CASE StoreStep
  <2>1. UNCHANGED <<diskVars, pc, memVars, netVars, envVars, histVars>>
    BY <1>4 DEF StoreStep
  <2>2. UNCHANGED results /\ \A j \in submitted : Queued(j)' <=> Queued(j)
    <3>1. ASSUME NEW a \in Agents, NEW j \in Jobs, Enqueue(a, j)
          PROVE  Submitting(a, j)
      BY <2>1, <3>1, EnqueueAddsJob DEF Submitting
    <3>2. ASSUME NEW a \in Agents, NEW e \in queue[a], VisibilityElapses(a, e)
          PROVE  JobsStay /\ UNCHANGED <<submitted, results>>
      BY <3>2, ElapseKeepsJobs DEF VisibilityElapses
    <3>3. UNCHANGED <<queue, submitted, results>> => JobsStay
      BY DEF JobsStay, JobsOf
    <3> QED
      BY <1>4, <3>1, <3>2, <3>3, QueuesCalm
         DEF StoreStep, MintToken, RevokeAgent, RotateCredential
  <2> QED
    BY <1>1, <2>1, <2>2, SayNothing DEF diskVars, memVars, netVars
<1>5. CASE \/ \E t \in Tokens \cup {NoToken} : StartAgent(t)
           \/ CrashAgent \/ FailCall \/ UNCHANGED vars
  <2>1. UNCHANGED <<queue, submitted, results, outbox>>
    BY <1>5 DEF StartAgent, AgentUnchanged, CrashAgent, FailCall, vars, storeVars, diskVars
  <2>2. \A j \in submitted : Queued(j)' <=> Queued(j)
    BY <2>1 DEF Queued
  <2>3. \A q \in Abandoned : \E r \in requests :
          q.op = r.op /\ q.job = r.job /\ q.result = r.result
    BY AbandonedCalls
  <2>4. \A q \in requests' : \E r \in requests :
          q.op = r.op /\ q.job = r.job /\ q.result = r.result
    BY <1>5, <2>3 DEF StartAgent, CrashAgent, FailCall, vars, netVars
  <2>5. /\ pc' \in {"down", "loop"} \/ UNCHANGED <<pc, memVars>>
        /\ pc' \in {"down", "loop"} \/ reply' = reply \/ reply'.status = "error"
    BY <1>5 DEF StartAgent, CrashAgent, FailCall, vars, netVars, LostReply, NoReply
  <2> QED
    BY <1>1, <2>1, <2>2, <2>4, <2>5, SayNothing DEF memVars
<1> QED
  BY <1>2, <1>3, <1>4, <1>5 DEF Next

\* Under the assumptions on ids and agents, ReportInv holds in every state.
LEMMA ReportCorrect ==
    ASSUME ~RepeatIds, LoneAgent
    PROVE  Spec => []ReportInv
<1>1. Init => ReportInv
  BY DEF Init, StoreInit, ReportInv, SentInv, KeptInv, HandInv, PushInv
<1>2. TypeOK /\ TypeOK' /\ DoneInv /\ DoneInv' /\ CallInv /\ KnownInv /\ RunInv /\ ReportInv
        /\ [Next]_vars => ReportInv'
  BY ReportStep
<1> QED
  BY <1>1, <1>2, TypeCorrect, DoneCorrect, CallCorrect, KnownCorrect, RunCorrect,
     PTL DEF Spec

----------------------------------------------------------------------------
(***************************************************************************)
(* The agent and the control plane together implement JobDelivery.         *)
(***************************************************************************)

\* How far a job is, without the engine runs behind it.
Stage(j) ==
    IF j \notin submitted THEN "new"
    ELSE IF ~Queued(j) THEN "reported"
    ELSE IF cursor[j] >= Executed THEN "done" ELSE "pending"

\* That is the phase the promises speak of.
LEMMA PhaseIsStage ==
    TypeOK /\ DoneInv /\ RunInv => \A j \in Jobs : Phase(j) = Stage(j)
<1> SUFFICES ASSUME TypeOK, DoneInv, RunInv, NEW j \in Jobs
             PROVE  CarriedOut(j) <=> cursor[j] >= Executed
  BY OutstandingQueued DEF Phase, Stage
<1>1. /\ runs[j] \in Nat /\ wasted[j] \in Nat /\ cursor[j] \in Nat
      /\ runs[j] = wasted[j] + (IF InFlight(j) THEN 1 ELSE 0)
  BY DEF TypeOK, RunInv
<1>2. pc = "running" /\ job = j => ~(cursor[j] >= Executed)
  BY <1>1 DEF RunInv
<1> QED
  BY <1>1, <1>2 DEF CarriedOut, InFlight

LEMMA PhaseIsStageNext ==
    (TypeOK /\ DoneInv /\ RunInv)' => (\A j \in Jobs : Phase(j) = Stage(j))'
BY PhaseIsStage, PTL

\* Only the end of an engine run records a job as executed.
LEMMA ExecutedOnce ==
    ASSUME TypeOK, DoneInv, RunInv, [Next]_vars
    PROVE  MarkExecuted \/ \A j \in Jobs : cursor'[j] >= Executed <=> cursor[j] >= Executed
<1>1. \A j \in Jobs : cursor[j] \in Nat
  BY DEF TypeOK
<1>2. CASE UNCHANGED cursor
  BY <1>2
<1>3. CASE AgentStep
  <2> USE DEF diskVars
  <2>1. CASE MarkAcked
    <3>1. item \in Jobs /\ cursor[item] >= Executed
      BY <2>1 DEF MarkAcked, DoneInv, Vouched
    <3> QED
      BY <1>1, <2>1, <3>1 DEF MarkAcked, Advance, Later, TypeOK
  <2>2. CASE ReceiveJob
    BY <1>1, <1>2, <2>2 DEF ReceiveJob, DedupeJob, TakeJob, Advance, Later, TypeOK
  <2>3. CASE MarkExecuting
    BY <1>1, <2>3 DEF MarkExecuting, Advance, Later, TypeOK
  <2>4. CASE \/ BeginEnroll \/ EndEnroll \/ SendHeartbeat \/ EndHeartbeat
             \/ BeginPoll \/ PushResult \/ FlushDone \/ EndPush \/ AfterFlush
             \/ NoWork \/ RunJob \/ QueueResult
    BY <1>2, <2>4 DEF BeginEnroll, EndEnroll, SendHeartbeat, EndHeartbeat,
       BeginPoll, PushResult, FlushDone, EndPush, AfterFlush,
       NoWork, RunJob, QueueResult, Revoked
  <2> QED
    BY <1>3, <2>1, <2>2, <2>3, <2>4 DEF AgentStep
<1> QED
  BY <1>2, <1>3 DEF Next, StartAgent, Handle, CrashAgent, FailCall, StoreStep, vars, diskVars

PhaseMap == [j \in Jobs |-> Phase(j)]

\* Every step takes one job one phase further, or none.
LEMMA StepDelivers ==
    ASSUME ~RepeatIds, LoneAgent, TypeOK, TypeOK', DoneInv, DoneInv', KnownInv,
           RunInv, RunInv', ReportInv, [Next]_vars
    PROVE  Delivery!Next \/ UNCHANGED <<PhaseMap, results>>
<1>1. /\ \A j \in Jobs : Phase(j) = Stage(j)
      /\ \A j \in Jobs : Phase(j)' = Stage(j)'
  BY PhaseIsStage, PhaseIsStageNext
<1>2. ASSUME \A j \in Jobs : Stage(j)' = Stage(j), UNCHANGED results
      PROVE  UNCHANGED <<PhaseMap, results>>
  BY <1>1, <1>2 DEF PhaseMap
\* One job has moved on.
<1>3. ASSUME NEW k \in Jobs, NEW p, Stage(k)' = p,
             \A j \in Jobs : j # k => Stage(j)' = Stage(j)
      PROVE  PhaseMap' = [PhaseMap EXCEPT ![k] = p] /\ PhaseMap[k] = Stage(k)
  BY <1>1, <1>3 DEF PhaseMap
<1>4. submitted \subseteq Jobs
  BY DEF TypeOK, StoreTypeOK
<1>5. CASE MarkExecuted
  <2>1. /\ pc = "running" /\ job \in Jobs /\ job \in submitted
        /\ cursor[job] < Executed /\ Queued(job)
    BY <1>4, <1>5, UntouchedWhileRunning DEF MarkExecuted, Unanswered
  <2>2. UNCHANGED <<queue, submitted, results>>
    BY <1>5 DEF MarkExecuted, AgentUnchanged, storeVars
  <2>3. \A j : Queued(j)' <=> Queued(j)
    BY <2>2 DEF Queued
  <2>4. cursor'[job] >= Executed /\ \A j \in Jobs : j # job => cursor'[j] = cursor[j]
    BY <1>5, <2>1 DEF MarkExecuted, Advance, Later, TypeOK
  <2>5. Stage(job) = "pending"
    BY <2>1 DEF Stage, TypeOK
  <2>6. Stage(job)' = "done" /\ \A j \in Jobs : j # job => Stage(j)' = Stage(j)
    BY <1>5, <2>1, <2>2, <2>3, <2>4 DEF Stage, MarkExecuted, memVars
  <2>7. PICK k \in Jobs : k = job
    BY <2>1
  <2>8. PhaseMap' = [PhaseMap EXCEPT ![k] = "done"] /\ PhaseMap[k] = "pending"
    BY <1>3, <1>5, <2>5, <2>6, <2>7 DEF MarkExecuted, memVars
  <2>9. Delivery!CarryOut(k)
    BY <2>2, <2>8 DEF Delivery!CarryOut, PhaseMap
  <2> QED
    BY <2>9 DEF Delivery!Next
<1>6. CASE \A j \in Jobs : cursor'[j] >= Executed <=> cursor[j] >= Executed
  <2>1. CASE JobsStay /\ UNCHANGED <<submitted, results>>
    <3>1. \A j \in Jobs : Queued(j)' <=> Queued(j)
      <4>1. \A j : Queued(j)' <=> \E a \in Agents : j \in JobsOf(a)'
        BY DEF Queued, JobsOf
      <4> QED
        BY <2>1, <4>1, QueuedSomewhere DEF JobsStay
    <3>2. \A j \in Jobs : Stage(j)' = Stage(j)
      BY <1>6, <2>1, <3>1 DEF Stage
    <3> QED
      BY <1>2, <2>1, <3>2
  <2>2. ASSUME NEW a \in Agents, NEW k \in Jobs, Submitting(a, k)
        PROVE  Delivery!Next
    <3>1. k \notin submitted /\ submitted' = submitted \cup {k} /\ UNCHANGED results
      BY <2>2 DEF Submitting, Enqueue
    <3>2. Queued(k)' /\ \A j \in submitted : Queued(j)' <=> Queued(j)
      BY <2>2, QueuesCalm DEF Submitting, Queued, JobsOf
    <3>3. ~(cursor[k] >= Executed)
      BY <3>1 DEF KnownInv, TypeOK
    <3>4. Stage(k) = "new" /\ Stage(k)' = "pending"
      BY <1>6, <3>1, <3>2, <3>3 DEF Stage
    <3>5. \A j \in Jobs : j # k => Stage(j)' = Stage(j)
      BY <1>6, <3>1, <3>2 DEF Stage
    <3>6. PhaseMap' = [PhaseMap EXCEPT ![k] = "pending"] /\ PhaseMap[k] = "new"
      BY <1>3, <3>4, <3>5
    <3>7. Delivery!Submit(k)
      BY <3>1, <3>6 DEF Delivery!Submit, PhaseMap
    <3> QED
      BY <3>7 DEF Delivery!Next
  <2>3. ASSUME NEW r \in requests, Acknowledged(r)
        PROVE  Delivery!Next \/ UNCHANGED <<PhaseMap, results>>
    <3>1. PICK k \in Jobs : k = r.job
      BY <2>3, OnlySubmitted DEF Acknowledged
    <3>2. k \in submitted /\ r.result \in Results /\ cursor[k] >= Executed
      BY <2>3, <3>1, OnlySubmitted
         DEF Acknowledged, ReportInv, SentInv, DoneInv, Vouched
    <3>3. /\ ~Queued(k)' /\ results'[k] = r.result
          /\ \A j \in Jobs : j # k =>
                (Queued(j)' <=> Queued(j)) /\ results'[j] = results[j]
          /\ UNCHANGED submitted
      BY <2>3, <3>1, AckSettles DEF Settled
    <3>4. Stage(k)' = "reported" /\ \A j \in Jobs : j # k => Stage(j)' = Stage(j)
      BY <1>6, <3>2, <3>3 DEF Stage
    <3>5. results' = [results EXCEPT ![k] = r.result]
      BY <3>3 DEF TypeOK, StoreTypeOK
    <3>6. CASE Queued(k)
      <4>1. Stage(k) = "done"
        BY <3>2, <3>6 DEF Stage
      <4>2. PhaseMap' = [PhaseMap EXCEPT ![k] = "reported"] /\ PhaseMap[k] = "done"
        BY <1>3, <3>4, <4>1
      <4>3. Delivery!ReportDone(k, r.result)
        BY <3>5, <4>2 DEF Delivery!ReportDone, PhaseMap
      <4> QED
        BY <3>2, <4>3 DEF Delivery!Next
    <3>7. CASE ~Queued(k)
      <4>1. Stage(k) = "reported"
        BY <3>2, <3>7 DEF Stage
      <4>2. results[k] = r.result
        <5>1. outbox[k] = r.result \/ results[k] = r.result
          BY <2>3, <3>1 DEF Acknowledged, ReportInv, SentInv, Settled
        <5>2. r.result # NoResult
          BY <3>2, StoreAssumption
        <5> QED
          BY <3>2, <3>7, <5>1, <5>2 DEF ReportInv, KeptInv
      <4>3. results' = results
        BY <3>5, <4>2 DEF TypeOK, StoreTypeOK
      <4>4. \A j \in Jobs : Stage(j)' = Stage(j)
        BY <3>4, <4>1
      <4> QED
        BY <1>2, <4>3, <4>4
    <3> QED
      BY <3>6, <3>7
  <2> QED
    BY <2>1, <2>2, <2>3, QueueStep
<1> QED
  BY <1>5, <1>6, ExecutedOnce

\* A job is submitted, carried out and reported once, in this order, whatever
\* is lost, repeated or crashes in between: hosted.py and store.py together
\* implement the abstract specification JobDelivery.
THEOREM JobsAreDelivered ==
    ASSUME ~RepeatIds, LoneAgent
    PROVE  Spec => DeliversJobs
<1>1. Init => Delivery!Init
  <2> SUFFICES ASSUME Init PROVE Delivery!Init
    OBVIOUS
  <2>1. \A j \in Jobs : Phase(j) = "new"
    BY DEF Init, StoreInit, Phase
  <2> QED
    BY <2>1 DEF Init, StoreInit, Delivery!Init
<1>2. TypeOK /\ TypeOK' /\ DoneInv /\ DoneInv' /\ KnownInv /\ RunInv /\ RunInv' /\ ReportInv
        /\ [Next]_vars => [Delivery!Next]_<<PhaseMap, results>>
  BY StepDelivers
<1> QED
  BY <1>1, <1>2, TypeCorrect, DoneCorrect, KnownCorrect, RunCorrect, ReportCorrect,
     PTL DEF Spec, DeliversJobs, Delivery!Spec, PhaseMap
=============================================================================
