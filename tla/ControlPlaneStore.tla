------------------------- MODULE ControlPlaneStore -------------------------
(***************************************************************************)
(* The durable state of the hosted control plane and the operations on it  *)
(* (src/src/paperless_control_plane/store.py): one-time enrollment tokens, *)
(* the agent registry, one job queue per agent, and the results agents     *)
(* pushed.  Every operation of the store runs under one re-entrant lock    *)
(* and ends with an atomic file replacement, so each is one action.        *)
(*                                                                         *)
(* Abstractions.  A credential is its generation number; a job is its id;  *)
(* the visibility timer of a dispatched entry is either running or over;   *)
(* a queue is a set of entries ordered by their enqueue stamp; all agents  *)
(* belong to one tenant.  The results cache is large enough to hold every  *)
(* job (its eviction rule is not part of this module).                     *)
(***************************************************************************)
EXTENDS Naturals, FiniteSets

CONSTANTS
    Jobs,           \* job ids
    Agents,         \* agent ids the registry can hand out
    Tokens,         \* enrollment tokens the operator can mint
    NoResult,       \* "no result", distinct from every result
    MaxCred,        \* bound: last credential generation of an agent
    MaxEnqueues,    \* bound: number of enqueue calls
    RepeatIds       \* may the operator enqueue one job id twice?

Results == {"completed", "already_done"}

ASSUME StoreAssumption ==
    /\ NoResult \notin Results
    /\ MaxCred \in Nat
    /\ MaxEnqueues \in Nat
    /\ RepeatIds \in BOOLEAN

VARIABLES
    tokens,         \* life of each enrollment token
    registry,       \* agent records: life and current credential
    queue,          \* per agent, the entries not yet acknowledged
    stamp,          \* number of entries enqueued so far
    results,        \* last result pushed for each job
    submitted       \* history: the job ids ever enqueued

storeVars == <<tokens, registry, queue, stamp, results, submitted>>

EntryStates == {"queued", "dispatched", "expired"}
Entry == [job : Jobs, at : Nat, state : EntryStates]
AgentRecord == [state : {"absent", "active", "revoked"}, cred : Nat]

StoreTypeOK ==
    /\ tokens \in [Tokens -> {"unminted", "minted", "used"}]
    /\ registry \in [Agents -> AgentRecord]
    /\ queue \in [Agents -> SUBSET Entry]
    /\ stamp \in Nat
    /\ results \in [Jobs -> Results \cup {NoResult}]
    /\ submitted \subseteq Jobs

StoreInit ==
    /\ tokens = [t \in Tokens |-> "unminted"]
    /\ registry = [a \in Agents |-> [state |-> "absent", cred |-> 0]]
    /\ queue = [a \in Agents |-> {}]
    /\ stamp = 0
    /\ results = [j \in Jobs |-> NoResult]
    /\ submitted = {}

----------------------------------------------------------------------------
(* Enrollment and credentials.                                             *)

\* Admin: a fresh one-time token.
MintToken(t) ==
    /\ tokens[t] = "unminted"
    /\ tokens' = [tokens EXCEPT ![t] = "minted"]
    /\ UNCHANGED <<registry, queue, stamp, results, submitted>>

\* The token is popped and the agent record created in one critical section.
EnrollAs(t, a) ==
    /\ tokens[t] = "minted"
    /\ registry[a].state = "absent"
    /\ tokens' = [tokens EXCEPT ![t] = "used"]
    /\ registry' = [registry EXCEPT ![a].state = "active"]
    /\ UNCHANGED <<queue, stamp, results, submitted>>

Authentic(a, c) ==
    /\ registry[a].state = "active"
    /\ registry[a].cred = c

\* Admin: server-side revocation.
RevokeAgent(a) ==
    /\ registry[a].state = "active"
    /\ registry' = [registry EXCEPT ![a].state = "revoked"]
    /\ UNCHANGED <<tokens, queue, stamp, results, submitted>>

\* Admin: the old credential stops working, the agent is not told.
RotateCredential(a) ==
    /\ registry[a].state # "absent"
    /\ registry[a].cred < MaxCred
    /\ registry' = [registry EXCEPT ![a].cred = @ + 1]
    /\ UNCHANGED <<tokens, queue, stamp, results, submitted>>

----------------------------------------------------------------------------
(* The job queue.                                                          *)

JobsOf(a) == {e.job : e \in queue[a]}

Outstanding == UNION {JobsOf(a) : a \in Agents}

\* Admin: an entry at the tail of the queue.  The caller may choose the id,
\* so the same id can be enqueued again.
Enqueue(a, j) ==
    /\ registry[a].state # "absent"
    /\ stamp < MaxEnqueues
    /\ j \in submitted => RepeatIds
    /\ queue' = [queue EXCEPT ![a] =
                    @ \cup {[job |-> j, at |-> stamp, state |-> "queued"]}]
    /\ stamp' = stamp + 1
    /\ submitted' = submitted \cup {j}
    /\ UNCHANGED <<tokens, registry, results>>

\* Time passes: the visibility timer of a dispatched entry runs out.
VisibilityElapses(a, e) ==
    /\ e \in queue[a]
    /\ e.state = "dispatched"
    /\ queue' = [queue EXCEPT ![a] =
                    (@ \ {e}) \cup {[e EXCEPT !.state = "expired"]}]
    /\ UNCHANGED <<tokens, registry, stamp, results, submitted>>

\* Fault: the timer is never looked at.
ReclaimNothing(q) == q

\* Expired entries count as queued again when the next lease looks at them.
ReclaimExpired(q) ==
    {IF e.state = "expired" THEN [e EXCEPT !.state = "queued"] ELSE e : e \in q}

Deliverable(a) == {e \in ReclaimExpired(queue[a]) : e.state = "queued"}

\* Fault: an entry leaves the queue when it is handed out.
LeaseAndForget(a, e) ==
    /\ e \in Deliverable(a)
    /\ \A f \in Deliverable(a) : e.at <= f.at
    /\ queue' = [queue EXCEPT ![a] = ReclaimExpired(@) \ {e}]
    /\ UNCHANGED <<tokens, registry, stamp, results, submitted>>

\* The first deliverable entry, in queue order, is handed out.
Lease(a, e) ==
    /\ e \in Deliverable(a)
    /\ \A f \in Deliverable(a) : e.at <= f.at
    /\ queue' = [queue EXCEPT ![a] =
                    (ReclaimExpired(@) \ {e})
                        \cup {[e EXCEPT !.state = "dispatched"]}]
    /\ UNCHANGED <<tokens, registry, stamp, results, submitted>>

\* Fault: only an entry whose timer still runs is acknowledged.
AckInTime(a, j, r) ==
    /\ results' = [results EXCEPT ![j] = r]
    /\ queue' = [queue EXCEPT ![a] =
                    {e \in @ : e.job # j \/ e.state # "dispatched"}]
    /\ UNCHANGED <<tokens, registry, stamp, submitted>>

\* The result is recorded and every entry of that id leaves this agent's
\* queue.  Acknowledging an unknown job is a no-op on the queue.
Ack(a, j, r) ==
    /\ results' = [results EXCEPT ![j] = r]
    /\ queue' = [queue EXCEPT ![a] = {e \in @ : e.job # j}]
    /\ UNCHANGED <<tokens, registry, stamp, submitted>>
=============================================================================
