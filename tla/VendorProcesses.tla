-------------------------- MODULE VendorProcesses --------------------------
(***************************************************************************)
(* The processes of the vendor side and the files they share: the control  *)
(* plane server with its threads serving hosted inference (app.py,         *)
(* inference.py), the operator's one-shot commands (cli.py) and a direct   *)
(* run against a remote Paperless (direct.py).  Three files: the agents    *)
(* and jobs, the billing store, the direct targets; see StateFile for how  *)
(* a process holds one.                                                    *)
(*                                                                         *)
(* Abstractions.  One agent per tenant.  A job is its id, and being pulled *)
(* and acknowledged is one step (ControlPlaneStore has the protocol).  A   *)
(* call carries no content.  The server's copy of the direct targets is    *)
(* only read, by the dashboard, and is left out.  A vendor key is set.     *)
(***************************************************************************)
EXTENDS BillingStore, FiniteSets

CONSTANTS
    Hosts,          \* host names a URL can have
    Jobs,           \* job ids
    Lists,          \* --allowed-host lists an operator gives
    ServerThreads,  \* HTTP threads of the server
    RunWorkers,     \* engine workers of a direct run
    Operators,      \* processes of operator commands that may overlap
    NoCopy,         \* "this process does not hold the file"
    NoTarget,       \* "no target", distinct from every target
    Nobody,         \* "no tenant", distinct from every tenant
    MaxCommands,    \* bound: operator commands
    MaxCalls,       \* bound: inference calls
    MaxStarts,      \* bound: starts of the server and of direct runs
    MaxTroubles     \* bound: reads and saves of a file that fail

ASSUME VendorAssumption ==
    /\ Nobody \notin Tenants
    /\ Lists \subseteq SUBSET Hosts
    /\ MaxCap \in Nat /\ MaxCommands \in Nat
    /\ MaxCalls \in Nat /\ MaxStarts \in Nat /\ MaxTroubles \in Nat
    /\ Operators \cap {"server", "direct"} = {}
    /\ IsFiniteSet(ServerThreads) /\ IsFiniteSet(RunWorkers)
    /\ ServerThreads \cap RunWorkers = {}

ASSUME NoCopyAssumption == NoCopy \notin Billing

VARIABLES
    storeDisk, storeCopy, storeShared, storeApart,  \* agents and jobs
    billDisk, billCopy, billShared, billApart,      \* subscriptions and usage
    targDisk, targCopy, targShared, targApart,      \* direct targets
    command,        \* the operator commands that have read their file
    run,            \* the target record a direct run works with
    call,           \* what each thread and worker does
    opened,         \* history: spend a process found when it read the file
    answered,       \* history: calls of it the vendor's model answered since
    said,           \* history: the subscription the operator last set
    added,          \* history: targets direct-add has registered
    revoked,        \* history: target ids direct-revoke has reported gone
    mixed,          \* history: two had the registry at once, or one could
                    \* not read it
    commandsLeft, callsLeft, startsLeft, troublesLeft

INSTANCE DirectTargets

Procs == {"server", "direct"} \cup Operators
Serving == {"server", "direct"}

\* Contents of the files.
AgentStates == {"none", "invited", "enrolled", "revoked"}
StoreContent == [agent : [Tenants -> AgentStates], jobs : SUBSET Jobs]
EmptyStore == [agent |-> [t \in Tenants |-> "none"], jobs |-> {}]

Store == INSTANCE StateFile WITH disk <- storeDisk, copy <- storeCopy,
            shared <- storeShared, apart <- storeApart, Nothing <- EmptyStore
Bill == INSTANCE StateFile WITH disk <- billDisk, copy <- billCopy,
            shared <- billShared, apart <- billApart, Nothing <- EmptyBilling
Targ == INSTANCE StateFile WITH disk <- targDisk, copy <- targCopy,
            shared <- targShared, apart <- targApart, Nothing <- EmptyRegistry

storeVars == <<storeDisk, storeCopy, storeShared, storeApart>>
billVars == <<billDisk, billCopy, billShared, billApart>>
targVars == <<targDisk, targCopy, targShared, targApart>>
histVars == <<opened, answered>>
targHistVars == <<added, revoked, mixed>>
boundVars == <<commandsLeft, callsLeft, startsLeft, troublesLeft>>
vars == <<storeVars, billVars, targVars, command, run, call, histVars, said,
          targHistVars, boundVars>>

----------------------------------------------------------------------------
(* Commands and calls.                                                     *)

StoreCommands ==
    [op : {"mint-token", "revoke"}, tenant : Tenants] \cup [op : {"enqueue"}, job : Jobs]
BillCommands ==
    [op : {"subscribe"}, tenant : Tenants, status : {"active", "suspended"},
     cap : 0..MaxCap]
      \cup [op : {"usage-reset"}, tenant : Tenants]
TargetCommands ==
    [op : {"direct-add"}, tenant : Tenants, url : Hosts, list : Lists, on : BOOLEAN]
      \cup [op : {"direct-revoke"}, id : 1..MaxCommands]
NoCommand == [op |-> "none"]
Commands == StoreCommands \cup BillCommands \cup TargetCommands

NoRun == [at |-> "none"]
Workers == ServerThreads \cup RunWorkers
WorkersOf(p) == IF p = "server" THEN ServerThreads ELSE RunWorkers
OwnerOf(w) == IF w \in ServerThreads THEN "server" ELSE "direct"

CallStates == {"idle", "authenticated", "entitled", "admitted", "paid"}
IdleCall == [at |-> "idle", tenant |-> Nobody]
\* Past both checks: the vendor will be, or has been, paid.
Passed(p, t) ==
    {w \in WorkersOf(p) : call[w].at \in {"admitted", "paid"} /\ call[w].tenant = t}

TypeOK ==
    /\ storeDisk \in StoreContent
    /\ storeCopy \in [Procs -> StoreContent \cup {NoCopy}]
    /\ billDisk \in Billing
    /\ billCopy \in [Procs -> Billing \cup {NoCopy}]
    /\ IsRegistry(targDisk)
    /\ \A p \in Targ!Holders : IsRegistry(targCopy[p])
    /\ storeShared \cup billShared \cup targShared \subseteq Procs
    /\ storeApart \cup billApart \cup targApart \subseteq Procs
    /\ command \in [Operators -> Commands \cup {NoCommand}]
    /\ run \in [at : {"started", "sweeping"}, id : Nat, target : Target] \cup {NoRun}
    /\ call \in [Workers -> [at : CallStates, tenant : Tenants \cup {Nobody}]]
    /\ opened \in [Serving -> [Tenants -> Nat]]
    /\ answered \in [Serving -> [Tenants -> Nat]]
    /\ said \in [Tenants -> Statuses]
    /\ added \subseteq [id : Nat, tenant : Tenants, url : Hosts]
    /\ revoked \subseteq Nat
    /\ mixed \in BOOLEAN
    /\ {commandsLeft, callsLeft, startsLeft, troublesLeft} \subseteq Nat

Init ==
    /\ Store!Initially /\ Bill!Initially /\ Targ!Initially
    /\ command = [o \in Operators |-> NoCommand]
    /\ run = NoRun
    /\ call = [w \in Workers |-> IdleCall]
    /\ opened = [p \in Serving |-> [t \in Tenants |-> 0]]
    /\ answered = [p \in Serving |-> [t \in Tenants |-> 0]]
    /\ said = [t \in Tenants |-> "none"]
    /\ added = {} /\ revoked = {} /\ mixed = FALSE
    /\ commandsLeft = MaxCommands
    /\ callsLeft = MaxCalls
    /\ startsLeft = MaxStarts
    /\ troublesLeft = MaxTroubles

\* A read or a save fails.
Costs(trouble) ==
    /\ trouble => troublesLeft > 0
    /\ troublesLeft' = IF trouble THEN troublesLeft - 1 ELSE troublesLeft

----------------------------------------------------------------------------
(* The server: cmd_serve reads every file once.                            *)

ServerStarts(readsStore, readsBill) ==
    /\ startsLeft > 0
    /\ IF readsStore THEN Store!Open("server") ELSE Store!OpenUnread("server")
    /\ IF readsBill THEN Bill!Open("server") ELSE Bill!OpenUnread("server")
    /\ Costs(~readsStore \/ ~readsBill)
    /\ opened' = [opened EXCEPT !["server"] =
                    IF readsBill THEN billDisk.spent ELSE EmptyBilling.spent]
    /\ startsLeft' = startsLeft - 1
    /\ UNCHANGED <<targVars, command, run, call, answered, said, targHistVars,
                   commandsLeft, callsLeft>>

\* Stopped or killed: the calls it was serving are gone with it.
ServerStops ==
    /\ Store!Close("server")
    /\ Bill!Close("server")
    /\ call' = [w \in Workers |-> IF w \in ServerThreads THEN IdleCall ELSE call[w]]
    /\ opened' = [opened EXCEPT !["server"] = [t \in Tenants |-> 0]]
    /\ answered' = [answered EXCEPT !["server"] = [t \in Tenants |-> 0]]
    /\ UNCHANGED <<targVars, command, run, said, targHistVars, boundVars>>

ServerStore == storeCopy["server"]

\* A request whose save fails is answered with an error, and stays in memory.
ServerSaves(content) ==
    /\ \E works \in BOOLEAN :
          /\ IF works THEN Store!Save("server", content)
                      ELSE Store!SaveFails("server", content)
          /\ Costs(~works)
    /\ UNCHANGED <<billVars, targVars, command, run, call, histVars, said,
                   targHistVars, commandsLeft, callsLeft, startsLeft>>

\* The one-time token the server knows becomes an agent.
ServerEnrolls(t) ==
    /\ ServerStore # NoCopy
    /\ ServerStore.agent[t] = "invited"
    /\ ServerSaves([ServerStore EXCEPT !.agent[t] = "enrolled"])

\* Every heartbeat of an agent writes the file.
ServerHeartbeat(t) ==
    /\ ServerStore # NoCopy
    /\ ServerStore.agent[t] = "enrolled"
    /\ ServerSaves(ServerStore)

ServerHandsOut(j) ==
    /\ ServerStore # NoCopy
    /\ j \in ServerStore.jobs
    /\ ServerSaves([ServerStore EXCEPT !.jobs = @ \ {j}])

\* POST /admin/enqueue.
ServerEnqueues(j) ==
    /\ ServerStore # NoCopy
    /\ ServerSaves([ServerStore EXCEPT !.jobs = @ \cup {j}])

ServerRequests ==
    \/ \E t \in Tenants : ServerEnrolls(t) \/ ServerHeartbeat(t)
    \/ \E j \in Jobs : ServerHandsOut(j) \/ ServerEnqueues(j)

----------------------------------------------------------------------------
(* A hosted inference call, in the order the checks are made.  The same    *)
(* order is repeated in the in-process transport of a direct run.          *)

CallUnchanged == <<storeVars, targVars, command, run, opened, said, targHistVars,
                   commandsLeft, startsLeft>>

Goes(w, to) == call' = [call EXCEPT ![w].at = to]
Ends(w) == call' = [call EXCEPT ![w] = IdleCall]

\* The tenant is the one of the authenticated agent, or of the target.
CallArrives(w, t) ==
    /\ call[w].at = "idle"
    /\ callsLeft > 0
    /\ IF w \in ServerThreads
       THEN ServerStore # NoCopy /\ ServerStore.agent[t] = "enrolled"
       ELSE run.at = "sweeping" /\ run.target.tenant = t
    /\ call' = [call EXCEPT ![w] = [at |-> "authenticated", tenant |-> t]]
    /\ callsLeft' = callsLeft - 1
    /\ UNCHANGED <<billVars, answered, troublesLeft, CallUnchanged>>

\* 402 otherwise.
CheckEntitled(w) ==
    /\ call[w].at = "authenticated"
    /\ IF Entitled(billCopy[OwnerOf(w)], call[w].tenant)
       THEN Goes(w, "entitled")
       ELSE Ends(w)
    /\ UNCHANGED <<billVars, answered, callsLeft, troublesLeft, CallUnchanged>>

\* 429 otherwise.
CheckSpendCap(w) ==
    /\ call[w].at = "entitled"
    /\ IF UnderCap(billCopy[OwnerOf(w)], call[w].tenant)
       THEN Goes(w, "admitted")
       ELSE Ends(w)
    /\ UNCHANGED <<billVars, answered, callsLeft, troublesLeft, CallUnchanged>>

\* A bad request, an unpriced model or a failing backend: nothing to pay.
CallFails(w) ==
    /\ call[w].at = "admitted"
    /\ Ends(w)
    /\ UNCHANGED <<billVars, answered, callsLeft, troublesLeft, CallUnchanged>>

\* The vendor's model answers; the call is paid from here on.
CallBackend(w) ==
    /\ call[w].at = "admitted"
    /\ Goes(w, "paid")
    /\ UNCHANGED <<billVars, answered, callsLeft, troublesLeft, CallUnchanged>>

Answered(w) ==
    /\ Ends(w)
    /\ answered' = [answered EXCEPT ![OwnerOf(w)][call[w].tenant] = @ + 1]

\* Fault: the usage reaches the file only with the next save.
MeterInMemory(w) ==
    /\ call[w].at = "paid"
    /\ Bill!SaveLater(OwnerOf(w), RecordUsage(billCopy[OwnerOf(w)], call[w].tenant))
    /\ Answered(w)
    /\ UNCHANGED <<callsLeft, troublesLeft, CallUnchanged>>

\* Fault: the total read before the call is written back after it.
MeterFromOldTotal(w) ==
    /\ call[w].at = "paid"
    /\ LET p == OwnerOf(w)
           t == call[w].tenant
       IN Bill!Save(p, [billCopy[p] EXCEPT !.spent[t] = opened[p][t] + 1])
    /\ Answered(w)
    /\ UNCHANGED <<callsLeft, troublesLeft, CallUnchanged>>

\* The usage is recorded and saved, then the call is answered; when the save
\* fails the usage stays recorded, and the answer is an error.
MeterAndAnswer(w) ==
    LET p == OwnerOf(w)
        metered == RecordUsage(billCopy[p], call[w].tenant)
    IN /\ call[w].at = "paid"
       /\ \E works \in BOOLEAN :
             /\ IF works THEN Bill!Save(p, metered) ELSE Bill!SaveFails(p, metered)
             /\ Costs(~works)
       /\ Answered(w)
       /\ UNCHANGED <<callsLeft, CallUnchanged>>

CallStep(w) ==
    \/ \E t \in Tenants : CallArrives(w, t)
    \/ CheckEntitled(w) \/ CheckSpendCap(w) \/ CallFails(w)
    \/ CallBackend(w) \/ MeterAndAnswer(w)

----------------------------------------------------------------------------
(* An operator command: a process that reads its file, applies one         *)
(* operation, saves and ends.  Commands may overlap.                       *)

BeginCommand(o, m, reads) ==
    /\ command[o] = NoCommand
    /\ commandsLeft > 0
    /\ command' = [command EXCEPT ![o] = m]
    /\ commandsLeft' = commandsLeft - 1
    /\ CASE m \in StoreCommands ->
              /\ IF reads THEN Store!Open(o) ELSE Store!OpenUnread(o)
              /\ UNCHANGED <<billVars, targVars, mixed>>
         [] m \in BillCommands ->
              /\ IF reads THEN Bill!Open(o) ELSE Bill!OpenUnread(o)
              /\ UNCHANGED <<storeVars, targVars, mixed>>
         [] m \in TargetCommands ->
              /\ IF reads THEN Targ!Open(o) ELSE Targ!OpenUnread(o)
              /\ mixed' = (mixed \/ ~reads \/ Targ!Holders # {})
              /\ UNCHANGED <<storeVars, billVars>>
    /\ Costs(~reads)
    /\ UNCHANGED <<run, call, histVars, said, added, revoked, callsLeft, startsLeft>>

CommandDone(o) ==
    /\ command' = [command EXCEPT ![o] = NoCommand]
    /\ UNCHANGED <<run, call, histVars, mixed, boundVars>>

\* mint-token, enqueue and revoke, which does not save for an agent it does
\* not know.
StoreCommand(o) ==
    LET m == command[o]
        mine == storeCopy[o]
    IN /\ m.op \in {"mint-token", "enqueue", "revoke"}
       /\ IF m.op = "revoke" /\ mine.agent[m.tenant] \in {"none", "invited"}
            THEN Store!Close(o)
            ELSE Store!SaveAndClose(o,
                   CASE m.op = "enqueue" -> [mine EXCEPT !.jobs = @ \cup {m.job}]
                     [] m.op = "mint-token" ->
                          [mine EXCEPT !.agent[m.tenant] = IF @ = "none" THEN "invited" ELSE @]
                     [] m.op = "revoke" -> [mine EXCEPT !.agent[m.tenant] = "revoked"])
       /\ CommandDone(o)
       /\ UNCHANGED <<billVars, targVars, said, added, revoked>>

Subscribe(o) ==
    LET m == command[o]
    IN /\ m.op = "subscribe"
       /\ Bill!SaveAndClose(o, SetSubscription(billCopy[o], m.tenant, m.status, m.cap))
       /\ said' = [said EXCEPT ![m.tenant] = m.status]
       /\ CommandDone(o)
       /\ UNCHANGED <<storeVars, targVars, added, revoked>>

UsageReset(o) ==
    /\ command[o].op = "usage-reset"
    /\ Bill!SaveAndClose(o, ResetUsage(billCopy[o], command[o].tenant))
    /\ CommandDone(o)
    /\ UNCHANGED <<storeVars, targVars, said, added, revoked>>

DirectAdd(o) ==
    LET m == command[o]
        registry == AddTarget(targCopy[o], m.tenant, m.url, m.list, m.on)
    IN /\ m.op = "direct-add"
       /\ Targ!SaveAndClose(o, registry)
       /\ added' = added \cup {[id |-> registry.seq, tenant |-> m.tenant, url |-> m.url]}
       /\ CommandDone(o)
       /\ UNCHANGED <<storeVars, billVars, said, revoked>>

\* "URL + token removed"; nothing is saved for a target this copy does not
\* know.
DirectRevoke(o) ==
    LET mine == targCopy[o]
        id == command[o].id
    IN /\ command[o].op = "direct-revoke"
       /\ IF Known(mine, id)
            THEN Targ!SaveAndClose(o, Revoke(mine, id)) /\ revoked' = revoked \cup {id}
            ELSE Targ!Close(o) /\ UNCHANGED revoked
       /\ CommandDone(o)
       /\ UNCHANGED <<storeVars, billVars, said, added>>

\* The save fails, which ends the process, or the process is killed before.
CommandFails(o) ==
    /\ command[o] # NoCommand
    /\ IF command[o] \in StoreCommands THEN Store!Close(o) ELSE UNCHANGED storeVars
    /\ IF command[o] \in BillCommands THEN Bill!Close(o) ELSE UNCHANGED billVars
    /\ IF command[o] \in TargetCommands THEN Targ!Close(o) ELSE UNCHANGED targVars
    /\ CommandDone(o)
    /\ UNCHANGED <<said, added, revoked>>

CommandStep(o) ==
    \/ \E m \in Commands : \E reads \in BOOLEAN : BeginCommand(o, m, reads)
    \/ StoreCommand(o) \/ Subscribe(o) \/ UsageReset(o)
    \/ DirectAdd(o) \/ DirectRevoke(o) \/ CommandFails(o)

----------------------------------------------------------------------------
(* A direct run: the engine, once, against the Paperless of a target.      *)

RunUnchanged == <<storeVars, command, said, added, revoked, commandsLeft, callsLeft>>

\* The record is read once and must be enabled; an unknown or disabled
\* target, or a registry that cannot be read, ends the process before it does
\* anything.
DirectRunStarts(id, readsBill) ==
    /\ startsLeft > 0
    /\ Known(targDisk, id)
    /\ targDisk.targets[id].enabled
    /\ Targ!Open("direct")
    /\ mixed' = (mixed \/ Targ!Holders # {})
    /\ IF readsBill THEN Bill!Open("direct") ELSE Bill!OpenUnread("direct")
    /\ Costs(~readsBill)
    /\ run' = [at |-> "started", id |-> id, target |-> targDisk.targets[id]]
    /\ opened' = [opened EXCEPT !["direct"] =
                    IF readsBill THEN billDisk.spent ELSE EmptyBilling.spent]
    /\ startsLeft' = startsLeft - 1
    /\ UNCHANGED <<call, answered, RunUnchanged>>

\* Every request goes through the egress guard.
DirectRunConnects ==
    /\ run.at = "started"
    /\ run.target.url \in run.target.allowed
    /\ run' = [run EXCEPT !.at = "sweeping"]
    /\ UNCHANGED <<targVars, billVars, call, histVars, mixed, startsLeft, troublesLeft,
                   RunUnchanged>>

DirectRunGone ==
    /\ Bill!Close("direct")
    /\ run' = NoRun
    /\ call' = [w \in Workers |-> IF w \in RunWorkers THEN IdleCall ELSE call[w]]
    /\ opened' = [opened EXCEPT !["direct"] = [t \in Tenants |-> 0]]
    /\ answered' = [answered EXCEPT !["direct"] = [t \in Tenants |-> 0]]
    /\ UNCHANGED <<mixed, startsLeft, troublesLeft, RunUnchanged>>

\* The sweep is over: the review counts are saved with the target.
DirectRunEnds ==
    /\ run.at = "sweeping"
    /\ \A w \in RunWorkers : call[w].at = "idle"
    /\ Targ!SaveAndClose("direct", RecordReview(targCopy["direct"], run.id))
    /\ DirectRunGone

\* A request the guard or Paperless refuses, a save that fails, or a kill.
DirectRunDies ==
    /\ run # NoRun
    /\ Targ!Close("direct")
    /\ DirectRunGone

DirectStep ==
    \/ \E id \in DOMAIN targDisk.targets : \E reads \in BOOLEAN : DirectRunStarts(id, reads)
    \/ DirectRunConnects \/ DirectRunEnds \/ DirectRunDies

----------------------------------------------------------------------------
Next ==
    \/ \E store, bill \in BOOLEAN : ServerStarts(store, bill)
    \/ ServerStops \/ ServerRequests
    \/ \E w \in Workers : CallStep(w)
    \/ \E o \in Operators : CommandStep(o)
    \/ DirectStep

Spec == Init /\ [][Next]_vars

----------------------------------------------------------------------------
(* Properties.                                                             *)

\* The spend cap is checked before a call and the call is recorded after
\* it, so a tenant overshoots its cap, but in one process never by more
\* than one call of each thread, the calls under way counted.
SpendBounded ==
    \A p \in Serving, t \in Tenants :
        LET mine == billCopy[p]
        IN mine # NoCopy /\ mine.subs[t].cap > 0 =>
            LET cap == mine.subs[t].cap
                under == cap - 1 + Cardinality(WorkersOf(p))
            IN mine.spent[t] + Cardinality(Passed(p, t)) <=
                IF opened[p][t] >= cap THEN opened[p][t] ELSE under

\* Threads that record usage at the same time lose no call: what a process
\* holds for a tenant is what it found plus every call the vendor's model has
\* answered it since, those included whose record could not be saved.
LedgerAddsUp ==
    \A p \in Serving, t \in Tenants :
        billCopy[p] # NoCopy =>
            billCopy[p].spent[t] = opened[p][t] + answered[p][t]

\* A server, a command or a run that has had its files for itself, could read
\* them and has not just failed to save can be killed between any two steps
\* without losing an answered call, an enrolled agent, a subscription or a
\* target, and its next save replaces nothing it has not seen.
LoneIsOnDisk == Store!LoneIsOnDisk /\ Bill!LoneIsOnDisk /\ Targ!LoneIsOnDisk

\* As long as the commands and runs that use the registry come one after the
\* other and can read it, it holds the targets that were added and not revoked,
\* each under the id it was given: no id is given to a second target, and no
\* target comes back, whatever is revoked, run or killed in between.
RegistryIsWhatWasDone ==
    ~mixed => Entries(targDisk) = {x \in added : x.id \notin revoked}

\* A tenant the operator has suspended is refused: its next call does not
\* pass the entitlement check.
SuspendedIsRefused ==
    [][\A w \in Workers :
        call[w].at = "authenticated" /\ said[call[w].tenant] = "suspended" =>
            call'[w].at # "entitled"]_vars

\* Once direct-revoke has reported a target gone, no direct run starts for
\* it.
RevokedNeverRuns ==
    [][run = NoRun /\ run' # NoRun => run'.id \notin revoked]_vars
=============================================================================
