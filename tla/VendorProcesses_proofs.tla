----------------------- MODULE VendorProcesses_proofs -----------------------
(***************************************************************************)
(* Proofs about VendorProcesses, for every set of tenants, operators,      *)
(* threads and workers and every bound.                                    *)
(***************************************************************************)
EXTENDS VendorProcesses, FiniteSetTheorems, TLAPS

----------------------------------------------------------------------------
(* The discipline of a file, whatever is in it.                            *)

\* d is the file, c the copies, s the processes that shared it, a those whose
\* last read or save failed.
Lone(d, c, s, a) ==
    /\ c = [p \in Procs |-> c[p]]
    /\ \A p \in Procs : c[p] # NoCopy /\ p \notin s /\ p \notin a => c[p] = d
    /\ \A p, q \in Procs : p # q /\ c[p] # NoCopy /\ c[q] # NoCopy => p \in s

\* The file is read, or counts as empty.
Meeting(p, c, s, s1) ==
    s1 = IF \A q \in Procs : c[q] = NoCopy THEN s
         ELSE s \cup {q \in Procs : c[q] # NoCopy} \cup {p}

Opens(p, d, c, s, a, d1, c1, s1, a1) ==
    /\ d1 = d
    /\ Meeting(p, c, s, s1)
    /\ \/ c1 = [c EXCEPT ![p] = d] /\ a1 = a
       \/ \E v : c1 = [c EXCEPT ![p] = v] /\ a1 = a \cup {p}

\* The file is replaced, or it fails to be.
Saves(p, d, c, s, a, d1, c1, s1, a1) ==
    /\ c[p] # NoCopy /\ s1 = s
    /\ \/ c1 = [c EXCEPT ![p] = d1] /\ a1 = a \ {p}
       \/ d1 = d /\ a1 = a \cup {p} /\ \E v : c1 = [c EXCEPT ![p] = v]

\* With a last operation or without one.
Leaves(p, c, s, a, c1, s1, a1) ==
    c[p] # NoCopy /\ c1 = [c EXCEPT ![p] = NoCopy] /\ s1 = s \ {p} /\ a1 = a \ {p}

FileStep(d, c, s, a, d1, c1, s1, a1) ==
    \/ d1 = d /\ c1 = c /\ s1 = s /\ a1 = a
    \/ \E p \in Procs : \/ Opens(p, d, c, s, a, d1, c1, s1, a1)
                        \/ Saves(p, d, c, s, a, d1, c1, s1, a1)
                        \/ Leaves(p, c, s, a, c1, s1, a1)

\* A process that has had the file for itself, and could read and save it, has
\* it as it is.
LEMMA FileStepKeepsLone ==
    ASSUME NEW d, NEW c, NEW s, NEW a, NEW d1, NEW c1, NEW s1, NEW a1,
           Lone(d, c, s, a), FileStep(d, c, s, a, d1, c1, s1, a1)
    PROVE  Lone(d1, c1, s1, a1)
<1>1. CASE d1 = d /\ c1 = c /\ s1 = s /\ a1 = a
  BY <1>1 DEF Lone
<1>2. ASSUME NEW p \in Procs, Opens(p, d, c, s, a, d1, c1, s1, a1)
      PROVE  Lone(d1, c1, s1, a1)
  BY <1>2 DEF Lone, Opens, Meeting
<1>3. ASSUME NEW p \in Procs, Saves(p, d, c, s, a, d1, c1, s1, a1)
      PROVE  Lone(d1, c1, s1, a1)
  BY <1>3 DEF Lone, Saves
<1>4. ASSUME NEW p \in Procs, Leaves(p, c, s, a, c1, s1, a1)
      PROVE  Lone(d1, c1, s1, a1)
  BY <1>4 DEF Lone, Leaves
<1> QED
  BY <1>1, <1>2, <1>3, <1>4 DEF FileStep

StoreStep ==
    FileStep(storeDisk, storeCopy, storeShared, storeApart,
             storeDisk', storeCopy', storeShared', storeApart')
BillStep ==
    FileStep(billDisk, billCopy, billShared, billApart,
             billDisk', billCopy', billShared', billApart')
TargStep ==
    FileStep(targDisk, targCopy, targShared, targApart,
             targDisk', targCopy', targShared', targApart')

\* What an action does to a file is one of these.
LEMMA StoreSteps ==
    /\ UNCHANGED storeVars => StoreStep
    /\ \A p \in Procs : Store!Open(p) \/ Store!OpenUnread(p) => StoreStep
    /\ \A p \in Procs : \A v : Store!Save(p, v) \/ Store!SaveFails(p, v) => StoreStep
    /\ \A p \in Procs : Store!Close(p) => StoreStep
    /\ \A p \in Procs : \A v : Store!SaveAndClose(p, v) => StoreStep
<1>1. UNCHANGED storeVars => StoreStep
  BY DEF StoreStep, FileStep, storeVars
<1>2. \A p \in Procs : Store!Open(p) \/ Store!OpenUnread(p) => StoreStep
  BY DEF StoreStep, FileStep, Opens, Meeting, Store!Open, Store!OpenUnread,
         Store!Meets, Store!Holders
<1>3. \A p \in Procs : \A v : Store!Save(p, v) \/ Store!SaveFails(p, v) => StoreStep
  BY DEF StoreStep, FileStep, Saves, Store!Save, Store!SaveFails
<1>4. \A p \in Procs : Store!Forgets(p) => StoreStep
  BY DEF StoreStep, FileStep, Leaves, Store!Forgets
<1> QED
  BY <1>1, <1>2, <1>3, <1>4 DEF Store!Close, Store!SaveAndClose

LEMMA BillSteps ==
    /\ UNCHANGED billVars => BillStep
    /\ \A p \in Procs : Bill!Open(p) \/ Bill!OpenUnread(p) => BillStep
    /\ \A p \in Procs : \A v : Bill!Save(p, v) \/ Bill!SaveFails(p, v) => BillStep
    /\ \A p \in Procs : Bill!Close(p) => BillStep
    /\ \A p \in Procs : \A v : Bill!SaveAndClose(p, v) => BillStep
<1>1. UNCHANGED billVars => BillStep
  BY DEF BillStep, FileStep, billVars
<1>2. \A p \in Procs : Bill!Open(p) \/ Bill!OpenUnread(p) => BillStep
  BY DEF BillStep, FileStep, Opens, Meeting, Bill!Open, Bill!OpenUnread,
         Bill!Meets, Bill!Holders
<1>3. \A p \in Procs : \A v : Bill!Save(p, v) \/ Bill!SaveFails(p, v) => BillStep
  BY DEF BillStep, FileStep, Saves, Bill!Save, Bill!SaveFails
<1>4. \A p \in Procs : Bill!Forgets(p) => BillStep
  BY DEF BillStep, FileStep, Leaves, Bill!Forgets
<1> QED
  BY <1>1, <1>2, <1>3, <1>4 DEF Bill!Close, Bill!SaveAndClose

LEMMA TargSteps ==
    /\ UNCHANGED targVars => TargStep
    /\ \A p \in Procs : Targ!Open(p) \/ Targ!OpenUnread(p) => TargStep
    /\ \A p \in Procs : Targ!Close(p) => TargStep
    /\ \A p \in Procs : \A v : Targ!SaveAndClose(p, v) => TargStep
<1>1. UNCHANGED targVars => TargStep
  BY DEF TargStep, FileStep, targVars
<1>2. \A p \in Procs : Targ!Open(p) \/ Targ!OpenUnread(p) => TargStep
  BY DEF TargStep, FileStep, Opens, Meeting, Targ!Open, Targ!OpenUnread,
         Targ!Meets, Targ!Holders
<1>3. \A p \in Procs : Targ!Forgets(p) => TargStep
  BY DEF TargStep, FileStep, Leaves, Targ!Forgets
<1> QED
  BY <1>1, <1>2, <1>3 DEF Targ!Close, Targ!SaveAndClose

LEMMA ProcNames ==
    /\ "server" \in Procs /\ "direct" \in Procs /\ Operators \subseteq Procs
    /\ \A o \in Operators : o # "server" /\ o # "direct"
    /\ \A w : OwnerOf(w) \in Procs
  BY VendorAssumption DEF Procs, OwnerOf

\* Every step of every process does one of them to each file.
LEMMA NextIsFileSteps ==
    ASSUME [Next]_vars
    PROVE  StoreStep /\ BillStep /\ TargStep
<1> USE StoreSteps, BillSteps, TargSteps, ProcNames
<1>1. CASE UNCHANGED vars
  BY <1>1 DEF vars
<1>2. ASSUME NEW b \in BOOLEAN, NEW c \in BOOLEAN, ServerStarts(b, c)
      PROVE  StoreStep /\ BillStep /\ TargStep
  BY <1>2 DEF ServerStarts
<1>3. CASE ServerStops
  BY <1>3 DEF ServerStops
<1>4. CASE ServerRequests
  <2>1. PICK content : ServerSaves(content)
    BY <1>4 DEF ServerRequests, ServerEnrolls, ServerHeartbeat, ServerHandsOut, ServerEnqueues
  <2> QED
    BY <2>1 DEF ServerSaves
<1>5. ASSUME NEW w \in Workers, CallStep(w)
      PROVE  StoreStep /\ BillStep /\ TargStep
  <2>1. CASE MeterAndAnswer(w)
    BY <2>1 DEF MeterAndAnswer, CallUnchanged
  <2>2. CASE UNCHANGED <<storeVars, billVars, targVars>>
    BY <2>2
  <2> QED
    BY <1>5, <2>1, <2>2 DEF CallStep, CallArrives, CheckEntitled, CheckSpendCap,
       CallFails, CallBackend, CallUnchanged
<1>6. ASSUME NEW o \in Operators, CommandStep(o)
      PROVE  StoreStep /\ BillStep /\ TargStep
  <2>1. ASSUME NEW m \in Commands, NEW b \in BOOLEAN, BeginCommand(o, m, b)
        PROVE  StoreStep /\ BillStep /\ TargStep
    BY <2>1 DEF BeginCommand, Commands
  <2>2. CASE StoreCommand(o)
    <3>1. Store!Close(o) \/ \E v : Store!SaveAndClose(o, v)
      BY <2>2 DEF StoreCommand
    <3> QED
      BY <2>2, <3>1 DEF StoreCommand
  <2>3. CASE Subscribe(o)
    BY <2>3 DEF Subscribe
  <2>4. CASE UsageReset(o)
    BY <2>4 DEF UsageReset
  <2>5. CASE DirectAdd(o)
    BY <2>5 DEF DirectAdd
  <2>6. CASE DirectRevoke(o)
    BY <2>6 DEF DirectRevoke
  <2>7. CASE CommandFails(o)
    BY <2>7 DEF CommandFails
  <2> QED
    BY <1>6, <2>1, <2>2, <2>3, <2>4, <2>5, <2>6, <2>7 DEF CommandStep
<1>7. CASE DirectStep
  <2>1. ASSUME NEW i, NEW b \in BOOLEAN, DirectRunStarts(i, b)
        PROVE  StoreStep /\ BillStep /\ TargStep
    BY <2>1 DEF DirectRunStarts, RunUnchanged
  <2>2. CASE DirectRunConnects
    BY <2>2 DEF DirectRunConnects, RunUnchanged
  <2>3. CASE DirectRunEnds
    BY <2>3 DEF DirectRunEnds, DirectRunGone, RunUnchanged
  <2>4. CASE DirectRunDies
    BY <2>4 DEF DirectRunDies, DirectRunGone, RunUnchanged
  <2> QED
    BY <1>7, <2>1, <2>2, <2>3, <2>4 DEF DirectStep
<1> QED
  BY <1>1, <1>2, <1>3, <1>4, <1>5, <1>6, <1>7 DEF Next

AllLone ==
    /\ Lone(storeDisk, storeCopy, storeShared, storeApart)
    /\ Lone(billDisk, billCopy, billShared, billApart)
    /\ Lone(targDisk, targCopy, targShared, targApart)

LEMMA AllLoneAlways == Spec => []AllLone
<1>1. Init => AllLone
  BY DEF Init, AllLone, Lone, Store!Initially, Bill!Initially, Targ!Initially
<1>2. AllLone /\ [Next]_vars => AllLone'
  BY NextIsFileSteps, FileStepKeepsLone DEF AllLone, StoreStep, BillStep, TargStep
<1> QED
  BY <1>1, <1>2, PTL DEF Spec

\* A process that has had a file for itself, could read it and whose last
\* save worked holds what the file holds, for each of the three files and
\* whatever is in them: it can be killed between any two steps without losing
\* what it did, and what it saves next replaces nothing it has not seen.
THEOREM LoneProcessIsOnDisk == Spec => []LoneIsOnDisk
<1>1. AllLone => LoneIsOnDisk
  BY DEF AllLone, Lone, LoneIsOnDisk, Store!LoneIsOnDisk, Store!Holders,
         Bill!LoneIsOnDisk, Bill!Holders, Targ!LoneIsOnDisk, Targ!Holders
<1> QED
  BY AllLoneAlways, <1>1, PTL

----------------------------------------------------------------------------
(* The registry of direct targets.                                         *)

RegTypeOK ==
    /\ command \in [Operators -> Commands \cup {NoCommand}]
    /\ targCopy = [p \in Procs |-> targCopy[p]]
    /\ IsRegistry(targDisk)
    /\ \A p \in Procs : targCopy[p] # NoCopy => IsRegistry(targCopy[p])
    /\ added \subseteq [id : Nat, tenant : Tenants, url : Hosts]
    /\ revoked \subseteq Nat

\* What the file holds, and that its counter is past every id given out.
Faithful(r) ==
    /\ Entries(r) = {x \in added : x.id \notin revoked}
    /\ \A x \in added : x.id <= r.seq
    /\ \A i \in revoked : i <= r.seq

InTurn ==
    /\ \A p, q \in Procs : targCopy[p] # NoCopy /\ targCopy[q] # NoCopy => p = q
    /\ \A p \in Procs : targCopy[p] # NoCopy => targCopy[p] = targDisk
    /\ Faithful(targDisk)

RegInv == RegTypeOK /\ (~mixed => InTurn)

LEMMA AddEntries ==
    ASSUME NEW r, IsRegistry(r), \A i \in DOMAIN r.targets : i <= r.seq,
           NEW t \in Tenants, NEW url \in Hosts, NEW list \in SUBSET Hosts, NEW on \in BOOLEAN
    PROVE  LET s == AddTarget(r, t, url, list, on)
           IN /\ IsRegistry(s) /\ s.seq = r.seq + 1
              /\ Entries(s) = Entries(r) \cup {[id |-> s.seq, tenant |-> t, url |-> url]}
<1> DEFINE x == NewTarget(t, url, list, on)
           s == AddTarget(r, t, url, list, on)
           n == r.seq + 1
<1>1. AllowedHosts(url, list) \in SUBSET Hosts
  BY DEF AllowedHosts
<1>2. x \in Target /\ x.tenant = t /\ x.url = url
  BY <1>1 DEF NewTarget, Target
<1>3. /\ r.seq \in Nat /\ n \in Nat /\ n \notin DOMAIN r.targets
      /\ DOMAIN r.targets \subseteq Nat /\ \A i \in DOMAIN r.targets : r.targets[i] \in Target
  BY DEF IsRegistry
<1> HIDE DEF x
<1>4. s = [seq |-> n,
           targets |-> [j \in DOMAIN r.targets \cup {n} |-> IF j = n THEN x ELSE r.targets[j]]]
  BY DEF AddTarget, Put, x
<1> HIDE DEF s, n
<1>5. /\ DOMAIN s = {"seq", "targets"} /\ s.seq = n
      /\ DOMAIN s.targets = DOMAIN r.targets \cup {n}
      /\ s.targets[n] = x /\ \A i \in DOMAIN r.targets : s.targets[i] = r.targets[i]
      /\ s.targets = [j \in DOMAIN s.targets |-> s.targets[j]]
  BY <1>3, <1>4
<1>6. IsRegistry(s)
  BY <1>2, <1>3, <1>5 DEF IsRegistry
<1>7. Entries(s) = Entries(r) \cup {[id |-> n, tenant |-> t, url |-> url]}
  BY <1>2, <1>3, <1>5 DEF Entries
<1> QED
  BY <1>5, <1>6, <1>7 DEF s, n

LEMMA RevokeEntries ==
    ASSUME NEW r, IsRegistry(r), NEW i
    PROVE  /\ IsRegistry(Revoke(r, i)) /\ Revoke(r, i).seq = r.seq
           /\ Entries(Revoke(r, i)) = {x \in Entries(r) : x.id # i}
<1> DEFINE s == Revoke(r, i)
<1>1. /\ DOMAIN s = {"seq", "targets"} /\ s.seq = r.seq
      /\ s.targets = [j \in DOMAIN r.targets \ {i} |-> r.targets[j]]
  BY DEF Revoke, IsRegistry
<1> HIDE DEF s
<1>2. DOMAIN s.targets = DOMAIN r.targets \ {i}
      /\ \A j \in DOMAIN s.targets : s.targets[j] = r.targets[j]
  BY <1>1
<1>3. IsRegistry(s)
  BY <1>1, <1>2 DEF IsRegistry
<1>4. Entries(s) = {x \in Entries(r) : x.id # i}
  BY <1>2 DEF Entries
<1> QED
  BY <1>1, <1>3, <1>4 DEF s

LEMMA ReviewEntries ==
    ASSUME NEW r, IsRegistry(r), NEW i
    PROVE  /\ IsRegistry(RecordReview(r, i)) /\ RecordReview(r, i).seq = r.seq
           /\ Entries(RecordReview(r, i)) = Entries(r)
<1> DEFINE s == RecordReview(r, i)
           seen == [r.targets[i] EXCEPT !.reviewed = TRUE]
<1>1. /\ DOMAIN s = {"seq", "targets"} /\ s.seq = r.seq
      /\ s.targets = [r.targets EXCEPT ![i] = seen]
  BY DEF RecordReview, IsRegistry
<1>2. i \in DOMAIN r.targets =>
        seen \in Target /\ seen.tenant = r.targets[i].tenant /\ seen.url = r.targets[i].url
  BY DEF IsRegistry, Target
<1> HIDE DEF s, seen
<1>3. /\ r.targets \in [DOMAIN r.targets -> Target] /\ r.seq \in Nat /\ DOMAIN r.targets \subseteq Nat
      /\ DOMAIN s.targets = DOMAIN r.targets
      /\ \A j \in DOMAIN r.targets : s.targets[j] = IF j = i THEN seen ELSE r.targets[j]
  BY <1>1 DEF IsRegistry
<1>4. s.targets \in [DOMAIN s.targets -> Target]
  BY <1>1, <1>2, <1>3
<1>5. \A j \in DOMAIN r.targets : s.targets[j].tenant = r.targets[j].tenant
                               /\ s.targets[j].url = r.targets[j].url
  BY <1>2, <1>3
<1>6. Entries(s) = Entries(r)
  BY <1>3, <1>5 DEF Entries
<1> QED
  BY <1>1, <1>3, <1>4, <1>6 DEF s, IsRegistry

\* The ids in the file are ids that were given out.
LEMMA IdsAreGivenOut ==
    ASSUME NEW r, Faithful(r)
    PROVE  \A i \in DOMAIN r.targets : i <= r.seq
<1> SUFFICES ASSUME NEW i \in DOMAIN r.targets PROVE i <= r.seq
  OBVIOUS
<1>1. [id |-> i, tenant |-> r.targets[i].tenant, url |-> r.targets[i].url] \in Entries(r)
  BY DEF Entries
<1> QED
  BY <1>1 DEF Faithful

\* What a step does to the registry: nothing, it is read, or a holder leaves.
LEMMA RegQuiet ==
    ASSUME RegInv, UNCHANGED <<targVars, targHistVars>>,
           command' \in [Operators -> Commands \cup {NoCommand}]
    PROVE  RegInv'
  BY DEF RegInv, RegTypeOK, InTurn, Faithful, targVars, targHistVars

LEMMA RegOpened ==
    ASSUME RegInv, NEW p \in Procs, NEW v, IsRegistry(v),
           targDisk' = targDisk, targCopy' = [targCopy EXCEPT ![p] = v],
           UNCHANGED <<added, revoked>>,
           command' \in [Operators -> Commands \cup {NoCommand}],
           ~mixed' => ~mixed /\ v = targDisk /\ Targ!Holders = {}
    PROVE  RegInv'
<1>1. /\ targCopy'[p] = v /\ \A q \in Procs : q # p => targCopy'[q] = targCopy[q]
      /\ targCopy' = [q \in Procs |-> targCopy'[q]]
  BY DEF RegInv, RegTypeOK
<1>2. RegTypeOK'
  BY <1>1 DEF RegInv, RegTypeOK
<1>3. ASSUME ~mixed' PROVE InTurn'
  BY <1>1, <1>3 DEF RegInv, InTurn, Faithful, Targ!Holders
<1> QED
  BY <1>2, <1>3 DEF RegInv

LEMMA RegLeft ==
    ASSUME RegInv, NEW p \in Procs, Targ!Forgets(p), mixed' = mixed,
           command' \in [Operators -> Commands \cup {NoCommand}],
           IsRegistry(targDisk'),
           added' \subseteq [id : Nat, tenant : Tenants, url : Hosts], revoked' \subseteq Nat,
           ~mixed => Faithful(targDisk)'
    PROVE  RegInv'
<1>1. /\ targCopy[p] # NoCopy /\ targCopy'[p] = NoCopy
      /\ \A q \in Procs : q # p => targCopy'[q] = targCopy[q]
      /\ targCopy' = [q \in Procs |-> targCopy'[q]]
  BY DEF RegInv, RegTypeOK, Targ!Forgets
<1>2. RegTypeOK'
  BY <1>1 DEF RegInv, RegTypeOK
<1>3. ASSUME ~mixed PROVE InTurn'
  BY <1>1, <1>3 DEF RegInv, InTurn
<1> QED
  BY <1>2, <1>3 DEF RegInv

\* A holder goes without saving.
LEMMA RegClosed ==
    ASSUME RegInv, NEW p \in Procs, Targ!Close(p), UNCHANGED targHistVars,
           command' \in [Operators -> Commands \cup {NoCommand}]
    PROVE  RegInv'
<1>1. Targ!Forgets(p) /\ UNCHANGED <<targDisk, added, revoked, mixed>>
  BY DEF Targ!Close, targHistVars
<1>2. /\ IsRegistry(targDisk') /\ revoked' \subseteq Nat
      /\ added' \subseteq [id : Nat, tenant : Tenants, url : Hosts]
      /\ ~mixed => Faithful(targDisk)'
  BY <1>1 DEF RegInv, RegTypeOK, InTurn, Faithful
<1> QED
  BY <1>1, <1>2, RegLeft

\* The copy a holder changes is what the file holds.
LEMMA HolderHasTheFile ==
    ASSUME RegInv, NEW p \in Procs, targCopy[p] # NoCopy
    PROVE  /\ IsRegistry(targCopy[p])
           /\ ~mixed => targCopy[p] = targDisk /\ Faithful(targCopy[p])
  BY DEF RegInv, RegTypeOK, InTurn

LEMMA RegDirectAdd ==
    ASSUME RegInv, NEW o \in Operators, DirectAdd(o)
    PROVE  RegInv'
<1> DEFINE m == command[o]
           r == targCopy[o]
           s == AddTarget(r, m.tenant, m.url, m.list, m.on)
           x == [id |-> s.seq, tenant |-> m.tenant, url |-> m.url]
<1>1. m \in Commands \cup {NoCommand}
  BY DEF RegInv, RegTypeOK
<1>2. m \in [op : {"direct-add"}, tenant : Tenants, url : Hosts, list : Lists, on : BOOLEAN]
  BY <1>1 DEF DirectAdd, Commands, StoreCommands, BillCommands, TargetCommands, NoCommand
<1>3. /\ m.tenant \in Tenants /\ m.url \in Hosts
      /\ m.list \in SUBSET Hosts /\ m.on \in BOOLEAN
  BY <1>2, VendorAssumption
<1>4. /\ Targ!Forgets(o) /\ targDisk' = s /\ added' = added \cup {x}
      /\ revoked' = revoked /\ mixed' = mixed
      /\ command' = [command EXCEPT ![o] = NoCommand]
  BY DEF DirectAdd, CommandDone, Targ!SaveAndClose
<1>5. o \in Procs /\ r # NoCopy
  BY <1>4, ProcNames DEF Targ!Forgets
<1>6. IsRegistry(r) /\ (~mixed => Faithful(r))
  BY <1>5, HolderHasTheFile
<1>7. command' \in [Operators -> Commands \cup {NoCommand}]
  BY <1>4 DEF RegInv, RegTypeOK
<1> HIDE DEF m, r
<1>8. r.seq \in Nat
  BY <1>6 DEF IsRegistry
<1>9. IsRegistry(s) /\ s.seq = r.seq + 1
  BY <1>3, <1>6, <1>8 DEF IsRegistry, AddTarget, Put, NewTarget, AllowedHosts, Target
<1>10. x \in [id : Nat, tenant : Tenants, url : Hosts] /\ x.id = s.seq
  BY <1>3, <1>8, <1>9
<1>11. ASSUME ~mixed PROVE Faithful(targDisk)'
  <2>1. Faithful(r)
    BY <1>6, <1>11
  <2>2. Entries(s) = Entries(r) \cup {x}
    BY <1>3, <1>6, <2>1, IdsAreGivenOut, AddEntries
  <2>3. \A y \in added : y.id <= r.seq /\ y.id \in Nat
    BY <2>1 DEF Faithful, RegInv, RegTypeOK
  <2>4. \A i \in revoked : i <= r.seq /\ i \in Nat
    BY <2>1 DEF Faithful, RegInv, RegTypeOK
  <2> HIDE DEF s, x
  <2>5. x.id \notin revoked
    BY <1>8, <1>9, <1>10, <2>4
  <2>6. Entries(s) = {y \in added \cup {x} : y.id \notin revoked}
    BY <2>1, <2>2, <2>5 DEF Faithful
  <2>7. \A y \in added \cup {x} : y.id <= s.seq
    BY <1>8, <1>9, <1>10, <2>3
  <2>8. \A i \in revoked : i <= s.seq
    BY <1>8, <1>9, <2>4
  <2>9. Faithful(targDisk)' <=>
          /\ Entries(s) = {y \in added \cup {x} : y.id \notin revoked}
          /\ \A y \in added \cup {x} : y.id <= s.seq
          /\ \A i \in revoked : i <= s.seq
    BY <1>4 DEF Faithful, Entries
  <2> QED
    BY <2>6, <2>7, <2>8, <2>9
<1>12. added' \subseteq [id : Nat, tenant : Tenants, url : Hosts] /\ revoked' \subseteq Nat
  BY <1>4, <1>10 DEF RegInv, RegTypeOK
<1> QED
  BY <1>4, <1>5, <1>7, <1>9, <1>11, <1>12, RegLeft

LEMMA RegDirectRevoke ==
    ASSUME RegInv, NEW o \in Operators, DirectRevoke(o)
    PROVE  RegInv'
<1> DEFINE r == targCopy[o]
           i == command[o].id
           s == Revoke(r, i)
<1>1. /\ command' = [command EXCEPT ![o] = NoCommand] /\ mixed' = mixed /\ added' = added
      /\ o \in Procs
  BY ProcNames DEF DirectRevoke, CommandDone
<1>2. command' \in [Operators -> Commands \cup {NoCommand}]
  BY <1>1 DEF RegInv, RegTypeOK
<1>3. CASE Targ!Close(o) /\ UNCHANGED revoked
  BY <1>1, <1>2, <1>3, RegClosed DEF targHistVars
<1>4. CASE /\ Known(r, i) /\ Targ!SaveAndClose(o, s) /\ revoked' = revoked \cup {i}
  <2>1. Targ!Forgets(o) /\ targDisk' = s /\ r # NoCopy
    BY <1>4 DEF Targ!SaveAndClose, Targ!Forgets
  <2>2. IsRegistry(r) /\ (~mixed => Faithful(r))
    BY <1>1, <2>1, HolderHasTheFile
  <2> HIDE DEF r, i
  <2>3. IsRegistry(s) /\ s.seq = r.seq /\ Entries(s) = {x \in Entries(r) : x.id # i}
    BY <2>2, RevokeEntries
  <2>4. i \in DOMAIN r.targets /\ i \in Nat
    BY <1>4, <2>2 DEF Known, IsRegistry
  <2>5. ASSUME ~mixed PROVE Faithful(targDisk)'
    <3>1. Faithful(r) /\ i <= r.seq
      BY <2>2, <2>4, <2>5, IdsAreGivenOut
    <3> HIDE DEF s
    <3>2. Entries(s) = {x \in added : x.id \notin revoked \cup {i}}
      BY <2>3, <3>1 DEF Faithful
    <3>3. \A x \in added : x.id <= s.seq
      BY <2>3, <3>1 DEF Faithful
    <3>4. \A j \in revoked \cup {i} : j <= s.seq
      BY <2>3, <3>1 DEF Faithful
    <3>5. Faithful(targDisk)' <=>
            /\ Entries(s) = {x \in added : x.id \notin revoked \cup {i}}
            /\ \A x \in added : x.id <= s.seq
            /\ \A j \in revoked \cup {i} : j <= s.seq
      BY <1>1, <1>4, <2>1 DEF Faithful, Entries
    <3> QED
      BY <3>2, <3>3, <3>4, <3>5
  <2>6. added' \subseteq [id : Nat, tenant : Tenants, url : Hosts] /\ revoked' \subseteq Nat
    BY <1>1, <1>4, <2>4 DEF RegInv, RegTypeOK
  <2> QED
    BY <1>1, <1>2, <2>1, <2>3, <2>5, <2>6, RegLeft
<1> QED
  BY <1>3, <1>4 DEF DirectRevoke

LEMMA RegDirectRunEnds ==
    ASSUME RegInv, DirectRunEnds
    PROVE  RegInv'
<1> DEFINE r == targCopy["direct"]
           s == RecordReview(r, run.id)
<1>1. /\ Targ!Forgets("direct") /\ targDisk' = s /\ r # NoCopy
      /\ UNCHANGED <<command, added, revoked, mixed>>
  BY DEF DirectRunEnds, DirectRunGone, RunUnchanged, Targ!SaveAndClose, Targ!Forgets
<1>2. IsRegistry(r) /\ (~mixed => Faithful(r))
  BY <1>1, ProcNames, HolderHasTheFile
<1> HIDE DEF r
<1>3. IsRegistry(s) /\ s.seq = r.seq /\ Entries(s) = Entries(r)
  BY <1>2, ReviewEntries
<1> HIDE DEF s
<1>4. Faithful(targDisk)' <=>
        /\ Entries(s) = {x \in added : x.id \notin revoked}
        /\ \A x \in added : x.id <= s.seq
        /\ \A j \in revoked : j <= s.seq
  BY <1>1 DEF Faithful, Entries
<1>5. ~mixed => Faithful(targDisk)'
  BY <1>2, <1>3, <1>4 DEF Faithful
<1>6. /\ command' \in [Operators -> Commands \cup {NoCommand}] /\ revoked' \subseteq Nat
      /\ added' \subseteq [id : Nat, tenant : Tenants, url : Hosts]
  BY <1>1 DEF RegInv, RegTypeOK
<1> QED
  BY <1>1, <1>3, <1>5, <1>6, ProcNames, RegLeft

LEMMA NextKeepsRegistry ==
    ASSUME RegInv, [Next]_vars
    PROVE  RegInv'
<1>0. /\ command \in [Operators -> Commands \cup {NoCommand}] /\ IsRegistry(targDisk)
      /\ NoCommand \in Commands \cup {NoCommand}
  BY DEF RegInv, RegTypeOK
<1>e. IsRegistry(EmptyRegistry)
  BY DEF IsRegistry, EmptyRegistry
<1>1. CASE UNCHANGED <<targVars, targHistVars, command>>
  BY <1>0, <1>1, RegQuiet
<1>2. ASSUME NEW b \in BOOLEAN, NEW c \in BOOLEAN, ServerStarts(b, c)
      PROVE  UNCHANGED <<targVars, targHistVars, command>>
  BY <1>2 DEF ServerStarts
<1>3. CASE ServerStops
  BY <1>1, <1>3 DEF ServerStops
<1>4. CASE ServerRequests
  BY <1>1, <1>4 DEF ServerRequests, ServerEnrolls, ServerHeartbeat, ServerHandsOut,
     ServerEnqueues, ServerSaves
<1>5. ASSUME NEW w \in Workers, CallStep(w)
      PROVE  UNCHANGED <<targVars, targHistVars, command>>
  BY <1>5 DEF CallStep, CallArrives, CheckEntitled, CheckSpendCap, CallFails,
     CallBackend, MeterAndAnswer, CallUnchanged
<1>6. ASSUME NEW o \in Operators, NEW m \in Commands, NEW b \in BOOLEAN, BeginCommand(o, m, b)
      PROVE  RegInv'
  <2>1. /\ command' \in [Operators -> Commands \cup {NoCommand}]
        /\ UNCHANGED <<added, revoked>> /\ o \in Procs
    BY <1>0, <1>6, ProcNames DEF BeginCommand
  <2>2. CASE UNCHANGED <<targVars, mixed>>
    BY <2>1, <2>2, RegQuiet DEF targHistVars
  <2>3. CASE /\ IF b THEN Targ!Open(o) ELSE Targ!OpenUnread(o)
             /\ mixed' = (mixed \/ ~b \/ Targ!Holders # {})
    <3>1. CASE b
      BY <1>0, <2>1, <2>3, <3>1, RegOpened DEF Targ!Open
    <3>2. CASE ~b
      BY <1>e, <2>1, <2>3, <3>2, RegOpened DEF Targ!OpenUnread
    <3> QED
      BY <3>1, <3>2
  <2> QED
    BY <1>6, <2>2, <2>3 DEF BeginCommand, Commands
<1>7. ASSUME NEW o \in Operators, StoreCommand(o) \/ Subscribe(o) \/ UsageReset(o)
      PROVE  RegInv'
  <2>1. UNCHANGED <<targVars, targHistVars>> /\ command' = [command EXCEPT ![o] = NoCommand]
    BY <1>7 DEF StoreCommand, Subscribe, UsageReset, CommandDone, targHistVars
  <2> QED
    BY <1>0, <2>1, RegQuiet
<1>8. ASSUME NEW o \in Operators, CommandFails(o)
      PROVE  RegInv'
  <2>1. UNCHANGED targHistVars /\ command' = [command EXCEPT ![o] = NoCommand]
        /\ (UNCHANGED targVars \/ Targ!Close(o)) /\ o \in Procs
    BY <1>8, ProcNames DEF CommandFails, CommandDone, targHistVars
  <2>2. command' \in [Operators -> Commands \cup {NoCommand}]
    BY <1>0, <2>1
  <2> QED
    BY <2>1, <2>2, RegQuiet, RegClosed
<1>9. ASSUME NEW o \in Operators, CommandStep(o)
      PROVE  RegInv'
  BY <1>6, <1>7, <1>8, <1>9, RegDirectAdd, RegDirectRevoke DEF CommandStep
<1>10. ASSUME NEW i, NEW b \in BOOLEAN, DirectRunStarts(i, b)
       PROVE  RegInv'
  <2>1. /\ Targ!Open("direct") /\ UNCHANGED <<command, added, revoked>>
        /\ mixed' = (mixed \/ Targ!Holders # {})
    BY <1>10 DEF DirectRunStarts, RunUnchanged
  <2> QED
    BY <1>0, <2>1, ProcNames, RegOpened DEF Targ!Open
<1>11. CASE DirectRunConnects
  BY <1>1, <1>11 DEF DirectRunConnects, RunUnchanged, targHistVars
<1>12. CASE DirectRunDies
  <2>1. Targ!Close("direct") /\ UNCHANGED targHistVars /\ command' = command
    BY <1>12 DEF DirectRunDies, DirectRunGone, RunUnchanged, targHistVars
  <2> QED
    BY <1>0, <2>1, ProcNames, RegClosed
<1>13. CASE UNCHANGED vars
  BY <1>1, <1>13 DEF vars
<1> QED
  BY <1>1, <1>2, <1>3, <1>4, <1>5, <1>9, <1>10, <1>11, <1>12, <1>13, RegDirectRunEnds
  DEF Next, DirectStep

\* Whatever is added, revoked and run one after the other, and wherever a
\* process is killed or a save fails, the registry holds the targets added and
\* not revoked, each under an id that no other target was given: ids come from
\* a counter saved with the targets, which is past every id given out.
THEOREM RegistryIsKept == Spec => []RegistryIsWhatWasDone
<1>1. Init => RegInv
  <2> SUFFICES ASSUME Init PROVE RegInv
    OBVIOUS
  <2>1. IsRegistry(EmptyRegistry) /\ Entries(EmptyRegistry) = {}
    BY DEF IsRegistry, EmptyRegistry, Entries
  <2>2. RegTypeOK
    BY <2>1 DEF Init, RegTypeOK, Targ!Initially
  <2>3. InTurn
    BY <2>1 DEF Init, InTurn, Faithful, Targ!Initially
  <2> QED
    BY <2>2, <2>3 DEF RegInv
<1>2. RegInv /\ [Next]_vars => RegInv'
  BY NextKeepsRegistry
<1>3. RegInv => RegistryIsWhatWasDone
  BY DEF RegInv, InTurn, Faithful, RegistryIsWhatWasDone
<1> QED
  BY <1>1, <1>2, <1>3, PTL DEF Spec

----------------------------------------------------------------------------
(* The billing store: what the ledger holds and the spend cap.             *)

BillTypeOK ==
    /\ billDisk \in Billing
    /\ billCopy \in [Procs -> Billing \cup {NoCopy}]
    /\ command \in [Operators -> Commands \cup {NoCommand}]
    /\ call \in [Workers -> [at : CallStates, tenant : Tenants \cup {Nobody}]]
    /\ opened \in [Serving -> [Tenants -> Nat]]
    /\ answered \in [Serving -> [Tenants -> Nat]]

\* A process that serves calls holds the store, and only such a process has
\* calls under way or has answered any.
Metered ==
    /\ storeCopy["server"] # NoCopy => billCopy["server"] # NoCopy
    /\ run.at \in {"started", "sweeping"} => billCopy["direct"] # NoCopy
    /\ \A w \in Workers :
         call[w].at # "idle" => call[w].tenant \in Tenants /\ billCopy[OwnerOf(w)] # NoCopy
    /\ \A p \in Serving, t \in Tenants :
         billCopy[p] = NoCopy => answered[p][t] = 0

\* Strengthening: a process with calls past the checks holds the store.
BillInv == BillTypeOK /\ Metered /\ LedgerAddsUp

\* Nobody else's subscription, and every ledger a natural number.
LEMMA BillingOperations ==
    ASSUME NEW b \in Billing, NEW t \in Tenants
    PROVE  /\ RecordUsage(b, t) \in Billing
           /\ RecordUsage(b, t).subs = b.subs
           /\ \A u \in Tenants : RecordUsage(b, t).spent[u] =
                IF u = t THEN b.spent[u] + 1 ELSE b.spent[u]
           /\ ResetUsage(b, t) \in Billing
           /\ \A st \in Statuses, k \in 0..MaxCap : SetSubscription(b, t, st, k) \in Billing
<1>0. b.subs \in [Tenants -> Subscription] /\ b.spent \in [Tenants -> Nat]
  BY DEF Billing
<1>1. ASSUME NEW n \in Nat
      PROVE  LET c == [b EXCEPT !.spent = [b.spent EXCEPT ![t] = n]]
             IN /\ c \in Billing
                /\ c.subs = b.subs
                /\ \A u \in Tenants : c.spent[u] = IF u = t THEN n ELSE b.spent[u]
  BY <1>0 DEF Billing
<1>2. b.spent[t] + 1 \in Nat /\ 0 \in Nat
  BY <1>0
<1>3. RecordUsage(b, t) = [b EXCEPT !.spent = [b.spent EXCEPT ![t] = b.spent[t] + 1]]
  BY DEF RecordUsage
<1>4. ResetUsage(b, t) = [b EXCEPT !.spent = [b.spent EXCEPT ![t] = 0]]
  BY DEF ResetUsage
<1>5. ASSUME NEW st \in Statuses, NEW k \in 0..MaxCap
      PROVE  SetSubscription(b, t, st, k) \in Billing
  <2> DEFINE x == [status |-> st, cap |-> k]
  <2>1. x \in Subscription
    BY DEF Subscription
  <2>2. SetSubscription(b, t, st, k) = [b EXCEPT !.subs = [b.subs EXCEPT ![t] = x]]
    BY DEF SetSubscription
  <2> HIDE DEF x
  <2> QED
    BY <1>0, <2>1, <2>2 DEF Billing
<1>6. RecordUsage(b, t) \in Billing /\ RecordUsage(b, t).subs = b.subs
  BY <1>1, <1>2, <1>3
<1>7. \A u \in Tenants : RecordUsage(b, t).spent[u] =
                IF u = t THEN b.spent[u] + 1 ELSE b.spent[u]
  BY <1>1, <1>2, <1>3
<1>8. ResetUsage(b, t) \in Billing
  BY <1>1, <1>2, <1>4
<1> QED
  BY <1>5, <1>6, <1>7, <1>8

LEMMA WorkerNames ==
    /\ Serving \subseteq Procs
    /\ "server" \in Serving /\ "direct" \in Serving /\ Operators \cap Serving = {}
    /\ \A w \in Workers : OwnerOf(w) \in Serving /\ w \in WorkersOf(OwnerOf(w))
    /\ \A p \in Serving : WorkersOf(p) \subseteq Workers
    /\ \A p \in Serving : \A w \in WorkersOf(p) : OwnerOf(w) = p
    /\ \A p \in Serving : IsFiniteSet(WorkersOf(p))
<1>1. ServerThreads \cap RunWorkers = {} /\ IsFiniteSet(ServerThreads) /\ IsFiniteSet(RunWorkers)
  BY VendorAssumption
<1>2. \A p \in Serving : p = "server" \/ p = "direct"
  BY DEF Serving
<1>3. WorkersOf("server") = ServerThreads /\ WorkersOf("direct") = RunWorkers
  BY DEF WorkersOf
<1>4. \A w \in Workers : w \in ServerThreads \/ w \in RunWorkers
  BY DEF Workers
<1>5. /\ \A w \in ServerThreads : OwnerOf(w) = "server"
      /\ \A w \in RunWorkers : OwnerOf(w) = "direct"
  BY <1>1 DEF OwnerOf
<1>6. Serving \subseteq Procs /\ "server" \in Serving /\ "direct" \in Serving
        /\ Operators \cap Serving = {}
  BY VendorAssumption DEF Serving, Procs
<1>7. \A p \in Serving : WorkersOf(p) \subseteq Workers /\ IsFiniteSet(WorkersOf(p))
  BY <1>1, <1>2, <1>3 DEF Workers
<1>8. \A p \in Serving : \A w \in WorkersOf(p) : OwnerOf(w) = p
  BY <1>2, <1>3, <1>5
<1>9. \A w \in Workers : OwnerOf(w) \in Serving /\ w \in WorkersOf(OwnerOf(w))
  BY <1>3, <1>4, <1>5, <1>6
<1> QED
  BY <1>6, <1>7, <1>8, <1>9

LEMMA EmptyIsBilling == EmptyBilling \in Billing /\ \A t \in Tenants : EmptyBilling.spent[t] = 0
  BY VendorAssumption DEF EmptyBilling, Billing, Subscription, Statuses

\* A step that leaves the ledgers and the calls alone.
LEMMA BillQuiet ==
    ASSUME BillInv, UNCHANGED <<billDisk, billCopy, call, opened, answered, run>>,
           command' \in [Operators -> Commands \cup {NoCommand}],
           storeCopy'["server"] # NoCopy => storeCopy["server"] # NoCopy
    PROVE  BillInv'
  BY DEF BillInv, BillTypeOK, Metered, LedgerAddsUp

\* What an operator command does to its own copy, and to the file.
LEMMA BillCommandSteps ==
    ASSUME BillInv, UNCHANGED <<call, opened, answered, run, storeCopy>>,
           command' \in [Operators -> Commands \cup {NoCommand}], NEW o \in Operators
    PROVE  /\ Bill!Open(o) \/ Bill!OpenUnread(o) => BillInv'
           /\ Bill!Close(o) => BillInv'
           /\ \A b \in Billing : Bill!SaveAndClose(o, b) => BillInv'
<1>1. ASSUME NEW c, billCopy' = [billCopy EXCEPT ![o] = c],
             c \in Billing \cup {NoCopy}, billDisk' \in Billing
      PROVE  BillInv'
  <2>1. \A p \in Serving : billCopy'[p] = billCopy[p]
    BY <1>1, WorkerNames, ProcNames DEF BillInv, BillTypeOK
  <2>2. BillTypeOK'
    BY <1>1, ProcNames DEF BillInv, BillTypeOK
  <2> QED
    BY <2>1, <2>2, WorkerNames DEF BillInv, Metered, LedgerAddsUp
<1>2. billDisk \in Billing
  BY DEF BillInv, BillTypeOK
<1> QED
  BY <1>1, <1>2, EmptyIsBilling
  DEF Bill!Open, Bill!OpenUnread, Bill!Close, Bill!SaveAndClose, Bill!Forgets

\* What a process finds when it reads the store.
Found(reads) == IF reads THEN billDisk ELSE EmptyBilling

LEMMA FoundEffect ==
    ASSUME BillInv, NEW p \in Procs, NEW reads \in BOOLEAN,
           IF reads THEN Bill!Open(p) ELSE Bill!OpenUnread(p)
    PROVE  /\ billCopy' = [billCopy EXCEPT ![p] = Found(reads)] /\ billDisk' = billDisk
           /\ billCopy[p] = NoCopy
           /\ Found(reads) \in Billing
           /\ Found(reads).spent = IF reads THEN billDisk.spent ELSE EmptyBilling.spent
  BY EmptyIsBilling DEF Found, Bill!Open, Bill!OpenUnread, BillInv, BillTypeOK

\* A serving process reads the store.
LEMMA BillOpenStep ==
    ASSUME BillInv, NEW p \in Serving, NEW b \in Billing,
           billCopy' = [billCopy EXCEPT ![p] = b], billDisk' = billDisk, billCopy[p] = NoCopy,
           UNCHANGED <<call, answered, command>>,
           opened' = [opened EXCEPT ![p] = b.spent],
           p # "server" => storeCopy' = storeCopy,
           p = "server" => run' = run,
           p = "direct" => run'.at = "started"
    PROVE  BillInv'
<1>1. p \in Procs
  BY WorkerNames
<1>2. b.spent \in [Tenants -> Nat] /\ b # NoCopy
  BY NoCopyAssumption DEF Billing
<1>3. BillTypeOK'
  BY <1>1, <1>2 DEF BillInv, BillTypeOK
<1>4. /\ billCopy'[p] = b /\ opened'[p] = b.spent
      /\ \A q \in Procs : q # p => billCopy'[q] = billCopy[q]
      /\ \A q \in Serving : q # p => opened'[q] = opened[q]
  BY <1>1 DEF BillInv, BillTypeOK
<1>5. \A q \in Procs : billCopy[q] # NoCopy => billCopy'[q] # NoCopy
  BY <1>2, <1>4
<1>6. Metered'
  <2>1. p = "server" \/ p = "direct"
    BY DEF Serving
  <2>2. storeCopy'["server"] # NoCopy => billCopy'["server"] # NoCopy
    BY <2>1, <1>2, <1>4, <1>5, ProcNames DEF BillInv, Metered
  <2>3. run'.at \in {"started", "sweeping"} => billCopy'["direct"] # NoCopy
    BY <2>1, <1>2, <1>4, <1>5, ProcNames DEF BillInv, Metered
  <2>4. \A w \in Workers :
         call'[w].at # "idle" => call'[w].tenant \in Tenants /\ billCopy'[OwnerOf(w)] # NoCopy
    BY <1>5, ProcNames DEF BillInv, Metered
  <2>5. \A q \in Serving, t \in Tenants : billCopy'[q] = NoCopy => answered'[q][t] = 0
    BY <1>5, WorkerNames DEF BillInv, Metered
  <2> QED
    BY <2>2, <2>3, <2>4, <2>5 DEF Metered
<1>7. LedgerAddsUp'
  <2> SUFFICES ASSUME NEW q \in Serving, NEW t \in Tenants, billCopy'[q] # NoCopy
               PROVE  billCopy'[q].spent[t] = opened'[q][t] + answered'[q][t]
    BY DEF LedgerAddsUp
  <2>1. CASE q = p
    <3>1. answered'[q][t] = 0
      BY <2>1 DEF BillInv, Metered
    <3>2. b.spent[t] \in Nat
      BY <1>2
    <3> QED
      BY <2>1, <3>1, <3>2, <1>4
  <2>2. CASE q # p
    BY <2>2, <1>4, WorkerNames DEF BillInv, LedgerAddsUp
  <2> QED
    BY <2>1, <2>2
<1> QED
  BY <1>3, <1>6, <1>7 DEF BillInv

\* A serving process is gone, and its calls with it.
LEMMA BillCloseStep ==
    ASSUME BillInv, NEW p \in Serving, Bill!Close(p), command' = command,
           call' = [w \in Workers |-> IF w \in WorkersOf(p) THEN IdleCall ELSE call[w]],
           opened' = [opened EXCEPT ![p] = [t \in Tenants |-> 0]],
           answered' = [answered EXCEPT ![p] = [t \in Tenants |-> 0]],
           p = "server" => run' = run /\ storeCopy'["server"] = NoCopy,
           p # "server" => run' = NoRun /\ storeCopy' = storeCopy
    PROVE  BillInv'
<1>1. /\ billCopy' = [billCopy EXCEPT ![p] = NoCopy] /\ billDisk' = billDisk
      /\ p \in Procs
  BY WorkerNames DEF Bill!Close, Bill!Forgets
<1>2. IdleCall \in [at : CallStates, tenant : Tenants \cup {Nobody}] /\ IdleCall.at = "idle"
  BY DEF IdleCall, CallStates
<1>3. [t \in Tenants |-> 0] \in [Tenants -> Nat]
  OBVIOUS
<1>4. BillTypeOK'
  BY <1>1, <1>2, <1>3 DEF BillInv, BillTypeOK
<1>5. /\ billCopy'[p] = NoCopy
      /\ \A q \in Procs : q # p => billCopy'[q] = billCopy[q]
      /\ \A t \in Tenants : answered'[p][t] = 0
      /\ \A q \in Serving : q # p => opened'[q] = opened[q] /\ answered'[q] = answered[q]
  BY <1>1 DEF BillInv, BillTypeOK
<1>6. \A w \in Workers : OwnerOf(w) = p => call'[w].at = "idle"
  BY <1>2, WorkerNames
<1>7. \A w \in Workers : OwnerOf(w) # p => call'[w] = call[w]
  BY WorkerNames
<1>8. Metered'
  <2>1. storeCopy'["server"] # NoCopy => billCopy'["server"] # NoCopy
    BY <1>5, ProcNames DEF BillInv, Metered
  <2>2. run'.at \in {"started", "sweeping"} => billCopy'["direct"] # NoCopy
    BY <1>5, ProcNames, WorkerNames DEF BillInv, Metered, Serving, NoRun
  <2>3. \A w \in Workers :
         call'[w].at # "idle" => call'[w].tenant \in Tenants /\ billCopy'[OwnerOf(w)] # NoCopy
    BY <1>5, <1>6, <1>7, ProcNames DEF BillInv, Metered
  <2>4. \A q \in Serving, t \in Tenants : billCopy'[q] = NoCopy => answered'[q][t] = 0
    BY <1>5, WorkerNames DEF BillInv, Metered
  <2> QED
    BY <2>1, <2>2, <2>3, <2>4 DEF Metered
<1>9. LedgerAddsUp'
  BY <1>5, WorkerNames DEF BillInv, LedgerAddsUp
<1> QED
  BY <1>4, <1>8, <1>9 DEF BillInv

\* A call that is not metered moves on or ends.
LEMMA BillCallMoves ==
    ASSUME BillInv, NEW w \in Workers, NEW c \in [at : CallStates, tenant : Tenants \cup {Nobody}],
           call' = [call EXCEPT ![w] = c],
           c.at # "idle" => c.tenant \in Tenants /\ billCopy[OwnerOf(w)] # NoCopy,
           UNCHANGED <<billDisk, billCopy, opened, answered, run, storeCopy, command>>
    PROVE  BillInv'
<1>1. BillTypeOK'
  BY DEF BillInv, BillTypeOK
<1>2. call'[w] = c /\ \A v \in Workers : v # w => call'[v] = call[v]
  BY DEF BillInv, BillTypeOK
<1>3. Metered'
  BY <1>2 DEF BillInv, Metered
<1>4. LedgerAddsUp'
  BY DEF BillInv, LedgerAddsUp
<1> QED
  BY <1>1, <1>3, <1>4 DEF BillInv

\* What metering does to the copy, the history and the calls.
LEMMA MeterEffect ==
    ASSUME BillInv, NEW w \in Workers, MeterAndAnswer(w)
    PROVE  LET p == OwnerOf(w)
               t == call[w].tenant
           IN /\ p \in Serving /\ p \in Procs /\ t \in Tenants
              /\ billCopy[p] \in Billing /\ billCopy[p] # NoCopy
              /\ billCopy' = [billCopy EXCEPT ![p] = RecordUsage(billCopy[p], t)]
              /\ billDisk' \in Billing
              /\ answered'[p][t] = answered[p][t] + 1
              /\ \A u \in Tenants : u # t => answered'[p][u] = answered[p][u]
              /\ \A q \in Serving : q # p => answered'[q] = answered[q]
              /\ answered' \in [Serving -> [Tenants -> Nat]]
              /\ call' = [call EXCEPT ![w] = IdleCall]
              /\ UNCHANGED <<opened, run, storeCopy, command>>
<1> DEFINE p == OwnerOf(w)
           t == call[w].tenant
<1>1. p \in Serving /\ p \in Procs
  BY WorkerNames, ProcNames
<1>2. t \in Tenants /\ billCopy[p] # NoCopy
  BY DEF MeterAndAnswer, BillInv, Metered
<1>3. billCopy[p] \in Billing
  BY <1>1, <1>2 DEF BillInv, BillTypeOK
<1>4. /\ billCopy' = [billCopy EXCEPT ![p] = RecordUsage(billCopy[p], t)]
      /\ billDisk' = RecordUsage(billCopy[p], t) \/ billDisk' = billDisk
  BY DEF MeterAndAnswer, Bill!Save, Bill!SaveFails
<1>12. billDisk' \in Billing
  BY <1>2, <1>3, <1>4, BillingOperations DEF BillInv, BillTypeOK
<1>5. answered' = [answered EXCEPT ![p] = [answered[p] EXCEPT ![t] = answered[p][t] + 1]]
  BY DEF MeterAndAnswer, Answered
<1>6. call' = [call EXCEPT ![w] = IdleCall] /\ UNCHANGED <<opened, run, storeCopy, command>>
  BY DEF MeterAndAnswer, Answered, Ends, CallUnchanged, storeVars
<1>7. answered[p] \in [Tenants -> Nat]
  BY <1>1 DEF BillInv, BillTypeOK
<1>8. [answered[p] EXCEPT ![t] = answered[p][t] + 1] \in [Tenants -> Nat]
  BY <1>2, <1>7
<1>9. answered \in [Serving -> [Tenants -> Nat]]
  BY DEF BillInv, BillTypeOK
<1>10. /\ answered'[p] = [answered[p] EXCEPT ![t] = answered[p][t] + 1]
       /\ \A q \in Serving : q # p => answered'[q] = answered[q]
       /\ answered' \in [Serving -> [Tenants -> Nat]]
  BY <1>1, <1>5, <1>8, <1>9
<1>11. /\ answered'[p][t] = answered[p][t] + 1
       /\ \A u \in Tenants : u # t => answered'[p][u] = answered[p][u]
  BY <1>2, <1>7, <1>10
<1> QED
  BY <1>1, <1>2, <1>3, <1>4, <1>6, <1>10, <1>11, <1>12

LEMMA BillMeterStep ==
    ASSUME BillInv, NEW w \in Workers, MeterAndAnswer(w)
    PROVE  BillInv'
<1> DEFINE p == OwnerOf(w)
           t == call[w].tenant
           b == RecordUsage(billCopy[p], t)
<1>1. b \in Billing /\ b # NoCopy
  BY MeterEffect, BillingOperations, NoCopyAssumption
<1>2. billCopy'[p] = b /\ \A q \in Procs : q # p => billCopy'[q] = billCopy[q]
  BY MeterEffect DEF BillInv, BillTypeOK
<1>3. IdleCall \in [at : CallStates, tenant : Tenants \cup {Nobody}] /\ IdleCall.at = "idle"
  BY DEF IdleCall, CallStates
<1>4. BillTypeOK'
  <2>1. /\ billDisk' \in Billing /\ billCopy' = [billCopy EXCEPT ![p] = b] /\ p \in Procs
        /\ call' = [call EXCEPT ![w] = IdleCall] /\ opened' = opened /\ command' = command
        /\ answered' \in [Serving -> [Tenants -> Nat]]
    BY MeterEffect
  <2> HIDE DEF b, p, t
  <2> QED
    BY <1>1, <1>3, <2>1 DEF BillInv, BillTypeOK
<1>5. \A v \in Workers : call'[v].at # "idle" => call'[v] = call[v]
  BY <1>3, MeterEffect DEF BillInv, BillTypeOK
<1> HIDE DEF b
<1>6. \A q \in Procs : billCopy[q] # NoCopy <=> billCopy'[q] # NoCopy
  BY <1>1, <1>2, MeterEffect
<1>7. Metered'
  <2>1. \A q \in Serving, u \in Tenants : billCopy'[q] = NoCopy => answered'[q][u] = 0
    BY <1>1, <1>2, <1>6, MeterEffect, WorkerNames DEF BillInv, Metered
  <2> QED
    BY <2>1, <1>5, <1>6, MeterEffect, ProcNames DEF BillInv, Metered
<1>8. LedgerAddsUp'
  <2> SUFFICES ASSUME NEW q \in Serving, NEW u \in Tenants, billCopy'[q] # NoCopy
               PROVE  billCopy'[q].spent[u] = opened'[q][u] + answered'[q][u]
    BY DEF LedgerAddsUp
  <2>1. CASE q # p
    BY <2>1, <1>2, MeterEffect, WorkerNames DEF BillInv, LedgerAddsUp
  <2>2. CASE q = p
    <3>1. b.spent[u] = IF u = t THEN billCopy[p].spent[u] + 1 ELSE billCopy[p].spent[u]
      <4>1. billCopy[p] \in Billing /\ t \in Tenants
        BY MeterEffect
      <4> HIDE DEF p, t
      <4> QED
        BY <4>1, BillingOperations DEF b
    <3>2. billCopy[p].spent[u] = opened[p][u] + answered[p][u]
      BY MeterEffect DEF BillInv, LedgerAddsUp
    <3>3. opened[p][u] \in Nat /\ answered[p][u] \in Nat
      BY MeterEffect DEF BillInv, BillTypeOK
    <3>4. answered'[p][u] = IF u = t THEN answered[p][u] + 1 ELSE answered[p][u]
      BY MeterEffect
    <3>5. opened' = opened
      BY MeterEffect
    <3> QED
      BY <2>2, <3>1, <3>2, <3>3, <3>4, <3>5, <1>2
  <2> QED
    BY <2>1, <2>2
<1> QED
  BY <1>4, <1>7, <1>8 DEF BillInv

\* Every step of a call but the last.
LEMMA BillCallStep ==
    ASSUME BillInv, NEW w \in Workers, CallStep(w), ~MeterAndAnswer(w)
    PROVE  /\ BillInv'
           /\ UNCHANGED <<billDisk, billCopy, opened>>
           /\ \A v \in Workers : v # w => call'[v] = call[v]
           /\ call'[w].at = "admitted" => CheckSpendCap(w)
           /\ call'[w].at = "paid" => call[w].at = "admitted"
           /\ call'[w].at \in {"admitted", "paid"} => call'[w].tenant = call[w].tenant
<1> DEFINE Slot == [at : CallStates, tenant : Tenants \cup {Nobody}]
<1>0. /\ call \in [Workers -> Slot]
      /\ call[w].at # "idle" => call[w].tenant \in Tenants /\ billCopy[OwnerOf(w)] # NoCopy
      /\ storeCopy["server"] # NoCopy => billCopy["server"] # NoCopy
      /\ run.at = "sweeping" => billCopy["direct"] # NoCopy
  BY DEF BillInv, BillTypeOK, Metered
<1>1. UNCHANGED <<billDisk, billCopy, opened, answered, run, storeCopy, command>>
  BY DEF CallStep, CallArrives, CheckEntitled, CheckSpendCap, CallFails, CallBackend,
         CallUnchanged, billVars, storeVars
<1>2. ASSUME NEW t \in Tenants, CallArrives(w, t)
      PROVE  \E c \in Slot : /\ call' = [call EXCEPT ![w] = c] /\ c.at = "authenticated"
                            /\ c.tenant \in Tenants /\ billCopy[OwnerOf(w)] # NoCopy
  <2>1. billCopy[OwnerOf(w)] # NoCopy
    BY <1>2, <1>0 DEF CallArrives, OwnerOf, ServerStore
  <2>2. [at |-> "authenticated", tenant |-> t] \in Slot
    BY DEF CallStates
  <2> QED
    BY <1>2, <2>1, <2>2 DEF CallArrives
<1>3. ASSUME NEW to \in CallStates, Goes(w, to), call[w].at # "idle"
      PROVE  \E c \in Slot : /\ call' = [call EXCEPT ![w] = c] /\ c.at = to
                            /\ c.tenant = call[w].tenant
  <2> DEFINE c == [call[w] EXCEPT !.at = to]
  <2>1. c \in Slot /\ c.at = to /\ c.tenant = call[w].tenant
    BY <1>0
  <2>2. call' = [call EXCEPT ![w] = c]
    BY <1>3 DEF Goes
  <2> QED
    BY <2>1, <2>2
<1>4. IdleCall \in Slot /\ IdleCall.at = "idle"
  BY DEF IdleCall, CallStates
<1>5. \E c \in Slot :
        /\ call' = [call EXCEPT ![w] = c]
        /\ c.at # "idle" => c.tenant \in Tenants /\ billCopy[OwnerOf(w)] # NoCopy
        /\ c.at = "admitted" => CheckSpendCap(w)
        /\ c.at = "paid" => call[w].at = "admitted"
        /\ c.at \in {"admitted", "paid"} => c.tenant = call[w].tenant
  <2>1. CASE \E t \in Tenants : CallArrives(w, t)
    BY <1>2, <2>1
  <2>2. CASE CheckEntitled(w)
    <3>1. call[w].at # "idle" /\ (Goes(w, "entitled") \/ Ends(w)) /\ "entitled" \in CallStates
      BY <2>2 DEF CheckEntitled, CallStates
    <3>2. CASE Goes(w, "entitled")
      BY <3>1, <3>2, <1>3, <1>0
    <3>3. CASE Ends(w)
      BY <3>3, <1>4 DEF Ends
    <3> QED
      BY <3>1, <3>2, <3>3
  <2>3. CASE CheckSpendCap(w)
    <3>1. call[w].at # "idle" /\ (Goes(w, "admitted") \/ Ends(w)) /\ "admitted" \in CallStates
      BY <2>3 DEF CheckSpendCap, CallStates
    <3>2. CASE Goes(w, "admitted")
      BY <2>3, <3>1, <3>2, <1>3, <1>0
    <3>3. CASE Ends(w)
      BY <3>3, <1>4 DEF Ends
    <3> QED
      BY <3>1, <3>2, <3>3
  <2>4. CASE CallFails(w)
    BY <2>4, <1>4 DEF CallFails, Ends
  <2>5. CASE CallBackend(w)
    <3>1. call[w].at = "admitted" /\ Goes(w, "paid") /\ "paid" \in CallStates
      BY <2>5 DEF CallBackend, CallStates
    <3> QED
      BY <3>1, <1>3, <1>0
  <2> QED
    BY <2>1, <2>2, <2>3, <2>4, <2>5 DEF CallStep
<1>6. PICK c \in Slot :
        /\ call' = [call EXCEPT ![w] = c]
        /\ c.at # "idle" => c.tenant \in Tenants /\ billCopy[OwnerOf(w)] # NoCopy
        /\ c.at = "admitted" => CheckSpendCap(w)
        /\ c.at = "paid" => call[w].at = "admitted"
        /\ c.at \in {"admitted", "paid"} => c.tenant = call[w].tenant
  BY <1>5
<1>7. BillInv'
  BY <1>1, <1>6, BillCallMoves
<1>8. call'[w] = c /\ \A v \in Workers : v # w => call'[v] = call[v]
  BY <1>0, <1>6
<1> QED
  BY <1>1, <1>6, <1>7, <1>8

\* What the other actions do to the billing store.
LEMMA NextKeepsBill ==
    ASSUME AllLone, BillInv, [Next]_vars
    PROVE  BillInv'
<1> USE WorkerNames
<1>11. storeCopy = [p \in Procs |-> storeCopy[p]]
  BY DEF AllLone, Lone
<1>0. /\ command \in [Operators -> Commands \cup {NoCommand}]
      /\ \A o \in Operators :
            [command EXCEPT ![o] = NoCommand] \in [Operators -> Commands \cup {NoCommand}]
  BY DEF BillInv, BillTypeOK
<1>1. CASE UNCHANGED vars
  BY <1>0, <1>1, BillQuiet DEF vars, billVars, storeVars, histVars
<1>2. ASSUME NEW a \in BOOLEAN, NEW b \in BOOLEAN, ServerStarts(a, b)
      PROVE  BillInv'
  <2>1. /\ IF b THEN Bill!Open("server") ELSE Bill!OpenUnread("server")
        /\ UNCHANGED <<call, answered, command, run>>
        /\ opened' = [opened EXCEPT !["server"] =
                        IF b THEN billDisk.spent ELSE EmptyBilling.spent]
    BY <1>2 DEF ServerStarts
  <2>2. /\ billCopy' = [billCopy EXCEPT !["server"] = Found(b)] /\ billDisk' = billDisk
        /\ billCopy["server"] = NoCopy /\ Found(b) \in Billing
        /\ opened' = [opened EXCEPT !["server"] = Found(b).spent]
    BY <2>1, FoundEffect
  <2> QED
    BY <2>1, <2>2, BillOpenStep
<1>3. CASE ServerStops
  <2>1. /\ Bill!Close("server") /\ command' = command /\ run' = run
        /\ call' = [w \in Workers |-> IF w \in ServerThreads THEN IdleCall ELSE call[w]]
        /\ opened' = [opened EXCEPT !["server"] = [t \in Tenants |-> 0]]
        /\ answered' = [answered EXCEPT !["server"] = [t \in Tenants |-> 0]]
    BY <1>3 DEF ServerStops
  <2>2. storeCopy'["server"] = NoCopy
    <3>1. storeCopy' = [storeCopy EXCEPT !["server"] = NoCopy]
      BY <1>3 DEF ServerStops, Store!Close, Store!Forgets
    <3> QED
      BY <3>1, <1>11, ProcNames
  <2>3. ServerThreads = WorkersOf("server")
    BY DEF WorkersOf
  <2> QED
    BY <2>1, <2>2, <2>3, BillCloseStep
<1>4. CASE ServerRequests
  <2>1. PICK content : ServerSaves(content)
    BY <1>4 DEF ServerRequests, ServerEnrolls, ServerHeartbeat, ServerHandsOut, ServerEnqueues
  <2>2. /\ UNCHANGED <<billDisk, billCopy, call, opened, answered, run, command>>
        /\ storeCopy["server"] # NoCopy
    BY <2>1 DEF ServerSaves, Store!Save, Store!SaveFails, billVars, histVars
  <2> QED
    BY <1>0, <2>2, BillQuiet
<1>5. ASSUME NEW w \in Workers, CallStep(w)
      PROVE  BillInv'
  BY <1>5, BillCallStep, BillMeterStep
<1>6. ASSUME NEW o \in Operators, CommandStep(o)
      PROVE  BillInv'
  <2>0. o \in Procs /\ o # "server"
    BY ProcNames
  <2>1. ASSUME UNCHANGED billVars, UNCHANGED <<call, histVars, run>>,
               storeCopy'["server"] = storeCopy["server"],
               command' \in [Operators -> Commands \cup {NoCommand}]
        PROVE  BillInv'
    BY <2>1, BillQuiet DEF billVars, histVars
  <2>2. ASSUME NEW m \in Commands, NEW reads \in BOOLEAN, BeginCommand(o, m, reads)
        PROVE  BillInv'
    <3>1. /\ UNCHANGED <<call, opened, answered, run>>
          /\ command' \in [Operators -> Commands \cup {NoCommand}]
      BY <1>0, <2>2 DEF BeginCommand, histVars
    <3>2. CASE UNCHANGED billVars
      <4>1. storeCopy'["server"] = storeCopy["server"]
        BY <2>2, <1>11, <2>0 DEF BeginCommand, Commands, Store!Open, Store!OpenUnread, storeVars
      <4> QED
        BY <2>1, <3>1, <3>2, <4>1 DEF histVars
    <3>3. CASE (Bill!Open(o) \/ Bill!OpenUnread(o)) /\ storeCopy' = storeCopy
      BY <3>1, <3>3, BillCommandSteps
    <3> QED
      BY <2>2, <3>2, <3>3 DEF BeginCommand, Commands, storeVars
  <2>3. CASE StoreCommand(o)
    <3>1. UNCHANGED billVars /\ UNCHANGED <<call, histVars, run>>
          /\ command' = [command EXCEPT ![o] = NoCommand]
      BY <2>3 DEF StoreCommand, CommandDone
    <3>2. Store!Forgets(o)
      BY <2>3 DEF StoreCommand, Store!SaveAndClose, Store!Close
    <3>3. storeCopy'["server"] = storeCopy["server"]
      BY <3>2, <1>11, <2>0, ProcNames DEF Store!Forgets
    <3> QED
      BY <1>0, <2>1, <3>1, <3>3
  <2>4. CASE Subscribe(o)
    <3>1. command[o] \in [op : {"subscribe"}, tenant : Tenants,
                          status : {"active", "suspended"}, cap : 0..MaxCap]
      BY <1>0, <2>4 DEF Subscribe, Commands, StoreCommands, BillCommands,
         TargetCommands, NoCommand
    <3>2. /\ command[o].tenant \in Tenants /\ command[o].status \in Statuses
          /\ command[o].cap \in 0..MaxCap
      BY <3>1 DEF Statuses
    <3>3. /\ Bill!SaveAndClose(o, SetSubscription(billCopy[o],
                command[o].tenant, command[o].status, command[o].cap))
          /\ UNCHANGED <<call, opened, answered, run, storeCopy>>
          /\ command' = [command EXCEPT ![o] = NoCommand]
      BY <2>4 DEF Subscribe, CommandDone, histVars, storeVars
    <3>4. billCopy[o] \in Billing
      BY <3>3, <2>0 DEF BillInv, BillTypeOK, Bill!SaveAndClose, Bill!Forgets
    <3> QED
      BY <1>0, <3>2, <3>3, <3>4, BillingOperations, BillCommandSteps
  <2>5. CASE UsageReset(o)
    <3>1. command[o] \in [op : {"usage-reset"}, tenant : Tenants]
      BY <1>0, <2>5 DEF UsageReset, Commands, StoreCommands, BillCommands,
         TargetCommands, NoCommand
    <3>2. command[o].tenant \in Tenants
      BY <3>1
    <3>3. /\ Bill!SaveAndClose(o, ResetUsage(billCopy[o], command[o].tenant))
          /\ UNCHANGED <<call, opened, answered, run, storeCopy>>
          /\ command' = [command EXCEPT ![o] = NoCommand]
      BY <2>5 DEF UsageReset, CommandDone, histVars, storeVars
    <3>4. billCopy[o] \in Billing
      BY <3>3, <2>0 DEF BillInv, BillTypeOK, Bill!SaveAndClose, Bill!Forgets
    <3> QED
      BY <1>0, <3>2, <3>3, <3>4, BillingOperations, BillCommandSteps
  <2>6. CASE DirectAdd(o) \/ DirectRevoke(o)
    <3>1. UNCHANGED billVars /\ UNCHANGED <<call, histVars, run>>
          /\ command' = [command EXCEPT ![o] = NoCommand] /\ storeCopy' = storeCopy
      BY <2>6 DEF DirectAdd, DirectRevoke, CommandDone, storeVars
    <3> QED
      BY <1>0, <2>1, <3>1
  <2>7. CASE CommandFails(o)
    <3>1. /\ UNCHANGED <<call, opened, answered, run>>
          /\ command' = [command EXCEPT ![o] = NoCommand]
      BY <2>7 DEF CommandFails, CommandDone, histVars
    <3>2. CASE UNCHANGED billVars
      <4>1. storeCopy'["server"] = storeCopy["server"]
        BY <2>7, <1>11, <2>0, ProcNames DEF CommandFails, Store!Close, Store!Forgets, storeVars
      <4> QED
        BY <1>0, <2>1, <3>1, <3>2, <4>1 DEF histVars
    <3>3. CASE Bill!Close(o) /\ command[o] \in BillCommands
      <4>1. command[o] \notin StoreCommands
        BY <3>3 DEF StoreCommands, BillCommands
      <4>2. storeCopy' = storeCopy
        BY <2>7, <4>1 DEF CommandFails, storeVars
      <4> QED
        BY <1>0, <3>1, <3>3, <4>2, BillCommandSteps
    <3> QED
      BY <2>7, <3>2, <3>3 DEF CommandFails
  <2> QED
    BY <1>6, <2>2, <2>3, <2>4, <2>5, <2>6, <2>7 DEF CommandStep
<1>7. CASE DirectStep
  <2>1. ASSUME NEW i, NEW b \in BOOLEAN, DirectRunStarts(i, b)
        PROVE  BillInv'
    <3>1. /\ IF b THEN Bill!Open("direct") ELSE Bill!OpenUnread("direct")
          /\ UNCHANGED <<call, answered, command, storeCopy>>
          /\ opened' = [opened EXCEPT !["direct"] =
                          IF b THEN billDisk.spent ELSE EmptyBilling.spent]
          /\ run'.at = "started"
      BY <2>1 DEF DirectRunStarts, RunUnchanged, storeVars
    <3>2. /\ billCopy' = [billCopy EXCEPT !["direct"] = Found(b)] /\ billDisk' = billDisk
          /\ billCopy["direct"] = NoCopy /\ Found(b) \in Billing
          /\ opened' = [opened EXCEPT !["direct"] = Found(b).spent]
      BY <3>1, FoundEffect
    <3> QED
      BY <3>1, <3>2, BillOpenStep
  <2>2. CASE DirectRunConnects
    <3>1. UNCHANGED <<billDisk, billCopy, call, opened, answered, storeCopy, command>>
      BY <2>2 DEF DirectRunConnects, RunUnchanged, billVars, histVars, storeVars
    <3>2. billCopy["direct"] # NoCopy
      BY <2>2 DEF DirectRunConnects, BillInv, Metered
    <3> QED
      BY <3>1, <3>2 DEF BillInv, BillTypeOK, Metered, LedgerAddsUp
  <2>3. CASE DirectRunGone
    <3>1. /\ Bill!Close("direct") /\ command' = command /\ storeCopy' = storeCopy
          /\ call' = [w \in Workers |-> IF w \in RunWorkers THEN IdleCall ELSE call[w]]
          /\ opened' = [opened EXCEPT !["direct"] = [t \in Tenants |-> 0]]
          /\ answered' = [answered EXCEPT !["direct"] = [t \in Tenants |-> 0]]
          /\ run' = NoRun
      BY <2>3 DEF DirectRunGone, RunUnchanged, storeVars
    <3>2. RunWorkers = WorkersOf("direct")
      BY DEF WorkersOf
    <3> QED
      BY <3>1, <3>2, BillCloseStep
  <2> QED
    BY <1>7, <2>1, <2>2, <2>3 DEF DirectStep, DirectRunEnds, DirectRunDies
<1> QED
  BY <1>1, <1>2, <1>3, <1>4, <1>5, <1>6, <1>7 DEF Next

LEMMA BillInvAlways == Spec => []BillInv
<1>1. Init => BillInv
  <2> SUFFICES ASSUME Init PROVE BillInv
    OBVIOUS
  <2>1. EmptyBilling \in Billing /\ \A t \in Tenants : EmptyBilling.spent[t] = 0
    BY EmptyIsBilling
  <2>2. IdleCall \in [at : CallStates, tenant : Tenants \cup {Nobody}] /\ IdleCall.at = "idle"
    BY DEF IdleCall, CallStates
  <2>3. BillTypeOK
    BY <2>1, <2>2 DEF Init, BillTypeOK, Bill!Initially
  <2>4. Metered
    BY <2>2, ProcNames, WorkerNames DEF Init, Metered, Store!Initially, NoRun
  <2>5. LedgerAddsUp
    BY WorkerNames DEF Init, LedgerAddsUp, Bill!Initially
  <2> QED
    BY <2>3, <2>4, <2>5 DEF BillInv
<1>2. AllLone /\ BillInv /\ [Next]_vars => BillInv'
  BY NextKeepsBill
<1> QED
  BY <1>1, <1>2, AllLoneAlways, PTL DEF Spec

\* Threads that record usage at the same time lose no call: what a process
\* holds of a tenant's ledger is what it found plus every call the vendor's
\* model has answered it since.
THEOREM LedgerKeepsEveryCall == Spec => []LedgerAddsUp
<1>3. BillInv => LedgerAddsUp
  BY DEF BillInv
<1> QED
  BY <1>3, BillInvAlways, PTL

----------------------------------------------------------------------------
(* The spend cap.                                                          *)

\* The bound for one tenant in one process.
SpendAt(p, t) ==
    LET mine == billCopy[p]
        cap == mine.subs[t].cap
    IN mine # NoCopy /\ cap > 0 =>
        mine.spent[t] + Cardinality(Passed(p, t)) <=
            IF opened[p][t] >= cap THEN opened[p][t]
            ELSE cap - 1 + Cardinality(WorkersOf(p))

LEMMA SpendAtEverywhere ==
    SpendBounded <=> \A p \in Serving, t \in Tenants : SpendAt(p, t)
  BY DEF SpendBounded, SpendAt

LEMMA SpendNumbers ==
    ASSUME BillInv, NEW p \in Serving, NEW t \in Tenants, billCopy[p] # NoCopy
    PROVE  /\ billCopy[p].spent[t] \in Nat /\ billCopy[p].subs[t].cap \in Nat
           /\ opened[p][t] \in Nat /\ opened[p][t] <= billCopy[p].spent[t]
<1>1. billCopy[p] \in Billing
  BY WorkerNames DEF BillInv, BillTypeOK
<1>2. billCopy[p].spent[t] \in Nat /\ billCopy[p].subs[t] \in Subscription
  BY <1>1 DEF Billing
<1>3. billCopy[p].subs[t].cap \in Nat
  BY <1>2, VendorAssumption DEF Subscription
<1>4. opened[p][t] \in Nat /\ answered[p][t] \in Nat
  BY DEF BillInv, BillTypeOK
<1>5. billCopy[p].spent[t] = opened[p][t] + answered[p][t]
  BY DEF BillInv, LedgerAddsUp
<1> QED
  BY <1>2, <1>3, <1>4, <1>5

\* The calls past the checks are calls of workers.
LEMMA PassedIsFinite ==
    ASSUME NEW p \in Serving, NEW t
    PROVE  /\ IsFiniteSet(Passed(p, t)) /\ Cardinality(Passed(p, t)) \in Nat
           /\ Cardinality(WorkersOf(p)) \in Nat
           /\ Cardinality(Passed(p, t)) <= Cardinality(WorkersOf(p))
<1>1. Passed(p, t) \subseteq WorkersOf(p) /\ IsFiniteSet(WorkersOf(p))
  BY WorkerNames DEF Passed
<1> QED
  BY <1>1, FS_Subset, FS_CardinalityType

\* The same at the next state.
LEMMA PassedIsFiniteNext ==
    ASSUME NEW p \in Serving, NEW t
    PROVE  /\ IsFiniteSet(Passed(p, t)') /\ Cardinality(Passed(p, t)') \in Nat
           /\ Cardinality(Passed(p, t)') <= Cardinality(WorkersOf(p))
<1>1. Passed(p, t)' \subseteq WorkersOf(p) /\ IsFiniteSet(WorkersOf(p))
  BY WorkerNames DEF Passed
<1> QED
  BY <1>1, FS_Subset, FS_CardinalityType

\* A step of somebody else, or one that only ends calls.
LEMMA SpendQuiet ==
    ASSUME BillInv, NEW p \in Serving, NEW t \in Tenants, SpendAt(p, t),
           billCopy'[p] = billCopy[p], opened'[p] = opened[p],
           Passed(p, t)' \subseteq Passed(p, t)
    PROVE  SpendAt(p, t)'
<1>1. Cardinality(Passed(p, t)') <= Cardinality(Passed(p, t))
  BY PassedIsFinite, FS_Subset
<1>2. Cardinality(Passed(p, t)') \in Nat /\ Cardinality(Passed(p, t)) \in Nat
      /\ Cardinality(WorkersOf(p)) \in Nat
  BY PassedIsFinite, PassedIsFiniteNext
<1>3. CASE billCopy[p] = NoCopy
  BY <1>3 DEF SpendAt
<1>4. CASE billCopy[p] # NoCopy
  BY <1>1, <1>2, <1>4, SpendNumbers DEF SpendAt
<1> QED
  BY <1>3, <1>4

\* A process that has just read the store serves nobody yet.
LEMMA SpendOpened ==
    ASSUME BillInv', NEW p \in Serving, NEW t \in Tenants,
           billCopy'[p] # NoCopy => billCopy'[p].spent[t] = opened'[p][t],
           Passed(p, t)' = {}
    PROVE  SpendAt(p, t)'
<1>1. Cardinality(Passed(p, t)') = 0 /\ Cardinality(WorkersOf(p)) \in Nat
  BY FS_EmptySet, PassedIsFinite
<1>2. CASE billCopy'[p] = NoCopy
  BY <1>2 DEF SpendAt
<1>3. CASE billCopy'[p] # NoCopy
  <2>1. /\ billCopy'[p].spent[t] \in Nat /\ billCopy'[p].subs[t].cap \in Nat
        /\ opened'[p][t] \in Nat
    <3>1. billCopy'[p] \in Billing /\ opened' \in [Serving -> [Tenants -> Nat]]
      BY <1>3, WorkerNames DEF BillInv, BillTypeOK
    <3>2. billCopy'[p].spent[t] \in Nat /\ billCopy'[p].subs[t] \in Subscription
      BY <3>1 DEF Billing
    <3> QED
      BY <3>1, <3>2, VendorAssumption DEF Subscription
  <2> QED
    BY <1>1, <1>3, <2>1 DEF SpendAt
<1> QED
  BY <1>2, <1>3

\* A call under the cap may pass, whoever else passes with it.
LEMMA SpendAdmitted ==
    ASSUME BillInv, NEW p \in Serving, NEW t \in Tenants,
           billCopy'[p] = billCopy[p], opened'[p] = opened[p],
           billCopy[p] # NoCopy => UnderCap(billCopy[p], t)
    PROVE  SpendAt(p, t)'
<1>1. CASE billCopy[p] = NoCopy
  BY <1>1 DEF SpendAt
<1>2. CASE billCopy[p] # NoCopy
  BY <1>2, SpendNumbers, PassedIsFinite, PassedIsFiniteNext DEF SpendAt, UnderCap
<1> QED
  BY <1>1, <1>2

\* The call that is recorded is one of those under way.
LEMMA SpendMetered ==
    ASSUME BillInv, SpendBounded, NEW w \in Workers, MeterAndAnswer(w),
           NEW t \in Tenants, t = call[w].tenant
    PROVE  SpendAt(OwnerOf(w), t)'
<1> DEFINE p == OwnerOf(w)
<1>1. /\ p \in Serving /\ p \in Procs /\ w \in WorkersOf(p)
      /\ billCopy[p] \in Billing /\ billCopy[p] # NoCopy
      /\ billCopy' = [billCopy EXCEPT ![p] = RecordUsage(billCopy[p], t)]
      /\ call' = [call EXCEPT ![w] = IdleCall] /\ opened' = opened
  BY MeterEffect, WorkerNames
<1>2. billCopy'[p] = RecordUsage(billCopy[p], t)
  BY <1>1 DEF BillInv, BillTypeOK
<1>3. call'[w].at = "idle" /\ \A v \in Workers : v # w => call'[v] = call[v]
  BY <1>1 DEF BillInv, BillTypeOK, IdleCall
<1>4. call[w].at = "paid"
  BY DEF MeterAndAnswer
<1> HIDE DEF p
<1>5. /\ billCopy'[p].subs = billCopy[p].subs
      /\ billCopy'[p].spent[t] = billCopy[p].spent[t] + 1
  BY <1>1, <1>2, BillingOperations
<1>6. w \in Passed(p, t) /\ Passed(p, t)' = Passed(p, t) \ {w}
  BY <1>1, <1>3, <1>4, WorkerNames DEF Passed
<1>7. Cardinality(Passed(p, t)') = Cardinality(Passed(p, t)) - 1
  <2>1. IsFiniteSet(Passed(p, t))
    BY <1>1, PassedIsFinite
  <2>2. Cardinality(Passed(p, t) \ {w}) = Cardinality(Passed(p, t)) - 1
    BY <1>6, <2>1, FS_RemoveElement, Zenon
  <2> QED
    BY <1>6, <2>2, Zenon
<1>8. SpendAt(p, t)
  BY <1>1, SpendAtEverywhere
<1>9. SpendAt(p, t)'
  BY <1>1, <1>5, <1>7, <1>8, SpendNumbers, PassedIsFinite DEF SpendAt
<1> QED
  BY <1>9 DEF p

\* A step that leaves a process its copy, and no call further than it was.
LEMMA SpendUnmoved ==
    ASSUME BillInv, SpendBounded, NEW p \in Serving,
           billCopy'[p] = billCopy[p], opened'[p] = opened[p],
           \A w \in WorkersOf(p) : call'[w] = call[w] \/ call'[w].at = "idle"
    PROVE  \A t \in Tenants : SpendAt(p, t)'
<1> TAKE t \in Tenants
<1>1. Passed(p, t)' \subseteq Passed(p, t)
  BY DEF Passed
<1> QED
  BY <1>1, SpendQuiet, SpendAtEverywhere

LEMMA SpendOfCall ==
    ASSUME BillInv, SpendBounded, NEW w \in Workers, CallStep(w), ~MeterAndAnswer(w)
    PROVE  SpendBounded'
<1> SUFFICES ASSUME NEW p \in Serving, NEW t \in Tenants
             PROVE  SpendAt(p, t)'
  BY DEF SpendBounded, SpendAt
<1>1. /\ billCopy'[p] = billCopy[p] /\ opened'[p] = opened[p]
      /\ \A v \in Workers : v # w => call'[v] = call[v]
  BY BillCallStep
<1>2. CASE Passed(p, t)' \subseteq Passed(p, t)
  BY <1>1, <1>2, SpendQuiet, SpendAtEverywhere
<1>3. CASE ~(Passed(p, t)' \subseteq Passed(p, t))
  <2>1. w \in Passed(p, t)' /\ w \notin Passed(p, t)
    BY <1>1, <1>3, WorkerNames DEF Passed
  <2>2. /\ w \in WorkersOf(p) /\ call'[w].at \in {"admitted", "paid"}
        /\ call'[w].tenant = t
    BY <2>1 DEF Passed
  <2>3. call[w].tenant = t
    BY <2>2, BillCallStep
  <2>4. call[w].at \notin {"admitted", "paid"}
    BY <2>1, <2>2, <2>3 DEF Passed
  <2>5. call'[w].at # "paid"
    BY <2>4, BillCallStep
  <2>6. CheckSpendCap(w) /\ call'[w].at = "admitted"
    BY <2>2, <2>5, BillCallStep
  <2>7. OwnerOf(w) = p
    BY <2>2, WorkerNames
  <2>8. UnderCap(billCopy[p], t)
    <3>1. CASE Ends(w)
      <4>1. call'[w].at = "idle"
        BY <3>1 DEF Ends, IdleCall, BillInv, BillTypeOK
      <4> QED
        BY <4>1, <2>6
    <3> QED
      BY <2>3, <2>6, <2>7, <3>1 DEF CheckSpendCap
  <2> QED
    BY <1>1, <2>8, SpendAdmitted
<1> QED
  BY <1>2, <1>3

LEMMA NextKeepsSpend ==
    ASSUME BillInv, BillInv', SpendBounded, [Next]_vars
    PROVE  SpendBounded'
<1> SUFFICES ASSUME NEW p \in Serving, NEW t \in Tenants
             PROVE  SpendAt(p, t)'
  BY DEF SpendBounded, SpendAt
<1> USE WorkerNames
<1>0. p = "server" \/ p = "direct"
  BY DEF Serving
<1>1. CASE UNCHANGED <<billCopy, opened, call>>
  BY <1>1, SpendUnmoved
<1>2. ASSUME NEW q \in Serving, NEW reads \in BOOLEAN, call' = call,
             IF reads THEN Bill!Open(q) ELSE Bill!OpenUnread(q),
             opened' = [opened EXCEPT ![q] =
                          IF reads THEN billDisk.spent ELSE EmptyBilling.spent]
      PROVE  SpendAt(p, t)'
  <2>1. /\ billCopy' = [billCopy EXCEPT ![q] = Found(reads)] /\ billCopy[q] = NoCopy
        /\ opened' = [opened EXCEPT ![q] = Found(reads).spent]
    BY <1>2, FoundEffect
  <2>2. CASE p # q
    <3>1. billCopy'[p] = billCopy[p] /\ opened'[p] = opened[p]
      BY <1>2, <2>1, <2>2 DEF BillInv, BillTypeOK
    <3> QED
      BY <1>2, <3>1, SpendUnmoved
  <2>3. CASE p = q
    <3>1. billCopy'[p] = Found(reads) /\ opened'[p] = Found(reads).spent
      BY <1>2, <2>1, <2>3 DEF BillInv, BillTypeOK
    <3>2. Passed(p, t)' = {}
      BY <1>2, <2>1, <2>3 DEF Passed, BillInv, Metered
    <3> QED
      BY <3>1, <3>2, SpendOpened
  <2> QED
    BY <2>2, <2>3
<1>3. ASSUME NEW q \in Serving, Bill!Close(q),
             call' = [w \in Workers |-> IF w \in WorkersOf(q) THEN IdleCall ELSE call[w]],
             opened' = [opened EXCEPT ![q] = [u \in Tenants |-> 0]]
      PROVE  SpendAt(p, t)'
  <2>1. billCopy' = [billCopy EXCEPT ![q] = NoCopy]
    BY <1>3 DEF Bill!Close, Bill!Forgets
  <2>2. CASE p # q
    <3>1. billCopy'[p] = billCopy[p] /\ opened'[p] = opened[p]
      BY <1>3, <2>1, <2>2 DEF BillInv, BillTypeOK
    <3>2. \A w \in WorkersOf(p) : call'[w] = call[w]
      BY <1>3, <2>2
    <3> QED
      BY <3>1, <3>2, SpendUnmoved
  <2>3. CASE p = q
    <3>1. billCopy'[p] = NoCopy
      BY <2>1, <2>3 DEF BillInv, BillTypeOK
    <3> QED
      BY <3>1 DEF SpendAt
  <2> QED
    BY <2>2, <2>3
<1>4. ASSUME NEW w \in Workers, MeterAndAnswer(w)
      PROVE  SpendAt(p, t)'
  <2>1. CASE p = OwnerOf(w) /\ t = call[w].tenant
    BY <1>4, <2>1, SpendMetered
  <2>2. CASE ~(p = OwnerOf(w) /\ t = call[w].tenant)
    <3>1. /\ OwnerOf(w) \in Serving /\ call[w].tenant \in Tenants
          /\ billCopy[OwnerOf(w)] \in Billing
          /\ billCopy' = [billCopy EXCEPT ![OwnerOf(w)] =
                            RecordUsage(billCopy[OwnerOf(w)], call[w].tenant)]
          /\ call' = [call EXCEPT ![w] = IdleCall] /\ opened' = opened
      BY <1>4, MeterEffect
    <3>2. Passed(p, t)' \subseteq Passed(p, t)
      <4>1. \A v \in Workers : call'[v] = call[v] \/ call'[v].at = "idle"
        BY <3>1 DEF BillInv, BillTypeOK, IdleCall
      <4> QED
        BY <4>1 DEF Passed
    <3>3. CASE p # OwnerOf(w)
      <4>1. billCopy'[p] = billCopy[p]
        BY <3>1, <3>3 DEF BillInv, BillTypeOK
      <4> QED
        BY <3>1, <3>2, <4>1, SpendQuiet, SpendAtEverywhere
    <3>4. CASE p = OwnerOf(w) /\ t # call[w].tenant
      <4>1. billCopy'[p] = RecordUsage(billCopy[p], call[w].tenant)
        BY <3>1, <3>4 DEF BillInv, BillTypeOK
      <4>2. billCopy'[p].subs = billCopy[p].subs /\ billCopy'[p].spent[t] = billCopy[p].spent[t]
        BY <3>1, <3>4, <4>1, BillingOperations
      <4>3. billCopy[p] # NoCopy /\ SpendAt(p, t)
        BY <1>4, <3>4, MeterEffect, SpendAtEverywhere
      <4>4. Cardinality(Passed(p, t)') <= Cardinality(Passed(p, t))
        BY <3>2, PassedIsFinite, FS_Subset
      <4> QED
        BY <3>1, <4>2, <4>3, <4>4, SpendNumbers, PassedIsFinite, PassedIsFiniteNext DEF SpendAt
    <3> QED
      BY <2>2, <3>3, <3>4
  <2> QED
    BY <2>1, <2>2
<1>5. ASSUME NEW w \in Workers, CallStep(w), ~MeterAndAnswer(w)
      PROVE  SpendAt(p, t)'
  BY <1>5, SpendOfCall DEF SpendBounded, SpendAt
<1>6. ASSUME UNCHANGED <<opened, call>>, NEW o \in Operators, NEW v,
             billCopy' = [billCopy EXCEPT ![o] = v]
      PROVE  SpendAt(p, t)'
  <2>1. billCopy'[p] = billCopy[p]
    BY <1>6 DEF BillInv, BillTypeOK
  <2> QED
    BY <1>6, <2>1, SpendUnmoved
<1>7. ASSUME NEW o \in Operators, CommandStep(o)
      PROVE  SpendAt(p, t)'
  <2>1. UNCHANGED <<opened, call>>
    BY <1>7 DEF CommandStep, BeginCommand, StoreCommand, Subscribe, UsageReset, DirectAdd,
       DirectRevoke, CommandFails, CommandDone, histVars
  <2>2. billCopy' = billCopy \/ \E v : billCopy' = [billCopy EXCEPT ![o] = v]
    <3>1. \/ UNCHANGED billVars \/ Bill!Open(o) \/ Bill!OpenUnread(o) \/ Bill!Close(o)
          \/ \E b : Bill!SaveAndClose(o, b)
      <4>1. ASSUME NEW m \in Commands, NEW reads \in BOOLEAN, BeginCommand(o, m, reads)
            PROVE  UNCHANGED billVars \/ Bill!Open(o) \/ Bill!OpenUnread(o)
        BY <4>1 DEF BeginCommand, Commands
      <4>2. CASE Subscribe(o) \/ UsageReset(o)
        BY <4>2 DEF Subscribe, UsageReset
      <4>3. CASE StoreCommand(o) \/ DirectAdd(o) \/ DirectRevoke(o)
        BY <4>3 DEF StoreCommand, DirectAdd, DirectRevoke
      <4>4. CASE CommandFails(o)
        BY <4>4 DEF CommandFails
      <4> QED
        BY <1>7, <4>1, <4>2, <4>3, <4>4 DEF CommandStep
    <3> QED
      BY <3>1 DEF billVars, Bill!Open, Bill!OpenUnread, Bill!Close, Bill!SaveAndClose,
         Bill!Forgets
  <2> QED
    BY <2>1, <2>2, <1>1, <1>6
<1>8. ASSUME NEW a \in BOOLEAN, NEW b \in BOOLEAN, ServerStarts(a, b)
      PROVE  SpendAt(p, t)'
  BY <1>8, <1>2 DEF ServerStarts
<1>9. CASE ServerStops
  BY <1>9, <1>3 DEF ServerStops, WorkersOf
<1>10. CASE ServerRequests
  BY <1>10, <1>1 DEF ServerRequests, ServerEnrolls, ServerHeartbeat, ServerHandsOut,
     ServerEnqueues, ServerSaves, billVars, histVars
<1>11. ASSUME NEW i, NEW b \in BOOLEAN, DirectRunStarts(i, b)
       PROVE  SpendAt(p, t)'
  BY <1>11, <1>2 DEF DirectRunStarts
<1>12. CASE DirectRunConnects
  BY <1>12, <1>1 DEF DirectRunConnects, billVars, histVars
<1>13. CASE DirectRunGone
  BY <1>13, <1>3 DEF DirectRunGone, WorkersOf
<1> QED
  BY <1>1, <1>4, <1>5, <1>7, <1>8, <1>9, <1>10, <1>11, <1>12, <1>13
  DEF Next, vars, billVars, histVars, DirectStep, DirectRunEnds, DirectRunDies

\* A tenant overshoots its cap, since the cap is checked before a call and
\* the call recorded after it, but in one process never by more than one
\* call of each of its threads, however many there are.
THEOREM OvershootIsBounded == Spec => []SpendBounded
<1>1. Init => SpendBounded
  BY WorkerNames DEF Init, SpendBounded, Bill!Initially
<1>2. BillInv /\ BillInv' /\ SpendBounded /\ [Next]_vars => SpendBounded'
  BY NextKeepsSpend
<1> QED
  BY <1>1, <1>2, BillInvAlways, PTL DEF Spec

=============================================================================
