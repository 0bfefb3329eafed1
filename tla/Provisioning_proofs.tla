------------------------- MODULE Provisioning_proofs -------------------------
(***************************************************************************)
(* Proofs about Provisioning, for every sequence of required fields, every *)
(* set of topics, requests and workers, and every bound.                   *)
(***************************************************************************)
EXTENDS Provisioning, SequenceTheorems, TLAPS

(***************************************************************************)
(* The invariants.                                                         *)
(***************************************************************************)

SetupType ==
    [at : {"idle", "fields", "ensure"}, found : SUBSET Names, todo : Seq(Names \cup Tags),
     missing : BOOLEAN, tries : 0..MaxTries, ok : BOOLEAN, created : BOOLEAN]

RunType ==
    [at : {"none", "review", "work"}, cache : SUBSET Tags, missing : BOOLEAN,
     tries : 0..MaxTries]

WorkerType ==
    [at : {"idle", "wants", "waits", "creates", "failed"}, topic : Tags, tries : 0..MaxTries]

Active(s) == setups[s].at # "idle"
Objects == Names \cup Tags

\* What a setup provides for.
Wanted(s) == {NameFor(s, FieldOrder[i]) : i \in 1..Len(FieldOrder)} \cup {ReviewTag}

Places(q) == 1..Len(q)
Members(q) == {q[i] : i \in Places(q)}

\* The flag of the dashboard says whether a request is at work, and one is.
GateInv ==
    /\ gate <=> \E s \in WebRequests : Active(s)
    /\ \A s \in WebRequests, u \in WebRequests : Active(s) /\ Active(u) => s = u

\* What is left to do: each name once.
TodoInv ==
    \A s \in Setups :
        /\ setups[s].at = "fields" => ~setups[s].missing
        /\ setups[s].at = "ensure" =>
              /\ Members(setups[s].todo) \subseteq Wanted(s)
              /\ \A i, j \in Places(setups[s].todo) :
                    setups[s].todo[i] = setups[s].todo[j] => i = j

\* One worker creates, and it creates what is not in the cache.
LockInv ==
    /\ run.at # "work" => \A w \in Workers : workers[w].at = "idle"
    /\ \A w \in Workers : workers[w].at # "idle" => workers[w].topic \in Topics
    /\ \A w \in Workers : workers[w].at = "creates" => ~Cached(w)
    /\ \A w \in Workers, v \in Workers :
          workers[w].at = "creates" /\ workers[v].at = "creates" => w = v

\* While nobody else creates objects, there is one at work, and what it is
\* about to create is not there.
AloneInv ==
    /\ \A o \in Objects : copies[o] <= 1
    /\ \A s \in Setups, u \in Setups : Active(s) /\ Active(u) => s = u
    /\ \A s \in Setups : Active(s) => run.at = "none"
    /\ \A s \in Setups : setups[s].at = "ensure" =>
          /\ \A n \in Members(setups[s].todo) :
                n \in Names \ setups[s].found => copies[n] = 0
          /\ setups[s].missing =>
                setups[s].todo # <<>> /\ copies[NextUp(s)] = 0
    /\ run.at = "review" /\ run.missing => copies[ReviewTag] = 0
    /\ run.at # "none" => \A t \in Topics \ run.cache : copies[t] = 0
    /\ \A w \in Workers : workers[w].at # "failed"

\* What a setup has found or made is there, and as wanted if it says so.
Provided(s, f) ==
    LET n == NameFor(s, f) IN copies[n] > 0 /\ Compatible(f, kind[n])

Health(s) ==
    /\ \A n \in setups[s].found : copies[n] > 0
    /\ \A n \in Names \ setups[s].found : copies[n] = 0 \/ kind[n] = "wanted"
    /\ setups[s].ok => \A i \in Places(FieldOrder) :
          \/ NameFor(s, FieldOrder[i]) \in Members(setups[s].todo)
          \/ Provided(s, FieldOrder[i])
    /\ ReviewTag \in Members(setups[s].todo) \/ copies[ReviewTag] > 0

HealthInv == ~edited => \A s \in Setups : setups[s].at = "ensure" => Health(s)

\* After a success of its kind, a setup has nothing to create.
SettledInv ==
    \A s \in Setups : Group(s) \in settled =>
        /\ \A n \in Wanted(s) : copies[n] > 0
        /\ Active(s) => ~setups[s].created /\ ~setups[s].missing
        /\ setups[s].at = "ensure" =>
              \A n \in Members(setups[s].todo) : n \in Names => n \in setups[s].found

\* A field that is not there has no type.
AbsentInv == \A n \in Names : copies[n] = 0 => kind[n] = "absent"

(***************************************************************************)
(* Sequences and records.                                                  *)
(***************************************************************************)

\* The rest of a sequence, without repetitions, is the sequence but its head.
LEMMA TailMembers ==
    ASSUME NEW T, NEW q \in Seq(T), q # <<>>
    PROVE  /\ Head(q) \in T /\ Head(q) \in Members(q)
           /\ Tail(q) \in Seq(T)
           /\ Members(q) = Members(Tail(q)) \cup {Head(q)}
           /\ (\A i, j \in Places(q) : q[i] = q[j] => i = j) =>
                 /\ Head(q) \notin Members(Tail(q))
                 /\ \A i, j \in Places(Tail(q)) : Tail(q)[i] = Tail(q)[j] => i = j
<1>1. Len(q) \in Nat \ {0} /\ q[1] \in T /\ Head(q) = q[1]
  BY EmptySeq, LenProperties
<1>2. /\ Tail(q) \in Seq(T) /\ Len(Tail(q)) = Len(q) - 1
      /\ \A i \in 1..Len(Tail(q)) : Tail(q)[i] = q[i + 1]
  BY HeadTailProperties
<1>3. Head(q) \in T /\ Head(q) \in Members(q)
  BY <1>1 DEF Members, Places
<1>4. Members(q) \subseteq Members(Tail(q)) \cup {Head(q)}
  <2> SUFFICES ASSUME NEW i \in 1..Len(q), i # 1 PROVE q[i] \in Members(Tail(q))
    BY <1>1 DEF Members, Places
  <2>1. i - 1 \in 1..Len(Tail(q)) /\ Tail(q)[i - 1] = q[i]
    BY <1>1, <1>2
  <2> QED
    BY <2>1 DEF Members, Places
<1>5. Members(Tail(q)) \subseteq Members(q)
  <2> SUFFICES ASSUME NEW i \in 1..Len(Tail(q)) PROVE Tail(q)[i] \in Members(q)
    BY DEF Members, Places
  <2>1. i + 1 \in 1..Len(q) /\ Tail(q)[i] = q[i + 1]
    BY <1>1, <1>2
  <2> QED
    BY <2>1 DEF Members, Places
<1>6. ASSUME \A i, j \in Places(q) : q[i] = q[j] => i = j
      PROVE  /\ Head(q) \notin Members(Tail(q))
             /\ \A i, j \in Places(Tail(q)) : Tail(q)[i] = Tail(q)[j] => i = j
  <2>1. \A i \in 1..Len(Tail(q)) : i + 1 \in 1..Len(q) /\ i + 1 # 1 /\ Tail(q)[i] = q[i + 1]
    BY <1>1, <1>2
  <2>2. 1 \in 1..Len(q)
    BY <1>1
  <2>3. Head(q) \notin Members(Tail(q))
    BY <1>1, <1>6, <2>1, <2>2 DEF Members, Places
  <2>4. ASSUME NEW i \in Places(Tail(q)), NEW j \in Places(Tail(q)), Tail(q)[i] = Tail(q)[j]
        PROVE  i = j
    <3>1. i + 1 = j + 1
      BY <1>6, <2>1, <2>4 DEF Places
    <3> QED
      BY <3>1 DEF Places
  <2> QED
    BY <2>3, <2>4
<1> QED
  BY <1>2, <1>3, <1>4, <1>5, <1>6

LEMMA MembersOfNothing == Members(<<>>) = {}
BY DEF Members, Places

LEMMA NameForType ==
    ASSUME NEW s \in Setups, NEW f \in Fields
    PROVE  NameFor(s, f) \in Names /\ NameFor(s, f)[1] = f
<1>1. CASE s = Cli
  BY <1>1 DEF NameFor, Names
<1>2. CASE s # Cli
  <2> DEFINE b == f \in renamed
  <2>1. NameFor(s, f) = <<f, b>>
    BY <1>2 DEF NameFor, NameOf
  <2>2. b \in BOOLEAN
    OBVIOUS
  <2> HIDE DEF b
  <2> QED
    BY <2>1, <2>2 DEF Names
<1> QED
  BY <1>1, <1>2

\* What ListFields leaves to do.
LEMMA ToEnsureMembers ==
    ASSUME NEW s \in Setups
    PROVE  /\ ToEnsure(s) \in Seq(Objects)
           /\ Members(ToEnsure(s)) = Wanted(s)
           /\ \A i, j \in Places(ToEnsure(s)) : ToEnsure(s)[i] = ToEnsure(s)[j] => i = j
<1> DEFINE n == Len(FieldOrder)
           names == [i \in 1..n |-> NameFor(s, FieldOrder[i])]
<1>1. /\ n \in Nat /\ \A i \in 1..n : FieldOrder[i] \in Fields
      /\ \A i, j \in 1..n : FieldOrder[i] = FieldOrder[j] => i = j
  <2>1. n \in Nat
    BY ProvisioningAssumption, LenProperties
  <2> QED
    BY <2>1, ProvisioningAssumption DEF Fields
<1>2. \A f \in Fields : NameFor(s, f) \in Names /\ NameFor(s, f)[1] = f
  BY NameForType
<1>3. ReviewTag \in Tags /\ ReviewTag \notin Names
  BY ProvisioningAssumption DEF Tags, Names
<1>4. names \in Seq(Objects) /\ Len(names) = n
  <2>1. names \in [1..n -> Objects]
    BY <1>1, <1>2 DEF Objects
  <2> QED
    BY <1>1, <2>1, SeqDef
<1> DEFINE all == names \o <<ReviewTag>>
<1>5. /\ all \in Seq(Objects) /\ Len(all) = n + 1
      /\ \A i \in 1..n : all[i] = names[i]
      /\ all[n + 1] = ReviewTag
  <2>1. <<ReviewTag>> \in Seq(Objects) /\ Len(<<ReviewTag>>) = 1 /\ <<ReviewTag>>[1] = ReviewTag
    BY <1>3 DEF Objects
  <2> HIDE DEF names
  <2> QED
    BY <1>1, <1>4, <2>1, ConcatProperties
<1>6. \A i \in 1..n : all[i] = NameFor(s, FieldOrder[i])
  BY <1>5
<1> HIDE DEF all
<1>7. \A i \in 1..(n + 1) : i \in 1..n \/ i = n + 1
  BY <1>1
<1>8. Members(all) = Wanted(s)
  BY <1>1, <1>5, <1>6, <1>7 DEF Members, Places, Wanted
<1>9. \A i, j \in 1..(n + 1) : all[i] = all[j] => i = j
  <2>1. \A i \in 1..n : all[i] \in Names /\ all[i][1] = FieldOrder[i]
    BY <1>1, <1>2, <1>6
  <2> QED
    BY <1>1, <1>3, <1>5, <1>7, <2>1
<1>10. ToEnsure(s) = all
  BY DEF ToEnsure, all
<1> QED
  BY <1>5, <1>8, <1>9, <1>10 DEF Places

\* The records of a setup.
LEMMA SetupRecord ==
    ASSUME NEW r \in SetupType
    PROVE  r = [at |-> r.at, found |-> r.found, todo |-> r.todo, missing |-> r.missing,
                tries |-> r.tries, ok |-> r.ok, created |-> r.created]
BY Zenon DEF SetupType

LEMMA ListedEffect ==
    ASSUME NEW r \in SetupType, NEW found \in SUBSET Names, NEW todo \in Seq(Objects),
           NEW x, x = Listed(r, found, todo)
    PROVE  /\ x \in SetupType /\ x.at = "ensure" /\ x.found = found /\ x.todo = todo
           /\ x.missing = r.missing /\ x.ok = r.ok /\ x.created = r.created
<1>0. r = [at |-> r.at, found |-> r.found, todo |-> r.todo, missing |-> r.missing,
           tries |-> r.tries, ok |-> r.ok, created |-> r.created]
  BY SetupRecord
<1>1. x =
          [at |-> "ensure", found |-> found, todo |-> todo, missing |-> r.missing,
           tries |-> MaxTries, ok |-> r.ok, created |-> r.created]
  BY <1>0 DEF Listed
<1> QED
  BY <1>1, ProvisioningAssumption DEF SetupType, Objects

LEMMA MissedEffect ==
    ASSUME NEW r \in SetupType,
           NEW x, x = Missed(r)
    PROVE  /\ x \in SetupType /\ x.at = r.at /\ x.found = r.found /\ x.todo = r.todo
           /\ x.missing = TRUE /\ x.ok = r.ok /\ x.created = r.created
<1>0. r = [at |-> r.at, found |-> r.found, todo |-> r.todo, missing |-> r.missing,
           tries |-> r.tries, ok |-> r.ok, created |-> r.created]
  BY SetupRecord
<1>1. x = [at |-> r.at, found |-> r.found, todo |-> r.todo, missing |-> TRUE,
                   tries |-> r.tries, ok |-> r.ok, created |-> r.created]
  BY <1>0 DEF Missed
<1> QED
  BY <1>1 DEF SetupType

LEMMA AgainEffect ==
    ASSUME NEW r \in SetupType, r.tries > 1,
           NEW x, x = Again(r)
    PROVE  /\ x \in SetupType /\ x.at = r.at /\ x.found = r.found /\ x.todo = r.todo
           /\ x.missing = r.missing /\ x.ok = r.ok /\ x.created = r.created
<1>0. r = [at |-> r.at, found |-> r.found, todo |-> r.todo, missing |-> r.missing,
           tries |-> r.tries, ok |-> r.ok, created |-> r.created]
  BY SetupRecord
<1>1. x = [at |-> r.at, found |-> r.found, todo |-> r.todo, missing |-> r.missing,
                  tries |-> r.tries - 1, ok |-> r.ok, created |-> r.created]
  BY <1>0 DEF Again
<1>2. r.tries - 1 \in 0..MaxTries
  BY ProvisioningAssumption DEF SetupType
<1> QED
  BY <1>1, <1>2 DEF SetupType

LEMMA IdleEffect ==
    LET began == [Idle EXCEPT !.at = "fields"]
    IN  /\ Idle \in SetupType /\ Idle.at = "idle"
        /\ began \in SetupType /\ began.at = "fields" /\ began.missing = FALSE
        /\ began.created = FALSE
<1>1. 0 \in 0..MaxTries /\ <<>> \in Seq(Names \cup Tags)
  BY ProvisioningAssumption
<1> QED
  BY <1>1 DEF Idle, SetupType

\* The records of the run.
LEMMA RunRecord ==
    ASSUME NEW r \in RunType
    PROVE  r = [at |-> r.at, cache |-> r.cache, missing |-> r.missing, tries |-> r.tries]
BY Zenon DEF RunType

\* Those of a worker.
LEMMA WorkerRecord ==
    ASSUME NEW r \in WorkerType
    PROVE  r = [at |-> r.at, topic |-> r.topic, tries |-> r.tries]
BY Zenon DEF WorkerType

(***************************************************************************)
(* What the steps do.                                                      *)
(***************************************************************************)

TypeInv ==
    /\ renamed \subseteq Fields /\ unique \in BOOLEAN
    /\ copies \in [Objects -> 0..2]
    /\ kind \in [Names -> Kinds]
    /\ gate \in BOOLEAN
    /\ setups \in [Setups -> SetupType]
    /\ run \in RunType
    /\ workers \in [Workers -> WorkerType]
    /\ {crowded, edited} \subseteq BOOLEAN
    /\ removed \subseteq Tags /\ settled \subseteq {"cli", "web"}
    /\ {startsLeft, troublesLeft} \subseteq Nat

\* The program removes nothing and changes no field; what it makes is as wanted.
Grows ==
    /\ \A o \in Objects : copies[o] > 0 => copies'[o] > 0
    /\ \A n \in Names : kind'[n] = kind[n] \/ (copies[n] = 0 /\ kind'[n] = "wanted")
    /\ \A n \in Names : copies[n] = 0 => copies'[n] = 0 \/ kind'[n] = "wanted"
    /\ \A n \in Names : copies'[n] = copies[n] => kind'[n] = kind[n]

Makes(name) ==
    /\ copies[name] < 2 /\ copies'[name] = copies[name] + 1
    /\ \A o \in Objects : o # name => copies'[o] = copies[o]

\* The setups other than s.
Same(s) == \A u \in Setups : u # s => setups'[u] = setups[u]

Begins(s) ==
    /\ Same(s) /\ ~Active(s) /\ setups'[s].at = "fields"
    /\ ~setups'[s].missing /\ ~setups'[s].created
    /\ s # Cli => ~gate
    /\ gate' = (gate \/ s # Cli)
    /\ crowded' = (crowded \/ Busy \ {Group(s)} # {})
    /\ edited' = (edited /\ SettingUp # {})
    /\ UNCHANGED <<renamed, copies, kind, run, workers, settled>>

Lists(s) ==
    /\ Same(s) /\ setups[s].at = "fields" /\ setups'[s].at = "ensure"
    /\ setups'[s].found = {n \in Names : copies[n] > 0}
    /\ setups'[s].todo = ToEnsure(s)
    /\ setups'[s].missing = setups[s].missing /\ setups'[s].created = setups[s].created
    /\ UNCHANGED <<renamed, copies, kind, gate, run, workers, crowded, edited, settled>>

\* A setup is about its next name.
Works(s) ==
    /\ Same(s) /\ Ensuring(s) /\ setups'[s].at = "ensure"
    /\ setups'[s].found = setups[s].found
    /\ UNCHANGED <<renamed, gate, run, workers, edited, settled>>

Ticks(s) ==
    /\ Works(s) /\ setups'[s].todo = Tail(setups[s].todo)
    /\ ~setups'[s].missing /\ (setups'[s].created <=> setups[s].created)
    /\ UNCHANGED <<copies, kind, crowded>>
    /\ \/ /\ IsField(s) /\ NextUp(s) \in setups[s].found
          /\ setups'[s].ok => setups[s].ok /\ Compatible(NextUp(s)[1], kind[NextUp(s)])
       \/ /\ ~IsField(s) /\ copies[NextUp(s)] > 0
          /\ (setups'[s].ok <=> setups[s].ok)

Misses(s) ==
    /\ Works(s) /\ setups'[s].todo = setups[s].todo
    /\ setups'[s].missing /\ setups'[s].created = setups[s].created
    /\ setups'[s].ok = setups[s].ok
    /\ ~IsField(s) /\ copies[NextUp(s)] = 0
    /\ UNCHANGED <<copies, kind, crowded>>

MakesNext(s) ==
    /\ Works(s) /\ setups'[s].todo = Tail(setups[s].todo)
    /\ ~setups'[s].missing /\ (setups'[s].ok <=> setups[s].ok)
    /\ Creating(s) /\ Makes(NextUp(s)) /\ Grows
    /\ UNCHANGED crowded

Retries(s) ==
    /\ Works(s) /\ setups'[s].todo = setups[s].todo
    /\ setups'[s].missing = setups[s].missing /\ setups'[s].created = setups[s].created
    /\ setups'[s].ok = setups[s].ok
    /\ Creating(s) /\ Grows /\ crowded'

Ends(s) ==
    /\ Same(s) /\ setups[s].at = "ensure" /\ setups'[s].at = "idle"
    /\ gate' = (gate /\ s = Cli)
    /\ UNCHANGED <<copies, kind, crowded>> \/ (Grows /\ crowded')
    /\ \/ settled' = settled
       \/ /\ setups[s].todo = <<>> /\ setups[s].ok /\ ~edited
          /\ settled' = settled \cup {Group(s)}
    /\ UNCHANGED <<renamed, run, workers, edited>>

SetupKind(s) ==
    /\ removed' = removed
    /\ \/ Begins(s) \/ Lists(s) \/ Ticks(s) \/ Misses(s)
       \/ MakesNext(s) \/ Retries(s) \/ Ends(s)

\* A run and its workers.
Others == UNCHANGED <<renamed, gate, setups, edited, settled>>

RunStarts ==
    /\ Others /\ run.at = "none" /\ run'.at = "review" /\ ~run'.missing
    /\ run'.cache = {t \in Tags : copies[t] > 0}
    /\ crowded' = (crowded \/ Busy # {})
    /\ UNCHANGED <<copies, kind, workers>>

RunLooks ==
    /\ Others /\ run.at = "review" /\ run'.cache = run.cache
    /\ run'.at = "work" \/ (run'.at = "review" /\ copies[ReviewTag] = 0)
    /\ UNCHANGED <<copies, kind, crowded, removed, workers>>

RunMakes ==
    /\ Others /\ run.at = "review" /\ run.missing
    /\ run'.at = "work" /\ run'.cache = run.cache
    /\ Makes(ReviewTag) /\ Grows
    /\ UNCHANGED <<crowded, removed, workers>>

\* The run ends; or its request is answered with an error.
RunQuits ==
    /\ Others /\ run'.at # "work"
    /\ run'.cache = {} \/ (run'.cache = run.cache /\ removed' = removed)
    /\ \A w \in Workers : workers'[w].at = "idle"
    /\ \/ UNCHANGED <<copies, kind, crowded>> /\ run'.at = "none"
       \/ Grows /\ crowded'

RunKind == RunStarts \/ RunLooks \/ RunMakes \/ RunQuits

\* The workers other than w.
Peers(w) == \A v \in Workers : v # w => workers'[v] = workers[v]

WorkerMoves(w) ==
    /\ Others /\ Peers(w) /\ run.at = "work"
    /\ workers[w].at # "creates" /\ workers'[w].at \in {"idle", "wants", "waits"}
    /\ workers'[w].at # "idle" => workers'[w].topic \in Topics
    /\ UNCHANGED <<copies, kind, crowded, run>>

WorkerLocks(w) ==
    /\ Others /\ Peers(w) /\ run.at = "work"
    /\ workers[w].at = "waits" /\ LockFree /\ ~Cached(w)
    /\ workers'[w].at = "creates" /\ workers'[w].topic = workers[w].topic
    /\ UNCHANGED <<copies, kind, crowded, run>>

WorkerMakes(w) ==
    /\ Others /\ Peers(w) /\ run.at = "work" /\ run'.at = "work"
    /\ workers[w].at = "creates" /\ workers'[w].at = "idle"
    /\ run'.cache = run.cache \cup {workers[w].topic}
    /\ Makes(workers[w].topic) /\ Grows
    /\ UNCHANGED crowded

WorkerFails(w) ==
    /\ Others /\ Peers(w) /\ run.at = "work"
    /\ workers[w].at = "creates" /\ workers'[w].at \in {"creates", "failed"}
    /\ workers'[w].topic = workers[w].topic
    /\ \/ UNCHANGED <<copies, kind, crowded>> /\ copies[workers[w].topic] > 0
       \/ Grows /\ crowded'
    /\ UNCHANGED run

WorkerKind(w) ==
    /\ removed' = removed
    /\ WorkerMoves(w) \/ WorkerLocks(w) \/ WorkerMakes(w) \/ WorkerFails(w)

\* A human takes part.
HumanKind ==
    /\ crowded' = (crowded \/ Busy # {})
    /\ edited' = (edited \/ SettingUp # {})
    /\ settled' = {}
    /\ removed \subseteq removed'
    /\ \A o \in Objects : copies'[o] = copies[o] \/ copies'[o] <= 1
    /\ \A o \in Objects : copies[o] > 0 /\ copies'[o] = 0 => o \in removed'
    /\ \A n \in Names : copies'[n] = 0 => copies[n] = 0 /\ kind'[n] = kind[n]
    /\ UNCHANGED <<renamed, gate, setups, run, workers>>

(***************************************************************************)
(* Every step is of one of these kinds.                                    *)
(***************************************************************************)

LEMMA CreateEffect ==
    ASSUME TypeInv, NEW name \in Objects, copies[name] < 2, Create(name)
    PROVE  copies' \in [Objects -> 0..2] /\ kind' \in [Names -> Kinds] /\ Makes(name) /\ Grows
<1>1. copies[name] \in 0..2 /\ copies[name] + 1 \in 0..2
  BY DEF TypeInv
<1>2. /\ copies' \in [Objects -> 0..2] /\ copies'[name] = copies[name] + 1
      /\ \A o \in Objects : o # name => copies'[o] = copies[o]
  BY <1>1 DEF Create, TypeInv
<1>3. kind' \in [Names -> Kinds]
  BY DEF Create, TypeInv, Kinds
<1>4. \A n \in Names : kind'[n] = kind[n] \/ (copies[n] = 0 /\ n = name /\ kind'[n] = "wanted")
  BY DEF Create, TypeInv
<1>5. \A o \in Objects : copies[o] \in 0..2 /\ copies'[o] \in 0..2
  BY <1>2 DEF TypeInv
<1>6. \A n \in Names : n \in Objects /\ (copies[n] = 0 => copies'[n] = 0 \/ kind'[n] = "wanted")
  <2>1. \A n \in Names : n # name => copies'[n] = copies[n]
    BY <1>2 DEF Objects
  <2>2. name \in Names /\ copies[name] = 0 => kind'[name] = "wanted"
    BY DEF Create, TypeInv
  <2> QED
    BY <2>1, <2>2 DEF Objects
<1>7. \A n \in Names : copies'[n] = copies[n] => kind'[n] = kind[n]
  <2>1. copies'[name] # copies[name]
    BY <1>1, <1>2
  <2> QED
    BY <1>4, <2>1
<1> QED
  BY <1>1, <1>2, <1>3, <1>4, <1>5, <1>6, <1>7 DEF Makes, Grows

LEMMA UnansweredEffect ==
    ASSUME TypeInv, NEW name \in Objects, Unanswered(name)
    PROVE  /\ copies' \in [Objects -> 0..2] /\ kind' \in [Names -> Kinds] /\ Grows
           /\ crowded' = TRUE /\ troublesLeft' \in Nat
<1>1. troublesLeft' \in Nat /\ crowded' = TRUE
  BY DEF Unanswered, TypeInv
<1>2. CASE UNCHANGED paperless
  BY <1>1, <1>2 DEF TypeInv, Grows, paperless
<1>3. CASE copies[name] < 2 /\ Create(name)
  BY <1>1, <1>3, CreateEffect
<1> QED
  BY <1>2, <1>3 DEF Unanswered

LEMMA SetupUpdate ==
    ASSUME TypeInv, NEW s \in Setups, NEW x \in SetupType, setups' = [setups EXCEPT ![s] = x]
    PROVE  setups' \in [Setups -> SetupType] /\ setups'[s] = x /\ Same(s)
BY DEF TypeInv, Same

LEMMA BeginKind ==
    ASSUME TypeInv, NEW s \in Setups, StartSetup(s)
    PROVE  TypeInv' /\ SetupKind(s)
<1> DEFINE began == [Idle EXCEPT !.at = "fields"]
<1>1. /\ began \in SetupType /\ began.at = "fields" /\ began.missing = FALSE
      /\ began.created = FALSE
  BY IdleEffect
<1>2. setups' = [setups EXCEPT ![s] = began]
  BY DEF StartSetup
<1> HIDE DEF began
<1>3. /\ setups' \in [Setups -> SetupType] /\ setups'[s].at = "fields" /\ Same(s)
      /\ ~setups'[s].missing /\ ~setups'[s].created
  BY <1>1, <1>2, SetupUpdate
<1>4. startsLeft' \in Nat
  BY DEF StartSetup, TypeInv
<1>5. gate' \in BOOLEAN /\ crowded' \in BOOLEAN /\ edited' \in BOOLEAN
  BY DEF StartSetup, TypeInv
<1>6. TypeInv'
  BY <1>3, <1>4, <1>5 DEF StartSetup, TypeInv, paperless
<1> QED
  BY <1>3, <1>6 DEF StartSetup, SetupKind, Begins, Active, paperless

LEMMA ListKind ==
    ASSUME TypeInv, NEW s \in Setups, ListFields(s)
    PROVE  TypeInv' /\ SetupKind(s)
<1> DEFINE found == {n \in Names : copies[n] > 0}
           x == Listed(setups[s], found, ToEnsure(s))
<1>1. /\ x \in SetupType /\ x.at = "ensure" /\ x.found = found /\ x.todo = ToEnsure(s)
      /\ x.missing = setups[s].missing /\ x.created = setups[s].created
  <2>1. setups[s] \in SetupType /\ found \in SUBSET Names /\ ToEnsure(s) \in Seq(Objects)
    BY ToEnsureMembers DEF TypeInv
  <2> HIDE DEF found
  <2> QED
    BY <2>1, ListedEffect
<1>2. setups' = [setups EXCEPT ![s] = x]
  BY DEF ListFields
<1> HIDE DEF x
<1>3. setups' \in [Setups -> SetupType] /\ setups'[s] = x /\ Same(s)
  BY <1>1, <1>2, SetupUpdate
<1>4. TypeInv'
  BY <1>3 DEF ListFields, TypeInv, paperless, history
<1> QED
  BY <1>1, <1>3, <1>4 DEF ListFields, SetupKind, Lists, paperless, history

\* The next name of a setup.
LEMMA NextUpType ==
    ASSUME TypeInv, NEW s \in Setups, Ensuring(s)
    PROVE  setups[s] \in SetupType /\ setups[s].todo \in Seq(Objects) /\ NextUp(s) \in Objects
<1>1. setups[s] \in SetupType /\ setups[s].todo \in Seq(Objects) /\ setups[s].todo # <<>>
  BY DEF TypeInv, SetupType, Objects, Ensuring
<1> QED
  BY <1>1, TailMembers DEF NextUp

LEMMA TickKind ==
    ASSUME TypeInv, NEW s \in Setups, CheckField(s) \/ LookForTag(s)
    PROVE  TypeInv' /\ SetupKind(s)
<1>1. Ensuring(s) /\ setups[s].todo # <<>> /\ setups[s].at = "ensure"
  BY DEF CheckField, LookForTag, Ensuring
<1>2. setups[s] \in SetupType /\ NextUp(s) \in Objects
  BY <1>1, NextUpType
<1>3. UNCHANGED <<renamed, unique, copies, kind, gate, run, workers, crowded, edited, removed,
                  settled, startsLeft, troublesLeft>>
  BY DEF CheckField, LookForTag, paperless, history
<1>4. ASSUME NEW x \in SetupType, setups' = [setups EXCEPT ![s] = x]
      PROVE  TypeInv' /\ setups'[s] = x /\ Same(s)
  <2>1. setups' \in [Setups -> SetupType] /\ setups'[s] = x /\ Same(s)
    BY <1>4, SetupUpdate
  <2> QED
    BY <1>3, <2>1 DEF TypeInv
<1>5. ASSUME NEW ok \in BOOLEAN, setups' = Done(s, ok, FALSE),
             \/ /\ IsField(s) /\ NextUp(s) \in setups[s].found
                /\ ok = Compatible(NextUp(s)[1], kind[NextUp(s)])
             \/ /\ ~IsField(s) /\ copies[NextUp(s)] > 0
                /\ ok = TRUE
      PROVE  TypeInv' /\ SetupKind(s)
  <2> DEFINE x == Ensured(setups[s], ok, FALSE)
  <2>1. /\ x \in SetupType /\ x.at = "ensure" /\ x.found = setups[s].found
        /\ x.todo = Tail(setups[s].todo) /\ ~x.missing
        /\ (x.ok <=> setups[s].ok /\ ok) /\ (x.created <=> setups[s].created)
    <3>1. PICK r \in SetupType : r = setups[s]
      BY <1>2
    <3>2. r.todo # <<>> /\ r.at = "ensure"
      BY <1>1, <3>1
    <3>3. x = Ensured(r, ok, FALSE)
      BY <3>1
    <3> HIDE DEF x
    <3>4. /\ x \in SetupType /\ x.at = r.at /\ x.found = r.found
          /\ x.todo = Tail(r.todo) /\ ~x.missing
          /\ (x.ok <=> r.ok /\ ok) /\ (x.created <=> r.created)
      <4>1. r = [at |-> r.at, found |-> r.found, todo |-> r.todo, missing |-> r.missing,
                 tries |-> r.tries, ok |-> r.ok, created |-> r.created]
        BY SetupRecord
      <4>2. x = [at |-> r.at, found |-> r.found, todo |-> Tail(r.todo), missing |-> FALSE,
                 tries |-> MaxTries, ok |-> r.ok /\ ok, created |-> r.created \/ FALSE]
        BY <3>3, <4>1 DEF Ensured
      <4>3. Tail(r.todo) \in Seq(Names \cup Tags)
        BY <3>2, TailMembers DEF SetupType
      <4> QED
        BY <4>2, <4>3, ProvisioningAssumption DEF SetupType
    <3> QED
      BY <3>1, <3>2, <3>4
  <2>2. setups' = [setups EXCEPT ![s] = x]
    BY <1>5 DEF Done
  <2> HIDE DEF x
  <2>3. TypeInv' /\ setups'[s] = x /\ Same(s)
    BY <1>4, <2>1, <2>2
  <2>4. Works(s)
    BY <1>1, <1>3, <2>1, <2>3 DEF Works
  <2>5. setups[s].ok \in BOOLEAN /\ setups[s].created \in BOOLEAN
    BY <1>2 DEF SetupType
  <2>6. Ticks(s)
    BY <1>3, <1>5, <2>1, <2>3, <2>4, <2>5 DEF Ticks
  <2> QED
    BY <1>3, <2>3, <2>6 DEF SetupKind
<1>6. CASE CheckField(s)
  <2>1. Compatible(NextUp(s)[1], kind[NextUp(s)]) \in BOOLEAN
    BY DEF Compatible
  <2> QED
    BY <1>5, <1>6, <2>1 DEF CheckField
<1>7. CASE LookForTag(s) /\ copies[NextUp(s)] > 0
  BY <1>5, <1>7 DEF LookForTag
<1>8. CASE LookForTag(s) /\ ~(copies[NextUp(s)] > 0)
  <2> DEFINE x == Missed(setups[s])
  <2>1. /\ x \in SetupType /\ x.at = "ensure" /\ x.found = setups[s].found
        /\ x.todo = setups[s].todo /\ x.missing = TRUE /\ x.ok = setups[s].ok
        /\ x.created = setups[s].created
    BY <1>1, <1>2, MissedEffect
  <2>2. setups' = [setups EXCEPT ![s] = x]
    BY <1>8 DEF LookForTag
  <2> HIDE DEF x
  <2>3. TypeInv' /\ setups'[s] = x /\ Same(s)
    BY <1>4, <2>1, <2>2
  <2>4. copies[NextUp(s)] = 0
    BY <1>2, <1>8 DEF TypeInv
  <2>5. Misses(s)
    BY <1>1, <1>3, <1>8, <2>1, <2>3, <2>4 DEF Misses, Works, LookForTag
  <2> QED
    BY <1>3, <2>3, <2>5 DEF SetupKind
<1> QED
  BY <1>6, <1>7, <1>8

LEMMA MakeKind ==
    ASSUME TypeInv, NEW s \in Setups, SetupCreates(s)
    PROVE  TypeInv' /\ SetupKind(s)
<1>1. /\ Creating(s) /\ Ensuring(s) /\ setups[s].todo # <<>> /\ setups[s].at = "ensure"
      /\ copies[NextUp(s)] < 2 /\ Create(NextUp(s))
  BY DEF SetupCreates, Creating, Ensuring
<1>2. setups[s] \in SetupType /\ NextUp(s) \in Objects
  BY <1>1, NextUpType
<1>3. UNCHANGED <<renamed, unique, gate, run, workers, crowded, edited, removed, settled,
                  startsLeft, troublesLeft>>
  BY DEF SetupCreates, history
<1>4. /\ copies' \in [Objects -> 0..2] /\ kind' \in [Names -> Kinds]
      /\ Makes(NextUp(s)) /\ Grows
  BY <1>1, <1>2, CreateEffect
<1> DEFINE x == Ensured(setups[s], TRUE, TRUE)
<1>5. /\ x \in SetupType /\ x.at = "ensure" /\ x.found = setups[s].found
      /\ x.todo = Tail(setups[s].todo) /\ ~x.missing /\ (x.ok <=> setups[s].ok)
  <2>1. PICK r \in SetupType : r = setups[s]
    BY <1>2
  <2>2. r.todo # <<>> /\ r.at = "ensure"
    BY <1>1, <2>1
  <2>3. x = Ensured(r, TRUE, TRUE)
    BY <2>1
  <2> HIDE DEF x
  <2>4. /\ x \in SetupType /\ x.at = r.at /\ x.found = r.found
        /\ x.todo = Tail(r.todo) /\ ~x.missing /\ (x.ok <=> r.ok)
    <3>1. r = [at |-> r.at, found |-> r.found, todo |-> r.todo, missing |-> r.missing,
               tries |-> r.tries, ok |-> r.ok, created |-> r.created]
      BY SetupRecord
    <3>2. x = [at |-> r.at, found |-> r.found, todo |-> Tail(r.todo), missing |-> FALSE,
               tries |-> MaxTries, ok |-> r.ok /\ TRUE, created |-> r.created \/ TRUE]
      BY <2>3, <3>1 DEF Ensured
    <3>3. Tail(r.todo) \in Seq(Names \cup Tags)
      BY <2>2, TailMembers DEF SetupType
    <3> QED
      BY <3>2, <3>3, ProvisioningAssumption DEF SetupType
  <2> QED
    BY <2>1, <2>2, <2>4
<1>6. setups' = [setups EXCEPT ![s] = x]
  BY DEF SetupCreates, Done
<1> HIDE DEF x
<1>7. setups' \in [Setups -> SetupType] /\ setups'[s] = x /\ Same(s)
  BY <1>5, <1>6, SetupUpdate
<1>8. TypeInv'
  BY <1>3, <1>4, <1>7 DEF TypeInv
<1>9. Works(s)
  BY <1>1, <1>3, <1>5, <1>7 DEF Works
<1>10. setups[s].ok \in BOOLEAN
  BY <1>2 DEF SetupType
<1>11. MakesNext(s)
  BY <1>1, <1>3, <1>4, <1>5, <1>7, <1>9, <1>10 DEF MakesNext
<1> QED
  BY <1>3, <1>8, <1>11 DEF SetupKind

\* A setup that ends.
LEMMA EndKind ==
    ASSUME TypeInv, NEW s \in Setups, Abandon(s), setups[s].at = "ensure",
           UNCHANGED <<renamed, unique, run, workers, edited, removed, startsLeft>>,
           \/ UNCHANGED <<copies, kind, crowded, troublesLeft>>
           \/ /\ copies' \in [Objects -> 0..2] /\ kind' \in [Names -> Kinds]
              /\ Grows /\ crowded' = TRUE /\ troublesLeft' \in Nat,
           \/ settled' = settled
           \/ /\ setups[s].todo = <<>> /\ setups[s].ok /\ ~edited
              /\ settled' = settled \cup {Group(s)}
    PROVE  TypeInv' /\ SetupKind(s)
<1>1. Idle \in SetupType /\ Idle.at = "idle"
  BY IdleEffect
<1>2. setups' = [setups EXCEPT ![s] = Idle] /\ gate' = (gate /\ s = Cli)
  BY DEF Abandon
<1>3. setups' \in [Setups -> SetupType] /\ setups'[s] = Idle /\ Same(s)
  BY <1>1, <1>2, SetupUpdate
<1>4. settled' \subseteq {"cli", "web"}
  BY DEF TypeInv, Group
<1>5. gate' \in BOOLEAN
  BY <1>2 DEF TypeInv
<1>6. /\ copies' \in [Objects -> 0..2] /\ kind' \in [Names -> Kinds] /\ crowded' \in BOOLEAN
      /\ troublesLeft' \in Nat
  BY DEF TypeInv
<1>7. TypeInv'
  BY <1>3, <1>4, <1>5, <1>6 DEF TypeInv
<1>8. Ends(s)
  BY <1>1, <1>2, <1>3 DEF Ends
<1> QED
  BY <1>7, <1>8 DEF SetupKind

LEMMA UnansweredKind ==
    ASSUME TypeInv, NEW s \in Setups, SetupUnanswered(s)
    PROVE  TypeInv' /\ SetupKind(s)
<1>1. /\ Creating(s) /\ Ensuring(s) /\ setups[s].todo # <<>> /\ setups[s].at = "ensure"
      /\ Unanswered(NextUp(s))
      /\ UNCHANGED <<renamed, unique, run, workers, edited, removed, settled, startsLeft>>
  BY DEF SetupUnanswered, Creating, Ensuring
<1>2. setups[s] \in SetupType /\ NextUp(s) \in Objects
  BY <1>1, NextUpType
<1>3. /\ copies' \in [Objects -> 0..2] /\ kind' \in [Names -> Kinds] /\ Grows
      /\ crowded' = TRUE /\ troublesLeft' \in Nat
  BY <1>1, <1>2, UnansweredEffect
<1>4. CASE setups[s].tries > 1
  <2> DEFINE x == Again(setups[s])
  <2>1. /\ x \in SetupType /\ x.at = "ensure" /\ x.found = setups[s].found
        /\ x.todo = setups[s].todo /\ x.missing = setups[s].missing
        /\ x.ok = setups[s].ok /\ x.created = setups[s].created
    BY <1>1, <1>2, <1>4, AgainEffect
  <2>2. setups' = [setups EXCEPT ![s] = x] /\ gate' = gate
    BY <1>4 DEF SetupUnanswered
  <2> HIDE DEF x
  <2>3. setups' \in [Setups -> SetupType] /\ setups'[s] = x /\ Same(s)
    BY <2>1, <2>2, SetupUpdate
  <2>4. TypeInv'
    BY <1>1, <1>3, <2>2, <2>3 DEF TypeInv
  <2>5. Retries(s)
    BY <1>1, <1>3, <2>1, <2>2, <2>3 DEF Retries, Works
  <2> QED
    BY <1>1, <2>4, <2>5 DEF SetupKind
<1>5. CASE ~(setups[s].tries > 1)
  <2>1. Abandon(s)
    BY <1>5 DEF SetupUnanswered
  <2> QED
    BY <1>1, <1>3, <2>1, EndKind
<1> QED
  BY <1>4, <1>5

LEMMA SetupKinds ==
    ASSUME TypeInv, NEW s \in Setups, SetupStep(s)
    PROVE  TypeInv' /\ SetupKind(s)
<1>1. CASE SetupRefused(s)
  <2>1. /\ Abandon(s) /\ setups[s].at = "ensure"
        /\ UNCHANGED <<renamed, unique, copies, kind, run, workers, crowded, edited, removed,
                       settled, startsLeft, troublesLeft>>
    BY <1>1 DEF SetupRefused, Creating, Ensuring, paperless, history
  <2> QED
    BY <2>1, EndKind
<1>2. CASE FinishSetup(s)
  <2>1. /\ Abandon(s) /\ setups[s].at = "ensure" /\ setups[s].todo = <<>>
        /\ UNCHANGED <<renamed, unique, copies, kind, run, workers, crowded, edited, removed,
                       startsLeft, troublesLeft>>
        /\ settled' = IF setups[s].ok /\ ~edited THEN settled \cup {Group(s)} ELSE settled
    BY <1>2 DEF FinishSetup, paperless
  <2> QED
    BY <2>1, EndKind
<1> QED
  BY <1>1, <1>2, BeginKind, ListKind, TickKind, MakeKind, UnansweredKind DEF SetupStep

\* The run and its workers.
LEMMA RunMissed ==
    ASSUME NEW r \in RunType, NEW x, x = Missed(r)
    PROVE  x \in RunType /\ x.at = r.at /\ x.cache = r.cache
<1>0. r = [at |-> r.at, cache |-> r.cache, missing |-> r.missing, tries |-> r.tries]
  BY RunRecord
<1>1. x = [at |-> r.at, cache |-> r.cache, missing |-> TRUE, tries |-> r.tries]
  BY <1>0 DEF Missed
<1> QED
  BY <1>1 DEF RunType

LEMMA RunWorks ==
    ASSUME NEW r \in RunType, NEW x, x = At(r, "work") \/ x = [At(r, "work") EXCEPT !.missing = FALSE]
    PROVE  x \in RunType /\ x.at = "work" /\ x.cache = r.cache
<1>0. r = [at |-> r.at, cache |-> r.cache, missing |-> r.missing, tries |-> r.tries]
  BY RunRecord
<1>1. At(r, "work") = [at |-> "work", cache |-> r.cache, missing |-> r.missing, tries |-> r.tries]
  BY <1>0 DEF At
<1>2. \/ x = [at |-> "work", cache |-> r.cache, missing |-> r.missing, tries |-> r.tries]
      \/ x = [at |-> "work", cache |-> r.cache, missing |-> FALSE, tries |-> r.tries]
  BY <1>1
<1>3. CASE x = [at |-> "work", cache |-> r.cache, missing |-> r.missing, tries |-> r.tries]
  BY <1>3 DEF RunType
<1>4. CASE x = [at |-> "work", cache |-> r.cache, missing |-> FALSE, tries |-> r.tries]
  BY <1>4 DEF RunType
<1> QED
  BY <1>2, <1>3, <1>4

LEMMA RunAgain ==
    ASSUME NEW r \in RunType, r.tries > 1, NEW x, x = Again(r)
    PROVE  x \in RunType /\ x.at = r.at /\ x.cache = r.cache
<1>0. r = [at |-> r.at, cache |-> r.cache, missing |-> r.missing, tries |-> r.tries]
  BY RunRecord
<1>1. x = [at |-> r.at, cache |-> r.cache, missing |-> r.missing, tries |-> r.tries - 1]
  BY <1>0 DEF Again
<1>2. r.tries - 1 \in 0..MaxTries
  BY ProvisioningAssumption DEF RunType
<1> QED
  BY <1>1, <1>2 DEF RunType

LEMMA NoRunType == NoRun \in RunType /\ NoRun.at = "none" /\ NoRun.cache = {}
<1>1. 0 \in 0..MaxTries
  BY ProvisioningAssumption
<1> QED
  BY <1>1 DEF NoRun, RunType

LEMMA CacheType ==
    ASSUME TypeInv, NEW topic \in Tags, NEW x, x = Cache(topic)
    PROVE  x \in RunType /\ x.at = run.at /\ x.cache = run.cache \cup {topic}
<1>1. PICK r \in RunType : r = run
  BY DEF TypeInv
<1>2. r = [at |-> r.at, cache |-> r.cache, missing |-> r.missing, tries |-> r.tries]
  BY RunRecord
<1>3. x = [at |-> r.at, cache |-> r.cache \cup {topic}, missing |-> r.missing, tries |-> r.tries]
  BY <1>1, <1>2 DEF Cache
<1> QED
  BY <1>1, <1>3 DEF RunType

LEMMA WorkerAt ==
    ASSUME NEW r \in WorkerType,
           NEW place \in {"idle", "wants", "waits", "creates", "failed"},
           NEW x, x = At(r, place)
    PROVE  x \in WorkerType /\ x.at = place /\ x.topic = r.topic
<1>0. r = [at |-> r.at, topic |-> r.topic, tries |-> r.tries]
  BY WorkerRecord
<1>1. x = [at |-> place, topic |-> r.topic, tries |-> r.tries]
  BY <1>0 DEF At
<1> QED
  BY <1>1 DEF WorkerType

LEMMA WorkerWants ==
    ASSUME NEW r \in WorkerType, NEW topic \in Tags,
           NEW x, x = Wanting(r, topic)
    PROVE  x \in WorkerType /\ x.at = "wants" /\ x.topic = topic
<1>0. r = [at |-> r.at, topic |-> r.topic, tries |-> r.tries]
  BY WorkerRecord
<1>1. At(r, "wants") = [at |-> "wants", topic |-> r.topic, tries |-> r.tries]
  BY <1>0 DEF At
<1>2. x = [at |-> "wants", topic |-> topic, tries |-> r.tries]
  BY <1>1 DEF Wanting
<1> QED
  BY <1>2 DEF WorkerType

LEMMA WorkerCreator ==
    ASSUME NEW r \in WorkerType, NEW x, x = Creator(r)
    PROVE  x \in WorkerType /\ x.at = "creates" /\ x.topic = r.topic
<1>0. r = [at |-> r.at, topic |-> r.topic, tries |-> r.tries]
  BY WorkerRecord
<1>1. At(r, "creates") = [at |-> "creates", topic |-> r.topic, tries |-> r.tries]
  BY <1>0 DEF At
<1>2. x = [at |-> "creates", topic |-> r.topic, tries |-> MaxTries]
  BY <1>1 DEF Creator
<1> QED
  BY <1>2, ProvisioningAssumption DEF WorkerType

LEMMA WorkerAgain ==
    ASSUME NEW r \in WorkerType, r.tries > 1, NEW x, x = Again(r)
    PROVE  x \in WorkerType /\ x.at = r.at /\ x.topic = r.topic
<1>0. r = [at |-> r.at, topic |-> r.topic, tries |-> r.tries]
  BY WorkerRecord
<1>1. x = [at |-> r.at, topic |-> r.topic, tries |-> r.tries - 1]
  BY <1>0 DEF Again
<1>2. r.tries - 1 \in 0..MaxTries
  BY ProvisioningAssumption DEF WorkerType
<1> QED
  BY <1>1, <1>2 DEF WorkerType

LEMMA NoWorkType == NoWork \in WorkerType /\ NoWork.at = "idle"
<1>1. 0 \in 0..MaxTries /\ ReviewTag \in Tags
  BY ProvisioningAssumption DEF Tags
<1> QED
  BY <1>1 DEF NoWork, WorkerType

LEMMA WorkerUpdate ==
    ASSUME TypeInv, NEW w \in Workers, NEW x \in WorkerType, workers' = [workers EXCEPT ![w] = x]
    PROVE  workers' \in [Workers -> WorkerType] /\ workers'[w] = x /\ Peers(w)
BY DEF TypeInv, Peers

LEMMA StartRunKind ==
    ASSUME TypeInv, StartRun
    PROVE  TypeInv' /\ RunKind
<1> DEFINE cache == {t \in Tags : copies[t] > 0}
<1>1. run' = [at |-> "review", cache |-> cache, missing |-> FALSE, tries |-> MaxTries]
  BY DEF StartRun, NoRun
<1>2. cache \in SUBSET Tags
  OBVIOUS
<1> HIDE DEF cache
<1>3. /\ run' \in RunType /\ run'.at = "review" /\ run'.missing = FALSE /\ run'.cache = cache
  BY <1>1, <1>2, ProvisioningAssumption DEF RunType
<1>4. startsLeft' \in Nat /\ crowded' \in BOOLEAN /\ removed' \subseteq Tags
  BY DEF StartRun, TypeInv
<1>5. TypeInv'
  BY <1>3, <1>4 DEF StartRun, TypeInv, paperless
<1> QED
  BY <1>3, <1>5 DEF StartRun, RunKind, RunStarts, Others, paperless, cache

LEMMA LookKind ==
    ASSUME TypeInv, LookForReviewTag
    PROVE  TypeInv' /\ RunKind
<1>1. run \in RunType /\ copies[ReviewTag] \in 0..2
  BY DEF TypeInv, Objects, Tags
<1>2. UNCHANGED <<renamed, unique, copies, kind, gate, setups, workers, crowded, edited, removed,
                  settled, startsLeft, troublesLeft>>
  BY DEF LookForReviewTag, paperless, history
<1>3. /\ run' \in RunType /\ run'.cache = run.cache
      /\ run'.at = "work" \/ (run'.at = "review" /\ copies[ReviewTag] = 0)
  <2>1. CASE copies[ReviewTag] > 0
    BY <1>1, <2>1, RunWorks DEF LookForReviewTag
  <2>2. CASE ~(copies[ReviewTag] > 0)
    BY <1>1, <2>2, RunMissed DEF LookForReviewTag
  <2> QED
    BY <2>1, <2>2
<1>4. TypeInv'
  BY <1>2, <1>3 DEF TypeInv
<1> QED
  BY <1>2, <1>3, <1>4 DEF LookForReviewTag, RunKind, RunLooks, Others

LEMMA CreateReviewKind ==
    ASSUME TypeInv, LockInv, CreateReviewTag
    PROVE  TypeInv' /\ RunKind
<1>1. /\ run \in RunType /\ ReviewTag \in Objects /\ run.at = "review" /\ run.missing
      /\ \A w \in Workers : workers[w].at = "idle"
  BY DEF TypeInv, Objects, Tags, CreateReviewTag, LockInv
<1>2. UNCHANGED <<renamed, unique, gate, setups, workers, edited, removed, settled, startsLeft>>
  BY DEF CreateReviewTag
<1>3. NoRun \in RunType /\ NoRun.at = "none" /\ NoRun.cache = {}
  BY NoRunType
<1>4. CASE /\ copies[ReviewTag] < 2 /\ Create(ReviewTag)
           /\ run' = [At(run, "work") EXCEPT !.missing = FALSE]
           /\ UNCHANGED <<troublesLeft, crowded>>
  <2>1. run' \in RunType /\ run'.at = "work" /\ run'.cache = run.cache
    BY <1>1, <1>4, RunWorks
  <2>2. /\ copies' \in [Objects -> 0..2] /\ kind' \in [Names -> Kinds]
        /\ Makes(ReviewTag) /\ Grows
    BY <1>1, <1>4, CreateEffect
  <2>3. TypeInv'
    BY <1>2, <1>4, <2>1, <2>2 DEF TypeInv
  <2> QED
    BY <1>1, <1>2, <1>4, <2>1, <2>2, <2>3 DEF RunKind, RunMakes, Others
<1>5. CASE run' = NoRun /\ UNCHANGED <<paperless, troublesLeft, crowded>>
  <2>1. TypeInv'
    BY <1>2, <1>3, <1>5 DEF TypeInv, paperless
  <2> QED
    BY <1>1, <1>2, <1>3, <1>5, <2>1 DEF RunKind, RunQuits, Others, paperless
<1>6. CASE /\ Unanswered(ReviewTag)
           /\ run' = IF run.tries > 1 THEN Again(run) ELSE NoRun
  <2>1. /\ run' \in RunType /\ run'.at # "work"
        /\ run'.cache = {} \/ run'.cache = run.cache
    <3>1. CASE run.tries > 1
      BY <1>1, <1>6, <3>1, RunAgain
    <3>2. CASE ~(run.tries > 1)
      BY <1>3, <1>6, <3>2
    <3> QED
      BY <3>1, <3>2
  <2>2. /\ copies' \in [Objects -> 0..2] /\ kind' \in [Names -> Kinds] /\ Grows
        /\ crowded' = TRUE /\ troublesLeft' \in Nat
    BY <1>1, <1>6, UnansweredEffect
  <2>3. TypeInv'
    BY <1>2, <2>1, <2>2 DEF TypeInv
  <2> QED
    BY <1>1, <1>2, <2>1, <2>2, <2>3 DEF RunKind, RunQuits, Others
<1> QED
  BY <1>4, <1>5, <1>6 DEF CreateReviewTag

LEMMA FinishRunKind ==
    ASSUME TypeInv, FinishRun
    PROVE  TypeInv' /\ RunKind
<1>1. /\ NoRun \in RunType /\ NoRun.at = "none" /\ NoRun.cache = {}
      /\ NoWork \in WorkerType /\ NoWork.at = "idle"
  BY NoRunType, NoWorkType
<1>2. UNCHANGED <<renamed, unique, copies, kind, gate, setups, crowded, edited, settled,
                  startsLeft, troublesLeft>>
  BY DEF FinishRun, paperless
<1>3. /\ run' = NoRun /\ removed' = {} /\ workers' \in [Workers -> WorkerType]
      /\ \A w \in Workers : workers'[w] = NoWork
  BY <1>1 DEF FinishRun
<1>4. TypeInv'
  BY <1>1, <1>2, <1>3 DEF TypeInv
<1> QED
  BY <1>1, <1>2, <1>3, <1>4 DEF RunKind, RunQuits, Others

LEMMA RunKinds ==
    ASSUME TypeInv, LockInv, StartRun \/ LookForReviewTag \/ CreateReviewTag \/ FinishRun
    PROVE  TypeInv' /\ RunKind
BY StartRunKind, LookKind, CreateReviewKind, FinishRunKind

\* A worker that goes on without creating anything.
LEMMA MoveKind ==
    ASSUME TypeInv, NEW w \in Workers, NEW x \in WorkerType, run.at = "work",
           workers' = [workers EXCEPT ![w] = x], workers[w].at # "creates",
           x.at \in {"idle", "wants", "waits"}, x.at # "idle" => x.topic \in Topics,
           UNCHANGED <<renamed, unique, copies, kind, gate, setups, run, crowded, edited,
                       removed, settled, troublesLeft>>,
           startsLeft' \in Nat
    PROVE  TypeInv' /\ WorkerKind(w)
<1>1. workers' \in [Workers -> WorkerType] /\ workers'[w] = x /\ Peers(w)
  BY WorkerUpdate
<1>2. TypeInv'
  BY <1>1 DEF TypeInv
<1> QED
  BY <1>1, <1>2 DEF WorkerKind, WorkerMoves, Others

LEMMA WorkerMoveKinds ==
    ASSUME TypeInv, LockInv, NEW w \in Workers,
           (\E topic \in Topics : TakeDocument(w, topic)) \/ FindInCache(w) \/ WaitForLock(w)
    PROVE  TypeInv' /\ WorkerKind(w)
<1>1. workers[w] \in WorkerType /\ startsLeft \in Nat
  BY DEF TypeInv
<1>2. /\ workers[w].at # "idle" => run.at = "work" /\ workers[w].topic \in Topics
  BY DEF LockInv
<1>3. NoWork \in WorkerType /\ NoWork.at = "idle"
  BY NoWorkType
<1>4. ASSUME NEW topic \in Topics, TakeDocument(w, topic)
      PROVE  TypeInv' /\ WorkerKind(w)
  <2> DEFINE x == Wanting(workers[w], topic)
  <2>1. x \in WorkerType /\ x.at = "wants" /\ x.topic = topic
    <3>1. topic \in Tags
      BY DEF Tags
    <3> QED
      BY <1>1, <3>1, WorkerWants
  <2>2. workers' = [workers EXCEPT ![w] = x]
    BY <1>4 DEF TakeDocument
  <2> HIDE DEF x
  <2>3. startsLeft' \in Nat
    BY <1>1, <1>4 DEF TakeDocument
  <2>4. /\ run.at = "work" /\ workers[w].at # "creates"
        /\ UNCHANGED <<renamed, unique, copies, kind, gate, setups, run, crowded, edited,
                       removed, settled, troublesLeft>>
    BY <1>4 DEF TakeDocument, paperless, history
  <2> QED
    BY <2>1, <2>2, <2>3, <2>4, MoveKind
<1>5. CASE FindInCache(w)
  <2>1. /\ workers[w].at = "wants" /\ workers' = [workers EXCEPT ![w] = NoWork]
        /\ UNCHANGED <<renamed, unique, copies, kind, gate, setups, run, crowded, edited,
                       removed, settled, startsLeft, troublesLeft>>
    BY <1>5 DEF FindInCache, Finds, paperless, history
  <2> QED
    BY <1>1, <1>2, <1>3, <2>1, MoveKind
<1>6. CASE WaitForLock(w)
  <2> DEFINE x == At(workers[w], "waits")
  <2>1. x \in WorkerType /\ x.at = "waits" /\ x.topic = workers[w].topic
    BY <1>1, WorkerAt
  <2>2. workers' = [workers EXCEPT ![w] = x]
    BY <1>6 DEF WaitForLock
  <2> HIDE DEF x
  <2>3. /\ workers[w].at = "wants"
        /\ UNCHANGED <<renamed, unique, copies, kind, gate, setups, run, crowded, edited,
                       removed, settled, startsLeft, troublesLeft>>
    BY <1>6 DEF WaitForLock, paperless, history
  <2> QED
    BY <1>1, <1>2, <2>1, <2>2, <2>3, MoveKind
<1> QED
  BY <1>4, <1>5, <1>6

LEMMA LockKind ==
    ASSUME TypeInv, LockInv, NEW w \in Workers, TakeLock(w)
    PROVE  TypeInv' /\ WorkerKind(w)
<1>1. /\ workers[w] \in WorkerType /\ workers[w].at = "waits" /\ run.at = "work" /\ LockFree
      /\ startsLeft \in Nat
  BY DEF TypeInv, LockInv, TakeLock
<1>2. UNCHANGED <<renamed, unique, copies, kind, gate, setups, run, crowded, edited, removed,
                  settled, startsLeft, troublesLeft>>
  BY DEF TakeLock, paperless, history
<1>3. CASE Cached(w)
  <2>1. workers' = [workers EXCEPT ![w] = NoWork]
    BY <1>3 DEF TakeLock, Finds
  <2>2. NoWork \in WorkerType /\ NoWork.at = "idle"
    BY NoWorkType
  <2> QED
    BY <1>1, <1>2, <2>1, <2>2, MoveKind
<1>4. CASE ~Cached(w)
  <2> DEFINE x == Creator(workers[w])
  <2>1. x \in WorkerType /\ x.at = "creates" /\ x.topic = workers[w].topic
    BY <1>1, WorkerCreator
  <2>2. workers' = [workers EXCEPT ![w] = x]
    BY <1>4 DEF TakeLock
  <2> HIDE DEF x
  <2>3. workers' \in [Workers -> WorkerType] /\ workers'[w] = x /\ Peers(w)
    BY <2>1, <2>2, WorkerUpdate
  <2>4. TypeInv'
    BY <1>2, <2>3 DEF TypeInv
  <2> QED
    BY <1>1, <1>2, <1>4, <2>1, <2>3, <2>4 DEF WorkerKind, WorkerLocks, Others
<1> QED
  BY <1>3, <1>4

LEMMA WorkerCreateKind ==
    ASSUME TypeInv, LockInv, NEW w \in Workers, WorkerCreates(w)
    PROVE  TypeInv' /\ WorkerKind(w)
<1> DEFINE topic == workers[w].topic
<1>1. /\ workers[w] \in WorkerType /\ topic \in Tags /\ topic \in Objects
      /\ workers[w].at = "creates" /\ run.at = "work" /\ run \in RunType
  BY DEF TypeInv, LockInv, WorkerCreates, WorkerType, Objects
<1>2. UNCHANGED <<renamed, unique, gate, setups, edited, removed, settled, startsLeft>>
  BY DEF WorkerCreates
<1>3. ASSUME copies[topic] < 2, Create(topic), run' = Cache(topic), Finds(w),
             UNCHANGED <<troublesLeft, crowded>>
      PROVE  TypeInv' /\ WorkerKind(w)
  <2>1. run' \in RunType /\ run'.at = "work" /\ run'.cache = run.cache \cup {topic}
    BY <1>1, <1>3, CacheType
  <2>2. /\ copies' \in [Objects -> 0..2] /\ kind' \in [Names -> Kinds]
        /\ Makes(topic) /\ Grows
    BY <1>1, <1>3, CreateEffect
  <2>3. NoWork \in WorkerType /\ NoWork.at = "idle"
    BY NoWorkType
  <2>4. workers' \in [Workers -> WorkerType] /\ workers'[w] = NoWork /\ Peers(w)
    BY <1>3, <2>3, WorkerUpdate DEF Finds
  <2>5. TypeInv'
    BY <1>2, <1>3, <2>1, <2>2, <2>4 DEF TypeInv
  <2> QED
    BY <1>1, <1>2, <1>3, <2>1, <2>2, <2>3, <2>4, <2>5 DEF WorkerKind, WorkerMakes, Others
<1>4. ASSUME NEW x \in WorkerType, workers' = [workers EXCEPT ![w] = x],
             x.at \in {"creates", "failed"}, x.topic = topic, run' = run,
             \/ UNCHANGED <<copies, kind, crowded, troublesLeft>> /\ copies[topic] > 0
             \/ Unanswered(topic)
      PROVE  TypeInv' /\ WorkerKind(w)
  <2>1. \/ UNCHANGED <<copies, kind, crowded, troublesLeft>> /\ copies[topic] > 0
        \/ /\ copies' \in [Objects -> 0..2] /\ kind' \in [Names -> Kinds] /\ Grows
           /\ crowded' = TRUE /\ troublesLeft' \in Nat
    BY <1>1, <1>4, UnansweredEffect
  <2>2. workers' \in [Workers -> WorkerType] /\ workers'[w] = x /\ Peers(w)
    BY <1>4, WorkerUpdate
  <2>3. TypeInv'
    BY <1>2, <1>4, <2>1, <2>2 DEF TypeInv
  <2> QED
    BY <1>1, <1>2, <1>4, <2>1, <2>2, <2>3 DEF WorkerKind, WorkerFails, Others
<1>5. At(workers[w], "failed") \in WorkerType /\ At(workers[w], "failed").at = "failed"
      /\ At(workers[w], "failed").topic = topic
  <2> DEFINE x == At(workers[w], "failed")
  <2>1. x \in WorkerType /\ x.at = "failed" /\ x.topic = workers[w].topic
    BY <1>1, WorkerAt
  <2> QED
    BY <2>1
<1>6. CASE /\ Refuses(topic)
           /\ workers' = [workers EXCEPT ![w] = At(@, "failed")]
           /\ UNCHANGED <<paperless, run, troublesLeft, crowded>>
  BY <1>4, <1>5, <1>6 DEF Refuses, paperless
<1>7. CASE /\ Unanswered(topic)
           /\ workers' = IF workers[w].tries > 1
                           THEN [workers EXCEPT ![w] = Again(@)]
                           ELSE [workers EXCEPT ![w] = At(@, "failed")]
           /\ UNCHANGED run
  <2>1. CASE workers[w].tries > 1
    <3> DEFINE x == Again(workers[w])
    <3>1. x \in WorkerType /\ x.at = "creates" /\ x.topic = workers[w].topic
      BY <1>1, <2>1, WorkerAgain
    <3>2. workers' = [workers EXCEPT ![w] = x]
      BY <1>7, <2>1
    <3> HIDE DEF x
    <3> QED
      BY <1>4, <1>7, <3>1, <3>2
  <2>2. CASE ~(workers[w].tries > 1)
    BY <1>4, <1>5, <1>7, <2>2
  <2> QED
    BY <2>1, <2>2
<1> QED
  BY <1>3, <1>6, <1>7 DEF WorkerCreates

LEMMA WorkerKinds ==
    ASSUME TypeInv, LockInv, NEW w \in Workers, WorkerStep(w)
    PROVE  TypeInv' /\ WorkerKind(w)
BY WorkerMoveKinds, LockKind, WorkerCreateKind DEF WorkerStep

\* What a human does to one object.
LEMMA HumanKinds ==
    ASSUME TypeInv, HumanStep
    PROVE  TypeInv' /\ HumanKind
<1>1. ASSUME NEW o \in Objects, NEW c \in 0..1, copies' = [copies EXCEPT ![o] = c], HumanActs,
             kind' \in [Names -> Kinds], removed \subseteq removed', removed' \subseteq Tags,
             c = 0 => o \in removed',
             \A n \in Names : (n = o /\ c = 1) \/ (n # o /\ kind'[n] = kind[n])
      PROVE  TypeInv' /\ HumanKind
  <2>1. /\ copies' \in [Objects -> 0..2] /\ copies'[o] = c
        /\ \A u \in Objects : u # o => copies'[u] = copies[u]
    BY <1>1 DEF TypeInv
  <2>2. troublesLeft' \in Nat /\ crowded' \in BOOLEAN /\ edited' \in BOOLEAN
    BY <1>1 DEF HumanActs, TypeInv
  <2>3. settled' = {}
    BY <1>1 DEF HumanActs
  <2>4. UNCHANGED <<renamed, unique, gate, setups, run, workers, startsLeft>>
    BY <1>1 DEF HumanActs
  <2>5. TypeInv'
    BY <1>1, <2>1, <2>2, <2>3, <2>4 DEF TypeInv
  <2>6. \A u \in Objects : copies'[u] = copies[u] \/ copies'[u] <= 1
    BY <2>1
  <2>7. \A u \in Objects : copies[u] > 0 /\ copies'[u] = 0 => u \in removed'
    BY <1>1, <2>1
  <2>8. \A n \in Names : copies'[n] = 0 => copies[n] = 0 /\ kind'[n] = kind[n]
    <3> SUFFICES ASSUME NEW n \in Names, copies'[n] = 0
                 PROVE  copies[n] = 0 /\ kind'[n] = kind[n]
      OBVIOUS
    <3>1. n \in Objects
      BY DEF Objects
    <3>2. n # o
      BY <1>1, <2>1
    <3> QED
      BY <1>1, <2>1, <3>1, <3>2
  <2> QED
    BY <1>1, <2>5, <2>6, <2>7, <2>8 DEF HumanActs, HumanKind
<1>2. ASSUME NEW n \in Names, NEW k \in {"near", "other"}, HumanMakesField(n, k)
      PROVE  TypeInv' /\ HumanKind
  <2>0. PICK c \in 0..1 : c = 1
    OBVIOUS
  <2>1. copies' = [copies EXCEPT ![n] = c] /\ HumanActs /\ kind' = [kind EXCEPT ![n] = k]
        /\ removed' = removed
    BY <1>2, <2>0 DEF HumanMakesField
  <2>2. /\ n \in Objects /\ kind' \in [Names -> Kinds] /\ removed' \subseteq Tags
        /\ c # 0
    BY <2>0, <2>1 DEF TypeInv, Objects, Kinds
  <2>3. \A m \in Names : (m = n /\ c = 1) \/ (m # n /\ kind'[m] = kind[m])
    BY <2>0, <2>1 DEF TypeInv
  <2> QED
    BY <1>1, <2>1, <2>2, <2>3
<1>3. ASSUME NEW t \in Tags, HumanMakesTag(t) \/ HumanRemovesTag(t)
      PROVE  TypeInv' /\ HumanKind
  <2>1. /\ t \in Objects /\ kind' = kind /\ kind' \in [Names -> Kinds]
        /\ removed \subseteq removed' /\ removed' \subseteq Tags /\ HumanActs
    BY <1>3 DEF HumanMakesTag, HumanRemovesTag, TypeInv, Objects
  <2>2. \A n \in Names : n # t /\ kind'[n] = kind[n]
    BY <2>1, ProvisioningAssumption DEF Names
  <2>3. \/ copies' = [copies EXCEPT ![t] = 1]
        \/ copies' = [copies EXCEPT ![t] = 0] /\ t \in removed'
    BY <1>3 DEF HumanMakesTag, HumanRemovesTag
  <2> QED
    BY <1>1, <2>1, <2>2, <2>3
<1> QED
  BY <1>2, <1>3 DEF HumanStep

\* What the program does.
ProgramKind ==
    \/ \E s \in Setups : SetupKind(s)
    \/ RunKind
    \/ \E w \in Workers : WorkerKind(w)

LEMMA StepKinds ==
    ASSUME TypeInv, LockInv, Next
    PROVE  TypeInv' /\ (ProgramKind \/ (HumanStep /\ HumanKind))
BY SetupKinds, RunKinds, WorkerKinds, HumanKinds DEF Next, ProgramKind

\* All but a human only add to Paperless.
LEMMA ProgramGrows ==
    ASSUME TypeInv, ProgramKind
    PROVE  Grows
<1>1. UNCHANGED <<copies, kind>> => Grows
  BY DEF TypeInv, Grows
<1>2. ASSUME NEW s \in Setups, SetupKind(s) PROVE Grows
  BY <1>1, <1>2 DEF SetupKind, Begins, Lists, Ticks, Misses, MakesNext, Retries, Ends
<1>3. RunKind => Grows
  BY <1>1 DEF RunKind, RunStarts, RunLooks, RunMakes, RunQuits
<1>4. ASSUME NEW w \in Workers, WorkerKind(w) PROVE Grows
  BY <1>1, <1>4 DEF WorkerKind, WorkerMoves, WorkerLocks, WorkerMakes, WorkerFails
<1> QED
  BY <1>2, <1>3, <1>4 DEF ProgramKind

(***************************************************************************)
(* The flag of the dashboard, what is left to do, and the lock.            *)
(***************************************************************************)

LEMMA GateKept ==
    ASSUME TypeInv, GateInv, ProgramKind \/ HumanKind
    PROVE  GateInv'
<1>1. CASE UNCHANGED <<gate, setups>>
  BY <1>1 DEF GateInv, Active
<1>2. ASSUME NEW s \in Setups, Begins(s) PROVE GateInv'
  <2>1. gate \in BOOLEAN
    BY DEF TypeInv
  <2>2. CASE s = Cli
    <3>1. \A u \in WebRequests : setups'[u] = setups[u]
      BY <1>2, <2>2, ProvisioningAssumption DEF Begins, Same, Setups
    <3> QED
      BY <1>2, <2>1, <2>2, <3>1 DEF GateInv, Active, Begins
  <2>3. CASE s # Cli
    <3>1. s \in WebRequests /\ ~gate /\ gate' /\ setups'[s].at # "idle"
      BY <1>2, <2>3 DEF Begins, Setups
    <3>2. \A u \in WebRequests : u # s => setups'[u].at = "idle"
      BY <1>2, <3>1 DEF GateInv, Active, Begins, Same, Setups
    <3> QED
      BY <3>1, <3>2 DEF GateInv, Active
  <2> QED
    BY <2>2, <2>3
<1>3. ASSUME NEW s \in Setups, setups[s].at # "idle", setups'[s].at # "idle", Same(s),
             UNCHANGED gate
      PROVE  GateInv'
  <2>1. \A u \in WebRequests : setups'[u].at = "idle" <=> setups[u].at = "idle"
    BY <1>3 DEF Same, Setups
  <2> QED
    BY <1>3, <2>1 DEF GateInv, Active
<1>4. ASSUME NEW s \in Setups, Ends(s) PROVE GateInv'
  <2>1. gate \in BOOLEAN
    BY DEF TypeInv
  <2>2. CASE s = Cli
    <3>1. \A u \in WebRequests : setups'[u] = setups[u]
      BY <1>4, <2>2, ProvisioningAssumption DEF Ends, Same, Setups
    <3> QED
      BY <1>4, <2>1, <2>2, <3>1 DEF GateInv, Active, Ends
  <2>3. CASE s # Cli
    <3>1. s \in WebRequests /\ ~gate' /\ setups'[s].at = "idle" /\ setups[s].at # "idle"
      BY <1>4, <2>3 DEF Ends, Setups
    <3>2. \A u \in WebRequests : u # s => setups'[u].at = "idle"
      BY <1>4, <3>1 DEF GateInv, Active, Ends, Same, Setups
    <3> QED
      BY <3>1, <3>2 DEF GateInv, Active
  <2> QED
    BY <2>2, <2>3
<1>5. ASSUME NEW s \in Setups, SetupKind(s) PROVE GateInv'
  <2>1. CASE Begins(s) \/ Ends(s)
    BY <1>2, <1>4, <2>1
  <2>2. CASE Lists(s) \/ Ticks(s) \/ Misses(s) \/ MakesNext(s) \/ Retries(s)
    <3>1. setups[s].at # "idle" /\ setups'[s].at # "idle" /\ Same(s) /\ UNCHANGED gate
      BY <2>2 DEF Lists, Ticks, Misses, MakesNext, Retries, Works, Ensuring
    <3> QED
      BY <1>3, <3>1
  <2> QED
    BY <1>5, <2>1, <2>2 DEF SetupKind
<1>6. RunKind => UNCHANGED <<gate, setups>>
  BY DEF RunKind, RunStarts, RunLooks, RunMakes, RunQuits, Others
<1>7. ASSUME NEW w \in Workers, WorkerKind(w) PROVE UNCHANGED <<gate, setups>>
  BY <1>7 DEF WorkerKind, WorkerMoves, WorkerLocks, WorkerMakes, WorkerFails, Others
<1>8. HumanKind => UNCHANGED <<gate, setups>>
  BY DEF HumanKind
<1> QED
  BY <1>1, <1>5, <1>6, <1>7, <1>8 DEF ProgramKind

\* Who is not a setup leaves the setups alone, and nobody renames a field.
LEMMA SetupsSame ==
    ASSUME RunKind \/ (\E w \in Workers : WorkerKind(w)) \/ HumanKind
    PROVE  UNCHANGED <<renamed, gate, setups>>
<1>1. RunKind => UNCHANGED <<renamed, gate, setups>>
  BY DEF RunKind, RunStarts, RunLooks, RunMakes, RunQuits, Others
<1>2. ASSUME NEW w \in Workers, WorkerKind(w) PROVE UNCHANGED <<renamed, gate, setups>>
  BY <1>2 DEF WorkerKind, WorkerMoves, WorkerLocks, WorkerMakes, WorkerFails, Others
<1> QED
  BY <1>1, <1>2 DEF HumanKind

LEMMA RenamedSame ==
    ASSUME ProgramKind \/ HumanKind
    PROVE  renamed' = renamed
<1>1. ASSUME NEW s \in Setups, SetupKind(s) PROVE renamed' = renamed
  BY <1>1 DEF SetupKind, Begins, Lists, Ticks, Misses, MakesNext, Retries, Ends, Works
<1> QED
  BY <1>1, SetupsSame DEF ProgramKind

LEMMA NamesSame ==
    ASSUME renamed' = renamed, NEW s \in Setups
    PROVE  /\ \A f \in Fields : NameFor(s, f)' = NameFor(s, f)
           /\ Wanted(s)' = Wanted(s)
<1>1. \A f : NameFor(s, f)' = NameFor(s, f)
  BY DEF NameFor, NameOf
<1> QED
  BY <1>1 DEF Wanted

\* What a setup has left to do, one step later.
Todo(s) ==
    /\ setups[s].at = "fields" => ~setups[s].missing
    /\ setups[s].at = "ensure" =>
          /\ Members(setups[s].todo) \subseteq Wanted(s)
          /\ \A i, j \in Places(setups[s].todo) :
                setups[s].todo[i] = setups[s].todo[j] => i = j

LEMMA TodoSplit == TodoInv <=> \A s \in Setups : Todo(s)
BY DEF TodoInv, Todo

LEMMA TodoKept ==
    ASSUME TypeInv, TodoInv, ProgramKind \/ HumanKind
    PROVE  TodoInv'
<1>1. renamed' = renamed
  BY RenamedSame
<1>2. ASSUME NEW s \in Setups, setups'[s] = setups[s] PROVE Todo(s)'
  <2>1. Todo(s)
    BY TodoSplit
  <2> QED
    BY <1>1, <1>2, <2>1, NamesSame DEF Todo
<1>3. ASSUME NEW s \in Setups, SetupKind(s) PROVE Todo(s)'
  <2>1. Todo(s) /\ Wanted(s)' = Wanted(s)
    BY <1>1, TodoSplit, NamesSame
  <2>2. CASE Begins(s) \/ Ends(s)
    BY <2>2 DEF Begins, Ends, Todo
  <2>3. CASE Lists(s)
    BY <2>1, <2>3, ToEnsureMembers DEF Lists, Todo
  <2>4. CASE Ticks(s) \/ MakesNext(s)
    <3>1. /\ setups[s].at = "ensure" /\ setups[s].todo \in Seq(Objects) /\ setups[s].todo # <<>>
          /\ setups'[s].at = "ensure" /\ setups'[s].todo = Tail(setups[s].todo)
      BY <2>4, NextUpType DEF Ticks, MakesNext, Works, Ensuring
    <3>2. Members(Tail(setups[s].todo)) \subseteq Members(setups[s].todo)
      BY <3>1, TailMembers
    <3>3. \A i, j \in Places(Tail(setups[s].todo)) :
             Tail(setups[s].todo)[i] = Tail(setups[s].todo)[j] => i = j
      BY <2>1, <3>1, TailMembers DEF Todo
    <3> QED
      BY <2>1, <3>1, <3>2, <3>3 DEF Todo
  <2>5. CASE Misses(s) \/ Retries(s)
    <3>1. /\ setups[s].at = "ensure" /\ setups'[s].at = "ensure"
          /\ setups'[s].todo = setups[s].todo
      BY <2>5 DEF Misses, Retries, Works, Ensuring
    <3> QED
      BY <2>1, <3>1 DEF Todo
  <2> QED
    BY <1>3, <2>2, <2>3, <2>4, <2>5 DEF SetupKind
<1>4. ASSUME NEW s \in Setups, SetupKind(s) PROVE TodoInv'
  <2>1. Same(s)
    BY <1>4 DEF SetupKind, Begins, Lists, Ticks, Misses, MakesNext, Retries, Ends, Works
  <2>2. \A u \in Setups : Todo(u)'
    BY <1>2, <1>3, <1>4, <2>1 DEF Same
  <2> QED
    BY <2>2 DEF TodoInv, Todo
<1>5. CASE UNCHANGED setups
  <2>1. \A u \in Setups : Todo(u)'
    BY <1>2, <1>5
  <2> QED
    BY <2>1 DEF TodoInv, Todo
<1> QED
  BY <1>4, <1>5, SetupsSame DEF ProgramKind

LEMMA LockKept ==
    ASSUME TypeInv, LockInv, ProgramKind \/ HumanKind
    PROVE  LockInv'
<1>1. CASE UNCHANGED <<run, workers>>
  BY <1>1 DEF LockInv, Cached
<1>2. ASSUME NEW s \in Setups, SetupKind(s) PROVE UNCHANGED <<run, workers>>
  BY <1>2 DEF SetupKind, Begins, Lists, Ticks, Misses, MakesNext, Retries, Ends, Works
<1>3. CASE RunKind
  <2>1. \A w \in Workers : workers'[w].at = "idle"
    BY <1>3 DEF RunKind, RunStarts, RunLooks, RunMakes, RunQuits, LockInv
  <2> QED
    BY <2>1 DEF LockInv
<1>4. ASSUME NEW w \in Workers, WorkerKind(w) PROVE LockInv'
  <2>1. Peers(w) /\ run.at = "work" /\ run'.at = "work" /\ run.cache \subseteq run'.cache
    BY <1>4 DEF WorkerKind, WorkerMoves, WorkerLocks, WorkerMakes, WorkerFails
  <2>2. workers'[w].at # "idle" => workers'[w].topic \in Topics
    BY <1>4 DEF WorkerKind, WorkerMoves, WorkerLocks, WorkerMakes, WorkerFails, LockInv
  <2>3. workers'[w].at = "creates" =>
           /\ workers'[w].topic = workers[w].topic /\ ~Cached(w) /\ run' = run
           /\ \A v \in Workers : v # w => workers[v].at # "creates"
    BY <1>4 DEF WorkerKind, WorkerMoves, WorkerLocks, WorkerMakes, WorkerFails, LockInv, LockFree
  <2>4. run' # run => /\ workers'[w].at = "idle"
                      /\ \A v \in Workers : v # w => workers[v].at # "creates"
    BY <1>4 DEF WorkerKind, WorkerMoves, WorkerLocks, WorkerMakes, WorkerFails, LockInv
  <2>5. \A v \in Workers : workers'[v].at = "creates" => ~Cached(v)'
    BY <2>1, <2>3, <2>4 DEF LockInv, Peers, Cached
  <2>6. \A v \in Workers : workers'[v].at # "idle" => workers'[v].topic \in Topics
    BY <2>1, <2>2 DEF LockInv, Peers
  <2>7. \A u \in Workers, v \in Workers :
           workers'[u].at = "creates" /\ workers'[v].at = "creates" => u = v
    BY <2>1, <2>3 DEF LockInv, Peers
  <2> QED
    BY <2>1, <2>5, <2>6, <2>7 DEF LockInv
<1>5. HumanKind => UNCHANGED <<run, workers>>
  BY DEF HumanKind
<1> QED
  BY <1>1, <1>2, <1>3, <1>4, <1>5 DEF ProgramKind

\* What every later argument relies on.
IInv == TypeInv /\ GateInv /\ TodoInv /\ LockInv

LEMMA TypeIsType == TypeOK <=> TypeInv
BY DEF TypeOK, TypeInv, SetupType, RunType, WorkerType, Objects

LEMMA InitIInv == Init => IInv
<1> SUFFICES ASSUME Init PROVE IInv
  OBVIOUS
<1>1. Idle \in SetupType /\ Idle.at = "idle"
  BY IdleEffect
<1>2. NoRun \in RunType /\ NoRun.at = "none" /\ NoWork \in WorkerType /\ NoWork.at = "idle"
  BY NoRunType, NoWorkType
<1>3. startsLeft \in Nat /\ troublesLeft \in Nat
  BY ProvisioningAssumption DEF Init
<1>4. TypeInv
  <2>1. copies \in [Objects -> 0..2] /\ kind \in [Names -> Kinds]
    BY DEF Init, Objects, Kinds
  <2>2. setups \in [Setups -> SetupType] /\ run \in RunType /\ workers \in [Workers -> WorkerType]
    BY <1>1, <1>2 DEF Init
  <2>3. /\ renamed \subseteq Fields /\ unique \in BOOLEAN /\ gate \in BOOLEAN
        /\ {crowded, edited} \subseteq BOOLEAN /\ removed \subseteq Tags
        /\ settled \subseteq {"cli", "web"}
    BY DEF Init
  <2> QED
    BY <1>3, <2>1, <2>2, <2>3 DEF TypeInv
<1>5. \A s \in Setups : setups[s].at = "idle"
  BY <1>1 DEF Init
<1>6. GateInv
  BY <1>5 DEF Init, GateInv, Active, Setups
<1>7. TodoInv
  BY <1>5 DEF TodoInv
<1>8. LockInv
  BY <1>2 DEF Init, LockInv
<1> QED
  BY <1>4, <1>6, <1>7, <1>8 DEF IInv

LEMMA StutterIInv == IInv /\ UNCHANGED vars => IInv'
<1> SUFFICES ASSUME IInv, UNCHANGED vars PROVE IInv'
  OBVIOUS
<1>1. UNCHANGED <<renamed, unique, copies, kind, gate, setups, run, workers, crowded, edited,
                  removed, settled, startsLeft, troublesLeft>>
  BY DEF vars, paperless, history
<1>2. TypeInv'
  BY <1>1 DEF IInv, TypeInv
<1>3. GateInv' /\ LockInv'
  BY <1>1 DEF IInv, GateInv, Active, LockInv, Cached
<1>4. TodoInv'
  BY <1>1, NamesSame DEF IInv, TodoInv
<1> QED
  BY <1>2, <1>3, <1>4 DEF IInv

LEMMA NextIInv == IInv /\ Next => IInv'
BY StepKinds, GateKept, TodoKept, LockKept DEF IInv

\* IInv is an invariant: one request of the dashboard is at work, each name is
\* provided for once, and one worker creates what is not in the cache.
LEMMA AlwaysIInv == Spec => []IInv
<1>1. IInv /\ [Next]_vars => IInv'
  BY NextIInv, StutterIInv
<1> QED
  BY <1>1, InitIInv, PTL DEF Spec

\* The variables of the model keep their types.
THEOREM TypeCorrect == Spec => []TypeOK
<1>1. IInv => TypeOK
  BY TypeIsType DEF IInv
<1> QED
  BY <1>1, AlwaysIInv, PTL

(***************************************************************************)
(* One at work alone.                                                      *)
(***************************************************************************)

\* Nobody is at work, and the run is over, when nobody is busy.
LEMMA NobodyBusy ==
    ASSUME Busy = {}
    PROVE  (\A s \in Setups : ~Active(s)) /\ run.at = "none"
BY DEF Busy, SettingUp, Active

\* A setup that begins alone is alone.
LEMMA BeginsAlone ==
    ASSUME GateInv, NEW s \in Setups, Begins(s), Busy \ {Group(s)} = {}
    PROVE  (\A u \in Setups : ~Active(u)) /\ run.at = "none"
<1>1. Group(s) # "run"
  BY DEF Group
<1>2. run.at = "none"
  BY <1>1 DEF Busy
<1>3. \A u \in Setups : Active(u) => Group(u) = Group(s)
  BY DEF Busy, SettingUp, Active
<1>4. \A u \in Setups : Group(u) = "web" <=> u \in WebRequests
  BY ProvisioningAssumption DEF Group, Setups
<1>5. CASE s = Cli
  BY <1>2, <1>3, <1>4, <1>5, ProvisioningAssumption DEF Group, Setups, Begins
<1>6. CASE s # Cli
  <2>1. ~gate
    BY <1>6 DEF Begins
  <2> QED
    BY <1>2, <1>3, <1>4, <1>6, <2>1 DEF GateInv, Group
<1> QED
  BY <1>5, <1>6

\* What AloneInv says of one setup.
AloneSetup(s) ==
    setups[s].at = "ensure" =>
        /\ \A n \in Members(setups[s].todo) : n \in Names \ setups[s].found => copies[n] = 0
        /\ setups[s].missing => setups[s].todo # <<>> /\ copies[NextUp(s)] = 0

\* What a setup is about to create is not there.
LEMMA CreatesNew ==
    ASSUME TypeInv, AloneInv, NEW s \in Setups, Creating(s)
    PROVE  copies[NextUp(s)] = 0
<1>1. /\ Ensuring(s) /\ setups[s].at = "ensure" /\ setups[s].todo # <<>>
      /\ setups[s].todo \in Seq(Objects)
  BY NextUpType DEF Creating, Ensuring
<1>2. NextUp(s) \in Members(setups[s].todo)
  BY <1>1, TailMembers DEF NextUp
<1> QED
  BY <1>1, <1>2 DEF AloneInv, Creating, IsField

LEMMA AloneSetupKept ==
    ASSUME TypeInv, GateInv, TodoInv, LockInv, AloneInv, NEW s \in Setups, SetupKind(s),
           ~crowded, ~crowded'
    PROVE  AloneInv'
<1>0. Same(s) /\ run' = run /\ workers' = workers
  BY DEF SetupKind, Begins, Lists, Ticks, Misses, MakesNext, Retries, Ends, Works
\* It is, and it was, the only one at work.
<1>1. (\A u \in Setups : u # s => ~Active(u)) /\ run.at = "none"
  <2>1. CASE Begins(s)
    <3>1. Busy \ {Group(s)} = {}
      BY <2>1 DEF Begins
    <3> QED
      BY <2>1, <3>1, BeginsAlone
  <2>2. CASE Active(s)
    BY <2>2 DEF AloneInv
  <2>3. Begins(s) \/ Active(s)
    BY DEF SetupKind, Lists, Ticks, Misses, MakesNext, Retries, Ends, Works, Ensuring, Active
  <2> QED
    BY <2>1, <2>2, <2>3
<1>2. \A u \in Setups : u # s => setups'[u].at = "idle"
  BY <1>0, <1>1 DEF Same, Active
\* Hence what is left of AloneInv is what it says of s, and of the copies.
<1>3. ASSUME \A o \in Objects : copies'[o] <= 1, AloneSetup(s)'
      PROVE  AloneInv'
  <2>1. \A u \in Setups : AloneSetup(u)'
    BY <1>2, <1>3 DEF AloneSetup
  <2>2. \A u \in Setups, v \in Setups : setups'[u].at # "idle" /\ setups'[v].at # "idle" => u = v
    BY <1>2
  <2>3. run'.at = "none" /\ \A w \in Workers : workers'[w].at # "failed"
    BY <1>0, <1>1 DEF AloneInv
  <2> QED
    BY <1>3, <2>1, <2>2, <2>3 DEF AloneInv, AloneSetup, Active
<1>4. AloneSetup(s) /\ \A o \in Objects : copies[o] <= 1
  BY DEF AloneInv, AloneSetup
<1>5. CASE Begins(s)
  <2>1. copies' = copies /\ setups'[s].at = "fields"
    BY <1>5 DEF Begins
  <2> QED
    BY <1>3, <1>4, <2>1 DEF AloneSetup
<1>6. CASE Lists(s)
  <2>1. copies' = copies /\ ~setups'[s].missing
    BY <1>6 DEF Lists, TodoInv
  <2>2. setups'[s].found = {n \in Names : copies[n] > 0}
    BY <1>6 DEF Lists
  <2>3. \A n \in Names : copies[n] \in 0..2
    BY DEF TypeInv, Objects
  <2>4. \A n \in Names \ setups'[s].found : copies'[n] = 0
    BY <2>1, <2>2, <2>3
  <2>5. AloneSetup(s)'
    BY <2>1, <2>4 DEF AloneSetup
  <2> QED
    BY <1>3, <1>4, <2>1, <2>5
<1>7. CASE Ticks(s)
  <2>1. /\ setups[s].at = "ensure" /\ setups[s].todo \in Seq(Objects) /\ setups[s].todo # <<>>
        /\ setups'[s].todo = Tail(setups[s].todo) /\ ~setups'[s].missing /\ copies' = copies
        /\ setups'[s].found = setups[s].found
    BY <1>7, NextUpType DEF Ticks, Works, Ensuring
  <2>2. Members(setups'[s].todo) \subseteq Members(setups[s].todo)
    BY <2>1, TailMembers
  <2>3. AloneSetup(s)'
    BY <1>4, <2>1, <2>2 DEF AloneSetup
  <2> QED
    BY <1>3, <1>4, <2>1, <2>3
<1>8. CASE Misses(s)
  <2>1. /\ setups[s].at = "ensure" /\ setups[s].todo # <<>>
        /\ setups'[s].todo = setups[s].todo /\ copies' = copies
        /\ setups'[s].found = setups[s].found /\ copies[NextUp(s)] = 0
    BY <1>8 DEF Misses, Works, Ensuring
  <2>2. NextUp(s)' = NextUp(s)
    BY <2>1 DEF NextUp
  <2>3. AloneSetup(s)'
    BY <1>4, <2>1, <2>2 DEF AloneSetup
  <2> QED
    BY <1>3, <1>4, <2>1, <2>3
<1>9. CASE MakesNext(s)
  <2>1. /\ setups[s].at = "ensure" /\ setups[s].todo \in Seq(Objects) /\ setups[s].todo # <<>>
        /\ setups'[s].todo = Tail(setups[s].todo) /\ ~setups'[s].missing
        /\ setups'[s].found = setups[s].found /\ NextUp(s) \in Objects
    BY <1>9, NextUpType DEF MakesNext, Works, Ensuring
  <2>2. /\ copies'[NextUp(s)] = 1
        /\ \A o \in Objects : o # NextUp(s) => copies'[o] = copies[o]
    BY <1>9, CreatesNew DEF MakesNext, Makes
  <2>3. \A i, j \in Places(setups[s].todo) : setups[s].todo[i] = setups[s].todo[j] => i = j
    BY <2>1 DEF TodoInv
  <2>4. /\ NextUp(s) \notin Members(setups'[s].todo)
        /\ Members(setups'[s].todo) \subseteq Members(setups[s].todo)
    BY <2>1, <2>3, TailMembers DEF NextUp
  <2>5. \A n \in Names : n \in Objects
    BY DEF Objects
  <2>6. AloneSetup(s)'
    BY <1>4, <2>1, <2>2, <2>4, <2>5 DEF AloneSetup
  <2>7. \A o \in Objects : copies'[o] <= 1
    BY <1>4, <2>2
  <2> QED
    BY <1>3, <2>6, <2>7
<1>10. CASE Ends(s)
  <2>1. copies' = copies /\ setups'[s].at = "idle"
    BY <1>10 DEF Ends
  <2> QED
    BY <1>3, <1>4, <2>1 DEF AloneSetup
<1>11. ~Retries(s)
  BY DEF Retries
<1> QED
  BY <1>5, <1>6, <1>7, <1>8, <1>9, <1>10, <1>11 DEF SetupKind

\* A step of the run, its workers or a human, while no setup is at work.
LEMMA AloneNoSetup ==
    ASSUME \A s \in Setups : ~Active(s), setups' = setups,
           \A o \in Objects : copies'[o] <= 1,
           run'.at = "review" /\ run'.missing => copies'[ReviewTag] = 0,
           run'.at # "none" => \A t \in Topics \ run'.cache : copies'[t] = 0,
           \A w \in Workers : workers'[w].at # "failed"
    PROVE  AloneInv'
<1>1. \A s \in Setups : setups'[s].at = "idle"
  BY DEF Active
<1> QED
  BY <1>1 DEF AloneInv, Active

LEMMA AloneRunKept ==
    ASSUME TypeInv, GateInv, TodoInv, LockInv, AloneInv, RunKind, ReviewTag \notin Topics,
           ~crowded, ~crowded'
    PROVE  AloneInv'
<1>1. setups' = setups
  BY DEF RunKind, RunStarts, RunLooks, RunMakes, RunQuits, Others
<1>2. /\ \A o \in Objects : copies[o] <= 1 /\ copies[o] \in 0..2
      /\ ReviewTag \in Objects /\ \A t \in Topics : t \in Tags /\ t \in Objects
      /\ \A w \in Workers : workers[w].at # "failed"
  BY DEF AloneInv, TypeInv, Objects, Tags
<1>3. CASE RunStarts
  <2>1. Busy = {}
    BY <1>3 DEF RunStarts
  <2>2. \A s \in Setups : ~Active(s)
    BY <2>1, NobodyBusy
  <2>3. /\ copies' = copies /\ workers' = workers /\ ~run'.missing
        /\ run'.cache = {t \in Tags : copies[t] > 0}
    BY <1>3 DEF RunStarts
  <2>4. \A t \in Topics \ run'.cache : copies'[t] = 0
    BY <1>2, <2>3
  <2> QED
    BY <1>1, <1>2, <2>2, <2>3, <2>4, AloneNoSetup
<1>4. CASE RunLooks
  <2>1. /\ run.at = "review" /\ copies' = copies /\ workers' = workers /\ run'.cache = run.cache
        /\ run'.at = "work" \/ copies[ReviewTag] = 0
    BY <1>4 DEF RunLooks
  <2>2. (\A s \in Setups : ~Active(s)) /\ \A t \in Topics \ run.cache : copies[t] = 0
    BY <2>1 DEF AloneInv
  <2> QED
    BY <1>1, <1>2, <2>1, <2>2, AloneNoSetup
<1>5. CASE RunMakes
  <2>1. /\ run.at = "review" /\ run.missing /\ workers' = workers /\ run'.cache = run.cache
        /\ run'.at = "work" /\ Makes(ReviewTag)
    BY <1>5 DEF RunMakes
  <2>2. /\ \A s \in Setups : ~Active(s)
        /\ \A t \in Topics \ run.cache : copies[t] = 0
        /\ copies[ReviewTag] = 0
    BY <2>1 DEF AloneInv
  <2>3. /\ copies'[ReviewTag] = 1
        /\ \A o \in Objects : o # ReviewTag => copies'[o] = copies[o]
    BY <2>1, <2>2 DEF Makes
  <2>4. \A o \in Objects : copies'[o] <= 1
    BY <1>2, <2>3
  <2>5. \A t \in Topics \ run'.cache : copies'[t] = 0
    BY <1>2, <2>1, <2>2, <2>3
  <2> QED
    BY <1>1, <1>2, <2>1, <2>2, <2>4, <2>5, AloneNoSetup
<1>6. CASE RunQuits
  <2>1. copies' = copies /\ run'.at = "none" /\ \A w \in Workers : workers'[w].at = "idle"
    BY <1>6 DEF RunQuits
  <2>2. \A u \in Setups : AloneSetup(u) /\ AloneSetup(u)'
    BY <1>1, <2>1 DEF AloneInv, AloneSetup, NextUp
  <2> QED
    BY <1>1, <1>2, <2>1, <2>2 DEF AloneInv, AloneSetup, Active
<1> QED
  BY <1>3, <1>4, <1>5, <1>6 DEF RunKind

LEMMA AloneWorkerKept ==
    ASSUME TypeInv, GateInv, TodoInv, LockInv, AloneInv, NEW w \in Workers, WorkerKind(w),
           ~crowded, ~crowded'
    PROVE  AloneInv'
<1>1. setups' = setups /\ run.at = "work" /\ run'.at = "work" /\ Peers(w)
  BY DEF WorkerKind, WorkerMoves, WorkerLocks, WorkerMakes, WorkerFails, Others
<1>2. /\ \A s \in Setups : ~Active(s)
      /\ \A t \in Topics \ run.cache : copies[t] = 0
      /\ \A v \in Workers : workers[v].at # "failed"
  BY <1>1 DEF AloneInv
<1>3. /\ \A o \in Objects : copies[o] <= 1 /\ copies[o] \in 0..2
      /\ \A t \in Topics : t \in Objects
  BY DEF AloneInv, TypeInv, Objects, Tags
<1>4. CASE WorkerMoves(w) \/ WorkerLocks(w)
  <2>1. copies' = copies /\ run' = run /\ workers'[w].at # "failed"
    BY <1>4 DEF WorkerMoves, WorkerLocks
  <2>2. \A v \in Workers : workers'[v].at # "failed"
    BY <1>1, <1>2, <2>1 DEF Peers
  <2> QED
    BY <1>1, <1>2, <1>3, <2>1, <2>2, AloneNoSetup
<1>5. CASE WorkerMakes(w)
  <2>1. /\ workers'[w].at = "idle" /\ run'.cache = run.cache \cup {workers[w].topic}
        /\ Makes(workers[w].topic)
        /\ workers[w].topic \in Topics \ run.cache
    BY <1>5 DEF WorkerMakes, LockInv, Cached
  <2>2. /\ copies'[workers[w].topic] = 1
        /\ \A o \in Objects : o # workers[w].topic => copies'[o] = copies[o]
    BY <1>2, <2>1 DEF Makes
  <2>3. \A o \in Objects : copies'[o] <= 1
    BY <1>3, <2>2
  <2>4. \A t \in Topics \ run'.cache : copies'[t] = 0
    BY <1>2, <1>3, <2>1, <2>2
  <2>5. \A v \in Workers : workers'[v].at # "failed"
    BY <1>1, <1>2, <2>1 DEF Peers
  <2> QED
    BY <1>1, <1>2, <2>3, <2>4, <2>5, AloneNoSetup
<1>6. ~WorkerFails(w)
  <2> SUFFICES ASSUME WorkerFails(w) PROVE FALSE
    OBVIOUS
  <2>1. workers[w].topic \in Topics \ run.cache /\ copies[workers[w].topic] > 0
    BY DEF WorkerFails, LockInv, Cached
  <2> QED
    BY <1>2, <2>1
<1> QED
  BY <1>4, <1>5, <1>6 DEF WorkerKind

LEMMA AloneHumanKept ==
    ASSUME TypeInv, AloneInv, HumanKind, ~crowded, ~crowded'
    PROVE  AloneInv'
<1>1. Busy = {}
  BY DEF HumanKind
<1>2. (\A s \in Setups : ~Active(s)) /\ run.at = "none"
  BY <1>1, NobodyBusy
<1>3. setups' = setups /\ run' = run /\ workers' = workers
  BY DEF HumanKind
<1>4. \A o \in Objects : copies'[o] <= 1
  BY DEF AloneInv, HumanKind
<1> QED
  BY <1>2, <1>3, <1>4, AloneNoSetup DEF AloneInv

\* Who was crowded once stays so.
LEMMA CrowdedStays ==
    ASSUME TypeInv, ProgramKind \/ HumanKind, crowded
    PROVE  crowded'
<1>1. ASSUME NEW s \in Setups, SetupKind(s) PROVE crowded'
  BY <1>1 DEF SetupKind, Begins, Lists, Ticks, Misses, MakesNext, Retries, Ends
<1>2. RunKind => crowded'
  BY DEF RunKind, RunStarts, RunLooks, RunMakes, RunQuits
<1>3. ASSUME NEW w \in Workers, WorkerKind(w) PROVE crowded'
  BY <1>3 DEF WorkerKind, WorkerMoves, WorkerLocks, WorkerMakes, WorkerFails
<1> QED
  BY <1>1, <1>2, <1>3 DEF ProgramKind, HumanKind

Alone == ~crowded => AloneInv

LEMMA InitAlone == Init => Alone
<1> SUFFICES ASSUME Init PROVE AloneInv
  BY DEF Alone
<1>1. Idle.at = "idle" /\ NoRun.at = "none" /\ NoWork.at = "idle"
  BY IdleEffect, NoRunType, NoWorkType
<1>2. \A s \in Setups : setups[s].at = "idle"
  BY <1>1 DEF Init
<1>3. run.at = "none" /\ \A w \in Workers : workers[w].at = "idle"
  BY <1>1 DEF Init
<1>4. \A o \in Objects : copies[o] <= 1
  BY DEF Init, Objects
<1> QED
  BY <1>2, <1>3, <1>4 DEF AloneInv, Active

LEMMA NextAlone ==
    ASSUME ReviewTag \notin Topics
    PROVE  IInv /\ Alone /\ [Next]_vars => Alone'
<1> SUFFICES ASSUME IInv, Alone, [Next]_vars, ~crowded' PROVE AloneInv'
  BY DEF Alone
<1>1. CASE Next
  <2>1. ProgramKind \/ HumanKind
    BY <1>1, StepKinds DEF IInv
  <2>2. ~crowded /\ AloneInv
    BY <2>1, CrowdedStays DEF IInv, Alone
  <2> QED
    BY <2>1, <2>2, AloneSetupKept, AloneRunKept, AloneWorkerKept, AloneHumanKept
       DEF IInv, ProgramKind
<1>2. CASE UNCHANGED vars
  <2>1. UNCHANGED <<copies, setups, run, workers, crowded>>
    BY <1>2 DEF vars, paperless, history
  <2> QED
    BY <2>1 DEF Alone, AloneInv, Active, NextUp
<1> QED
  BY <1>1, <1>2

\* One at work alone creates no name twice, whether Paperless would take it or
\* not, if the tag of review is not among the tags the model names.
THEOREM NamesUnique ==
    ASSUME ReviewTag \notin Topics
    PROVE  Spec => []NamesStayUnique
<1>1. IInv /\ Alone /\ [Next]_vars => Alone'
  BY NextAlone
<1>2. Alone => NamesStayUnique
  BY DEF Alone, AloneInv, NamesStayUnique, Objects
<1> QED
  BY <1>1, <1>2, InitAlone, AlwaysIInv, PTL DEF Spec

\* Nor does a document fail because of a tag.
THEOREM NoDocumentFails ==
    ASSUME ReviewTag \notin Topics
    PROVE  Spec => []AloneNoDocumentFails
<1>1. IInv /\ Alone /\ [Next]_vars => Alone'
  BY NextAlone
<1>2. Alone => AloneNoDocumentFails
  BY DEF Alone, AloneInv, AloneNoDocumentFails
<1> QED
  BY <1>1, <1>2, InitAlone, AlwaysIInv, PTL DEF Spec

(***************************************************************************)
(* What a setup that reports success leaves.                               *)
(***************************************************************************)

\* What is there stays there, and as wanted if it was.
LEMMA ProvidedStays ==
    ASSUME TypeInv, Grows, renamed' = renamed, NEW s \in Setups, NEW f \in Fields,
           Provided(s, f)
    PROVE  Provided(s, f)'
<1>1. NameFor(s, f) \in Names /\ NameFor(s, f)' = NameFor(s, f)
  BY NameForType, NamesSame
<1> DEFINE n == NameFor(s, f)
<1>2. n \in Objects /\ copies[n] > 0 /\ copies[n] \in 0..2 /\ Compatible(f, kind[n])
  BY <1>1 DEF Provided, Objects, TypeInv
<1>3. n \in Names
  BY <1>1
<1>4. n' = n
  BY <1>1
<1> HIDE DEF n
<1>5. copies'[n] > 0 /\ kind'[n] = kind[n]
  BY <1>2, <1>3 DEF Grows
<1>6. Compatible(f, kind'[n])
  BY <1>2, <1>5
<1>7. Provided(s, f)' <=> copies'[n] > 0 /\ Compatible(f, kind'[n])
  BY <1>1 DEF Provided, n, Compatible
<1> QED
  BY <1>5, <1>6, <1>7

LEMMA FieldPlaces ==
    /\ \A i \in Places(FieldOrder) : FieldOrder[i] \in Fields
    /\ \A f \in Fields : \E i \in Places(FieldOrder) : FieldOrder[i] = f
    /\ ReviewTag \in Objects /\ ReviewTag \notin Names
BY ProvisioningAssumption DEF Fields, Places, Objects, Tags, Names

\* While Paperless grows, a setup keeps what it has; what leaves its list has
\* to be there.
LEMMA HealthGrows ==
    ASSUME TypeInv, Grows, renamed' = renamed, NEW s \in Setups, Health(s),
           setups'[s].found = setups[s].found,
           setups'[s].ok => setups[s].ok,
           \A n \in Members(setups[s].todo) :
              \/ n \in Members(setups'[s].todo)
              \/ /\ copies'[n] > 0
                 /\ n \in Names /\ setups'[s].ok => Compatible(n[1], kind'[n])
    PROVE  Health(s)'
<1>1. \A o \in Objects : copies[o] \in 0..2
  BY DEF TypeInv
<1>2. setups[s].found \subseteq Names /\ \A n \in Names : n \in Objects
  BY DEF TypeInv, SetupType, Objects
<1>3. \A n \in setups'[s].found : copies'[n] > 0
  BY <1>2 DEF Health, Grows
<1>4. \A n \in Names \ setups'[s].found : copies'[n] = 0 \/ kind'[n] = "wanted"
  <2> SUFFICES ASSUME NEW n \in Names \ setups[s].found
               PROVE  copies'[n] = 0 \/ kind'[n] = "wanted"
    OBVIOUS
  <2>1. copies[n] = 0 \/ kind[n] = "wanted"
    BY DEF Health
  <2> QED
    BY <2>1 DEF Grows
<1>5. ReviewTag \in Members(setups'[s].todo) \/ copies'[ReviewTag] > 0
  BY FieldPlaces DEF Health, Grows
<1>6. ASSUME setups'[s].ok, NEW i \in Places(FieldOrder)
      PROVE  \/ NameFor(s, FieldOrder[i])' \in Members(setups'[s].todo)
             \/ Provided(s, FieldOrder[i])'
  <2>1. FieldOrder[i] \in Fields
    BY FieldPlaces
  <2> DEFINE n == NameFor(s, FieldOrder[i])
  <2>2. n \in Names /\ n[1] = FieldOrder[i]
    BY <2>1, NameForType
  <2>3. NameFor(s, FieldOrder[i])' = n
    BY <2>1, NamesSame
  <2>4. CASE Provided(s, FieldOrder[i])
    BY <2>1, <2>4, ProvidedStays
  <2>5. CASE n \in Members(setups[s].todo)
    <3> HIDE DEF n
    <3>1. \/ n \in Members(setups'[s].todo)
          \/ copies'[n] > 0 /\ Compatible(FieldOrder[i], kind'[n])
      BY <1>6, <2>2, <2>5
    <3>2. Provided(s, FieldOrder[i])' <=> copies'[n] > 0 /\ Compatible(FieldOrder[i], kind'[n])
      BY <2>3 DEF Provided, Compatible
    <3> QED
      BY <2>3, <3>1, <3>2
  <2>6. n \in Members(setups[s].todo) \/ Provided(s, FieldOrder[i])
    BY <1>6 DEF Health
  <2> QED
    BY <2>4, <2>5, <2>6
<1> QED
  BY <1>3, <1>4, <1>5, <1>6 DEF Health

LEMMA HealthOther ==
    ASSUME TypeInv, ProgramKind, NEW s \in Setups, setups'[s] = setups[s], Health(s)
    PROVE  Health(s)'
BY ProgramGrows, RenamedSame, HealthGrows

LEMMA HealthSetup ==
    ASSUME TypeInv, NEW s \in Setups, SetupKind(s), setups'[s].at = "ensure",
           setups[s].at = "ensure" => Health(s)
    PROVE  Health(s)'
<1>1. ProgramKind
  BY DEF ProgramKind
<1>2. Grows /\ renamed' = renamed
  BY <1>1, ProgramGrows, RenamedSame
<1>3. CASE Lists(s)
  <2>1. /\ setups'[s].found = {n \in Names : copies[n] > 0} /\ copies' = copies /\ kind' = kind
        /\ setups'[s].todo = ToEnsure(s)
    BY <1>3 DEF Lists
  <2>2. \A n \in Names : copies[n] \in 0..2
    BY DEF TypeInv, Objects
  <2>3. Members(setups'[s].todo) = Wanted(s)
    BY <2>1, ToEnsureMembers
  <2>4. \A i \in Places(FieldOrder) : NameFor(s, FieldOrder[i])' \in Members(setups'[s].todo)
    BY <1>2, <2>3, FieldPlaces, NamesSame DEF Wanted, Places
  <2>5. ReviewTag \in Members(setups'[s].todo)
    BY <2>3 DEF Wanted
  <2>6. /\ \A n \in setups'[s].found : copies'[n] > 0
        /\ \A n \in Names \ setups'[s].found : copies'[n] = 0
    BY <2>1, <2>2
  <2> QED
    BY <2>4, <2>5, <2>6 DEF Health
<1>4. CASE Ticks(s) \/ MakesNext(s)
  <2>1. /\ setups[s].at = "ensure" /\ setups[s].todo \in Seq(Objects) /\ setups[s].todo # <<>>
        /\ setups'[s].todo = Tail(setups[s].todo) /\ setups'[s].found = setups[s].found
        /\ NextUp(s) \in Objects /\ NextUp(s) = Head(setups[s].todo)
    BY <1>4, NextUpType DEF Ticks, MakesNext, Works, Ensuring, NextUp
  <2>2. /\ Members(setups[s].todo) = Members(setups'[s].todo) \cup {NextUp(s)}
    BY <2>1, TailMembers
  <2>3. Health(s)
    BY <2>1
  <2>4. setups'[s].ok => setups[s].ok
    BY <1>4 DEF Ticks, MakesNext
  <2>5. /\ copies'[NextUp(s)] > 0
        /\ NextUp(s) \in Names /\ setups'[s].ok => Compatible(NextUp(s)[1], kind'[NextUp(s)])
    <3>1. CASE Ticks(s)
      <4>1. copies' = copies /\ kind' = kind
        BY <3>1 DEF Ticks
      <4>2. NextUp(s) \in setups[s].found => copies[NextUp(s)] > 0
        BY <2>3 DEF Health
      <4>3. copies[NextUp(s)] > 0
        BY <3>1, <4>2 DEF Ticks
      <4>4. NextUp(s) \in Names /\ setups'[s].ok => Compatible(NextUp(s)[1], kind[NextUp(s)])
        BY <3>1 DEF Ticks, IsField
      <4> QED
        BY <4>1, <4>3, <4>4
    <3>2. CASE MakesNext(s)
      <4>1. /\ copies[NextUp(s)] \in 0..2 /\ copies'[NextUp(s)] = copies[NextUp(s)] + 1
        BY <2>1, <3>2 DEF MakesNext, Makes, TypeInv
      <4>2. copies'[NextUp(s)] > 0 /\ copies'[NextUp(s)] # 0
        BY <4>1
      <4>3. NextUp(s) \in Names => NextUp(s) \in Names \ setups[s].found
        BY <3>2 DEF MakesNext, Creating, IsField
      <4>4. NextUp(s) \in Names => copies[NextUp(s)] = 0 \/ kind[NextUp(s)] = "wanted"
        BY <2>3, <4>3 DEF Health
      <4>5. NextUp(s) \in Names => kind'[NextUp(s)] = "wanted"
        BY <1>2, <4>2, <4>4 DEF Grows
      <4> QED
        BY <4>2, <4>5 DEF Compatible
    <3> QED
      BY <1>4, <3>1, <3>2
  <2>6. \A n \in Members(setups[s].todo) :
           \/ n \in Members(setups'[s].todo)
           \/ /\ copies'[n] > 0
              /\ n \in Names /\ setups'[s].ok => Compatible(n[1], kind'[n])
    BY <2>2, <2>5
  <2> QED
    BY <1>2, <2>1, <2>3, <2>4, <2>6, HealthGrows
<1>5. CASE Misses(s) \/ Retries(s)
  <2>1. /\ setups[s].at = "ensure" /\ setups'[s].todo = setups[s].todo
        /\ setups'[s].found = setups[s].found /\ setups'[s].ok = setups[s].ok
    BY <1>5 DEF Misses, Retries, Works, Ensuring
  <2> QED
    BY <1>2, <2>1, HealthGrows
<1>6. ~Begins(s) /\ ~Ends(s)
  BY DEF Begins, Ends
<1> QED
  BY <1>3, <1>4, <1>5, <1>6 DEF SetupKind

\* A human that edits is remembered until no setup is at work.
LEMMA EditedStays ==
    ASSUME TypeInv, ProgramKind \/ HumanKind, edited, ~edited'
    PROVE  SettingUp = {} /\ \E s \in Setups : Begins(s)
<1>1. ASSUME NEW s \in Setups, SetupKind(s) PROVE SettingUp = {} /\ Begins(s)
  BY <1>1 DEF SetupKind, Begins, Lists, Ticks, Misses, MakesNext, Retries, Ends, Works
<1>2. ~RunKind
  BY DEF RunKind, RunStarts, RunLooks, RunMakes, RunQuits, Others
<1>3. ASSUME NEW w \in Workers PROVE ~WorkerKind(w)
  BY DEF WorkerKind, WorkerMoves, WorkerLocks, WorkerMakes, WorkerFails, Others
<1>4. ~HumanKind
  BY DEF HumanKind
<1> QED
  BY <1>1, <1>2, <1>3, <1>4 DEF ProgramKind

LEMMA HealthKept ==
    ASSUME TypeInv, HealthInv, ProgramKind \/ HumanKind
    PROVE  HealthInv'
<1> SUFFICES ASSUME ~edited' PROVE \A s \in Setups : setups'[s].at = "ensure" => Health(s)'
  BY DEF HealthInv
<1>1. CASE edited
  <2>1. PICK s \in Setups : SettingUp = {} /\ Begins(s)
    BY <1>1, EditedStays
  <2>2. \A u \in Setups : setups'[u].at # "ensure"
    BY <2>1 DEF SettingUp, Begins, Same
  <2> QED
    BY <2>2
<1>2. CASE ~edited /\ HumanKind
  <2>1. SettingUp = {} /\ setups' = setups
    BY <1>2 DEF HumanKind
  <2> QED
    BY <2>1 DEF SettingUp
<1>3. CASE ~edited /\ ProgramKind
  <2>1. \A u \in Setups : setups[u].at = "ensure" => Health(u)
    BY <1>3 DEF HealthInv
  <2>2. ASSUME NEW u \in Setups, setups'[u] = setups[u], setups'[u].at = "ensure"
        PROVE  Health(u)'
    BY <1>3, <2>1, <2>2, HealthOther
  <2>3. CASE UNCHANGED setups
    BY <2>2, <2>3
  <2>4. ASSUME NEW s \in Setups, SetupKind(s), NEW u \in Setups, setups'[u].at = "ensure"
        PROVE  Health(u)'
    <3>1. Same(s)
      BY <2>4 DEF SetupKind, Begins, Lists, Ticks, Misses, MakesNext, Retries, Ends, Works
    <3>2. CASE u = s
      BY <2>1, <2>4, <3>2, HealthSetup
    <3>3. CASE u # s
      BY <2>2, <2>4, <3>1, <3>3 DEF Same
    <3> QED
      BY <3>2, <3>3
  <2> QED
    BY <1>3, <2>3, <2>4, SetupsSame DEF ProgramKind
<1> QED
  BY <1>1, <1>2, <1>3

\* Whose list is empty has provided for everything.
LEMMA AllProvided ==
    ASSUME HealthInv, ~edited, NEW s \in Setups, setups[s].at = "ensure",
           setups[s].todo = <<>>, setups[s].ok
    PROVE  (\A f \in Fields : Provided(s, f)) /\ copies[ReviewTag] > 0
<1>1. Health(s) /\ Members(setups[s].todo) = {}
  BY MembersOfNothing DEF HealthInv
<1>2. \A i \in Places(FieldOrder) : Provided(s, FieldOrder[i])
  BY <1>1 DEF Health
<1> QED
  BY <1>1, <1>2, FieldPlaces DEF Health

(***************************************************************************)
(* A setup after one that succeeded.                                       *)
(***************************************************************************)

Settled(s) ==
    /\ \A n \in Wanted(s) : copies[n] > 0
    /\ Active(s) => ~setups[s].created /\ ~setups[s].missing
    /\ setups[s].at = "ensure" =>
          \A n \in Members(setups[s].todo) : n \in Names => n \in setups[s].found

LEMMA WantedType ==
    ASSUME NEW s \in Setups
    PROVE  Wanted(s) \subseteq Objects
BY FieldPlaces, NameForType DEF Wanted, Objects, Places

LEMMA SettledSetup ==
    ASSUME TypeInv, TodoInv, NEW s \in Setups, SetupKind(s), Settled(s)
    PROVE  Settled(s)'
<1>1. ProgramKind
  BY DEF ProgramKind
<1>2. Grows /\ Wanted(s)' = Wanted(s)
  BY <1>1, ProgramGrows, RenamedSame, NamesSame
<1>3. \A n \in Wanted(s)' : copies'[n] > 0
  BY <1>2, WantedType DEF Settled, Grows
<1>4. Ensuring(s) => ~Creating(s)
  <2> SUFFICES ASSUME Ensuring(s) PROVE ~Creating(s)
    OBVIOUS
  <2>1. /\ setups[s].at = "ensure" /\ setups[s].todo # <<>> /\ setups[s].todo \in Seq(Objects)
    BY NextUpType DEF Ensuring
  <2>2. NextUp(s) \in Members(setups[s].todo)
    BY <2>1, TailMembers DEF NextUp
  <2> QED
    BY <2>1, <2>2 DEF Settled, Creating, IsField, Active
<1>5. CASE Begins(s) \/ Ends(s)
  BY <1>3, <1>5 DEF Begins, Ends, Settled, Active
<1>6. CASE Lists(s)
  <2>1. /\ setups'[s].at = "ensure" /\ setups'[s].found = {n \in Names : copies[n] > 0}
        /\ setups'[s].todo = ToEnsure(s)
        /\ ~setups'[s].missing /\ ~setups'[s].created
    BY <1>6 DEF Lists, Settled, Active
  <2>2. Members(setups'[s].todo) = Wanted(s)
    BY <2>1, ToEnsureMembers
  <2>3. \A n \in Members(setups'[s].todo) : n \in Names => n \in setups'[s].found
    BY <2>1, <2>2 DEF Settled
  <2> QED
    BY <1>3, <2>1, <2>3 DEF Settled
<1>7. CASE Ticks(s)
  <2>1. /\ setups[s].at = "ensure" /\ setups[s].todo \in Seq(Objects) /\ setups[s].todo # <<>>
        /\ setups'[s].todo = Tail(setups[s].todo) /\ setups'[s].found = setups[s].found
        /\ ~setups'[s].missing /\ (setups'[s].created <=> setups[s].created)
    BY <1>7, NextUpType DEF Ticks, Works, Ensuring
  <2>2. Members(setups'[s].todo) \subseteq Members(setups[s].todo)
    BY <2>1, TailMembers
  <2> QED
    BY <1>3, <2>1, <2>2 DEF Settled, Active
<1>8. ~Misses(s)
  <2> SUFFICES ASSUME Misses(s) PROVE FALSE
    OBVIOUS
  <2>1. /\ setups[s].at = "ensure" /\ setups[s].todo # <<>> /\ setups[s].todo \in Seq(Objects)
        /\ copies[NextUp(s)] = 0
    BY NextUpType DEF Misses, Works, Ensuring
  <2>2. NextUp(s) \in Members(setups[s].todo)
    BY <2>1, TailMembers DEF NextUp
  <2>3. NextUp(s) \in Wanted(s)
    BY <2>1, <2>2 DEF TodoInv
  <2> QED
    BY <2>1, <2>3 DEF Settled
<1>9. ~MakesNext(s) /\ ~Retries(s)
  BY <1>4 DEF MakesNext, Retries, Works
<1> QED
  BY <1>5, <1>6, <1>7, <1>8, <1>9 DEF SetupKind

LEMMA SettledOther ==
    ASSUME TypeInv, ProgramKind, NEW s \in Setups, setups'[s] = setups[s], Settled(s)
    PROVE  Settled(s)'
<1>1. Grows /\ Wanted(s)' = Wanted(s)
  BY ProgramGrows, RenamedSame, NamesSame
<1>2. \A n \in Wanted(s)' : copies'[n] > 0
  BY <1>1, WantedType DEF Settled, Grows
<1> QED
  BY <1>2 DEF Settled, Active

\* A setup that succeeds leaves those of its kind nothing to do.
LEMMA SettledEnds ==
    ASSUME TypeInv, GateInv, HealthInv, NEW s \in Setups, SetupKind(s), Ends(s),
           setups[s].todo = <<>>, setups[s].ok, ~edited,
           NEW u \in Setups, Group(u) = Group(s)
    PROVE  Settled(u)'
<1>1. ProgramKind
  BY DEF ProgramKind
<1>2. Grows /\ renamed' = renamed
  BY <1>1, ProgramGrows, RenamedSame
<1>3. setups[s].at = "ensure" /\ setups'[s].at = "idle" /\ Same(s)
  BY DEF Ends
<1>4. (\A f \in Fields : Provided(s, f)) /\ copies[ReviewTag] > 0
  BY <1>3, AllProvided
<1>5. u = Cli <=> s = Cli
  BY DEF Group
<1>6. \A f \in Fields : NameFor(u, f) = NameFor(s, f)
  BY <1>5 DEF NameFor
<1>7. \A n \in Wanted(u) : copies[n] > 0
  BY <1>4, <1>6, FieldPlaces DEF Wanted, Provided, Places
<1>8. \A n \in Wanted(u)' : copies'[n] > 0
  BY <1>2, <1>7, NamesSame, WantedType DEF Grows
<1>9. setups'[u].at = "idle"
  <2>1. CASE u = s
    BY <1>3, <2>1
  <2>2. CASE u # s
    <3>1. u \in WebRequests /\ s \in WebRequests
      BY <1>5, <2>2 DEF Setups
    <3>2. setups[u].at = "idle"
      BY <1>3, <2>2, <3>1 DEF GateInv, Active
    <3> QED
      BY <1>3, <2>2, <3>2 DEF Same
  <2> QED
    BY <2>1, <2>2
<1> QED
  BY <1>8, <1>9 DEF Settled, Active

LEMMA SettledKept ==
    ASSUME IInv, HealthInv, SettledInv, ProgramKind \/ HumanKind
    PROVE  SettledInv'
<1>1. TypeInv /\ GateInv /\ TodoInv
  BY DEF IInv
<1>2. \A u \in Setups : Group(u) \in settled => Settled(u)
  BY DEF SettledInv, Settled
<1>3. SUFFICES ASSUME NEW u \in Setups, Group(u) \in settled' PROVE Settled(u)'
  BY DEF SettledInv, Settled, Group
<1>4. CASE HumanKind
  BY <1>3, <1>4 DEF HumanKind
<1>5. CASE UNCHANGED <<setups, settled>> /\ ProgramKind
  BY <1>1, <1>2, <1>3, <1>5, SettledOther
<1>6. ASSUME NEW s \in Setups, SetupKind(s) PROVE Settled(u)'
  <2>1. ProgramKind
    BY <1>6 DEF ProgramKind
  <2>2. Same(s)
    BY <1>6 DEF SetupKind, Begins, Lists, Ticks, Misses, MakesNext, Retries, Ends, Works
  <2>3. CASE Group(u) \in settled
    <3>1. Settled(u)
      BY <1>2, <2>3
    <3>2. CASE u = s
      BY <1>1, <1>6, <3>1, <3>2, SettledSetup
    <3>3. CASE u # s
      BY <1>1, <2>1, <2>2, <3>1, <3>3, SettledOther DEF Same
    <3> QED
      BY <3>2, <3>3
  <2>4. CASE Group(u) \notin settled
    <3>1. /\ Ends(s) /\ setups[s].todo = <<>> /\ setups[s].ok /\ ~edited
          /\ Group(u) = Group(s)
      BY <1>3, <1>6, <2>4
         DEF SetupKind, Begins, Lists, Ticks, Misses, MakesNext, Retries, Ends, Works
    <3> QED
      BY <1>1, <1>6, <3>1, SettledEnds
  <2> QED
    BY <2>3, <2>4
<1>7. RunKind => UNCHANGED <<setups, settled>>
  BY DEF RunKind, RunStarts, RunLooks, RunMakes, RunQuits, Others
<1>8. ASSUME NEW w \in Workers, WorkerKind(w) PROVE UNCHANGED <<setups, settled>>
  BY <1>8 DEF WorkerKind, WorkerMoves, WorkerLocks, WorkerMakes, WorkerFails, Others
<1> QED
  BY <1>4, <1>5, <1>6, <1>7, <1>8 DEF ProgramKind

Promises == IInv /\ HealthInv /\ SettledInv

LEMMA AlwaysPromises == Spec => []Promises
<1>1. Init => Promises
  <2> SUFFICES ASSUME Init PROVE HealthInv /\ SettledInv
    BY InitIInv DEF Promises
  <2>1. \A s \in Setups : setups[s].at = "idle"
    BY IdleEffect DEF Init
  <2> QED
    BY <2>1 DEF Init, HealthInv, SettledInv
<1>2. Promises /\ [Next]_vars => Promises'
  <2> SUFFICES ASSUME Promises, [Next]_vars PROVE Promises'
    OBVIOUS
  <2>1. CASE Next
    <3>1. ProgramKind \/ HumanKind
      BY <2>1, StepKinds DEF Promises, IInv
    <3>2. IInv'
      BY <2>1, NextIInv DEF Promises
    <3> QED
      BY <3>1, <3>2, HealthKept, SettledKept DEF Promises, IInv
  <2>2. CASE UNCHANGED vars
    <3>1. UNCHANGED <<renamed, copies, kind, setups, edited, settled>>
      BY <2>2 DEF vars, paperless, history
    <3>2. IInv'
      BY <2>2, StutterIInv DEF Promises
    <3>3. HealthInv'
      <4>1. TypeInv /\ Grows
        BY <3>1 DEF Promises, IInv, TypeInv, Grows
      <4>2. ASSUME NEW s \in Setups, Health(s) PROVE Health(s)'
        BY <3>1, <4>1, <4>2, HealthGrows
      <4> QED
        BY <3>1, <4>2 DEF Promises, HealthInv
    <3>4. SettledInv'
      <4>1. \A s \in Setups : Wanted(s)' = Wanted(s)
        BY <3>1, NamesSame
      <4> QED
        BY <3>1, <4>1 DEF Promises, SettledInv, Active, Group
    <3> QED
      BY <3>2, <3>3, <3>4 DEF Promises
  <2> QED
    BY <2>1, <2>2
<1> QED
  BY <1>1, <1>2, PTL DEF Spec

\* A setup of the dashboard that reports success leaves what the doctor asks,
\* unless a human edited meanwhile.
THEOREM SetupOkHealthy == Spec => SetupOkIsHealthy
<1>1. ASSUME Promises, NEW s \in WebRequests, FinishSetup(s), setups[s].ok, ~edited
      PROVE  Healthy
  <2>1. s \in Setups /\ s # Cli
    BY ProvisioningAssumption DEF Setups
  <2>2. (\A f \in Fields : Provided(s, f)) /\ copies[ReviewTag] > 0
    BY <1>1, <2>1, AllProvided DEF Promises, FinishSetup
  <2> QED
    BY <2>1, <2>2 DEF Healthy, Provided, NameFor
<1>2. Promises /\ [Next]_vars =>
        [\A s \in WebRequests : FinishSetup(s) /\ setups[s].ok /\ ~edited => Healthy]_vars
  BY <1>1
<1> QED
  BY <1>2, AlwaysPromises, PTL DEF Spec, SetupOkIsHealthy

\* After a setup that succeeded, one of the same kind creates nothing, until a
\* human edits.
THEOREM SecondSetupNoop == Spec => SecondSetupIsNoop
<1>1. ASSUME Promises, NEW s \in Setups, FinishSetup(s), Group(s) \in settled
      PROVE  ~setups[s].created
  BY <1>1 DEF Promises, SettledInv, FinishSetup, Active
<1>2. Promises /\ [Next]_vars =>
        [\A s \in Setups : FinishSetup(s) /\ Group(s) \in settled => ~setups[s].created]_vars
  BY <1>1
<1> QED
  BY <1>2, AlwaysPromises, PTL DEF Spec, SecondSetupIsNoop

(***************************************************************************)
(* What the program never does.                                            *)
(***************************************************************************)

LEMMA AbsentKept ==
    ASSUME TypeInv, AbsentInv, ProgramKind \/ HumanKind
    PROVE  AbsentInv'
<1> SUFFICES ASSUME NEW n \in Names, copies'[n] = 0 PROVE kind'[n] = "absent"
  BY DEF AbsentInv
<1>1. n \in Objects /\ copies[n] \in 0..2
  BY DEF TypeInv, Objects
<1>2. CASE HumanKind
  BY <1>2 DEF HumanKind, AbsentInv
<1>3. CASE ProgramKind
  <2>1. Grows
    BY <1>3, ProgramGrows
  <2>2. copies[n] = 0
    BY <1>1, <2>1 DEF Grows
  <2> QED
    BY <2>1, <2>2 DEF Grows, AbsentInv
<1> QED
  BY <1>2, <1>3

\* The program changes no field that exists.
THEOREM Clobbers == Spec => NeverClobbers
<1>1. Init => AbsentInv
  BY DEF Init, AbsentInv
<1>2. IInv /\ AbsentInv /\ [Next]_vars => AbsentInv'
  <2> SUFFICES ASSUME IInv, AbsentInv, [Next]_vars PROVE AbsentInv'
    OBVIOUS
  <2>1. CASE Next
    BY <2>1, StepKinds, AbsentKept DEF IInv
  <2>2. CASE UNCHANGED vars
    BY <2>2 DEF vars, paperless, AbsentInv
  <2> QED
    BY <2>1, <2>2
<1>3. ASSUME IInv, AbsentInv, Next, ~HumanStep, NEW n \in Names, kind[n] # "absent"
      PROVE  kind'[n] = kind[n]
  <2>1. Grows
    BY <1>3, StepKinds, ProgramGrows DEF IInv
  <2>2. copies[n] # 0
    BY <1>3 DEF AbsentInv
  <2> QED
    BY <2>1, <2>2 DEF Grows
<1>4. IInv /\ AbsentInv /\ [Next]_vars =>
        [~HumanStep => \A n \in Names : kind[n] # "absent" => kind'[n] = kind[n]]_vars
  BY <1>3
<1> QED
  BY <1>1, <1>2, <1>4, AlwaysIInv, PTL DEF Spec, NeverClobbers

LEMMA CacheKept ==
    ASSUME TypeInv, TypeInv', CacheIsTrue, ProgramKind \/ HumanKind
    PROVE  CacheIsTrue'
<1>1. \A t \in run.cache : t \in Objects
  BY DEF TypeInv, RunType, Objects
\* The cache stays as it is, while Paperless grows or a human removes.
<1>2. ASSUME run'.cache = run.cache, removed \subseteq removed',
             \A o \in Objects : copies[o] > 0 => copies'[o] > 0 \/ o \in removed'
      PROVE  CacheIsTrue'
  BY <1>1, <1>2 DEF CacheIsTrue
<1>3. ASSUME NEW s \in Setups, SetupKind(s) PROVE CacheIsTrue'
  <2>1. Grows
    BY <1>3, ProgramGrows DEF ProgramKind
  <2>2. run' = run /\ removed' = removed
    BY <1>3 DEF SetupKind, Begins, Lists, Ticks, Misses, MakesNext, Retries, Ends, Works
  <2> QED
    BY <1>2, <2>1, <2>2 DEF Grows
<1>4. CASE RunKind
  <2>1. Grows
    BY <1>4, ProgramGrows DEF ProgramKind
  <2>2. CASE RunStarts
    BY <2>2 DEF RunStarts, CacheIsTrue
  <2>3. CASE run'.cache = {}
    BY <2>3 DEF CacheIsTrue
  <2>4. CASE run'.cache = run.cache /\ removed' = removed
    BY <1>2, <2>1, <2>4 DEF Grows
  <2> QED
    BY <1>4, <2>2, <2>3, <2>4 DEF RunKind, RunLooks, RunMakes, RunQuits
<1>5. ASSUME NEW w \in Workers, WorkerKind(w) PROVE CacheIsTrue'
  <2>1. Grows /\ removed' = removed
    BY <1>5, ProgramGrows DEF ProgramKind, WorkerKind
  <2>2. CASE run' = run
    BY <1>2, <2>1, <2>2 DEF Grows
  <2>3. CASE WorkerMakes(w)
    <3>1. /\ run'.cache = run.cache \cup {workers[w].topic}
          /\ workers[w].topic \in Objects /\ Makes(workers[w].topic)
      BY <2>3 DEF WorkerMakes, TypeInv, WorkerType, Objects
    <3>2. copies'[workers[w].topic] > 0
      BY <3>1 DEF Makes, TypeInv
    <3> QED
      BY <1>1, <2>1, <3>1, <3>2 DEF CacheIsTrue, Grows
  <2> QED
    BY <1>5, <2>2, <2>3 DEF WorkerKind, WorkerMoves, WorkerLocks, WorkerFails
<1>6. CASE HumanKind
  <2>1. /\ run' = run /\ removed \subseteq removed'
        /\ \A o \in Objects : copies[o] > 0 /\ copies'[o] = 0 => o \in removed'
        /\ \A o \in Objects : copies'[o] = copies[o] \/ copies'[o] <= 1
    BY <1>6 DEF HumanKind
  <2>2. \A o \in Objects : copies[o] > 0 => copies'[o] > 0 \/ o \in removed'
    <3>1. \A o \in Objects : copies'[o] \in 0..2
      BY DEF TypeInv
    <3> QED
      BY <2>1, <3>1
  <2> QED
    BY <1>2, <2>1, <2>2
<1> QED
  BY <1>3, <1>4, <1>5, <1>6 DEF ProgramKind

\* The cache of a run names tags that exist, or that a human has removed.
THEOREM CacheTrue == Spec => []CacheIsTrue
<1>1. Init => CacheIsTrue
  BY NoRunType DEF Init, CacheIsTrue
<1>2. IInv /\ IInv' /\ CacheIsTrue /\ [Next]_vars => CacheIsTrue'
  <2> SUFFICES ASSUME IInv, IInv', CacheIsTrue, [Next]_vars PROVE CacheIsTrue'
    OBVIOUS
  <2>1. CASE Next
    BY <2>1, StepKinds, CacheKept DEF IInv
  <2>2. CASE UNCHANGED vars
    BY <2>2 DEF vars, paperless, history, CacheIsTrue
  <2> QED
    BY <2>1, <2>2
<1> QED
  BY <1>1, <1>2, AlwaysIInv, PTL DEF Spec
=============================================================================
