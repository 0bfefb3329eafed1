---------------------------- MODULE Queues_proofs ----------------------------
(***************************************************************************)
(* Proofs about the two queues the documents wait in: that of the nudges,  *)
(* which the threads of a server drain (ServeProcess), and that of a batch *)
(* command, which its pool of workers drains (PagedBatch).                 *)
(*                                                                         *)
(* The first part holds for every finite set of documents, every set of    *)
(* handler threads and every value of the bounds; the second for every set *)
(* of documents, every library, every size of the pages and of the pool,   *)
(* every limit and every value of the bounds.                              *)
(***************************************************************************)
EXTENDS ServeProcess, PagedBatch, SequenceTheorems, FiniteSetTheorems, TLAPS

----------------------------------------------------------------------------
(***************************************************************************)
(* The queue of the nudges.                                                *)
(***************************************************************************)

\* A new entry still has a place within the list of all documents.
LEMMA PlaceForOneMore ==
    ASSUME QueueTypeOK, NEW d \in Docs, d \notin Pending
    PROVE  Cardinality(Pending) + 1 \in 0..Cardinality(Docs)
<1>1. IsFiniteSet(Docs)
  BY QueueAssumption
<1>2. Pending \subseteq Docs
  BY DEF Pending
<1>3. IsFiniteSet(Pending)
  BY <1>1, <1>2, FS_Subset
<1>4. IsFiniteSet(Pending \cup {d}) /\ Cardinality(Pending \cup {d}) = Cardinality(Pending) + 1
  BY <1>3, FS_AddElement
<1>5. Pending \cup {d} \subseteq Docs
  BY <1>2
<1>6. Cardinality(Pending \cup {d}) <= Cardinality(Docs)
  BY <1>1, <1>5, FS_Subset
<1>7. Cardinality(Pending) \in Nat /\ Cardinality(Docs) \in Nat
  BY <1>1, <1>3, FS_CardinalityType
<1> QED
  BY <1>4, <1>6, <1>7

\* A nudge keeps the queue well typed.
LEMMA EnqueueType ==
    ASSUME QueueTypeOK, NEW d \in Docs, Enqueue(d)
    PROVE  QueueTypeOK'
<1>1. seen' \subseteq Docs
  BY DEF Enqueue, QueueTypeOK
<1>2. CASE d \in Pending
  BY <1>1, <1>2 DEF Enqueue, QueueTypeOK
<1>3. CASE d \notin Pending
  <2>1. Cardinality(Pending) + 1 \in 0..Cardinality(Docs)
    BY <1>3, PlaceForOneMore
  <2>2. place' = [place EXCEPT ![d] = Cardinality(Pending) + 1]
    BY <1>3 DEF Enqueue
  <2> QED
    BY <1>1, <2>1, <2>2 DEF QueueTypeOK
<1> QED
  BY <1>2, <1>3

\* Marking a document done keeps the queue well typed.
LEMMA MarkDoneType ==
    ASSUME QueueTypeOK, NEW d, MarkDone(d)
    PROVE  QueueTypeOK'
<1>1. Cardinality(Docs) \in Nat
  BY QueueAssumption, FS_CardinalityType
<1>2. \A e \in Docs : place[e] \in 0..Cardinality(Docs)
  BY DEF QueueTypeOK
<1>3. ASSUME NEW e \in Docs
      PROVE  (IF e = d THEN 0
              ELSE IF d \in Pending /\ place[e] > place[d] THEN place[e] - 1
              ELSE place[e]) \in 0..Cardinality(Docs)
  <2>1. CASE d \in Pending /\ place[e] > place[d]
    <3>1. d \in Docs /\ place[d] > 0
      BY <2>1 DEF Pending
    <3>2. place[d] \in 0..Cardinality(Docs) /\ place[e] \in 0..Cardinality(Docs)
      BY <1>2, <3>1
    <3> QED
      BY <1>1, <2>1, <3>1, <3>2
  <2>2. CASE ~(d \in Pending /\ place[e] > place[d])
    BY <1>1, <1>2, <2>2
  <2> QED
    BY <2>1, <2>2
<1> QED
  BY <1>3 DEF MarkDone, QueueTypeOK

\* A nudge adds a document and takes none out.
LEMMA EnqueueKeeps ==
    ASSUME QueueTypeOK, NEW d \in Docs, Enqueue(d)
    PROVE  Pending' = Pending \cup {d}
<1>1. CASE d \in Pending
  BY <1>1 DEF Enqueue, Pending
<1>2. CASE d \notin Pending
  <2>1. Cardinality(Pending) + 1 \in 0..Cardinality(Docs)
    BY <1>2, PlaceForOneMore
  <2>2. IsFiniteSet(Pending)
    BY QueueAssumption, FS_Subset DEF Pending
  <2>3. Cardinality(Pending) \in Nat
    BY <2>2, FS_CardinalityType
  <2>4. place' = [place EXCEPT ![d] = Cardinality(Pending) + 1]
    BY <1>2 DEF Enqueue
  <2>5. place'[d] > 0 /\ \A e \in Docs \ {d} : place'[e] = place[e]
    BY <2>3, <2>4 DEF QueueTypeOK
  <2> QED
    BY <2>5 DEF Pending
<1> QED
  BY <1>1, <1>2

\* Marking a document done takes out that one and no other.
LEMMA MarkDoneKeeps ==
    ASSUME QueueTypeOK, NEW d, MarkDone(d)
    PROVE  Pending' = Pending \ {d}
<1>1. \A e \in Docs : place[e] \in Nat
  BY QueueAssumption, FS_CardinalityType DEF QueueTypeOK
<1>2. ASSUME NEW e \in Docs
      PROVE  place'[e] > 0 <=> place[e] > 0 /\ e # d
  <2>1. place'[e] = IF e = d THEN 0
                    ELSE IF d \in Pending /\ place[e] > place[d] THEN place[e] - 1
                    ELSE place[e]
    BY DEF MarkDone
  <2>2. CASE e = d
    BY <2>1, <2>2
  <2>3. CASE e # d /\ d \in Pending /\ place[e] > place[d]
    <3>1. d \in Docs /\ place[d] > 0
      BY <2>3 DEF Pending
    <3> QED
      BY <1>1, <2>1, <2>3, <3>1
  <2>4. CASE e # d /\ ~(d \in Pending /\ place[e] > place[d])
    BY <2>1, <2>4
  <2> QED
    BY <2>2, <2>3, <2>4
<1> QED
  BY <1>2 DEF Pending

(***************************************************************************)
(* Type correctness.                                                       *)
(***************************************************************************)

\* The end of the process keeps the threads well typed.
LEMMA ProcessEndsType ==
    ASSUME TypeOK, ProcessEnds
    PROVE  /\ pc' \in [Threads -> Places] /\ hand' \in [Threads -> Docs \cup {NoDoc}]
           /\ due' \in [Threads -> SUBSET Docs] /\ dry' \in [Threads -> BOOLEAN]
           /\ inProgress' \in BOOLEAN
BY DEF TypeOK, ProcessEnds, Down, Places

\* Counting an event keeps the counters natural numbers.
LEMMA CountType ==
    ASSUME TypeOK, NEW b \in DOMAIN Bounds, Count(b)
    PROVE  counts' \in [DOMAIN Bounds -> Nat]
BY DEF TypeOK, Count

\* The counters of the two bounds.
LEMMA BoundNames == {"requests", "troubles"} \subseteq DOMAIN Bounds
BY DEF Bounds

\* The end of a thread keeps the state well typed.
LEMMA ThreadExitsType ==
    ASSUME TypeOK, NEW w \in Threads, ThreadExits(w)
    PROVE  TypeOK'
<1>1. CASE w = "main"
  <2>1. ProcessEnds /\ UNCHANGED <<queueVars, serverVars, fileVars, promise, counts>>
    BY <1>1 DEF ThreadExits
  <2> QED
    BY <2>1, ProcessEndsType DEF TypeOK, QueueTypeOK, queueVars, serverVars, fileVars
<1>2. CASE w # "main"
  BY <1>2 DEF ThreadExits, GoTo, TypeOK, QueueTypeOK, Places, queueVars, serverVars,
     fileVars
<1> QED
  BY <1>1, <1>2

\* What the stages do to a document keeps the server well typed.
LEMMA HandleType ==
    ASSUME TypeOK, NEW w \in Threads, NEW d, Handle(w, d)
    PROVE  life' \in [Docs -> Lives]
BY DEF Handle, TypeOK, Lives

\* The return from process_nudge keeps the threads and the promises well typed.
LEMMA ReturnedType ==
    ASSUME TypeOK, NEW w \in Threads, Returned(w)
    PROVE  /\ pc' \in [Threads -> Places]
           /\ dry' \in [Threads -> BOOLEAN]
           /\ promise' \in [Docs -> {"none", "owed", "kept"}]
BY DEF Returned, GoTo, TypeOK, Places

\* Type correctness is preserved by the steps of a thread.
LEMMA ThreadStepType ==
    ASSUME TypeOK, NEW w \in Threads, ThreadStep(w)
    PROVE  TypeOK'
<1> USE DEF queueVars, serverVars, fileVars, threadVars
<1>1. CASE TakeNext(w)
  BY <1>1 DEF TakeNext, GoTo, TypeOK, QueueTypeOK, Places
<1>2. CASE EndDrain(w)
  BY <1>2 DEF EndDrain, GoTo, TypeOK, QueueTypeOK, Places
<1>3. CASE SkipNudge(w)
  BY <1>3, ReturnedType DEF SkipNudge, TypeOK, QueueTypeOK
<1>4. CASE FetchNudged(w)
  BY <1>4 DEF FetchNudged, GoTo, TypeOK, QueueTypeOK, Places
<1>5. CASE NudgeExits(w)
  BY <1>5, ThreadExitsType DEF NudgeExits
<1>6. CASE EndNudge(w)
  BY <1>6, ReturnedType, HandleType DEF EndNudge, TypeOK, QueueTypeOK
<1>7. CASE Finish(w)
  <2>1. QueueTypeOK'
    BY <1>7, MarkDoneType DEF Finish, TypeOK
  <2> QED
    BY <1>7, <2>1 DEF Finish, GoTo, TypeOK, Places
<1>8. CASE EndSweep(w)
  BY <1>8 DEF EndSweep, SweepOver, GoTo, TypeOK, QueueTypeOK, Places
<1>9. ASSUME NEW d \in Docs, Work(w, d)
      PROVE  TypeOK'
  BY <1>9, HandleType DEF Work, TypeOK, QueueTypeOK
<1> QED
  BY <1>1, <1>2, <1>3, <1>4, <1>5, <1>6, <1>7, <1>8, <1>9 DEF ThreadStep

\* Type correctness is preserved by the world around the threads.
LEMMA WorldType ==
    ASSUME TypeOK, World
    PROVE  TypeOK'
<1> USE DEF queueVars, serverVars, fileVars, threadVars
<1>1. ASSUME NEW w \in Handlers, NEW d \in Docs, Nudge(w, d)
      PROVE  TypeOK'
  <2>1. QueueTypeOK'
    BY <1>1, EnqueueType DEF Nudge, TypeOK
  <2>2. counts' \in [DOMAIN Bounds -> Nat]
    BY <1>1, CountType, BoundNames DEF Nudge
  <2> QED
    BY <1>1, <2>1, <2>2 DEF Nudge, GoTo, TypeOK, Places, Threads
<1>2. ASSUME NEW w \in Threads, FailNudge(w)
      PROVE  TypeOK'
  <2>1. counts' \in [DOMAIN Bounds -> Nat]
    BY <1>2, CountType, BoundNames DEF FailNudge
  <2> QED
    BY <1>2, <2>1, ReturnedType DEF FailNudge, TypeOK, QueueTypeOK
<1>3. ASSUME NEW w \in Threads, FailSweep(w)
      PROVE  TypeOK'
  <2>1. counts' \in [DOMAIN Bounds -> Nat]
    BY <1>3, CountType, BoundNames DEF FailSweep
  <2> QED
    BY <1>3, <2>1 DEF FailSweep, SweepOver, GoTo, TypeOK, QueueTypeOK, Places
<1>4. ASSUME NEW w \in Threads, NEW d \in Docs, FailWork(w, d)
      PROVE  TypeOK'
  <2>1. counts' \in [DOMAIN Bounds -> Nat]
    BY <1>4, CountType, BoundNames DEF FailWork
  <2> QED
    BY <1>4, <2>1 DEF FailWork, TypeOK, QueueTypeOK
<1>5. ASSUME NEW d \in Docs, Extract(d) \/ DebouncedNudge(d)
      PROVE  TypeOK'
  <2>1. CASE Extract(d)
    BY <2>1 DEF Extract, TypeOK, QueueTypeOK, Lives
  <2>2. CASE DebouncedNudge(d)
    <3>1. counts' \in [DOMAIN Bounds -> Nat]
      BY <2>2, CountType, BoundNames DEF DebouncedNudge
    <3> QED
      BY <2>2, <3>1 DEF DebouncedNudge, TypeOK, QueueTypeOK
  <2> QED
    BY <1>5, <2>1, <2>2
<1>6. CASE StartManual
  <2>1. counts' \in [DOMAIN Bounds -> Nat]
    BY <1>6, CountType, BoundNames DEF StartManual
  <2> QED
    BY <1>6, <2>1 DEF StartManual, GoTo, TypeOK, QueueTypeOK, Places, Threads
<1>7. CASE Crash
  <2>1. counts' \in [DOMAIN Bounds -> Nat]
    BY <1>7, CountType, BoundNames DEF Crash
  <2> QED
    BY <1>7, <2>1, ProcessEndsType DEF Crash, TypeOK, QueueTypeOK
<1>8. CASE SetPaused \/ LoseField
  <2>1. counts' \in [DOMAIN Bounds -> Nat]
    BY <1>8, CountType, BoundNames DEF SetPaused, LoseField
  <2> QED
    BY <1>8, <2>1 DEF SetPaused, LoseField, TypeOK, QueueTypeOK
<1>9. CASE Setup
  BY <1>9 DEF Setup, TypeOK, QueueTypeOK
<1> QED
  BY <1>1, <1>2, <1>3, <1>4, <1>5, <1>6, <1>7, <1>8, <1>9 DEF World

\* Every step preserves type correctness.
LEMMA NextType ==
    ASSUME TypeOK, [Next]_vars
    PROVE  TypeOK'
<1> USE DEF queueVars, serverVars, fileVars, threadVars
<1>0. {"main", "manual"} \subseteq Threads /\ Handlers \subseteq Threads
  BY DEF Threads
<1>1. ASSUME NEW w \in Threads, NEW d \in BOOLEAN, FetchAll(w, d)
      PROVE  TypeOK'
  BY <1>1 DEF FetchAll, GoTo, TypeOK, QueueTypeOK, Places
<1>2. CASE StartProcess
  BY <1>0, <1>2 DEF StartProcess, GoTo, TypeOK, QueueTypeOK, Places
<1>3. CASE Tick
  BY <1>0, <1>1, <1>3 DEF Tick, TypeOK
<1>4. CASE TickPaused
  BY <1>4 DEF TickPaused, vars, TypeOK, QueueTypeOK
<1>5. CASE TickExits
  BY <1>0, <1>5, ThreadExitsType DEF TickExits
<1>6. CASE BeginManual
  BY <1>0, <1>1, <1>6 DEF BeginManual
<1>7. CASE ManualExits
  BY <1>0, <1>7, ThreadExitsType DEF ManualExits
<1>8. ASSUME NEW w \in Threads, ThreadStep(w)
      PROVE  TypeOK'
  BY <1>8, ThreadStepType
<1>9. CASE World
  BY <1>9, WorldType
<1>10. CASE UNCHANGED vars
  BY <1>10 DEF vars, TypeOK, QueueTypeOK
<1> QED
  BY <1>0, <1>2, <1>3, <1>4, <1>5, <1>6, <1>7, <1>8, <1>9, <1>10
     DEF Next, MainStep, ManualStep

\* The initial states are well typed.
LEMMA InitType == Init => TypeOK
<1>1. Cardinality(Docs) \in Nat
  BY QueueAssumption, FS_CardinalityType
<1>2. Init => QueueTypeOK
  BY <1>1 DEF Init, QueueInit, QueueTypeOK
<1>3. Init => pc \in [Threads -> Places] /\ counts \in [DOMAIN Bounds -> Nat]
  BY DEF Init, Down, Places
<1>4. Init => life \in [Docs -> Lives]
  BY DEF Init, Lives
<1> QED
  BY <1>2, <1>3, <1>4 DEF Init, TypeOK

\* Type correctness of the queue, the threads and what they work on, for every
\* number of documents and threads: a place in the list stays within it.
THEOREM TypeCorrect == Spec => []TypeOK
<1>1. Init => TypeOK
  BY InitType
<1>2. TypeOK /\ [Next]_vars => TypeOK'
  BY NextType
<1> QED
  BY <1>1, <1>2, PTL DEF Spec

(***************************************************************************)
(* No accepted nudge is lost.  The property is not inductive: Finish takes *)
(* out of the list whatever is in hand, so what is in hand at that point   *)
(* must owe nothing; and a document owes nothing again once it is "kept",  *)
(* which every document that is pending or in hand is or will be.          *)
(***************************************************************************)

\* A document that is queued or in hand was promised, and one that is about to
\* be marked done had its call of process_nudge.
PromiseInv ==
    /\ \A d \in Pending : promise[d] # "none"
    /\ \A w \in Threads : hand[w] # NoDoc => promise[hand[w]] # "none"
    /\ \A w \in Threads : At(w, "mark") => hand[w] # NoDoc /\ promise[hand[w]] = "kept"

IInv == TypeOK /\ PromiseInv /\ AcceptedStaysQueued

\* IInv survives a step that leaves the promises and the list as they are, and
\* in which each thread keeps its document, drops it or takes a queued one, and
\* none comes to "mark".
LEMMA QuietStep ==
    ASSUME IInv, TypeOK', UNCHANGED <<place, promise>>,
           \A w \in Threads :
              /\ hand'[w] \in {hand[w], NoDoc} \cup Pending
              /\ pc'[w] = "mark" => pc[w] = "mark" /\ hand'[w] = hand[w]
    PROVE  IInv'
<1>1. Pending' = Pending
  BY DEF Pending
<1>2. AcceptedStaysQueued'
  BY <1>1 DEF IInv, AcceptedStaysQueued
<1>3. ASSUME NEW w \in Threads, hand'[w] # NoDoc
      PROVE  promise'[hand'[w]] # "none"
  BY <1>3 DEF IInv, PromiseInv
<1>4. ASSUME NEW w \in Threads, At(w, "mark")'
      PROVE  hand'[w] # NoDoc /\ promise'[hand'[w]] = "kept"
  BY <1>4 DEF IInv, PromiseInv, At
<1>5. PromiseInv'
  BY <1>1, <1>3, <1>4 DEF IInv, PromiseInv
<1> QED
  BY <1>2, <1>5 DEF IInv

\* A thread that ends drops its document; that changes no other's.
LEMMA ThreadExitsQuiet ==
    ASSUME IInv, NEW w \in Threads, ThreadExits(w)
    PROVE  IInv'
<1>1. TypeOK'
  BY ThreadExitsType DEF IInv
<1>2. UNCHANGED <<place, promise>>
  BY DEF ThreadExits, queueVars
<1>3. ASSUME NEW x \in Threads
      PROVE  /\ hand'[x] \in {hand[x], NoDoc} \cup Pending
             /\ pc'[x] = "mark" => pc[x] = "mark" /\ hand'[x] = hand[x]
  BY DEF ThreadExits, ProcessEnds, Down, GoTo, IInv, TypeOK
<1> QED
  BY <1>1, <1>2, <1>3, QuietStep

\* The return from process_nudge keeps the promise of the document in hand.
LEMMA ReturnedKeeps ==
    ASSUME IInv, NEW w \in Threads, hand[w] # NoDoc, Returned(w), TypeOK',
           UNCHANGED <<place, hand>>
    PROVE  IInv'
<1> DEFINE e == hand[w]
<1>0. e \in Docs /\ promise[e] \in {"owed", "kept"}
  BY DEF IInv, TypeOK, PromiseInv
<1>1. promise'[e] = "kept" /\ \A d \in Docs \ {e} : promise'[d] = promise[d]
  BY <1>0 DEF Returned, IInv, TypeOK
<1> HIDE DEF e
<1>2. \A d \in Docs : promise[d] \in {"owed", "kept"} => promise'[d] # "none"
  BY <1>1
<1>3. Pending' = Pending /\ Pending \subseteq Docs
  BY DEF Pending
<1>4. AcceptedStaysQueued'
  BY <1>1, <1>3 DEF IInv, AcceptedStaysQueued
<1>5. \A x \in Threads : hand[x] # NoDoc => hand[x] \in Docs /\ promise[hand[x]] \in {"owed", "kept"}
  BY DEF IInv, TypeOK, PromiseInv
<1>6. \A x \in Threads : hand'[x] # NoDoc => promise'[hand'[x]] # "none"
  BY <1>2, <1>5
<1>7. ASSUME NEW x \in Threads, At(x, "mark")'
      PROVE  hand'[x] # NoDoc /\ promise'[hand'[x]] = "kept"
  <2>1. CASE x = w
    BY <1>1, <2>1 DEF e
  <2>2. CASE x # w
    <3>1. At(x, "mark")
      BY <1>7, <2>2 DEF Returned, GoTo, At, IInv, TypeOK
    <3>2. hand[x] # NoDoc /\ promise[hand[x]] = "kept"
      BY <3>1 DEF IInv, PromiseInv
    <3> QED
      BY <1>1, <1>5, <3>2
  <2> QED
    BY <2>1, <2>2
<1>8. \A d \in Pending' : promise'[d] # "none"
  <2>1. \A d \in Pending : promise[d] \in {"owed", "kept"}
    BY <1>3 DEF IInv, TypeOK, PromiseInv
  <2> QED
    BY <1>2, <1>3, <2>1
<1>9. PromiseInv'
  BY <1>6, <1>7, <1>8 DEF PromiseInv
<1> QED
  BY <1>4, <1>9 DEF IInv

\* Marking done takes out a document that owes nothing any more.
LEMMA FinishKeeps ==
    ASSUME IInv, NEW w \in Threads, Finish(w), TypeOK'
    PROVE  IInv'
<1>1. QueueTypeOK /\ MarkDone(hand[w])
  BY DEF Finish, IInv, TypeOK
<1>2. Pending' = Pending \ {hand[w]}
  BY <1>1, MarkDoneKeeps
<1>3. promise' = promise /\ promise[hand[w]] = "kept"
  BY DEF Finish, IInv, PromiseInv
<1>4. AcceptedStaysQueued'
  BY <1>2, <1>3 DEF IInv, AcceptedStaysQueued
<1>5. ASSUME NEW x \in Threads
      PROVE  /\ hand'[x] \in {hand[x], NoDoc}
             /\ pc'[x] = "mark" => pc[x] = "mark" /\ hand'[x] = hand[x]
  BY DEF Finish, GoTo, IInv, TypeOK
<1>6. PromiseInv'
  BY <1>2, <1>3, <1>5 DEF IInv, PromiseInv, At
<1> QED
  BY <1>4, <1>6 DEF IInv

\* A nudge makes a promise together with the entry in the list.
LEMMA NudgeKeeps ==
    ASSUME IInv, NEW w \in Handlers, NEW d \in Docs, Nudge(w, d), TypeOK'
    PROVE  IInv'
<1>1. QueueTypeOK /\ Enqueue(d)
  BY DEF Nudge, IInv, TypeOK
<1>2. Pending' = Pending \cup {d}
  BY <1>1, EnqueueKeeps
<1>3. /\ promise'[d] # "none"
      /\ promise[d] = "kept" => promise'[d] = "kept"
      /\ \A e \in Docs \ {d} : promise'[e] = promise[e]
  BY DEF Nudge, IInv, TypeOK
<1>4. Pending \subseteq Docs
  BY DEF Pending
<1>5. AcceptedStaysQueued'
  BY <1>2, <1>3 DEF IInv, AcceptedStaysQueued
<1>6. \A e \in Docs : /\ promise[e] # "none" => promise'[e] # "none"
                      /\ promise[e] = "kept" => promise'[e] = "kept"
  BY <1>3
<1>7. \A e \in Pending' : promise'[e] # "none"
  BY <1>2, <1>3, <1>4, <1>6 DEF IInv, PromiseInv
<1>8. hand' = hand /\ \A x \in Threads : hand[x] # NoDoc => hand[x] \in Docs
  BY DEF Nudge, IInv, TypeOK
<1>9. \A x \in Threads : At(x, "mark")' => At(x, "mark")
  BY DEF Nudge, GoTo, At, IInv, TypeOK, Threads
<1>10. PromiseInv'
  BY <1>6, <1>7, <1>8, <1>9 DEF IInv, PromiseInv
<1> QED
  BY <1>5, <1>10 DEF IInv

\* IInv is preserved by the steps of a thread.
LEMMA ThreadStepKeeps ==
    ASSUME IInv, NEW w \in Threads, ThreadStep(w), TypeOK'
    PROVE  IInv'
<1> USE DEF queueVars
<1>0. pc \in [Threads -> Places] /\ hand \in [Threads -> Docs \cup {NoDoc}]
  BY DEF IInv, TypeOK
<1>1. CASE TakeNext(w)
  <2>1. \A x \in Threads :
           /\ hand'[x] \in {hand[x], NoDoc} \cup Pending
           /\ pc'[x] = "mark" => pc[x] = "mark" /\ hand'[x] = hand[x]
    BY <1>0, <1>1 DEF TakeNext, IsNext, GoTo
  <2> QED
    BY <1>1, <2>1, QuietStep DEF TakeNext
<1>2. CASE EndDrain(w)
  <2>1. \A x \in Threads :
           /\ hand'[x] \in {hand[x], NoDoc} \cup Pending
           /\ pc'[x] = "mark" => pc[x] = "mark" /\ hand'[x] = hand[x]
    BY <1>0, <1>2 DEF EndDrain, GoTo
  <2> QED
    BY <1>2, <2>1, QuietStep DEF EndDrain
<1>3. CASE SkipNudge(w)
  BY <1>3, ReturnedKeeps DEF SkipNudge, Nudged
<1>4. CASE FetchNudged(w)
  <2>1. \A x \in Threads :
           /\ hand'[x] \in {hand[x], NoDoc} \cup Pending
           /\ pc'[x] = "mark" => pc[x] = "mark" /\ hand'[x] = hand[x]
    BY <1>0, <1>4 DEF FetchNudged, GoTo
  <2> QED
    BY <1>4, <2>1, QuietStep DEF FetchNudged
<1>5. CASE NudgeExits(w)
  BY <1>5, ThreadExitsQuiet DEF NudgeExits
<1>6. CASE EndNudge(w)
  BY <1>6, ReturnedKeeps DEF EndNudge, Nudged
<1>7. CASE Finish(w)
  BY <1>7, FinishKeeps
<1>8. CASE EndSweep(w)
  <2>1. \A x \in Threads :
           /\ hand'[x] \in {hand[x], NoDoc} \cup Pending
           /\ pc'[x] = "mark" => pc[x] = "mark" /\ hand'[x] = hand[x]
    BY <1>0, <1>8 DEF EndSweep, SweepOver, GoTo
  <2> QED
    BY <1>8, <2>1, QuietStep DEF EndSweep
<1>9. ASSUME NEW d \in Docs, Work(w, d)
      PROVE  IInv'
  BY <1>9, QuietStep DEF Work
<1> QED
  BY <1>1, <1>2, <1>3, <1>4, <1>5, <1>6, <1>7, <1>8, <1>9 DEF ThreadStep

\* IInv is preserved by the world around the threads.
LEMMA WorldKeeps ==
    ASSUME IInv, World, TypeOK'
    PROVE  IInv'
<1> USE DEF queueVars, threadVars
<1>0. pc \in [Threads -> Places] /\ hand \in [Threads -> Docs \cup {NoDoc}]
  BY DEF IInv, TypeOK
<1>1. ASSUME NEW w \in Handlers, NEW d \in Docs, Nudge(w, d)
      PROVE  IInv'
  BY <1>1, NudgeKeeps
<1>2. ASSUME NEW w \in Threads, FailNudge(w)
      PROVE  IInv'
  BY <1>2, ReturnedKeeps DEF FailNudge, Nudged
<1>3. ASSUME NEW w \in Threads, FailSweep(w)
      PROVE  IInv'
  <2>1. \A x \in Threads :
           /\ hand'[x] \in {hand[x], NoDoc} \cup Pending
           /\ pc'[x] = "mark" => pc[x] = "mark" /\ hand'[x] = hand[x]
    BY <1>0, <1>3 DEF FailSweep, SweepOver, GoTo
  <2> QED
    BY <1>3, <2>1, QuietStep DEF FailSweep
<1>4. ASSUME NEW w \in Threads, NEW d \in Docs, FailWork(w, d)
      PROVE  IInv'
  BY <1>4, QuietStep DEF FailWork
<1>5. ASSUME NEW d \in Docs, Extract(d) \/ DebouncedNudge(d)
      PROVE  IInv'
  BY <1>5, QuietStep DEF Extract, DebouncedNudge
<1>6. CASE StartManual
  <2>1. \A x \in Threads :
           /\ hand'[x] \in {hand[x], NoDoc} \cup Pending
           /\ pc'[x] = "mark" => pc[x] = "mark" /\ hand'[x] = hand[x]
    BY <1>0, <1>6 DEF StartManual, GoTo
  <2> QED
    BY <1>6, <2>1, QuietStep DEF StartManual
<1>7. CASE Crash
  <2>1. \A x \in Threads :
           /\ hand'[x] \in {hand[x], NoDoc} \cup Pending
           /\ pc'[x] = "mark" => pc[x] = "mark" /\ hand'[x] = hand[x]
    BY <1>7 DEF Crash, ProcessEnds, Down
  <2> QED
    BY <1>7, <2>1, QuietStep DEF Crash
<1>8. CASE SetPaused \/ LoseField \/ Setup
  BY <1>8, QuietStep DEF SetPaused, LoseField, Setup
<1> QED
  BY <1>1, <1>2, <1>3, <1>4, <1>5, <1>6, <1>7, <1>8 DEF World

\* Every step preserves IInv.
LEMMA NextKeeps ==
    ASSUME IInv, [Next]_vars
    PROVE  IInv'
<1> USE DEF queueVars, threadVars
<1>0. /\ {"main", "manual"} \subseteq Threads /\ Handlers \subseteq Threads
      /\ pc \in [Threads -> Places] /\ hand \in [Threads -> Docs \cup {NoDoc}]
  BY DEF Threads, IInv, TypeOK
<1>1. TypeOK'
  BY NextType DEF IInv
<1>2. ASSUME NEW w \in Threads, NEW d \in BOOLEAN, FetchAll(w, d)
      PROVE  IInv'
  <2>1. \A x \in Threads :
           /\ hand'[x] \in {hand[x], NoDoc} \cup Pending
           /\ pc'[x] = "mark" => pc[x] = "mark" /\ hand'[x] = hand[x]
    BY <1>0, <1>2 DEF FetchAll, GoTo
  <2> QED
    BY <1>1, <1>2, <2>1, QuietStep DEF FetchAll
<1>3. CASE StartProcess
  <2>1. \A x \in Threads :
           /\ hand'[x] \in {hand[x], NoDoc} \cup Pending
           /\ pc'[x] = "mark" => pc[x] = "mark" /\ hand'[x] = hand[x]
    BY <1>0, <1>3 DEF StartProcess, GoTo
  <2> QED
    BY <1>1, <1>3, <2>1, QuietStep DEF StartProcess
<1>4. CASE Tick
  <2>1. PICK d \in BOOLEAN : FetchAll("main", d)
    BY <1>4 DEF Tick, IInv, TypeOK
  <2> QED
    BY <1>0, <1>2, <2>1
<1>5. CASE TickExits
  BY <1>0, <1>5, ThreadExitsQuiet DEF TickExits
<1>6. CASE BeginManual
  BY <1>0, <1>2, <1>6 DEF BeginManual
<1>7. CASE ManualExits
  BY <1>0, <1>7, ThreadExitsQuiet DEF ManualExits
<1>8. ASSUME NEW w \in Threads, ThreadStep(w)
      PROVE  IInv'
  BY <1>1, <1>8, ThreadStepKeeps
<1>9. CASE World
  BY <1>1, <1>9, WorldKeeps
<1>10. CASE TickPaused \/ UNCHANGED vars
  BY <1>1, <1>10, QuietStep DEF TickPaused, vars
<1> QED
  BY <1>0, <1>3, <1>4, <1>5, <1>6, <1>7, <1>8, <1>9, <1>10
     DEF Next, MainStep, ManualStep

\* A document whose nudge was accepted stays in the persisted list until a call
\* of process_nudge for it has come to an end, for every number of documents and
\* of threads that drain the list at once, and whatever crashes in between.
THEOREM AcceptedIsQueued == Spec => []AcceptedStaysQueued
<1>1. Init => IInv
  <2>1. Init => TypeOK
    BY InitType
  <2>2. Init => PromiseInv
    BY DEF Init, QueueInit, Down, Pending, PromiseInv, At
  <2>3. Init => AcceptedStaysQueued
    BY DEF Init, AcceptedStaysQueued
  <2> QED
    BY <2>1, <2>2, <2>3 DEF IInv
<1>2. IInv /\ [Next]_vars => IInv'
  BY NextKeeps
<1>3. IInv => AcceptedStaysQueued
  BY DEF IInv
<1> QED
  BY <1>1, <1>2, <1>3, PTL DEF Spec

----------------------------------------------------------------------------
(***************************************************************************)
(* The queue of a batch.                                                   *)
(***************************************************************************)

(***************************************************************************)
(* Sequences.                                                              *)
(***************************************************************************)

\* A part of a sequence.
LEMMA PartOf ==
    ASSUME NEW S, NEW s \in Seq(S), NEW m \in Nat \ {0}, NEW n \in Nat,
           m <= n + 1, n <= Len(s)
    PROVE  /\ SubSeq(s, m, n) \in Seq(S)
           /\ Len(SubSeq(s, m, n)) = n - m + 1
           /\ \A k \in 1..(n - m + 1) : SubSeq(s, m, n)[k] = s[m + k - 1]
<1>1. Len(s) \in Nat
  BY LenProperties
<1>2. \A i \in m..n : s[i] \in S
  <2>1. SUFFICES ASSUME NEW i \in m..n PROVE s[i] \in S
    OBVIOUS
  <2>2. i \in 1..Len(s)
    BY <1>1
  <2> QED
    BY <2>2, ElementOfSeq
<1>3. m \in Int /\ n \in Int
  OBVIOUS
<1>4. /\ SubSeq(s, m, n) \in Seq(S)
      /\ Len(SubSeq(s, m, n)) = IF m <= n THEN n - m + 1 ELSE 0
      /\ \A i \in 1..(n - m + 1) : SubSeq(s, m, n)[i] = s[m + i - 1]
  BY <1>2, <1>3, SubSeqProperties
<1>5. m > n => n - m + 1 = 0
  OBVIOUS
<1> QED
  BY <1>4, <1>5

\* What is left when a place is taken out of a sequence.
LEMMA RemovedAt ==
    ASSUME NEW S, NEW s \in Seq(S), NEW i \in DOMAIN s
    PROVE  /\ RemoveAt(s, i) \in Seq(S)
           /\ Len(RemoveAt(s, i)) = Len(s) - 1
           /\ \A k \in 1..(Len(s) - 1) :
                RemoveAt(s, i)[k] = IF k < i THEN s[k] ELSE s[k + 1]
<1> DEFINE a == SubSeq(s, 1, i - 1)
           b == SubSeq(s, i + 1, Len(s))
<1>1. Len(s) \in Nat /\ DOMAIN s = 1..Len(s) /\ i \in 1..Len(s)
  BY LenProperties
<1>2. /\ a \in Seq(S) /\ Len(a) = i - 1
      /\ \A k \in 1..(i - 1) : a[k] = s[k]
  <2>1. 1 \in Nat \ {0} /\ i - 1 \in Nat /\ 1 <= (i - 1) + 1 /\ i - 1 <= Len(s)
    BY <1>1
  <2>2. /\ a \in Seq(S) /\ Len(a) = (i - 1) - 1 + 1
        /\ \A k \in 1..((i - 1) - 1 + 1) : a[k] = s[1 + k - 1]
    BY <2>1, PartOf
  <2>3. (i - 1) - 1 + 1 = i - 1 /\ \A k \in 1..(i - 1) : 1 + k - 1 = k
    BY <1>1
  <2> QED
    BY <2>2, <2>3
<1>3. /\ b \in Seq(S) /\ Len(b) = Len(s) - i
      /\ \A k \in 1..(Len(s) - i) : b[k] = s[i + k]
  <2>1. i + 1 \in Nat \ {0} /\ Len(s) \in Nat /\ i + 1 <= Len(s) + 1 /\ Len(s) <= Len(s)
    BY <1>1
  <2>2. /\ b \in Seq(S) /\ Len(b) = Len(s) - (i + 1) + 1
        /\ \A k \in 1..(Len(s) - (i + 1) + 1) : b[k] = s[(i + 1) + k - 1]
    BY <2>1, PartOf
  <2>3. Len(s) - (i + 1) + 1 = Len(s) - i
        /\ \A k \in 1..(Len(s) - i) : (i + 1) + k - 1 = i + k
    BY <1>1
  <2> QED
    BY <2>2, <2>3
<1>4. RemoveAt(s, i) = a \o b
  BY DEF RemoveAt
<1>5. /\ a \o b \in Seq(S) /\ Len(a \o b) = Len(a) + Len(b)
      /\ \A k \in 1..(Len(a) + Len(b)) :
            (a \o b)[k] = IF k <= Len(a) THEN a[k] ELSE b[k - Len(a)]
  BY <1>2, <1>3, ConcatProperties
<1> HIDE DEF a, b
<1>6. ASSUME NEW k \in 1..(Len(s) - 1)
      PROVE  RemoveAt(s, i)[k] = IF k < i THEN s[k] ELSE s[k + 1]
  <2>1. (a \o b)[k] = IF k <= Len(a) THEN a[k] ELSE b[k - Len(a)]
    BY <1>1, <1>2, <1>3, <1>5
  <2>2. CASE k < i
    <3>1. k <= Len(a) /\ k \in 1..(i - 1)
      BY <1>1, <1>2, <2>2
    <3> QED
      BY <1>2, <1>4, <2>1, <2>2, <3>1
  <2>3. CASE ~(k < i)
    <3>1. ~(k <= Len(a)) /\ k - Len(a) \in 1..(Len(s) - i) /\ i + (k - Len(a)) = k + 1
      BY <1>1, <1>2, <2>3
    <3>2. b[k - Len(a)] = s[k + 1]
      BY <1>3, <3>1
    <3> QED
      BY <1>4, <2>1, <2>3, <3>1, <3>2
  <2> QED
    BY <2>2, <2>3
<1>7. Len(a) + Len(b) = Len(s) - 1
  BY <1>1, <1>2, <1>3
<1> QED
  BY <1>4, <1>5, <1>6, <1>7

\* What a sequence is when an element was put in at a place.
LEMMA InsertedAt ==
    ASSUME NEW S, NEW s \in Seq(S), NEW i \in 1..(Len(s) + 1), NEW e \in S
    PROVE  /\ InsertAt(s, i, e) \in Seq(S)
           /\ Len(InsertAt(s, i, e)) = Len(s) + 1
           /\ \A k \in 1..(Len(s) + 1) :
                InsertAt(s, i, e)[k] =
                    IF k < i THEN s[k] ELSE IF k = i THEN e ELSE s[k - 1]
<1> DEFINE a == SubSeq(s, 1, i - 1)
           b == SubSeq(s, i, Len(s))
           m == <<e>>
           c == a \o m
<1>1. Len(s) \in Nat /\ DOMAIN s = 1..Len(s)
  BY LenProperties
<1>2. /\ a \in Seq(S) /\ Len(a) = i - 1
      /\ \A k \in 1..(i - 1) : a[k] = s[k]
  <2>1. 1 \in Nat \ {0} /\ i - 1 \in Nat /\ 1 <= (i - 1) + 1 /\ i - 1 <= Len(s)
    BY <1>1
  <2>2. /\ a \in Seq(S) /\ Len(a) = (i - 1) - 1 + 1
        /\ \A k \in 1..((i - 1) - 1 + 1) : a[k] = s[1 + k - 1]
    BY <2>1, PartOf
  <2>3. (i - 1) - 1 + 1 = i - 1 /\ \A k \in 1..(i - 1) : 1 + k - 1 = k
    BY <1>1
  <2> QED
    BY <2>2, <2>3
<1>3. /\ b \in Seq(S) /\ Len(b) = Len(s) - i + 1
      /\ \A k \in 1..(Len(s) - i + 1) : b[k] = s[i + k - 1]
  <2>1. i \in Nat \ {0} /\ Len(s) \in Nat /\ i <= Len(s) + 1 /\ Len(s) <= Len(s)
    BY <1>1
  <2> QED
    BY <2>1, PartOf
<1>4. m \in Seq(S) /\ Len(m) = 1 /\ m[1] = e
  OBVIOUS
<1>5. InsertAt(s, i, e) = c \o b
  BY DEF InsertAt
<1> HIDE DEF a, b, m
<1>6. /\ c \in Seq(S) /\ Len(c) = i
      /\ \A k \in 1..i : c[k] = IF k < i THEN s[k] ELSE e
  <2>1. /\ c \in Seq(S) /\ Len(c) = Len(a) + Len(m)
        /\ \A k \in 1..(Len(a) + Len(m)) :
              c[k] = IF k <= Len(a) THEN a[k] ELSE m[k - Len(a)]
    BY <1>2, <1>4, ConcatProperties
  <2>2. ASSUME NEW k \in 1..i
        PROVE  c[k] = IF k < i THEN s[k] ELSE e
    <3>1. c[k] = IF k <= Len(a) THEN a[k] ELSE m[k - Len(a)]
      BY <1>2, <1>4, <2>1
    <3>2. CASE k < i
      <4>1. k <= Len(a) /\ k \in 1..(i - 1)
        BY <1>2, <3>2
      <4> QED
        BY <1>2, <3>1, <3>2, <4>1
    <3>3. CASE ~(k < i)
      <4>1. ~(k <= Len(a)) /\ k - Len(a) = 1
        BY <1>2, <3>3
      <4> QED
        BY <1>4, <3>1, <3>3, <4>1
    <3> QED
      BY <3>2, <3>3
  <2>3. Len(a) + Len(m) = i
    BY <1>2, <1>4
  <2> QED
    BY <2>1, <2>2, <2>3
<1> HIDE DEF c
<1>7. /\ c \o b \in Seq(S) /\ Len(c \o b) = Len(c) + Len(b)
      /\ \A k \in 1..(Len(c) + Len(b)) :
            (c \o b)[k] =
                IF k <= Len(c) THEN c[k] ELSE b[k - Len(c)]
  BY <1>3, <1>6, ConcatProperties
<1>8. Len(c) + Len(b) = Len(s) + 1
  BY <1>1, <1>3, <1>6
<1>9. ASSUME NEW k \in 1..(Len(s) + 1)
      PROVE  InsertAt(s, i, e)[k] =
                IF k < i THEN s[k] ELSE IF k = i THEN e ELSE s[k - 1]
  <2>1. InsertAt(s, i, e)[k] = IF k <= i THEN c[k] ELSE b[k - i]
    BY <1>5, <1>6, <1>7, <1>8
  <2>2. CASE k <= i
    <3>1. k \in 1..i
      BY <2>2
    <3>2. c[k] = IF k < i THEN s[k] ELSE e
      BY <1>6, <3>1
    <3> QED
      BY <2>1, <2>2, <3>1, <3>2
  <2>3. CASE ~(k <= i)
    <3>1. k - i \in 1..(Len(s) - i + 1) /\ i + (k - i) - 1 = k - 1 /\ ~(k < i) /\ k # i
      BY <1>1, <2>3
    <3>2. b[k - i] = s[k - 1]
      BY <1>3, <3>1
    <3> QED
      BY <2>1, <2>3, <3>1, <3>2
  <2> QED
    BY <2>2, <2>3
<1> QED
  BY <1>5, <1>7, <1>8, <1>9

\* Taking a place out of a list of different documents leaves one.
LEMMA RemovedInjective ==
    ASSUME NEW S, NEW s \in Seq(S), IsInjective(s), NEW i \in DOMAIN s
    PROVE  /\ IsInjective(RemoveAt(s, i))
           /\ \A k \in DOMAIN RemoveAt(s, i) : RemoveAt(s, i)[k] # s[i]
<1> DEFINE r == RemoveAt(s, i)
<1>1. Len(s) \in Nat /\ DOMAIN s = 1..Len(s) /\ i \in 1..Len(s)
  BY LenProperties
<1>2. /\ r \in Seq(S) /\ Len(r) = Len(s) - 1
      /\ \A k \in 1..(Len(s) - 1) : r[k] = IF k < i THEN s[k] ELSE s[k + 1]
  BY RemovedAt
<1> HIDE DEF r
<1>3. DOMAIN r = 1..(Len(s) - 1)
  BY <1>2, LenProperties
<1> DEFINE from(k) == IF k < i THEN k ELSE k + 1
<1>4. \A k \in 1..(Len(s) - 1) : from(k) \in DOMAIN s /\ r[k] = s[from(k)] /\ from(k) # i
  BY <1>1, <1>2
<1>5. \A k, l \in 1..(Len(s) - 1) : from(k) = from(l) => k = l
  BY <1>1
<1> HIDE DEF from
<1>6. \A x, y \in DOMAIN s : s[x] = s[y] => x = y
  BY DEF IsInjective
<1>7. ASSUME NEW k \in DOMAIN r, NEW l \in DOMAIN r, r[k] = r[l]
      PROVE  k = l
  BY <1>3, <1>4, <1>5, <1>6, <1>7
<1>8. IsInjective(r)
  BY <1>7 DEF IsInjective
<1>9. \A k \in DOMAIN r : r[k] # s[i]
  BY <1>1, <1>3, <1>4, <1>6
<1> QED
  BY <1>8, <1>9 DEF r

\* A new document put into a list of different documents leaves one.
LEMMA InsertedInjective ==
    ASSUME NEW S, NEW s \in Seq(S), IsInjective(s), NEW i \in 1..(Len(s) + 1),
           NEW e \in S, \A k \in DOMAIN s : s[k] # e
    PROVE  IsInjective(InsertAt(s, i, e))
<1> DEFINE r == InsertAt(s, i, e)
<1>1. Len(s) \in Nat /\ DOMAIN s = 1..Len(s)
  BY LenProperties
<1>2. /\ r \in Seq(S) /\ Len(r) = Len(s) + 1
      /\ \A k \in 1..(Len(s) + 1) :
            r[k] = IF k < i THEN s[k] ELSE IF k = i THEN e ELSE s[k - 1]
  BY InsertedAt
<1> HIDE DEF r
<1>3. DOMAIN r = 1..(Len(s) + 1)
  BY <1>2, LenProperties
<1> DEFINE from(k) == IF k < i THEN k ELSE k - 1
<1>4. \A k \in 1..(Len(s) + 1) : k # i => from(k) \in DOMAIN s /\ r[k] = s[from(k)]
  BY <1>1, <1>2
<1>5. \A k, l \in 1..(Len(s) + 1) : k # i /\ l # i /\ from(k) = from(l) => k = l
  BY <1>1
<1> HIDE DEF from
<1>6. r[i] = e
  BY <1>1, <1>2
<1>7. \A x, y \in DOMAIN s : s[x] = s[y] => x = y
  BY DEF IsInjective
<1>8. ASSUME NEW k \in DOMAIN r, NEW l \in DOMAIN r, r[k] = r[l]
      PROVE  k = l
  <2>1. CASE k # i /\ l # i
    BY <1>3, <1>4, <1>5, <1>7, <1>8, <2>1
  <2>2. CASE k = i /\ l # i
    BY <1>3, <1>4, <1>6, <1>8, <2>2
  <2>3. CASE k # i /\ l = i
    BY <1>3, <1>4, <1>6, <1>8, <2>3
  <2> QED
    BY <2>1, <2>2, <2>3
<1>9. IsInjective(r)
  BY <1>8 DEF IsInjective
<1> QED
  BY <1>9 DEF r

\* The numbers of a set, in their order: each is there, once.
LEMMA InOrderLists ==
    ASSUME NEW m \in Nat, NEW S \in SUBSET (1..m)
    PROVE  /\ IsFiniteSet(S) /\ Cardinality(S) \in Nat
           /\ InOrder(S) \in [1..Cardinality(S) -> S]
           /\ \A a, b \in 1..Cardinality(S) : InOrder(S)[a] = InOrder(S)[b] => a = b
           /\ \A i \in S : \E n \in 1..Cardinality(S) : InOrder(S)[n] = i
<1> DEFINE Upto(i) == {j \in S : j <= i}
           N == Cardinality(S)
           f == [i \in S |-> Cardinality(Upto(i))]
<1>1. IsFiniteSet(S) /\ N \in Nat
  <2>1. IsFiniteSet(1..m)
    BY FS_Interval
  <2> QED
    BY <2>1, FS_Subset, FS_CardinalityType
<1>2. ASSUME NEW i \in S
      PROVE  /\ IsFiniteSet(Upto(i)) /\ Cardinality(Upto(i)) \in 1..N
             /\ \A j \in S : i < j => Cardinality(Upto(i)) < Cardinality(Upto(j))
  <2>1. \A j \in S : IsFiniteSet(Upto(j)) /\ Cardinality(Upto(j)) \in Nat
                     /\ Cardinality(Upto(j)) <= N
    <3>1. TAKE j \in S
    <3>2. Upto(j) \in SUBSET S
      OBVIOUS
    <3> QED
      BY <1>1, <3>2, FS_Subset, FS_CardinalityType
  <2>2. Cardinality(Upto(i)) # 0
    <3>1. i \in Upto(i)
      OBVIOUS
    <3> QED
      BY <2>1, <3>1, FS_EmptySet
  <2>3. ASSUME NEW j \in S, i < j
        PROVE  Cardinality(Upto(i)) < Cardinality(Upto(j))
    <3>1. Upto(i) \in SUBSET Upto(j) /\ j \in Upto(j) /\ j \notin Upto(i)
      <4>1. i \in 1..m /\ j \in 1..m /\ i < j
        BY <2>3
      <4>2. \A k \in S : k \in 1..m /\ (k <= i => k <= j)
        BY <4>1
      <4>3. j <= j /\ ~(j <= i)
        BY <4>1
      <4> QED
        BY <4>2, <4>3
    <3>2. Cardinality(Upto(i)) <= Cardinality(Upto(j))
          /\ (Cardinality(Upto(i)) = Cardinality(Upto(j)) => Upto(j) = Upto(i))
      <4>1. IsFiniteSet(Upto(j)) /\ Upto(i) \in SUBSET Upto(j)
        BY <2>1, <3>1
      <4> HIDE DEF Upto
      <4> QED
        BY <4>1, FS_Subset
    <3> QED
      BY <2>1, <3>1, <3>2
  <2> QED
    BY <1>1, <2>1, <2>2, <2>3
<1>3. f \in [S -> 1..N]
  BY <1>2
<1>4. ASSUME NEW i \in S, NEW j \in S, f[i] = f[j]
      PROVE  i = j
  <2>1. i \in Nat /\ j \in Nat
    OBVIOUS
  <2>2. Cardinality(Upto(i)) = Cardinality(Upto(j))
        /\ Cardinality(Upto(i)) \in Nat /\ Cardinality(Upto(j)) \in Nat
    BY <1>2, <1>4
  <2>3. ~(i < j) /\ ~(j < i)
    BY <1>2, <2>2
  <2> QED
    BY <2>1, <2>3
<1>5. \A n \in 1..N : \E i \in S : Cardinality(Upto(i)) = n
  <2>1. f \in Injection(S, 1..N)
    BY <1>3, <1>4 DEF Injection, IsInjective
  <2>2. IsFiniteSet(1..N) /\ Cardinality(1..N) = N
    BY <1>1, FS_Interval
  <2>3. f \in Surjection(S, 1..N)
    BY <2>1, <2>2, FS_Injection
  <2>4. \A n \in 1..N : \E i \in S : f[i] = n
    BY <2>3 DEF Surjection
  <2> QED
    BY <2>4
<1> DEFINE at(n) == CHOOSE i \in S : Cardinality(Upto(i)) = n
<1>6. \A n \in 1..N : at(n) \in S /\ Cardinality(Upto(at(n))) = n
  BY <1>5
<1>7. \A i, j \in S : Cardinality(Upto(i)) = Cardinality(Upto(j)) => i = j
  BY <1>4
<1>8. InOrder(S) = [n \in 1..N |-> at(n)]
  BY DEF InOrder
<1>9. \A i \in S : Cardinality(Upto(i)) \in 1..N
  BY <1>2
<1> HIDE DEF at, Upto, N
<1>10. \A i \in S : at(Cardinality(Upto(i))) = i
  BY <1>6, <1>7, <1>9
<1>11. InOrder(S) \in [1..N -> S]
  BY <1>6, <1>8
<1>12. \A a, b \in 1..N : InOrder(S)[a] = InOrder(S)[b] => a = b
  BY <1>6, <1>8
<1>13. \A i \in S : \E n \in 1..N : InOrder(S)[n] = i
  BY <1>8, <1>9, <1>10
<1> QED
  BY <1>1, <1>11, <1>12, <1>13 DEF N

(***************************************************************************)
(* A page and what is taken of it.                                         *)
(***************************************************************************)

\* The places of the list before a page.
Before(n) == (n - 1) * PageSize

\* A page begins where the one before it ends.
LEMMA PagesMeet ==
    ASSUME NEW n \in Nat \ {0}
    PROVE  /\ Before(n) \in Nat /\ n * PageSize \in Nat
           /\ n * PageSize = Before(n) + PageSize
           /\ Before(n) <= n * PageSize
           /\ Before(n + 1) = n * PageSize
           /\ n = 1 => Before(n) = 0
<1>1. PageSize \in Nat \ {0}
  BY BatchAssumption
<1>2. PICK m \in Nat : n = m + 1
  <2>1. n - 1 \in Nat /\ n = (n - 1) + 1
    OBVIOUS
  <2> QED
    BY <2>1
<1>3. n - 1 = m /\ (n + 1) - 1 = m + 1
  BY <1>2
<1>4. m * PageSize \in Nat /\ (m + 1) * PageSize \in Nat
      /\ (m + 1) * PageSize = m * PageSize + PageSize
      /\ m * PageSize <= (m + 1) * PageSize
  BY <1>1
<1>5. m = 0 => m * PageSize = 0
  BY <1>1
<1>6. Before(n) = m * PageSize /\ Before(n + 1) = (m + 1) * PageSize
      /\ n * PageSize = (m + 1) * PageSize
  BY <1>2, <1>3 DEF Before
<1>7. n = 1 => m = 0
  BY <1>2
<1> QED
  BY <1>4, <1>5, <1>6, <1>7

\* A page holds the documents at its places.
LEMMA PageOf ==
    ASSUME list \in Seq(Documents), NEW n \in Nat \ {0}, HasPage(n)
    PROVE  /\ Results(n) \in Seq(Documents)
           /\ \A k \in DOMAIN Results(n) :
                /\ Before(n) + k \in DOMAIN list
                /\ Before(n) + k <= n * PageSize
                /\ Results(n)[k] = list[Before(n) + k]
           /\ \A p \in DOMAIN list :
                p > Before(n) /\ p <= n * PageSize =>
                    /\ p - Before(n) \in DOMAIN Results(n)
                    /\ Results(n)[p - Before(n)] = list[p]
<1> DEFINE o == Before(n)
           e == n * PageSize
           last == Least(e, Len(list))
           r == Results(n)
<1>1. PageSize \in Nat \ {0}
  BY BatchAssumption
<1>2. o \in Nat /\ e \in Nat /\ e = o + PageSize /\ (n = 1 => o = 0)
  BY PagesMeet
<1>3. Len(list) \in Nat /\ DOMAIN list = 1..Len(list)
  BY LenProperties
<1>4. o <= Len(list)
  <2>1. CASE n = 1
    BY <1>2, <1>3, <2>1
  <2>2. CASE n # 1
    BY <1>2, <1>3, <2>2 DEF HasPage, Before
  <2> QED
    BY <2>1, <2>2
<1>5. r = SubSeq(list, o + 1, last)
  BY DEF Results, Before
<1>6. last = IF e <= Len(list) THEN e ELSE Len(list)
  BY DEF Least
<1> HIDE DEF o, e, r, last
<1>7. last \in Nat /\ last <= Len(list) /\ last <= e /\ o <= last
      /\ (last = e \/ last = Len(list))
  <2>1. e \in Nat /\ o \in Nat /\ Len(list) \in Nat /\ o <= e /\ o <= Len(list)
    BY <1>1, <1>2, <1>3, <1>4
  <2> QED
    BY <1>6, <2>1
<1>8. /\ r \in Seq(Documents) /\ Len(r) = last - o
      /\ \A k \in 1..(last - o) : r[k] = list[o + k]
  <2>1. o + 1 \in Nat \ {0} /\ o + 1 <= last + 1
    BY <1>2, <1>7
  <2>2. /\ r \in Seq(Documents) /\ Len(r) = last - (o + 1) + 1
        /\ \A k \in 1..(last - (o + 1) + 1) : r[k] = list[(o + 1) + k - 1]
    BY <1>5, <1>7, <2>1, PartOf
  <2>3. last - (o + 1) + 1 = last - o
        /\ \A k \in 1..(last - o) : (o + 1) + k - 1 = o + k
    BY <1>2, <1>7
  <2> QED
    BY <2>2, <2>3
<1>9. DOMAIN r = 1..(last - o)
  BY <1>8, LenProperties
<1>10. ASSUME NEW k \in DOMAIN r
       PROVE  o + k \in DOMAIN list /\ o + k <= e /\ r[k] = list[o + k]
  <2>1. k \in 1..(last - o)
    BY <1>9, <1>10
  <2>2. o \in Nat /\ e \in Nat /\ last \in Nat /\ Len(list) \in Nat
        /\ last <= Len(list) /\ last <= e
    BY <1>2, <1>3, <1>7
  <2>3. k \in Nat /\ k >= 1 /\ o + k <= last
    BY <2>1, <2>2
  <2>4. o + k \in 1..Len(list) /\ o + k <= e
    BY <2>2, <2>3
  <2> QED
    BY <1>3, <1>8, <2>1, <2>4
<1>11. ASSUME NEW p \in DOMAIN list, p > o, p <= e
       PROVE  p - o \in DOMAIN r /\ r[p - o] = list[p]
  <2>1. p \in Nat /\ p <= Len(list) /\ p > o /\ p <= e
    BY <1>3, <1>11
  <2>2. p <= last
    BY <1>7, <2>1
  <2>3. p - o \in 1..(last - o) /\ o + (p - o) = p
    BY <1>2, <1>7, <2>1, <2>2
  <2> QED
    BY <1>8, <1>9, <2>3
<1> QED
  BY <1>8, <1>10, <1>11 DEF o, e, r

\* What is taken of a page: the copies the command takes, each once.
LEMMA TakenOf ==
    ASSUME NEW k, NEW copies \in Seq(Copies)
    PROVE  /\ Taken(k, copies) \in Seq(Copies)
           /\ \E at \in [DOMAIN Taken(k, copies) -> DOMAIN copies] :
                /\ \A a \in DOMAIN Taken(k, copies) :
                    /\ Taken(k, copies)[a] = copies[at[a]]
                    /\ Takes(k, copies[at[a]])
                /\ \A a, b \in DOMAIN Taken(k, copies) : at[a] = at[b] => a = b
                /\ \A i \in DOMAIN copies :
                    Takes(k, copies[i]) =>
                        \E a \in DOMAIN Taken(k, copies) : at[a] = i
<1> DEFINE places == {i \in DOMAIN copies : Takes(k, copies[i])}
           N == Cardinality(places)
           at == InOrder(places)
           t == Taken(k, copies)
<1>1. Len(copies) \in Nat /\ DOMAIN copies = 1..Len(copies)
  BY LenProperties
<1>2. /\ IsFiniteSet(places) /\ N \in Nat
      /\ at \in [1..N -> places]
      /\ \A a, b \in 1..N : at[a] = at[b] => a = b
      /\ \A i \in places : \E n \in 1..N : at[n] = i
  <2>1. places \in SUBSET (1..Len(copies))
    BY <1>1
  <2> HIDE DEF places
  <2> QED
    BY <1>1, <2>1, InOrderLists
<1>3. t = [n \in 1..N |-> copies[at[n]]]
  BY DEF Taken
<1>4. \A i \in places : i \in DOMAIN copies /\ Takes(k, copies[i])
  OBVIOUS
<1>5. \A i \in DOMAIN copies : Takes(k, copies[i]) => i \in places
  OBVIOUS
<1>6. \A i \in DOMAIN copies : copies[i] \in Copies
  BY <1>1, ElementOfSeq
<1> HIDE DEF places, N, at, t
<1>7. \A n \in 1..N : at[n] \in places
  BY <1>2
<1>8. t \in [1..N -> Copies] /\ DOMAIN t = 1..N
  BY <1>3, <1>4, <1>6, <1>7
<1>9. t \in Seq(Copies)
  BY <1>2, <1>8, SeqDef
<1>10. at \in [DOMAIN t -> DOMAIN copies]
  BY <1>2, <1>4, <1>8
<1>11. \A a \in DOMAIN t : t[a] = copies[at[a]] /\ Takes(k, copies[at[a]])
  BY <1>3, <1>4, <1>7, <1>8
<1>12. \A a, b \in DOMAIN t : at[a] = at[b] => a = b
  BY <1>2, <1>8
<1>13. \A i \in DOMAIN copies : Takes(k, copies[i]) => \E a \in DOMAIN t : at[a] = i
  BY <1>2, <1>5, <1>8
<1>14. \E f \in [DOMAIN t -> DOMAIN copies] :
          /\ \A a \in DOMAIN t : t[a] = copies[f[a]] /\ Takes(k, copies[f[a]])
          /\ \A a, b \in DOMAIN t : f[a] = f[b] => a = b
          /\ \A i \in DOMAIN copies : Takes(k, copies[i]) => \E a \in DOMAIN t : f[a] = i
  BY <1>10, <1>11, <1>12, <1>13
<1> QED
  BY <1>9, <1>14 DEF t

\* What the page the command asks for adds to its queue.
Fetched == Taken(kind, CopiesOf(Results(page)))

\* It is the documents at the places of the page that the command takes.
LEMMA FetchedOf ==
    ASSUME BatchTypeOK, HasPage(page)
    PROVE  /\ Fetched \in Seq(Copies)
           /\ \A a \in DOMAIN Fetched : \E p \in DOMAIN list :
                /\ p > Before(page) /\ p <= page * PageSize
                /\ Fetched[a] = Copy(list[p]) /\ Takes(kind, Copy(list[p]))
           /\ \A a, b \in DOMAIN Fetched : Fetched[a].doc = Fetched[b].doc => a = b
           /\ \A p \in DOMAIN list :
                p > Before(page) /\ p <= page * PageSize /\ Takes(kind, Copy(list[p])) =>
                    \E a \in DOMAIN Fetched : Fetched[a] = Copy(list[p])
<1> DEFINE r == Results(page)
           c == CopiesOf(r)
           t == Fetched
           o == Before(page)
           e == page * PageSize
<1>1. list \in Seq(Documents) /\ IsInjective(list) /\ page \in Nat \ {0}
      /\ stage \in [Documents -> 0..2]
  BY DEF BatchTypeOK
<1>2. /\ r \in Seq(Documents)
      /\ \A k \in DOMAIN r :
            o + k \in DOMAIN list /\ o + k <= e /\ r[k] = list[o + k]
      /\ \A p \in DOMAIN list :
            p > o /\ p <= e => p - o \in DOMAIN r /\ r[p - o] = list[p]
  BY <1>1, PageOf
<1>3. o \in Nat /\ e \in Nat
  BY <1>1, PagesMeet
<1>4. Len(list) \in Nat /\ DOMAIN list = 1..Len(list)
      /\ \A p \in DOMAIN list : list[p] \in Documents
  BY <1>1, LenProperties, ElementOfSeq
<1>5. Len(r) \in Nat /\ DOMAIN r = 1..Len(r) /\ \A k \in DOMAIN r : r[k] \in Documents
  BY <1>2, LenProperties, ElementOfSeq
<1>6. \A d \in Documents : Copy(d) \in Copies /\ Copy(d).doc = d
  BY <1>1 DEF Copy, Copies
<1>7. DOMAIN c = DOMAIN r /\ \A k \in DOMAIN r : c[k] = Copy(r[k])
  BY DEF CopiesOf
<1>8. c \in Seq(Copies)
  <2>1. c \in [1..Len(r) -> Copies]
    BY <1>5, <1>6 DEF CopiesOf
  <2> QED
    BY <1>5, <2>1, SeqDef
<1>9. t = Taken(kind, c)
  BY DEF Fetched
<1> HIDE DEF r, c, t, o, e
<1>10. t \in Seq(Copies)
  BY <1>8, <1>9, TakenOf
<1>11. PICK at \in [DOMAIN t -> DOMAIN c] :
          /\ \A a \in DOMAIN t : t[a] = c[at[a]] /\ Takes(kind, c[at[a]])
          /\ \A a, b \in DOMAIN t : at[a] = at[b] => a = b
          /\ \A i \in DOMAIN c : Takes(kind, c[i]) => \E a \in DOMAIN t : at[a] = i
  BY <1>8, <1>9, TakenOf
<1>12. ASSUME NEW a \in DOMAIN t
       PROVE  /\ at[a] \in DOMAIN r
              /\ o + at[a] \in DOMAIN list /\ o + at[a] > o /\ o + at[a] <= e
              /\ t[a] = Copy(list[o + at[a]]) /\ Takes(kind, Copy(list[o + at[a]]))
              /\ t[a].doc = list[o + at[a]]
  <2>1. at[a] \in DOMAIN r
    BY <1>7, <1>11
  <2>2. at[a] \in Nat /\ at[a] > 0
    BY <1>5, <2>1
  <2>3. o + at[a] > o
    BY <1>3, <2>2
  <2>4. o + at[a] \in DOMAIN list /\ o + at[a] <= e /\ r[at[a]] = list[o + at[a]]
    BY <1>2, <2>1
  <2>5. t[a] = Copy(list[o + at[a]]) /\ Takes(kind, Copy(list[o + at[a]]))
    BY <1>7, <1>11, <2>1, <2>4
  <2>6. t[a].doc = list[o + at[a]]
    BY <1>4, <1>6, <2>4, <2>5
  <2> QED
    BY <2>1, <2>3, <2>4, <2>5, <2>6
<1>13. ASSUME NEW a \in DOMAIN t, NEW b \in DOMAIN t, t[a].doc = t[b].doc
       PROVE  a = b
  <2>1. list[o + at[a]] = list[o + at[b]] /\ o + at[a] \in DOMAIN list /\ o + at[b] \in DOMAIN list
    BY <1>12, <1>13
  <2>2. o + at[a] = o + at[b]
    BY <1>1, <2>1 DEF IsInjective
  <2>3. at[a] \in Nat /\ at[b] \in Nat
    BY <1>5, <1>12
  <2>4. at[a] = at[b]
    BY <1>3, <2>2, <2>3
  <2> QED
    BY <1>11, <2>4
<1>14. ASSUME NEW p \in DOMAIN list, p > o, p <= e, Takes(kind, Copy(list[p]))
       PROVE  \E a \in DOMAIN t : t[a] = Copy(list[p])
  <2>1. p - o \in DOMAIN r /\ r[p - o] = list[p]
    BY <1>2, <1>14
  <2>2. p - o \in DOMAIN c /\ c[p - o] = Copy(list[p])
    BY <1>7, <2>1
  <2>3. PICK a \in DOMAIN t : at[a] = p - o
    BY <1>11, <1>14, <2>2
  <2> QED
    BY <1>11, <2>2, <2>3
<1>15. \A a \in DOMAIN t : \E p \in DOMAIN list :
          p > o /\ p <= e /\ t[a] = Copy(list[p]) /\ Takes(kind, Copy(list[p]))
  BY <1>12
<1> QED
  BY <1>10, <1>13, <1>14, <1>15 DEF t, o, e

(***************************************************************************)
(* Types, and the pool of workers.                                         *)
(***************************************************************************)

\* The copies the workers have of a document.
InHand(d) == {i \in busy : queue[i].doc = d}

\* Nothing is in hand before the queue is complete, and the pool takes the
\* places of the queue in their order.
PoolShape ==
    /\ phase # "draining" => busy = {} /\ next = 1
    /\ phase = "idle" => queue = <<>>
    /\ \A i \in busy : i < next

\* Each copy in hand of a metadata batch has been paid for.
PaysInHand ==
    kind = "metadata" => \A d \in Documents : Cardinality(InHand(d)) <= paid[d]

BatchInv == BatchTypeOK /\ PoolShape /\ PaysInHand

\* A queue is a sequence of copies, and each of its places has a document.
LEMMA QueueOf ==
    ASSUME BatchTypeOK
    PROVE  /\ Len(queue) \in Nat /\ DOMAIN queue = 1..Len(queue)
           /\ \A i \in 1..Len(queue) :
                queue[i] \in Copies /\ queue[i].doc \in Documents /\ queue[i].stage \in 0..2
           /\ IsFiniteSet(busy)
<1>1. queue \in Seq(Copies) /\ busy \in SUBSET (1..Len(queue))
  BY DEF BatchTypeOK
<1>2. Len(queue) \in Nat /\ DOMAIN queue = 1..Len(queue)
  BY <1>1, LenProperties
<1>3. \A i \in 1..Len(queue) : queue[i] \in Copies
  BY <1>1, ElementOfSeq
<1>4. \A c \in Copies : c.doc \in Documents /\ c.stage \in 0..2
  BY DEF Copies
<1>5. IsFiniteSet(1..Len(queue))
  BY <1>2, FS_Interval
<1>6. IsFiniteSet(busy)
  BY <1>1, <1>5, FS_Subset
<1> QED
  BY <1>2, <1>3, <1>4, <1>6

\* The list is a sequence of different documents.
LEMMA ListOf ==
    ASSUME BatchTypeOK
    PROVE  /\ list \in Seq(Documents) /\ IsInjective(list)
           /\ Len(list) \in Nat /\ DOMAIN list = 1..Len(list)
           /\ \A p \in DOMAIN list : list[p] \in Documents
<1>1. list \in Seq(Documents) /\ IsInjective(list)
  BY DEF BatchTypeOK
<1> QED
  BY <1>1, LenProperties, ElementOfSeq

\* A counter counts.
LEMMA CountUpType ==
    ASSUME BatchTypeOK, NEW b \in {"forces", "changes", "troubles"}, NEW bound, CountUp(b, bound)
    PROVE  count' \in [{"forces", "changes", "troubles"} -> Nat]
BY DEF BatchTypeOK, CountUp

\* What the request for a page does to the queue.
LEMMA FetchEffect ==
    ASSUME BatchTypeOK, FetchPage
    PROVE  /\ queue' \in Seq(Copies)
           /\ \A i \in DOMAIN queue' :
                \/ i \in DOMAIN queue /\ queue'[i] = queue[i]
                \/ /\ i > Len(queue) /\ i - Len(queue) \in DOMAIN Fetched
                   /\ queue'[i] = Fetched[i - Len(queue)]
           /\ limit = 0 =>
                /\ \A i \in DOMAIN queue : i \in DOMAIN queue' /\ queue'[i] = queue[i]
                /\ \A a \in DOMAIN Fetched :
                    Len(queue) + a \in DOMAIN queue' /\ queue'[Len(queue) + a] = Fetched[a]
<1> DEFINE all == queue \o Fetched
<1>1. /\ queue \in Seq(Copies) /\ Len(queue) \in Nat /\ DOMAIN queue = 1..Len(queue)
  BY QueueOf DEF BatchTypeOK
<1>2. Fetched \in Seq(Copies)
  BY FetchedOf DEF FetchPage
<1>3. Len(Fetched) \in Nat /\ DOMAIN Fetched = 1..Len(Fetched)
  BY <1>2, LenProperties
<1>4. /\ all \in Seq(Copies) /\ Len(all) = Len(queue) + Len(Fetched)
      /\ \A i \in 1..(Len(queue) + Len(Fetched)) :
            all[i] = IF i <= Len(queue) THEN queue[i] ELSE Fetched[i - Len(queue)]
  BY <1>1, <1>2, ConcatProperties
<1>5. queue' = UpToLimit(all)
  BY DEF FetchPage, Fetched
<1>6. limit \in Nat
  BY BatchAssumption DEF BatchTypeOK
<1> HIDE DEF all
<1>7. ASSUME NEW i \in 1..Len(all)
      PROVE  \/ i \in DOMAIN queue /\ all[i] = queue[i]
             \/ /\ i > Len(queue) /\ i - Len(queue) \in DOMAIN Fetched
                /\ all[i] = Fetched[i - Len(queue)]
  BY <1>1, <1>3, <1>4
<1>8. CASE Full(all)
  <2>1. limit > 0 /\ limit <= Len(all) /\ queue' = SubSeq(all, 1, limit)
    BY <1>4, <1>5, <1>6, <1>8 DEF Full, UpToLimit
  <2>2. 1 \in Nat \ {0} /\ 1 <= limit + 1
    BY <1>6
  <2>3. /\ queue' \in Seq(Copies) /\ Len(queue') = limit - 1 + 1
        /\ \A k \in 1..(limit - 1 + 1) : queue'[k] = all[1 + k - 1]
    BY <1>4, <1>6, <2>1, <2>2, PartOf
  <2>4. limit - 1 + 1 = limit /\ \A k \in 1..limit : 1 + k - 1 = k /\ k \in 1..Len(all)
    BY <1>1, <1>3, <1>4, <1>6, <2>1
  <2>5. DOMAIN queue' = 1..limit /\ \A k \in 1..limit : queue'[k] = all[k] /\ k \in 1..Len(all)
    BY <2>3, <2>4, LenProperties
  <2>6. limit # 0
    BY <1>6, <2>1
  <2> QED
    BY <1>7, <2>3, <2>5, <2>6
<1>9. CASE ~Full(all)
  <2>1. queue' = all
    BY <1>5, <1>9 DEF UpToLimit
  <2>2. DOMAIN all = 1..Len(all)
    BY <1>4, LenProperties
  <2>3. \A i \in DOMAIN queue : i \in 1..Len(all) /\ all[i] = queue[i]
    BY <1>1, <1>3, <1>4
  <2>4. \A a \in DOMAIN Fetched :
            Len(queue) + a \in 1..Len(all) /\ all[Len(queue) + a] = Fetched[a]
    <3>1. TAKE a \in DOMAIN Fetched
    <3>2. a \in Nat /\ a > 0 /\ a <= Len(Fetched)
      BY <1>3
    <3>3. Len(queue) + a \in 1..(Len(queue) + Len(Fetched)) /\ ~(Len(queue) + a <= Len(queue))
          /\ (Len(queue) + a) - Len(queue) = a
      BY <1>1, <1>3, <3>2
    <3> QED
      BY <1>4, <3>3
  <2> QED
    BY <1>4, <1>7, <2>1, <2>2, <2>3, <2>4
<1> QED
  BY <1>8, <1>9

\* What the request for a page does to the place of the command.
LEMMA FetchTurns ==
    ASSUME BatchTypeOK, FetchPage
    PROVE  /\ phase = "paging" /\ HasPage(page)
           /\ \/ phase' = "draining" /\ page' = 1 /\ (limit = 0 => ~HasNext(page))
              \/ phase' = "paging" /\ page' = page + 1
BY BatchAssumption DEF FetchPage, BatchTypeOK, Full

\* What the end of a command leaves.
LEMMA EndType ==
    ASSUME BatchTypeOK, End, UNCHANGED listVars, paid' \in [Documents -> Nat],
           UNCHANGED <<redone, shifted>>, count' \in [{"forces", "changes", "troubles"} -> Nat]
    PROVE  BatchTypeOK' /\ PoolShape' /\ PaysInHand'
<1>1. /\ phase' = "idle" /\ kind' = "triage" /\ limit' = 0 /\ page' = 1 /\ queue' = <<>>
      /\ next' = 1 /\ busy' = {} /\ standing' = {} /\ churn' = {}
      /\ force' = FALSE /\ dryRun' = FALSE
  BY DEF End
<1>2. queue' \in Seq(Copies) /\ Len(queue') = 0
  BY <1>1, EmptySeq
<1>3. limit' \in Limits
  BY <1>1, BatchAssumption
<1>4. page' \in Nat \ {0} /\ next' \in 1..(Len(queue') + 1) /\ busy' \subseteq 1..Len(queue')
  BY <1>1, <1>2
<1>5. list' \in Seq(Documents) /\ IsInjective(list') /\ stage' \in [Documents -> 0..2]
      /\ deleted' \subseteq Documents /\ shifted' \in BOOLEAN
      /\ redone' \in [Documents -> Nat]
  BY DEF BatchTypeOK, listVars
<1>6. BatchTypeOK'
  BY <1>1, <1>2, <1>3, <1>4, <1>5 DEF BatchTypeOK, Kinds
<1>7. PoolShape'
  BY <1>1 DEF PoolShape
<1>8. PaysInHand'
  BY <1>1 DEF PaysInHand
<1> QED
  BY <1>6, <1>7, <1>8

\* Calls that were in vain were counted before.
LEMMA InVainType ==
    ASSUME BatchInv, NEW places \in SUBSET busy, InVain(places)
    PROVE  /\ paid' \in [Documents -> Nat]
           /\ \A d \in Documents :
                paid'[d] = paid[d] - IF kind = "metadata"
                    THEN Cardinality({i \in places : queue[i].doc = d}) ELSE 0
<1>1. IsFiniteSet(busy)
  BY QueueOf DEF BatchInv
<1>2. ASSUME NEW d \in Documents
      PROVE  paid[d] \in Nat
             /\ paid[d] - (IF kind = "metadata"
                    THEN Cardinality({i \in places : queue[i].doc = d}) ELSE 0) \in Nat
  <2>1. paid[d] \in Nat
    BY DEF BatchInv, BatchTypeOK
  <2>2. CASE kind = "metadata"
    <3> DEFINE lost == {i \in places : queue[i].doc = d}
    <3>1. IsFiniteSet(InHand(d))
      <4>1. InHand(d) \in SUBSET busy
        BY DEF InHand
      <4> QED
        BY <1>1, <4>1, FS_Subset
    <3>2. lost \in SUBSET InHand(d)
      BY DEF InHand
    <3> HIDE DEF lost
    <3>3. IsFiniteSet(lost) /\ Cardinality(lost) <= Cardinality(InHand(d))
      BY <3>1, <3>2, FS_Subset
    <3>4. Cardinality(lost) \in Nat /\ Cardinality(InHand(d)) \in Nat
      BY <3>1, <3>3, FS_CardinalityType
    <3>5. Cardinality(InHand(d)) <= paid[d]
      BY <2>2 DEF BatchInv, PaysInHand
    <3>6. paid[d] - Cardinality(lost) \in Nat
      BY <2>1, <3>3, <3>4, <3>5
    <3> QED
      BY <2>1, <2>2, <3>6 DEF lost
  <2>3. CASE kind # "metadata"
    BY <2>1, <2>3
  <2> QED
    BY <2>2, <2>3
<1> QED
  BY <1>2 DEF InVain

\* A command that begins keeps the types.
LEMMA StartType ==
    ASSUME BatchInv, NEW k \in Kinds, NEW l \in Limits, NEW f \in BOOLEAN,
           Start(k, l, f)
    PROVE  BatchInv'
<1>1. /\ phase = "idle" /\ phase' = "paging" /\ kind' = k /\ limit' = l /\ page' = 1
      /\ standing' = {d \in ToSet(list) : Takes(k, Copy(d))} /\ churn' = {}
      /\ force' \in BOOLEAN /\ dryRun' \in BOOLEAN
      /\ UNCHANGED <<list, stage, deleted, queue, next, busy, paid, redone, shifted>>
  BY DEF Start, listVars
<1>2. standing' \subseteq Documents
  <2>1. ToSet(list) \subseteq Documents
    BY ListOf DEF BatchInv, ToSet
  <2> QED
    BY <1>1, <2>1
<1>7. count' \in [{"forces", "changes", "troubles"} -> Nat]
  BY CountUpType DEF Start, BatchInv, BatchTypeOK
<1>3. BatchTypeOK'
  BY <1>1, <1>2, <1>7 DEF BatchInv, BatchTypeOK
<1>4. busy' = {} /\ next' = 1
  BY <1>1 DEF BatchInv, PoolShape
<1>5. PoolShape'
  BY <1>1, <1>4 DEF PoolShape
<1>6. PaysInHand'
  <2>1. \A d \in Documents : InHand(d)' = {} /\ paid'[d] \in Nat
    BY <1>3, <1>4 DEF InHand, BatchTypeOK
  <2>2. Cardinality({}) = 0
    BY FS_EmptySet
  <2>3. \A d \in Documents : Cardinality(InHand(d)') <= paid'[d]
    BY <2>1, <2>2
  <2> QED
    BY <2>3 DEF PaysInHand
<1> QED
  BY <1>3, <1>5, <1>6 DEF BatchInv

\* The request for a page keeps the types.
LEMMA FetchType ==
    ASSUME BatchInv, FetchPage
    PROVE  BatchInv'
<1>1. BatchTypeOK
  BY DEF BatchInv
<1>2. UNCHANGED <<list, stage, deleted, kind, limit, force, dryRun, next, busy, paid, redone,
                standing, churn, shifted, count>>
  BY DEF FetchPage, listVars, historyVars
<1>3. queue' \in Seq(Copies)
  BY <1>1, FetchEffect
<1>4. phase' \in {"paging", "draining"} /\ page' \in Nat \ {0} /\ phase = "paging"
  <2>1. page \in Nat \ {0}
    BY <1>1 DEF BatchTypeOK
  <2> QED
    BY <1>1, <2>1, FetchTurns
<1>5. busy' = {} /\ next' = 1
  BY <1>2, <1>4 DEF BatchInv, PoolShape
<1>6. Len(queue') \in Nat
  BY <1>3, LenProperties
<1>7. next' \in 1..(Len(queue') + 1) /\ busy' \subseteq 1..Len(queue')
  BY <1>5, <1>6
<1>8. BatchTypeOK'
  BY <1>1, <1>2, <1>3, <1>4, <1>7 DEF BatchTypeOK
<1>9. PoolShape'
  BY <1>4, <1>5 DEF PoolShape
<1>10. PaysInHand'
  <2>1. \A d \in Documents : InHand(d)' = {} /\ paid'[d] \in Nat
    BY <1>5, <1>8 DEF InHand, BatchTypeOK
  <2>2. Cardinality({}) = 0
    BY FS_EmptySet
  <2>3. \A d \in Documents : Cardinality(InHand(d)') <= paid'[d]
    BY <2>1, <2>2
  <2> QED
    BY <2>3 DEF PaysInHand
<1> QED
  BY <1>8, <1>9, <1>10 DEF BatchInv

\* The command ends when a request fails.
LEMMA FetchFailsType ==
    ASSUME BatchInv, FetchFails
    PROVE  BatchInv'
<1>1. count' \in [{"forces", "changes", "troubles"} -> Nat]
  BY CountUpType DEF BatchInv, BatchTypeOK, FetchFails, Trouble
<1>2. paid' \in [Documents -> Nat] /\ End /\ UNCHANGED listVars /\ UNCHANGED <<redone, shifted>>
  BY DEF FetchFails, BatchInv, BatchTypeOK
<1> QED
  BY <1>1, <1>2, EndType DEF BatchInv

\* The command ends when the pool is empty.
LEMMA FinishBatchType ==
    ASSUME BatchInv, FinishBatch
    PROVE  BatchInv'
<1>1. /\ count' \in [{"forces", "changes", "troubles"} -> Nat]
      /\ paid' \in [Documents -> Nat] /\ End /\ UNCHANGED listVars /\ UNCHANGED <<redone, shifted>>
  BY DEF FinishBatch, BatchInv, BatchTypeOK
<1> QED
  BY <1>1, EndType DEF BatchInv

\* The command is killed.
LEMMA KillType ==
    ASSUME BatchInv, Kill
    PROVE  BatchInv'
<1>1. count' \in [{"forces", "changes", "troubles"} -> Nat]
  BY CountUpType DEF BatchInv, Kill, Trouble
<1>2. End /\ InVain(busy) /\ UNCHANGED listVars /\ UNCHANGED <<redone, shifted>>
  BY DEF Kill
<1>3. paid' \in [Documents -> Nat]
  BY <1>2, InVainType
<1> QED
  BY <1>1, <1>2, <1>3, EndType DEF BatchInv

\* What the pool does when it takes the next copy.
LEMMA TakeEffect ==
    ASSUME BatchInv, Take
    PROVE  /\ phase = "draining" /\ next \in 1..Len(queue) /\ next \notin busy
           /\ next' = next + 1
           /\ busy' = IF Skips(queue[next]) THEN busy ELSE busy \cup {next}
           /\ paid' = IF kind = "metadata"
                      THEN [paid EXCEPT ![queue[next].doc] = @ + 1] ELSE paid
           /\ kind = "metadata" => ~Skips(queue[next])
           /\ UNCHANGED <<list, stage, deleted, phase, kind, limit, force, dryRun, page, queue,
                          redone, standing, churn, shifted, count>>
<1>1. next \in 1..(Len(queue) + 1) /\ Len(queue) \in Nat /\ (\A i \in busy : i < next)
  BY QueueOf DEF BatchInv, BatchTypeOK, PoolShape
<1>2. next <= Len(queue)
  BY DEF Take
<1>3. next \in 1..Len(queue) /\ ~(next < next)
  BY <1>1, <1>2
<1>4. next \notin busy
  BY <1>1, <1>3
<1> QED
  BY <1>3, <1>4 DEF Take, listVars, Skips

\* The pool takes a copy.
LEMMA TakeType ==
    ASSUME BatchInv, Take
    PROVE  BatchInv'
<1> DEFINE c == queue[next]
<1>1. /\ phase = "draining" /\ next \in 1..Len(queue) /\ next \notin busy
      /\ next' = next + 1
      /\ busy' = IF Skips(c) THEN busy ELSE busy \cup {next}
      /\ paid' = IF kind = "metadata" THEN [paid EXCEPT ![c.doc] = @ + 1] ELSE paid
      /\ kind = "metadata" => ~Skips(c)
      /\ UNCHANGED <<list, stage, deleted, phase, kind, limit, force, dryRun, page, queue,
                     redone, standing, churn, shifted, count>>
  BY TakeEffect
<1>2. Len(queue) \in Nat /\ c.doc \in Documents /\ IsFiniteSet(busy)
  BY <1>1, QueueOf DEF BatchInv
<1>3. BatchTypeOK
  BY DEF BatchInv
<1> HIDE DEF c
<1>4. paid' \in [Documents -> Nat]
  BY <1>1, <1>2, <1>3 DEF BatchTypeOK
<1>5. next' \in 1..(Len(queue') + 1) /\ busy' \subseteq 1..Len(queue')
  <2>1. busy \subseteq 1..Len(queue) /\ next' \in 1..(Len(queue) + 1)
    BY <1>1, <1>2, <1>3 DEF BatchTypeOK
  <2>2. busy' \subseteq 1..Len(queue)
    BY <1>1, <2>1
  <2> QED
    BY <1>1, <2>1, <2>2
<1>6. BatchTypeOK'
  BY <1>1, <1>3, <1>4, <1>5 DEF BatchTypeOK
<1>7. PoolShape'
  <2>1. \A i \in busy : i \in Nat /\ i < next
    BY <1>2, <1>3 DEF BatchInv, BatchTypeOK, PoolShape
  <2>2. next \in Nat
    BY <1>2, <1>1
  <2>3. \A i \in busy' : i < next'
    BY <1>1, <2>1, <2>2
  <2> QED
    BY <1>1, <2>3 DEF PoolShape
<1>8. PaysInHand'
  <2>1. SUFFICES ASSUME kind = "metadata", NEW d \in Documents
                 PROVE  Cardinality(InHand(d)') <= paid'[d]
    BY <1>1 DEF PaysInHand
  <2>2. IsFiniteSet(InHand(d)) /\ next \notin InHand(d)
    <3>1. InHand(d) \in SUBSET busy
      BY DEF InHand
    <3> QED
      BY <1>1, <1>2, <3>1, FS_Subset
  <2>3. Cardinality(InHand(d)) \in Nat /\ paid[d] \in Nat /\ Cardinality(InHand(d)) <= paid[d]
    BY <2>1, <2>2, <1>3, FS_CardinalityType DEF BatchInv, BatchTypeOK, PaysInHand
  <2>4. busy' = busy \cup {next} /\ paid' = [paid EXCEPT ![c.doc] = @ + 1]
    BY <1>1, <2>1
  <2>5. CASE c.doc = d
    <3>1. InHand(d)' = InHand(d) \cup {next}
      BY <1>1, <2>4, <2>5 DEF InHand, c
    <3>2. Cardinality(InHand(d)') = Cardinality(InHand(d)) + 1
      BY <2>2, <3>1, FS_AddElement
    <3>3. paid'[d] = paid[d] + 1
      BY <1>3, <2>4, <2>5 DEF BatchTypeOK
    <3> QED
      BY <2>3, <3>2, <3>3
  <2>6. CASE c.doc # d
    <3>1. InHand(d)' = InHand(d)
      BY <1>1, <2>4, <2>6 DEF InHand, c
    <3>2. paid'[d] = paid[d]
      BY <1>3, <2>4, <2>6 DEF BatchTypeOK
    <3> QED
      BY <2>3, <3>1, <3>2
  <2> QED
    BY <2>5, <2>6
<1> QED
  BY <1>6, <1>7, <1>8 DEF BatchInv

\* A copy is written.
LEMMA WriteType ==
    ASSUME BatchInv, NEW i \in busy, Write(i)
    PROVE  BatchInv'
<1>1. /\ stage' = [stage EXCEPT ![queue[i].doc] = Written[kind]] /\ busy' = busy \ {i}
      /\ redone' = (IF kind = "triage" /\ force /\ stage[queue[i].doc] = 2
                    THEN [redone EXCEPT ![queue[i].doc] = @ + 1] ELSE redone)
      /\ UNCHANGED <<list, deleted, phase, kind, limit, force, dryRun, page, queue, next,
                     paid, standing, churn, shifted, count>>
  BY DEF Write
<1>2. BatchTypeOK
  BY DEF BatchInv
<1>3. queue[i].doc \in Documents /\ Written[kind] \in 0..2
  BY <1>2, QueueOf DEF BatchTypeOK, Written, Kinds
<1>4. stage' \in [Documents -> 0..2]
  BY <1>1, <1>2, <1>3 DEF BatchTypeOK
<1>5. busy' \subseteq 1..Len(queue)
  BY <1>1, <1>2 DEF BatchTypeOK
<1>9. redone' \in [Documents -> Nat]
  <2>1. redone \in [Documents -> Nat]
    BY <1>2 DEF BatchTypeOK
  <2>2. redone' = redone \/ redone' = [redone EXCEPT ![queue[i].doc] = redone[queue[i].doc] + 1]
    BY <1>1
  <2>3. redone[queue[i].doc] + 1 \in Nat
    BY <1>3, <2>1
  <2> QED
    BY <2>1, <2>2, <2>3
<1>6. BatchTypeOK'
  BY <1>1, <1>2, <1>4, <1>5, <1>9 DEF BatchTypeOK
<1>7. PoolShape'
  BY <1>1 DEF BatchInv, PoolShape
<1>8. PaysInHand'
  <2>1. SUFFICES ASSUME kind = "metadata", NEW d \in Documents
                 PROVE  Cardinality(InHand(d)') <= paid[d]
    BY <1>1 DEF PaysInHand
  <2>2. IsFiniteSet(InHand(d))
    <3>1. InHand(d) \in SUBSET busy
      BY DEF InHand
    <3> QED
      BY <1>2, <3>1, QueueOf, FS_Subset
  <2>3. InHand(d)' \in SUBSET InHand(d)
    BY <1>1 DEF InHand
  <2>4. IsFiniteSet(InHand(d)') /\ Cardinality(InHand(d)') <= Cardinality(InHand(d))
    BY <2>2, <2>3, FS_Subset
  <2>5. Cardinality(InHand(d)) \in Nat /\ Cardinality(InHand(d)') \in Nat
    BY <2>2, <2>4, FS_CardinalityType
  <2>6. paid[d] \in Nat /\ Cardinality(InHand(d)) <= paid[d]
    BY <1>2, <2>1 DEF BatchInv, BatchTypeOK, PaysInHand
  <2> QED
    BY <2>4, <2>5, <2>6
<1> QED
  BY <1>6, <1>7, <1>8 DEF BatchInv

\* A copy is not written: it fails, or the run is a dry one.
LEMMA NotWrittenType ==
    ASSUME BatchInv, NEW i \in busy, Report(i) \/ WriteFails(i)
    PROVE  BatchInv'
<1>1. /\ busy' = busy \ {i} /\ InVain({i})
      /\ UNCHANGED <<list, stage, deleted, phase, kind, limit, force, dryRun, page, queue, next,
                     redone, standing, churn, shifted>>
  BY DEF Report, WriteFails, listVars
<1>2. BatchTypeOK
  BY DEF BatchInv
<1>3. {i} \in SUBSET busy
  OBVIOUS
<1>4. /\ paid' \in [Documents -> Nat]
      /\ \A d \in Documents :
            paid'[d] = paid[d] - IF kind = "metadata"
                THEN Cardinality({j \in {i} : queue[j].doc = d}) ELSE 0
  BY <1>1, <1>3, InVainType
<1>5. count' \in [{"forces", "changes", "troubles"} -> Nat]
  BY <1>2, CountUpType DEF BatchTypeOK, Report, WriteFails, Trouble
<1>6. busy' \subseteq 1..Len(queue)
  BY <1>1, <1>2 DEF BatchTypeOK
<1>7. BatchTypeOK'
  BY <1>1, <1>2, <1>4, <1>5, <1>6 DEF BatchTypeOK
<1>8. PoolShape'
  BY <1>1 DEF BatchInv, PoolShape
<1>9. PaysInHand'
  <2>1. SUFFICES ASSUME kind = "metadata", NEW d \in Documents
                 PROVE  Cardinality(InHand(d)') <= paid'[d]
    BY <1>1 DEF PaysInHand
  <2>2. IsFiniteSet(InHand(d))
    <3>1. InHand(d) \in SUBSET busy
      BY DEF InHand
    <3> QED
      BY <1>2, <3>1, QueueOf, FS_Subset
  <2>3. Cardinality(InHand(d)) \in Nat /\ paid[d] \in Nat /\ Cardinality(InHand(d)) <= paid[d]
    BY <1>2, <2>1, <2>2, FS_CardinalityType DEF BatchInv, BatchTypeOK, PaysInHand
  <2>4. CASE queue[i].doc = d
    <3>1. {j \in {i} : queue[j].doc = d} = {i}
      BY <2>4
    <3>2. paid'[d] = paid[d] - 1
      BY <1>4, <2>1, <3>1, FS_Singleton
    <3>3. InHand(d)' = InHand(d) \ {i} /\ i \in InHand(d)
      BY <1>1, <2>4 DEF InHand
    <3>4. Cardinality(InHand(d)') = Cardinality(InHand(d)) - 1
      BY <2>2, <3>3, FS_RemoveElement
    <3> QED
      BY <2>3, <3>2, <3>4
  <2>5. CASE queue[i].doc # d
    <3>1. {j \in {i} : queue[j].doc = d} = {}
      BY <2>5
    <3>2. paid'[d] = paid[d] - 0
      BY <1>4, <2>1, <3>1, FS_EmptySet
    <3>3. InHand(d)' = InHand(d)
      BY <1>1, <2>5 DEF InHand
    <3> QED
      BY <2>3, <3>2, <3>3
  <2> QED
    BY <2>4, <2>5
<1> QED
  BY <1>7, <1>8, <1>9 DEF BatchInv

\* A change of the list keeps the types when the new list is one of
\* different documents.
LEMMA ChangedType ==
    ASSUME BatchInv, NEW how \in SUBSET {"in", "out"}, NEW newList, Changed(how, newList),
           newList \in Seq(Documents), IsInjective(newList), UNCHANGED stage,
           deleted' \subseteq Documents, standing' \subseteq Documents
    PROVE  BatchInv'
<1>1. /\ list' = newList
      /\ churn' = (IF phase = "paging" THEN churn \cup how ELSE churn)
      /\ shifted' = (shifted \/ (phase = "paging" /\ "in" \in how))
      /\ UNCHANGED <<phase, kind, limit, force, dryRun, page, queue, next, busy, paid, redone>>
  BY DEF Changed, commandVars
<1>2. count' \in [{"forces", "changes", "troubles"} -> Nat]
  BY CountUpType DEF BatchInv, Changed
<1>3. shifted' \in BOOLEAN
  BY <1>1
<1>4. churn' \subseteq {"in", "out"}
  BY <1>1 DEF BatchInv, BatchTypeOK
<1>5. BatchTypeOK'
  BY <1>1, <1>2, <1>3, <1>4 DEF BatchInv, BatchTypeOK
<1>6. PoolShape' /\ PaysInHand'
  BY <1>1 DEF BatchInv, PoolShape, PaysInHand, InHand
<1> QED
  BY <1>5, <1>6 DEF BatchInv

\* A document that arrives keeps the types.
LEMMA ArriveType ==
    ASSUME BatchInv, NEW d \in Documents, Arrive(d)
    PROVE  BatchInv'
<1>1. PICK i \in 1..(Len(list) + 1) : Changed({"in"}, InsertAt(list, i, d))
  BY DEF Arrive
<1>2. list \in Seq(Documents) /\ IsInjective(list) /\ \A k \in DOMAIN list : list[k] # d
  BY ListOf DEF Arrive, BatchInv, ToSet
<1>3. InsertAt(list, i, d) \in Seq(Documents) /\ IsInjective(InsertAt(list, i, d))
  BY <1>2, InsertedAt, InsertedInjective
<1>4. UNCHANGED stage /\ deleted' \subseteq Documents /\ standing' \subseteq Documents
  BY DEF Arrive, BatchInv, BatchTypeOK
<1> QED
  BY <1>1, <1>3, <1>4, ChangedType

\* A document that is deleted keeps the types.
LEMMA DeleteType ==
    ASSUME BatchInv, NEW i \in DOMAIN list, Delete(i)
    PROVE  BatchInv'
<1>1. list \in Seq(Documents) /\ IsInjective(list) /\ list[i] \in Documents
  BY ListOf DEF BatchInv
<1>2. RemoveAt(list, i) \in Seq(Documents) /\ IsInjective(RemoveAt(list, i))
  BY <1>1, RemovedAt, RemovedInjective
<1>3. Changed({"out"}, RemoveAt(list, i)) /\ UNCHANGED stage
  BY DEF Delete
<1>4. deleted' \subseteq Documents /\ standing' \subseteq Documents
  BY <1>1 DEF Delete, BatchInv, BatchTypeOK
<1> QED
  BY <1>2, <1>3, <1>4, ChangedType

\* A document that moves keeps the types.
LEMMA RedateType ==
    ASSUME BatchInv, NEW i \in DOMAIN list, NEW j \in DOMAIN list, Redate(i, j)
    PROVE  BatchInv'
<1> DEFINE r == RemoveAt(list, i)
           d == list[i]
<1>1. /\ list \in Seq(Documents) /\ IsInjective(list) /\ d \in Documents
      /\ Len(list) \in Nat /\ DOMAIN list = 1..Len(list)
  BY ListOf DEF BatchInv
<1>2. /\ r \in Seq(Documents) /\ IsInjective(r) /\ Len(r) = Len(list) - 1
      /\ \A k \in DOMAIN r : r[k] # d
  BY <1>1, RemovedAt, RemovedInjective
<1>3. Changed({"in", "out"}, InsertAt(r, j, d))
  BY DEF Redate
<1>4. UNCHANGED stage /\ deleted' \subseteq Documents /\ standing' \subseteq Documents
  BY DEF Redate, BatchInv, BatchTypeOK
<1> HIDE DEF r, d
<1>5. j \in 1..(Len(r) + 1)
  BY <1>1, <1>2
<1>6. InsertAt(r, j, d) \in Seq(Documents) /\ IsInjective(InsertAt(r, j, d))
  BY <1>1, <1>2, <1>5, InsertedAt, InsertedInjective
<1> QED
  BY <1>3, <1>4, <1>6, ChangedType

\* A batch begins with types.
LEMMA BatchInitType ==
    ASSUME BatchInit
    PROVE  BatchInv
<1>1. /\ list = Library /\ deleted = {} /\ phase = "idle" /\ kind = "triage" /\ limit = 0
      /\ page = 1 /\ queue = <<>> /\ next = 1 /\ busy = {} /\ standing = {} /\ churn = {}
      /\ shifted = FALSE /\ force = FALSE /\ dryRun = FALSE
  BY DEF BatchInit
<1>2. queue \in Seq(Copies) /\ Len(queue) = 0
  BY <1>1, EmptySeq
<1>3. stage \in [Documents -> 0..2]
  <2>1. stage \in [Documents -> {0, 2}]
    BY DEF BatchInit
  <2> QED
    BY <2>1
<1>4. paid \in [Documents -> Nat] /\ redone \in [Documents -> Nat] /\ count \in [{"forces", "changes", "troubles"} -> Nat]
  BY DEF BatchInit
<1>5. list \in Seq(Documents) /\ IsInjective(list) /\ limit \in Limits
  BY <1>1, BatchAssumption
<1>6. next \in 1..(Len(queue) + 1) /\ busy \subseteq 1..Len(queue) /\ page \in Nat \ {0}
  BY <1>1, <1>2
<1>7. BatchTypeOK
  BY <1>1, <1>2, <1>3, <1>4, <1>5, <1>6 DEF BatchTypeOK, Kinds
<1> QED
  BY <1>1, <1>7 DEF BatchInv, PoolShape, PaysInHand

\* Every step keeps the types.
LEMMA BatchStepType ==
    ASSUME BatchInv, [BatchNext]_batchVars
    PROVE  BatchInv'
<1>1. ASSUME NEW k \in Kinds, NEW l \in Limits, NEW f \in BOOLEAN, Start(k, l, f)
      PROVE BatchInv'
  BY <1>1, StartType
<1>2. CASE FetchPage
  BY <1>2, FetchType
<1>3. CASE FetchFails
  BY <1>3, FetchFailsType
<1>4. CASE Take
  BY <1>4, TakeType
<1>5. CASE FinishBatch
  BY <1>5, FinishBatchType
<1>6. CASE Kill
  BY <1>6, KillType
<1>7. ASSUME NEW i \in busy, Write(i) \/ Report(i) \/ WriteFails(i) PROVE BatchInv'
  BY <1>7, WriteType, NotWrittenType
<1>8. ASSUME NEW d \in Documents, Arrive(d) PROVE BatchInv'
  BY <1>8, ArriveType
<1>9. ASSUME NEW i \in DOMAIN list, Delete(i) PROVE BatchInv'
  BY <1>9, DeleteType
<1>10. ASSUME NEW i \in DOMAIN list, NEW j \in DOMAIN list, Redate(i, j) PROVE BatchInv'
  BY <1>10, RedateType
<1>11. CASE UNCHANGED batchVars
  BY <1>11 DEF batchVars, listVars, commandVars, historyVars, BatchInv, BatchTypeOK,
     PoolShape, PaysInHand, InHand
<1> QED
  BY <1>1, <1>2, <1>3, <1>4, <1>5, <1>6, <1>7, <1>8, <1>9, <1>10, <1>11
     DEF BatchNext, CommandStep, ListStep

\* The types of a batch, the shape of its pool, and that what is in hand of a
\* metadata batch is paid for.
THEOREM BatchTypes == BatchSpec => []BatchInv
<1>1. BatchInit => BatchInv
  BY BatchInitType
<1>2. BatchInv /\ [BatchNext]_batchVars => BatchInv'
  BY BatchStepType
<1> QED
  BY <1>1, <1>2, PTL DEF BatchSpec

(***************************************************************************)
(* No document that stays where it is is missed.                           *)
(***************************************************************************)

Queued(d) == \E i \in DOMAIN queue : queue[i].doc = d

\* A document the command would take, on a page it has not asked for yet.
Ahead(d) ==
    \E p \in DOMAIN list :
        p > Before(page) /\ list[p] = d /\ Takes(kind, Copy(d))

StandingIsAhead ==
    phase = "paging" /\ limit = 0 /\ "out" \notin churn =>
        \A d \in standing : Queued(d) \/ Ahead(d)

StandingInv == StandingIsAhead /\ StandingIsQueued

\* When a command begins, every document it should take is ahead of it.
LEMMA StartStanding ==
    ASSUME BatchInv, NEW k \in Kinds, NEW l \in Limits, NEW f \in BOOLEAN,
           Start(k, l, f)
    PROVE  StandingInv'
<1>1. /\ phase' = "paging" /\ kind' = k /\ page' = 1
      /\ standing' = {d \in ToSet(list) : Takes(k, Copy(d))}
      /\ UNCHANGED <<list, stage>>
  BY DEF Start, listVars
<1>2. Before(1) = 0
  BY PagesMeet
<1>3. DOMAIN list = 1..Len(list) /\ Len(list) \in Nat
  BY ListOf DEF BatchInv
<1>4. ASSUME NEW d \in standing'
      PROVE  Ahead(d)'
  <2>1. PICK p \in DOMAIN list : list[p] = d
    BY <1>1, <1>4 DEF ToSet
  <2>2. p > Before(page')
    BY <1>1, <1>2, <1>3
  <2>3. Takes(kind', Copy(d)')
    BY <1>1, <1>4 DEF Copy
  <2> QED
    BY <1>1, <2>1, <2>2, <2>3 DEF Ahead, Before
<1> QED
  BY <1>1, <1>4 DEF StandingInv, StandingIsAhead, StandingIsQueued

\* Of the documents ahead, the request for a page queues those on the page.
LEMMA FetchStanding ==
    ASSUME BatchInv, StandingInv, FetchPage
    PROVE  StandingInv'
<1>1. SUFFICES ASSUME limit = 0, "out" \notin churn, NEW d \in standing
               PROVE  /\ Queued(d)' \/ (phase' = "paging" /\ Ahead(d)')
  <2>1. UNCHANGED <<limit, churn, standing>>
    BY DEF FetchPage, historyVars
  <2> QED
    BY <1>1, <2>1 DEF StandingInv, StandingIsAhead, StandingIsQueued, Queued
<1>2. BatchTypeOK
  BY DEF BatchInv
<1>3. /\ phase = "paging" /\ HasPage(page)
      /\ \/ phase' = "draining" /\ page' = 1 /\ ~HasNext(page)
         \/ phase' = "paging" /\ page' = page + 1
  BY <1>1, <1>2, FetchTurns
<1>4. /\ \A i \in DOMAIN queue : i \in DOMAIN queue' /\ queue'[i] = queue[i]
      /\ \A a \in DOMAIN Fetched :
            Len(queue) + a \in DOMAIN queue' /\ queue'[Len(queue) + a] = Fetched[a]
  BY <1>1, <1>2, FetchEffect
<1>5. UNCHANGED <<list, stage, kind>>
  BY DEF FetchPage, listVars
<1>6. Queued(d) \/ Ahead(d)
  BY <1>1, <1>3 DEF StandingInv, StandingIsAhead
<1>7. CASE Queued(d)
  BY <1>4, <1>7 DEF Queued
<1>8. CASE Ahead(d)
  <2>1. PICK p \in DOMAIN list :
            p > Before(page) /\ list[p] = d /\ Takes(kind, Copy(d))
    BY <1>8 DEF Ahead
  <2>2. DOMAIN list = 1..Len(list) /\ Len(list) \in Nat /\ page \in Nat \ {0}
    BY <1>2, ListOf DEF BatchTypeOK
  <2>3. page * PageSize \in Nat /\ Before(page + 1) = page * PageSize
    BY <2>2, PagesMeet
  <2>4. CASE p <= page * PageSize
    <3>1. PICK a \in DOMAIN Fetched : Fetched[a] = Copy(d)
      BY <1>2, <1>3, <2>1, <2>4, FetchedOf
    <3>2. Len(queue) + a \in DOMAIN queue' /\ queue'[Len(queue) + a].doc = d
      BY <1>4, <3>1 DEF Copy
    <3> QED
      BY <3>2 DEF Queued
  <2>5. CASE p > page * PageSize
    <3>1. HasNext(page)
      BY <2>2, <2>3, <2>5 DEF HasNext
    <3>2. phase' = "paging" /\ page' = page + 1
      BY <1>3, <3>1
    <3>3. p > (page' - 1) * PageSize
      BY <2>3, <2>5, <3>2 DEF Before
    <3>4. Takes(kind', Copy(d)')
      BY <1>5, <2>1 DEF Copy
    <3>5. Ahead(d)'
      BY <1>5, <2>1, <3>3, <3>4 DEF Ahead, Before
    <3> QED
      BY <3>2, <3>5
  <2> QED
    BY <2>2, <2>3, <2>4, <2>5
<1> QED
  BY <1>6, <1>7, <1>8

\* A document that arrives moves the others away from the command.
LEMMA ArriveStanding ==
    ASSUME BatchInv, StandingInv, NEW d \in Documents, Arrive(d)
    PROVE  StandingInv'
<1>1. PICK i \in 1..(Len(list) + 1) : Changed({"in"}, InsertAt(list, i, d))
  BY DEF Arrive
<1>2. /\ list' = InsertAt(list, i, d)
      /\ churn' = (IF phase = "paging" THEN churn \cup {"in"} ELSE churn)
      /\ UNCHANGED <<phase, kind, limit, page, queue, stage, standing>>
  BY <1>1 DEF Arrive, Changed, commandVars
<1>3. /\ list \in Seq(Documents) /\ Len(list) \in Nat /\ DOMAIN list = 1..Len(list)
      /\ page \in Nat \ {0}
  BY ListOf DEF BatchInv, BatchTypeOK
<1>4. /\ list' \in Seq(Documents) /\ Len(list') = Len(list) + 1
      /\ \A k \in 1..(Len(list) + 1) :
            list'[k] = IF k < i THEN list[k] ELSE IF k = i THEN d ELSE list[k - 1]
  <2> DEFINE r == InsertAt(list, i, d)
  <2>1. /\ r \in Seq(Documents) /\ Len(r) = Len(list) + 1
        /\ \A k \in 1..(Len(list) + 1) :
              r[k] = IF k < i THEN list[k] ELSE IF k = i THEN d ELSE list[k - 1]
    BY <1>3, InsertedAt
  <2>2. list' = r
    BY <1>2
  <2> HIDE DEF r
  <2> QED
    BY <2>1, <2>2
<1>5. DOMAIN list' = 1..(Len(list) + 1)
  BY <1>4, LenProperties
<1>6. Before(page) \in Nat
  BY <1>3, PagesMeet
<1>7. ASSUME NEW e, Ahead(e)
      PROVE  Ahead(e)'
  <2>1. PICK p \in DOMAIN list : p > Before(page) /\ list[p] = e /\ Takes(kind, Copy(e))
    BY <1>7 DEF Ahead
  <2>2. \E q \in DOMAIN list' : q > Before(page) /\ list'[q] = e
    <3>1. CASE p < i
      <4>1. p \in DOMAIN list' /\ list'[p] = list[p]
        BY <1>3, <1>4, <1>5, <3>1
      <4> QED
        BY <2>1, <4>1
    <3>2. CASE ~(p < i)
      <4>1. p + 1 \in DOMAIN list' /\ ~(p + 1 < i) /\ p + 1 # i /\ (p + 1) - 1 = p
            /\ p + 1 > Before(page)
        BY <1>3, <1>5, <1>6, <2>1, <3>2
      <4>2. list'[p + 1] = list[p]
        BY <1>4, <1>5, <4>1
      <4> QED
        BY <2>1, <4>1, <4>2
    <3> QED
      BY <3>1, <3>2
  <2>3. Takes(kind', Copy(e)')
    BY <1>2, <2>1 DEF Copy
  <2> QED
    BY <1>2, <2>2, <2>3 DEF Ahead, Before
<1>8. "out" \notin churn' => "out" \notin churn
  BY <1>2
<1>9. \A e : Queued(e) => Queued(e)'
  BY <1>2 DEF Queued
<1>10. StandingIsAhead'
  BY <1>2, <1>7, <1>8, <1>9 DEF StandingInv, StandingIsAhead
<1>11. StandingIsQueued'
  BY <1>2, <1>8 DEF StandingInv, StandingIsQueued
<1> QED
  BY <1>10, <1>11 DEF StandingInv

\* When a document leaves its place while a command pages, that is noted; when
\* it does so later, the queue has what it needs.
LEMMA LeaveStanding ==
    ASSUME BatchInv, StandingInv, NEW how, "out" \in how, NEW newList, Changed(how, newList),
           standing' \subseteq standing
    PROVE  StandingInv'
<1>1. /\ churn' = (IF phase = "paging" THEN churn \cup how ELSE churn)
      /\ UNCHANGED <<phase, limit, queue>>
  BY DEF Changed, commandVars
<1>2. StandingIsAhead'
  BY <1>1 DEF StandingIsAhead
<1>3. StandingIsQueued'
  BY <1>1 DEF StandingInv, StandingIsQueued
<1> QED
  BY <1>2, <1>3 DEF StandingInv

\* What the pool does changes nothing of it.
LEMMA PoolStanding ==
    ASSUME BatchInv, StandingInv, phase = "draining",
           UNCHANGED <<phase, limit, queue, standing, churn>>
    PROVE  StandingInv'
BY DEF StandingInv, StandingIsAhead, StandingIsQueued

\* Every step keeps the documents of a command queued or ahead of it.
LEMMA StandingStep ==
    ASSUME BatchInv, StandingInv, [BatchNext]_batchVars
    PROVE  StandingInv'
<1>1. ASSUME NEW k \in Kinds, NEW l \in Limits, NEW f \in BOOLEAN, Start(k, l, f)
      PROVE StandingInv'
  BY <1>1, StartStanding
<1>2. CASE FetchPage
  BY <1>2, FetchStanding
<1>3. ASSUME End PROVE StandingInv'
  BY <1>3 DEF End, StandingInv, StandingIsAhead, StandingIsQueued
<1>4. CASE Take
  BY <1>4, TakeEffect, PoolStanding
<1>5. ASSUME NEW i \in busy, Write(i) \/ Report(i) \/ WriteFails(i) PROVE StandingInv'
  <2>1. phase = "draining"
    BY DEF BatchInv, PoolShape
  <2>2. UNCHANGED <<phase, limit, queue, standing, churn>>
    BY <1>5 DEF Write, Report, WriteFails
  <2> QED
    BY <2>1, <2>2, PoolStanding
<1>6. ASSUME NEW d \in Documents, Arrive(d) PROVE StandingInv'
  BY <1>6, ArriveStanding
<1>7. ASSUME NEW i \in DOMAIN list, Delete(i) PROVE StandingInv'
  <2>1. Changed({"out"}, RemoveAt(list, i)) /\ standing' \subseteq standing
    BY <1>7 DEF Delete
  <2> QED
    BY <2>1, LeaveStanding
<1>8. ASSUME NEW i \in DOMAIN list, NEW j \in DOMAIN list, Redate(i, j) PROVE StandingInv'
  <2>1. /\ Changed({"in", "out"}, InsertAt(RemoveAt(list, i), j, list[i]))
        /\ standing' \subseteq standing
    BY <1>8 DEF Redate
  <2>2. "out" \in {"in", "out"}
    OBVIOUS
  <2> QED
    BY <2>1, <2>2, LeaveStanding
<1>9. CASE UNCHANGED batchVars
  BY <1>9 DEF batchVars, listVars, commandVars, historyVars, StandingInv, StandingIsAhead,
     StandingIsQueued, Queued, Ahead, Before, Takes, Copy
<1>10. FetchFails \/ FinishBatch \/ Kill => End
  BY DEF FetchFails, FinishBatch, Kill
<1> QED
  BY <1>1, <1>2, <1>3, <1>4, <1>5, <1>6, <1>7, <1>8, <1>9, <1>10
     DEF BatchNext, CommandStep, ListStep

\* A batch without a limit misses no document that was there for it when it
\* began and still is, however the others come, fail or are skipped, and
\* whatever the size of the pages, unless a document left its place while the
\* command paged (fetch_metadata_queue over iter_documents).
THEOREM NoneIsMissed == BatchSpec => []StandingIsQueued
<1>1. BatchInit => BatchInv /\ StandingInv
  <2>1. BatchInit => StandingInv
    BY DEF BatchInit, StandingInv, StandingIsAhead, StandingIsQueued
  <2> QED
    BY <2>1, BatchInitType
<1>2. BatchInv /\ StandingInv /\ [BatchNext]_batchVars => (BatchInv /\ StandingInv)'
  BY BatchStepType, StandingStep
<1>3. StandingInv => StandingIsQueued
  BY DEF StandingInv
<1> QED
  BY <1>1, <1>2, <1>3, PTL DEF BatchSpec

(***************************************************************************)
(* No answer is written and paid for twice, unless triage is forced.       *)
(***************************************************************************)

QueuedOnce == \A i, j \in DOMAIN queue : queue[i].doc = queue[j].doc => i = j

\* What is queued is not on a page the command has not asked for yet.
QueuedIsBehind ==
    phase = "paging" =>
        \A i \in DOMAIN queue, p \in DOMAIN list :
            p > Before(page) => list[p] # queue[i].doc

\* The metadata batch has yet to write what it has yet to take.
WaitingIsUnwritten ==
    kind = "metadata" =>
        \A i \in DOMAIN queue : i >= next => stage[queue[i].doc] < 2

\* The answers paid for, but for those a forced triage did away with.
Kept(d) == paid[d] - redone[d]

\* What was paid for is written, or in hand.
PaidIsWritten ==
    \A d \in Documents :
        /\ Kept(d) <= 1
        /\ Kept(d) = 1 => stage[d] = 2 \/ (kind = "metadata" /\ \E i \in busy : queue[i].doc = d)

\* Without --force triage writes new documents only, and only triage makes them anything else
\* while it runs.
TriageOfNew ==
    kind = "triage" /\ ~force =>
        /\ \A i \in DOMAIN queue : queue[i].stage = 0 => stage[queue[i].doc] <= 1
        /\ \A i \in busy : queue[i].stage = 0

OnceInv == QueuedOnce /\ QueuedIsBehind /\ WaitingIsUnwritten /\ PaidIsWritten

PaidInv ==
    /\ TriageOfNew
    /\ ~shifted => OnceInv

\* Outside the pool what was paid for is written.
LEMMA PaidOutside ==
    ASSUME BatchInv, PaidIsWritten, phase # "draining", NEW d \in Documents, Kept(d) = 1
    PROVE  stage[d] = 2
BY DEF BatchInv, PoolShape, PaidIsWritten

\* While triage runs, what was paid for is written.
LEMMA PaidInTriage ==
    ASSUME PaidIsWritten, kind # "metadata", NEW d \in Documents, Kept(d) = 1
    PROVE  stage[d] = 2
BY DEF PaidIsWritten

\* A command that begins.
LEMMA StartPaid ==
    ASSUME BatchInv, PaidInv, NEW k \in Kinds, NEW l \in Limits, NEW f \in BOOLEAN,
           Start(k, l, f)
    PROVE  PaidInv'
<1>1. phase = "idle" /\ UNCHANGED <<stage, queue, next, busy, paid, redone, shifted>>
  BY DEF Start, listVars
<1>2. queue' = <<>> /\ busy' = {}
  BY <1>1 DEF BatchInv, PoolShape
<1>3. DOMAIN queue' = {}
  BY <1>2
<1>4. TriageOfNew'
  BY <1>2, <1>3 DEF TriageOfNew
<1>5. ASSUME OnceInv PROVE OnceInv'
  <2>1. QueuedOnce' /\ QueuedIsBehind' /\ WaitingIsUnwritten'
    BY <1>3 DEF QueuedOnce, QueuedIsBehind, WaitingIsUnwritten
  <2>2. \A d \in Documents : Kept(d) <= 1 /\ (Kept(d) = 1 => stage[d] = 2)
    BY <1>1, <1>5, PaidOutside DEF OnceInv, PaidIsWritten
  <2>3. \A d \in Documents : Kept(d)' = Kept(d)
    BY <1>1 DEF Kept
  <2>4. PaidIsWritten'
    BY <1>1, <2>2, <2>3 DEF PaidIsWritten
  <2> QED
    BY <2>1, <2>4 DEF OnceInv
<1> QED
  BY <1>1, <1>4, <1>5 DEF PaidInv

\* The request for a page queues new documents, that are behind it then.
LEMMA FetchOnce ==
    ASSUME BatchInv, OnceInv, FetchPage
    PROVE  OnceInv'
<1>1. BatchTypeOK
  BY DEF BatchInv
<1>2. /\ phase = "paging" /\ HasPage(page)
      /\ \/ phase' = "draining"
         \/ phase' = "paging" /\ page' = page + 1
  BY <1>1, FetchTurns
<1>3. UNCHANGED <<list, stage, kind, next, busy, paid>>
  BY DEF FetchPage, listVars, historyVars
<1>4. /\ IsInjective(list) /\ DOMAIN list = 1..Len(list) /\ Len(list) \in Nat
      /\ page \in Nat \ {0} /\ stage \in [Documents -> 0..2]
      /\ \A p \in DOMAIN list : list[p] \in Documents
  BY <1>1, ListOf DEF BatchTypeOK
<1>5. Before(page) \in Nat /\ page * PageSize \in Nat /\ Before(page + 1) = page * PageSize
      /\ Before(page) <= page * PageSize
  BY <1>4, PagesMeet
<1>6. Len(queue) \in Nat /\ DOMAIN queue = 1..Len(queue)
  BY <1>1, QueueOf
<1>7. /\ \A a \in DOMAIN Fetched : \E p \in DOMAIN list :
            /\ p > Before(page) /\ p <= page * PageSize
            /\ Fetched[a] = Copy(list[p]) /\ Takes(kind, Copy(list[p]))
      /\ \A a, b \in DOMAIN Fetched : Fetched[a].doc = Fetched[b].doc => a = b
  BY <1>1, <1>2, FetchedOf
<1>8. \A i \in DOMAIN queue' :
          \/ i \in DOMAIN queue /\ queue'[i] = queue[i]
          \/ /\ i > Len(queue) /\ i - Len(queue) \in DOMAIN Fetched
             /\ queue'[i] = Fetched[i - Len(queue)]
  BY <1>1, FetchEffect
<1>9. Len(queue') \in Nat /\ DOMAIN queue' = 1..Len(queue')
  BY <1>1, FetchEffect, LenProperties
\* The two kinds of places in the new queue.
<1> DEFINE Old(i) == i \in DOMAIN queue /\ queue'[i] = queue[i]
           New(i) == /\ i > Len(queue) /\ i - Len(queue) \in DOMAIN Fetched
                     /\ queue'[i] = Fetched[i - Len(queue)]
<1>10. \A i \in DOMAIN queue' : i \in Nat /\ (Old(i) \/ New(i))
  BY <1>8, <1>9
<1>11. \A i : New(i) => \E p \in DOMAIN list :
            /\ p > Before(page) /\ p <= page * PageSize
            /\ queue'[i] = Copy(list[p]) /\ Takes(kind, Copy(list[p]))
            /\ queue'[i].doc = list[p] /\ queue'[i].stage = stage[list[p]]
  BY <1>7 DEF Copy
<1>12. \A i, p : Old(i) /\ p \in DOMAIN list /\ p > Before(page) => list[p] # queue'[i].doc
  BY <1>2 DEF OnceInv, QueuedIsBehind
<1>13. \A i, j : Old(i) /\ New(j) => queue'[i].doc # queue'[j].doc
  BY <1>11, <1>12
<1>14. \A i, j : Old(i) /\ Old(j) /\ queue'[i].doc = queue'[j].doc => i = j
  BY DEF OnceInv, QueuedOnce
<1>15. \A i, j \in Nat : New(i) /\ New(j) /\ queue'[i].doc = queue'[j].doc => i = j
  <2>1. SUFFICES ASSUME NEW i \in Nat, NEW j \in Nat, New(i), New(j),
                        queue'[i].doc = queue'[j].doc
                 PROVE  i = j
    OBVIOUS
  <2>2. i - Len(queue) = j - Len(queue)
    BY <1>7, <2>1
  <2> QED
    BY <1>6, <2>2
<1>16. \A i : Old(i) /\ kind = "metadata" => stage[queue'[i].doc] < 2
  <2>1. next = 1
    BY <1>2 DEF BatchInv, PoolShape
  <2>2. \A i \in DOMAIN queue : i >= next
    BY <1>6, <2>1
  <2> QED
    BY <2>2 DEF OnceInv, WaitingIsUnwritten
<1>17. \A i : New(i) /\ kind = "metadata" => stage[queue'[i].doc] < 2
  <2>1. SUFFICES ASSUME NEW i, New(i), kind = "metadata"
                 PROVE  stage[queue'[i].doc] < 2
    OBVIOUS
  <2>2. PICK p \in DOMAIN list :
            /\ queue'[i] = Copy(list[p]) /\ Takes(kind, Copy(list[p]))
            /\ queue'[i].doc = list[p] /\ queue'[i].stage = stage[list[p]]
    BY <1>11, <2>1
  <2> QED
    BY <2>1, <2>2 DEF Takes
<1>18. ASSUME phase' = "paging", NEW i, New(i), NEW p \in DOMAIN list, p > page * PageSize
       PROVE  list[p] # queue'[i].doc
  <2>1. PICK q \in DOMAIN list : q <= page * PageSize /\ queue'[i].doc = list[q]
    BY <1>11, <1>18
  <2>2. q # p
    BY <1>4, <1>5, <1>18, <2>1
  <2> QED
    BY <1>4, <2>1, <2>2 DEF IsInjective
<1> HIDE DEF Old, New
<1>19. QueuedOnce'
  <2>1. SUFFICES ASSUME NEW i \in DOMAIN queue', NEW j \in DOMAIN queue',
                        queue'[i].doc = queue'[j].doc
                 PROVE  i = j
    BY DEF QueuedOnce
  <2>2. i \in Nat /\ j \in Nat /\ (Old(i) \/ New(i)) /\ (Old(j) \/ New(j))
    BY <1>10
  <2> QED
    BY <1>13, <1>14, <1>15, <2>1, <2>2
<1>20. QueuedIsBehind'
  <2>1. SUFFICES ASSUME phase' = "paging", NEW i \in DOMAIN queue', NEW p \in DOMAIN list,
                        p > page * PageSize
                 PROVE  list[p] # queue'[i].doc
    BY <1>2, <1>3, <1>5 DEF QueuedIsBehind, Before
  <2>2. p > Before(page)
    BY <1>4, <1>5, <2>1
  <2> QED
    BY <1>10, <1>12, <1>18, <2>1, <2>2
<1>21. WaitingIsUnwritten'
  BY <1>3, <1>10, <1>16, <1>17 DEF WaitingIsUnwritten
<1>22. PaidIsWritten'
  <2>1. \A d \in Documents : Kept(d) <= 1 /\ (Kept(d) = 1 => stage[d] = 2)
    BY <1>2, PaidOutside DEF OnceInv, PaidIsWritten
  <2>2. \A d \in Documents : Kept(d)' = Kept(d)
    BY DEF FetchPage, historyVars, Kept
  <2> QED
    BY <1>3, <2>1, <2>2 DEF PaidIsWritten
<1> QED
  BY <1>19, <1>20, <1>21, <1>22 DEF OnceInv

\* What triage queues as new is new.
LEMMA FetchTriage ==
    ASSUME BatchInv, TriageOfNew, FetchPage
    PROVE  TriageOfNew'
<1>1. BatchTypeOK
  BY DEF BatchInv
<1>2. phase = "paging" /\ HasPage(page)
  BY <1>1, FetchTurns
<1>3. UNCHANGED <<stage, kind, force, busy>> /\ busy = {}
  BY <1>2 DEF FetchPage, listVars, BatchInv, PoolShape
<1>4. ASSUME kind = "triage", ~force, NEW i \in DOMAIN queue', queue'[i].stage = 0
      PROVE  stage[queue'[i].doc] <= 1
  <2>1. CASE i \in DOMAIN queue /\ queue'[i] = queue[i]
    BY <1>4, <2>1 DEF TriageOfNew
  <2>2. CASE i - Len(queue) \in DOMAIN Fetched /\ queue'[i] = Fetched[i - Len(queue)]
    <3>1. PICK p \in DOMAIN list : queue'[i] = Copy(list[p])
      BY <1>1, <1>2, <2>2, FetchedOf
    <3>2. stage[queue'[i].doc] = 0
      BY <1>4, <3>1 DEF Copy
    <3> QED
      BY <3>2
  <2> QED
    BY <1>1, <2>1, <2>2, FetchEffect
<1> QED
  BY <1>3, <1>4 DEF TriageOfNew

\* A page that is fetched.
LEMMA FetchPaid ==
    ASSUME BatchInv, PaidInv, FetchPage
    PROVE  PaidInv'
<1>1. UNCHANGED shifted
  BY DEF FetchPage, historyVars
<1> QED
  BY <1>1, FetchOnce, FetchTriage DEF PaidInv

\* The end of a command leaves what was paid for written, if the calls for
\* what was in hand are taken back.
LEMMA EndPaid ==
    ASSUME PaidInv, End, UNCHANGED shifted,
           ~shifted => \A d \in Documents : Kept(d)' <= 1 /\ (Kept(d)' = 1 => stage'[d] = 2)
    PROVE  PaidInv'
<1>1. queue' = <<>> /\ busy' = {} /\ phase' = "idle" /\ kind' = "triage"
  BY DEF End
<1>2. DOMAIN queue' = {}
  BY <1>1
<1>3. TriageOfNew' /\ QueuedOnce' /\ QueuedIsBehind' /\ WaitingIsUnwritten'
  BY <1>1, <1>2 DEF TriageOfNew, QueuedOnce, QueuedIsBehind, WaitingIsUnwritten
<1>4. ~shifted => PaidIsWritten'
  BY DEF PaidIsWritten
<1> QED
  BY <1>3, <1>4 DEF PaidInv, OnceInv

\* A command that fails before it has begun, or is through.
LEMMA LeavePaid ==
    ASSUME BatchInv, PaidInv, FetchFails \/ FinishBatch
    PROVE  PaidInv'
<1>1. End /\ UNCHANGED <<stage, paid, redone, shifted>>
  BY DEF FetchFails, FinishBatch, listVars
<1>2. busy = {}
  BY DEF FetchFails, FinishBatch, BatchInv, PoolShape
<1>3. ~shifted => \A d \in Documents : Kept(d)' <= 1 /\ (Kept(d)' = 1 => stage'[d] = 2)
  BY <1>1, <1>2 DEF PaidInv, OnceInv, PaidIsWritten, Kept
<1> QED
  BY <1>1, <1>3, EndPaid

\* A command that is killed.
LEMMA KillPaid ==
    ASSUME BatchInv, PaidInv, Kill
    PROVE  PaidInv'
<1>1. End /\ InVain(busy) /\ UNCHANGED <<stage, redone, shifted>>
  BY DEF Kill, listVars
<1>2. \A d \in Documents :
          /\ paid'[d] \in Nat
          /\ paid'[d] = paid[d] - IF kind = "metadata" THEN Cardinality(InHand(d)) ELSE 0
  BY <1>1, InVainType DEF InHand
<1>3. \A d \in Documents : paid[d] \in Nat /\ redone[d] \in Nat
  BY DEF BatchInv, BatchTypeOK
<1>4. ASSUME ~shifted, NEW d \in Documents
      PROVE  Kept(d)' <= 1 /\ (Kept(d)' = 1 => stage'[d] = 2)
  <2>1. PaidIsWritten
    BY <1>4 DEF PaidInv, OnceInv
  <2>2. CASE kind = "metadata"
    <3>1. IsFiniteSet(InHand(d))
      <4>1. InHand(d) \in SUBSET busy /\ IsFiniteSet(busy)
        BY QueueOf DEF InHand, BatchInv
      <4> QED
        BY <4>1, FS_Subset
    <3>2. Cardinality(InHand(d)) \in Nat /\ (Cardinality(InHand(d)) = 0 => InHand(d) = {})
      BY <3>1, FS_CardinalityType, FS_EmptySet
    <3>3. paid'[d] = paid[d] - Cardinality(InHand(d)) /\ Kept(d) <= 1
      BY <1>2, <2>1, <2>2 DEF PaidIsWritten
    <3>6. Kept(d)' = Kept(d) - Cardinality(InHand(d)) /\ Kept(d) \in Int
      BY <1>1, <1>3, <3>2, <3>3 DEF Kept
    <3>4. Kept(d)' <= 1 /\ (Kept(d)' = 1 => Kept(d) = 1 /\ Cardinality(InHand(d)) = 0)
      BY <3>2, <3>3, <3>6
    <3>5. Kept(d)' = 1 => stage[d] = 2
      BY <2>1, <3>2, <3>4 DEF PaidIsWritten, InHand
    <3> QED
      BY <1>1, <3>4, <3>5
  <2>3. CASE kind # "metadata"
    <3>1. paid'[d] = paid[d]
      BY <1>2, <1>3, <2>3
    <3>2. Kept(d)' = Kept(d)
      BY <1>1, <3>1 DEF Kept
    <3> QED
      BY <1>1, <2>1, <2>3, <3>2, PaidInTriage DEF PaidIsWritten
  <2> QED
    BY <2>2, <2>3
<1> QED
  BY <1>1, <1>4, EndPaid

\* A copy the pool takes has not been paid for.
LEMMA TakePaid ==
    ASSUME ~Scripts, BatchInv, PaidInv, Take
    PROVE  PaidInv'
<1> DEFINE c == queue[next]
<1>1. /\ phase = "draining" /\ next \in 1..Len(queue) /\ next \notin busy
      /\ next' = next + 1
      /\ busy' = IF Skips(c) THEN busy ELSE busy \cup {next}
      /\ paid' = IF kind = "metadata" THEN [paid EXCEPT ![c.doc] = @ + 1] ELSE paid
      /\ kind = "metadata" => ~Skips(c)
      /\ UNCHANGED <<list, stage, deleted, phase, kind, limit, force, dryRun, page, queue,
                     redone, standing, churn, shifted, count>>
  BY TakeEffect
<1>2. /\ Len(queue) \in Nat /\ DOMAIN queue = 1..Len(queue) /\ c.doc \in Documents
      /\ c.stage \in 0..2 /\ busy \subseteq 1..Len(queue)
  BY <1>1, QueueOf DEF BatchInv, BatchTypeOK
<1>3. /\ paid \in [Documents -> Nat] /\ redone \in [Documents -> Nat]
      /\ kind \in {"triage", "metadata"}
  BY DEF BatchInv, BatchTypeOK, Kinds
<1>4. TriageOfNew'
  <2>1. kind = "triage" /\ ~force /\ ~Skips(c) => c.stage = 0
    BY <1>2 DEF Skips
  <2>2. ASSUME kind = "triage", ~force, NEW i \in busy' PROVE queue[i].stage = 0
    BY <1>1, <2>1, <2>2 DEF PaidInv, TriageOfNew
  <2> QED
    BY <1>1, <2>2 DEF PaidInv, TriageOfNew
<1>5. ASSUME OnceInv PROVE OnceInv'
  <2>1. QueuedOnce' /\ QueuedIsBehind'
    BY <1>1, <1>5 DEF OnceInv, QueuedOnce, QueuedIsBehind
  <2>2. WaitingIsUnwritten'
    <3>1. \A i \in 1..Len(queue) : i >= next + 1 => i >= next
      BY <1>1, <1>2
    <3> QED
      BY <1>1, <1>2, <1>5, <3>1 DEF OnceInv, WaitingIsUnwritten
  <2>3. CASE kind = "metadata"
    <3>1. busy' = busy \cup {next} /\ paid' = [paid EXCEPT ![c.doc] = @ + 1]
      BY <1>1, <2>3
    <3>2. stage[c.doc] < 2 /\ stage[c.doc] \in 0..2
      <4>1. next >= next
        BY <1>1
      <4>2. stage[c.doc] < 2
        BY <1>1, <1>2, <1>5, <2>3, <4>1 DEF OnceInv, WaitingIsUnwritten
      <4> QED
        BY <1>2, <4>2 DEF BatchInv, BatchTypeOK
    <3>3. \A i \in busy : queue[i].doc # c.doc
      BY <1>1, <1>2, <1>5 DEF OnceInv, QueuedOnce
    <3>4. Kept(c.doc) \in Int /\ Kept(c.doc) < 1
      <4>1. Kept(c.doc) # 1
        BY <1>2, <1>5, <3>2, <3>3 DEF OnceInv, PaidIsWritten
      <4>2. Kept(c.doc) <= 1
        BY <1>2, <1>5 DEF OnceInv, PaidIsWritten
      <4>3. Kept(c.doc) \in Int
        BY <1>2, <1>3 DEF Kept
      <4> QED
        BY <4>1, <4>2, <4>3
    <3>5. ASSUME NEW d \in Documents
          PROVE  /\ Kept(d)' <= 1
                 /\ Kept(d)' = 1 => stage[d] = 2 \/ \E i \in busy' : queue[i].doc = d
      <4>1. CASE d = c.doc
        <5>1. Kept(d)' <= 1
          <6>1. paid'[d] = paid[d] + 1 /\ paid[d] \in Nat /\ redone[d] \in Nat
            BY <1>3, <3>1, <4>1
          <6>2. Kept(d)' = Kept(d) + 1
            BY <1>1, <6>1 DEF Kept
          <6> QED
            BY <3>4, <4>1, <6>2
        <5>2. next \in busy' /\ queue[next].doc = d
          BY <3>1, <4>1
        <5> QED
          BY <5>1, <5>2
      <4>2. CASE d # c.doc
        <5>1. paid'[d] = paid[d]
          BY <1>3, <3>1, <4>2
        <5>2. Kept(d)' = Kept(d)
          BY <1>1, <5>1 DEF Kept
        <5> QED
          BY <1>5, <3>1, <5>2 DEF OnceInv, PaidIsWritten
      <4> QED
        BY <4>1, <4>2
    <3>6. PaidIsWritten'
      BY <1>1, <2>3, <3>5 DEF PaidIsWritten
    <3> QED
      BY <2>1, <2>2, <3>6 DEF OnceInv
  <2>4. CASE kind # "metadata"
    <3>1. PaidIsWritten'
      BY <1>1, <1>5, <2>4 DEF OnceInv, PaidIsWritten, Kept
    <3> QED
      BY <2>1, <2>2, <3>1 DEF OnceInv
  <2> QED
    BY <2>3, <2>4
<1> QED
  BY <1>1, <1>4, <1>5 DEF PaidInv

\* What is written is not waiting, and triage writes nothing that was paid for.
LEMMA WritePaid ==
    ASSUME BatchInv, PaidInv, NEW i \in busy, Write(i)
    PROVE  PaidInv'
<1> DEFINE d == queue[i].doc
<1>1. /\ stage' = [stage EXCEPT ![d] = Written[kind]] /\ busy' = busy \ {i}
      /\ UNCHANGED <<list, phase, kind, force, page, queue, next, paid, shifted>>
      /\ redone' = (IF kind = "triage" /\ force /\ stage[d] = 2
                    THEN [redone EXCEPT ![d] = @ + 1] ELSE redone)
  BY DEF Write
<1>2. /\ Len(queue) \in Nat /\ DOMAIN queue = 1..Len(queue) /\ d \in Documents
      /\ i \in 1..Len(queue) /\ i < next /\ next \in Nat
      /\ \A j \in 1..Len(queue) : queue[j].doc \in Documents
  <2>1. BatchTypeOK /\ i < next
    BY DEF BatchInv, PoolShape
  <2>2. i \in 1..Len(queue) /\ next \in 1..(Len(queue) + 1)
    BY <2>1 DEF BatchTypeOK
  <2> QED
    BY <2>1, <2>2, QueueOf
<1>3. stage \in [Documents -> 0..2] /\ kind \in {"triage", "metadata"}
  BY DEF BatchInv, BatchTypeOK, Kinds
<1>4. \A e \in Documents : stage'[e] = IF e = d THEN Written[kind] ELSE stage[e]
  BY <1>1, <1>2, <1>3
<1>5. Written["triage"] = 1 /\ Written["metadata"] = 2
  BY DEF Written, Kinds
<1>6. TriageOfNew'
  <2>1. ASSUME kind = "triage", ~force, NEW j \in DOMAIN queue, queue[j].stage = 0
        PROVE  stage'[queue[j].doc] <= 1
    <3>1. stage[queue[j].doc] <= 1 /\ queue[j].doc \in Documents
      BY <1>2, <2>1 DEF PaidInv, TriageOfNew
    <3> QED
      BY <1>4, <1>5, <2>1, <3>1
  <2> QED
    BY <1>1, <2>1 DEF PaidInv, TriageOfNew
<1>7. ASSUME OnceInv PROVE OnceInv'
  <2>1. QueuedOnce' /\ QueuedIsBehind'
    BY <1>1, <1>7 DEF OnceInv, QueuedOnce, QueuedIsBehind
  <2>2. \A j \in 1..Len(queue) : j # i => queue[j].doc # d
    BY <1>2, <1>7 DEF OnceInv, QueuedOnce
  <2>3. WaitingIsUnwritten'
    <3>1. ASSUME kind = "metadata", NEW j \in 1..Len(queue), j >= next
          PROVE  stage'[queue[j].doc] < 2
      <4>1. j # i
        BY <1>2, <3>1
      <4>2. stage[queue[j].doc] < 2
        BY <1>2, <1>7, <3>1 DEF OnceInv, WaitingIsUnwritten
      <4> QED
        BY <1>2, <1>4, <2>2, <4>1, <4>2
    <3> QED
      BY <1>1, <1>2, <3>1 DEF WaitingIsUnwritten
  <2>4. \A j \in busy : j \in 1..Len(queue)
    BY DEF BatchInv, BatchTypeOK
  <2>5. ASSUME NEW e \in Documents
        PROVE  /\ Kept(e)' <= 1
               /\ Kept(e)' = 1 =>
                    stage'[e] = 2 \/ (kind = "metadata" /\ \E j \in busy' : queue[j].doc = e)
    <3>1. /\ Kept(e) <= 1
          /\ Kept(e) = 1 =>
                stage[e] = 2 \/ (kind = "metadata" /\ \E j \in busy : queue[j].doc = e)
      BY <1>7 DEF OnceInv, PaidIsWritten
    <3>5. paid[e] \in Nat /\ redone[e] \in Nat /\ redone \in [Documents -> Nat]
      BY DEF BatchInv, BatchTypeOK
    <3>6. CASE kind = "triage" /\ force /\ stage[d] = 2 /\ e = d
      <4>1. redone'[e] = redone[e] + 1 /\ paid' = paid
        BY <1>1, <3>5, <3>6
      <4>2. Kept(e)' = Kept(e) - 1 /\ Kept(e) \in Int
        BY <3>5, <4>1 DEF Kept
      <4>3. Kept(e)' < 1
        BY <3>1, <4>2
      <4> QED
        BY <4>2, <4>3
    <3>7. ASSUME ~(kind = "triage" /\ force /\ stage[d] = 2 /\ e = d)
          PROVE  Kept(e)' = Kept(e)
      <4>1. redone'[e] = redone[e] /\ paid' = paid
        BY <1>1, <1>2, <3>5, <3>7
      <4> QED
        BY <4>1 DEF Kept
    <3>2. CASE kind = "metadata" /\ e = d
      BY <1>4, <1>5, <3>1, <3>2, <3>7
    <3>3. CASE kind = "metadata" /\ e # d
      BY <1>1, <1>4, <3>1, <3>3, <3>7
    <3>4. CASE kind = "triage" /\ ~(force /\ stage[d] = 2 /\ e = d)
      <4>1. Kept(e)' = Kept(e) /\ (Kept(e) = 1 => stage[e] = 2)
        BY <3>1, <3>4, <3>7
      <4>2. stage[e] = 2 => e # d
        <5>1. CASE force
          BY <3>4, <5>1
        <5>2. CASE ~force
          <6>1. queue[i].stage = 0
            BY <3>4, <5>2 DEF PaidInv, TriageOfNew
          <6>2. stage[d] <= 1
            BY <1>2, <3>4, <5>2, <6>1 DEF PaidInv, TriageOfNew
          <6> QED
            BY <6>2
        <5> QED
          BY <5>1, <5>2
      <4> QED
        BY <1>4, <3>1, <4>1, <4>2
    <3> QED
      BY <1>3, <3>1, <3>2, <3>3, <3>4, <3>6, <3>7
  <2>6. PaidIsWritten'
    BY <1>1, <2>5 DEF PaidIsWritten
  <2> QED
    BY <2>1, <2>3, <2>6 DEF OnceInv
<1> QED
  BY <1>1, <1>6, <1>7 DEF PaidInv

\* A copy that is not written has not been paid for, as far as this counts.
LEMMA NotWrittenPaid ==
    ASSUME BatchInv, PaidInv, NEW i \in busy, Report(i) \/ WriteFails(i)
    PROVE  PaidInv'
<1>1. /\ busy' = busy \ {i} /\ InVain({i})
      /\ UNCHANGED <<list, stage, phase, kind, force, page, queue, next, redone, shifted>>
  BY DEF Report, WriteFails, listVars
<1>2. {i} \in SUBSET busy
  OBVIOUS
<1>3. \A d \in Documents :
          paid'[d] = paid[d] - IF kind = "metadata"
              THEN Cardinality({j \in {i} : queue[j].doc = d}) ELSE 0
  BY <1>1, <1>2, InVainType
<1>4. paid \in [Documents -> Nat] /\ redone \in [Documents -> Nat]
  BY DEF BatchInv, BatchTypeOK
<1>7. \A d \in Documents : Kept(d)' = paid'[d] - redone[d] /\ Kept(d) = paid[d] - redone[d]
  BY <1>1 DEF Kept
<1>5. TriageOfNew'
  BY <1>1 DEF PaidInv, TriageOfNew
<1>6. ASSUME OnceInv PROVE OnceInv'
  <2>1. QueuedOnce' /\ QueuedIsBehind' /\ WaitingIsUnwritten'
    BY <1>1, <1>6 DEF OnceInv, QueuedOnce, QueuedIsBehind, WaitingIsUnwritten
  <2>2. ASSUME NEW d \in Documents
        PROVE  /\ Kept(d)' <= 1
               /\ Kept(d)' = 1 =>
                    stage[d] = 2 \/ (kind = "metadata" /\ \E j \in busy' : queue[j].doc = d)
    <3>1. /\ paid[d] \in Nat /\ redone[d] \in Nat /\ Kept(d) <= 1
          /\ Kept(d) = 1 =>
                stage[d] = 2 \/ (kind = "metadata" /\ \E j \in busy : queue[j].doc = d)
      BY <1>4, <1>6 DEF OnceInv, PaidIsWritten
    <3>2. CASE kind = "metadata" /\ queue[i].doc = d
      <4>1. {j \in {i} : queue[j].doc = d} = {i}
        BY <3>2
      <4>2. Cardinality({j \in {i} : queue[j].doc = d}) = 1
        BY <4>1, FS_Singleton
      <4>3. paid'[d] = paid[d] - 1
        BY <1>3, <3>2, <4>2
      <4>4. Kept(d)' = Kept(d) - 1 /\ Kept(d) \in Int
        BY <1>7, <3>1, <4>3
      <4> QED
        BY <3>1, <4>4
    <3>3. CASE kind = "metadata" /\ queue[i].doc # d
      <4>1. {j \in {i} : queue[j].doc = d} = {}
        BY <3>3
      <4>2. paid'[d] = paid[d] - 0
        BY <1>3, <3>3, <4>1, FS_EmptySet
      <4>3. paid'[d] = paid[d]
        BY <3>1, <4>2
      <4>4. Kept(d)' = Kept(d)
        BY <1>7, <4>3
      <4> QED
        BY <1>1, <3>1, <3>3, <4>4
    <3>4. CASE kind # "metadata"
      <4>1. paid'[d] = paid[d]
        BY <1>3, <3>1, <3>4
      <4>2. Kept(d)' = Kept(d)
        BY <1>7, <4>1
      <4> QED
        BY <3>1, <3>4, <4>2
    <3> QED
      BY <3>2, <3>3, <3>4
  <2>3. PaidIsWritten'
    BY <1>1, <2>2 DEF PaidIsWritten
  <2> QED
    BY <2>1, <2>3 DEF OnceInv
<1> QED
  BY <1>1, <1>5, <1>6 DEF PaidInv

\* What a document that comes in while a command pages can do is noted; what
\* it can do later is nothing.
LEMMA ComePaid ==
    ASSUME BatchInv, PaidInv, NEW how, "in" \in how, NEW newList, Changed(how, newList),
           UNCHANGED stage
    PROVE  PaidInv'
<1>1. /\ shifted' = (shifted \/ phase = "paging")
      /\ UNCHANGED <<phase, kind, force, queue, next, busy, paid, redone>>
  BY DEF Changed, commandVars
<1>2. TriageOfNew'
  BY <1>1 DEF PaidInv, TriageOfNew
<1>3. ASSUME ~shifted'
      PROVE  OnceInv'
  <2>1. ~shifted /\ phase # "paging"
    BY <1>1, <1>3
  <2> QED
    BY <1>1, <2>1 DEF PaidInv, OnceInv, QueuedOnce, QueuedIsBehind, WaitingIsUnwritten,
       PaidIsWritten, Kept
<1> QED
  BY <1>2, <1>3 DEF PaidInv

\* A document that is deleted moves the others towards the command, and none
\* of the queued ones away from it.
LEMMA DeletePaid ==
    ASSUME BatchInv, PaidInv, NEW i \in DOMAIN list, Delete(i)
    PROVE  PaidInv'
<1>1. /\ list' = RemoveAt(list, i) /\ (~shifted' => ~shifted)
      /\ UNCHANGED <<stage, phase, kind, force, page, queue, next, busy, paid, redone>>
  BY DEF Delete, Changed, commandVars
<1>2. /\ list \in Seq(Documents) /\ Len(list) \in Nat /\ DOMAIN list = 1..Len(list)
      /\ page \in Nat \ {0}
  BY ListOf DEF BatchInv, BatchTypeOK
<1>3. Before(page) \in Nat
  BY <1>2, PagesMeet
<1>4. \A p \in DOMAIN list' : p \in Nat /\ \E q \in DOMAIN list : q >= p /\ list'[p] = list[q]
  <2> DEFINE r == RemoveAt(list, i)
  <2>1. /\ r \in Seq(Documents) /\ Len(r) = Len(list) - 1
        /\ \A k \in 1..(Len(list) - 1) : r[k] = IF k < i THEN list[k] ELSE list[k + 1]
    BY <1>2, RemovedAt
  <2>2. list' = r
    BY <1>1
  <2> HIDE DEF r
  <2>3. DOMAIN r = 1..(Len(list) - 1)
    BY <2>1, LenProperties
  <2>4. ASSUME NEW p \in DOMAIN r
        PROVE  p \in Nat /\ \E q \in DOMAIN list : q >= p /\ r[p] = list[q]
    <3>1. p \in Nat /\ p \in DOMAIN list /\ p + 1 \in DOMAIN list /\ p >= p /\ p + 1 >= p
      BY <1>2, <2>3
    <3>2. r[p] = list[p] \/ r[p] = list[p + 1]
      BY <2>1, <2>3
    <3> QED
      BY <3>1, <3>2
  <2> QED
    BY <2>2, <2>4
<1>5. TriageOfNew'
  BY <1>1 DEF PaidInv, TriageOfNew
<1>6. ASSUME OnceInv PROVE OnceInv'
  <2>1. QueuedOnce' /\ WaitingIsUnwritten' /\ PaidIsWritten'
    BY <1>1, <1>6 DEF OnceInv, QueuedOnce, WaitingIsUnwritten, PaidIsWritten, Kept
  <2>2. QueuedIsBehind'
    <3>1. SUFFICES ASSUME phase = "paging", NEW j \in DOMAIN queue, NEW p \in DOMAIN list',
                          p > Before(page)
                   PROVE  list'[p] # queue[j].doc
      BY <1>1 DEF QueuedIsBehind, Before
    <3>2. PICK q \in DOMAIN list : q >= p /\ list'[p] = list[q]
      BY <1>4
    <3>3. q > Before(page)
      BY <1>2, <1>3, <1>4, <3>1, <3>2
    <3> QED
      BY <1>6, <3>1, <3>2, <3>3 DEF OnceInv, QueuedIsBehind
  <2> QED
    BY <2>1, <2>2 DEF OnceInv
<1> QED
  BY <1>1, <1>5, <1>6 DEF PaidInv

\* Every step of the commands keeps what was paid for written or in hand.
LEMMA PaidStep ==
    ASSUME ~Scripts, BatchInv, PaidInv, [BatchNext]_batchVars
    PROVE  PaidInv'
<1>1. ASSUME NEW k \in Kinds, NEW l \in Limits, NEW f \in BOOLEAN, Start(k, l, f)
      PROVE PaidInv'
  BY <1>1, StartPaid
<1>2. CASE FetchPage
  BY <1>2, FetchPaid
<1>3. CASE FetchFails \/ FinishBatch
  BY <1>3, LeavePaid
<1>4. CASE Kill
  BY <1>4, KillPaid
<1>5. CASE Take
  BY <1>5, TakePaid
<1>6. ASSUME NEW i \in busy, Write(i) \/ Report(i) \/ WriteFails(i) PROVE PaidInv'
  BY <1>6, WritePaid, NotWrittenPaid
<1>7. ASSUME NEW d \in Documents, Arrive(d) PROVE PaidInv'
  <2>1. PICK i \in 1..(Len(list) + 1) : Changed({"in"}, InsertAt(list, i, d))
    BY <1>7 DEF Arrive
  <2>2. UNCHANGED stage /\ "in" \in {"in"}
    BY <1>7 DEF Arrive
  <2> QED
    BY <2>1, <2>2, ComePaid
<1>8. ASSUME NEW i \in DOMAIN list, Delete(i) PROVE PaidInv'
  BY <1>8, DeletePaid
<1>9. ASSUME NEW i \in DOMAIN list, NEW j \in DOMAIN list, Redate(i, j) PROVE PaidInv'
  <2>1. /\ Changed({"in", "out"}, InsertAt(RemoveAt(list, i), j, list[i]))
        /\ UNCHANGED stage /\ "in" \in {"in", "out"}
    BY <1>9 DEF Redate
  <2> QED
    BY <2>1, ComePaid
<1>10. CASE UNCHANGED batchVars
  BY <1>10 DEF batchVars, listVars, commandVars, historyVars, PaidInv, OnceInv, TriageOfNew,
     QueuedOnce, QueuedIsBehind, WaitingIsUnwritten, PaidIsWritten, Kept, Before
<1> QED
  BY <1>1, <1>2, <1>3, <1>4, <1>5, <1>6, <1>7, <1>8, <1>9, <1>10
     DEF BatchNext, CommandStep, ListStep

\* The commands, unlike the scripts, write and pay for an answer for one
\* document only once more each time a forced triage took it back: however they
\* are repeated, killed and limited, for any number of workers and any size of
\* the pages, unless a document came in during some paging
\* (fetch_metadata_queue, and the test of the triage worker).
THEOREM NoneIsPaidTwice ==
    ASSUME ~Scripts
    PROVE  BatchSpec => []PaidOncePerWrite
<1>1. BatchInit => BatchInv /\ PaidInv
  <2>1. ASSUME BatchInit PROVE PaidInv
    <3>1. /\ queue = <<>> /\ busy = {} /\ phase = "idle"
          /\ \A d \in Documents : paid[d] = 0 /\ redone[d] = 0
      BY <2>1 DEF BatchInit
    <3>2. DOMAIN queue = {}
      BY <3>1
    <3>3. TriageOfNew /\ QueuedOnce /\ QueuedIsBehind /\ WaitingIsUnwritten
      BY <3>1, <3>2 DEF TriageOfNew, QueuedOnce, QueuedIsBehind, WaitingIsUnwritten
    <3>4. PaidIsWritten
      BY <3>1 DEF PaidIsWritten, Kept
    <3> QED
      BY <3>3, <3>4 DEF PaidInv, OnceInv
  <2> QED
    BY <2>1, BatchInitType
<1>2. BatchInv /\ PaidInv /\ [BatchNext]_batchVars => (BatchInv /\ PaidInv)'
  BY BatchStepType, PaidStep
<1>3. BatchInv /\ PaidInv => PaidOncePerWrite
  <2>1. ASSUME BatchInv, PaidInv, ~shifted, NEW d \in Documents
        PROVE  paid[d] <= 1 + redone[d]
    <3>1. paid[d] \in Nat /\ redone[d] \in Nat /\ Kept(d) <= 1
      BY <2>1 DEF PaidInv, OnceInv, PaidIsWritten, BatchInv, BatchTypeOK
    <3> QED
      BY <3>1 DEF Kept
  <2> QED
    BY <2>1 DEF PaidOncePerWrite
<1> QED
  BY <1>1, <1>2, <1>3, PTL DEF BatchSpec

=============================================================================
