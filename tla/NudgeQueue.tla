----------------------------- MODULE NudgeQueue -----------------------------
(***************************************************************************)
(* The persisted queue of webhook nudges                                   *)
(* (src/src/paperless_assistant/webhook.py, NudgeQueue).                   *)
(*                                                                         *)
(* One lock covers each method from its read of the file to the atomic     *)
(* replacement of it, so each is one step.  The list of pending ids is     *)
(* kept as the place of each id in it.  Of the time of the last nudge only *)
(* whether there was one is kept: the next may or may not come within the  *)
(* debounce window after it.  The list of done ids is only ever written,   *)
(* so it is left out.                                                      *)
(***************************************************************************)
EXTENDS Naturals, FiniteSets

CONSTANTS
    Docs,       \* document ids
    NoDoc       \* "no document"

ASSUME QueueAssumption == IsFiniteSet(Docs) /\ NoDoc \notin Docs

VARIABLES
    place,      \* file: where a document is in the pending list, 0 if it is not
    seen        \* file: the documents of last_seen

queueVars == <<place, seen>>

QueueTypeOK ==
    /\ place \in [Docs -> 0..Cardinality(Docs)]
    /\ seen \subseteq Docs

QueueInit ==
    /\ place = [d \in Docs |-> 0]
    /\ seen = {}

Pending == {d \in Docs : place[d] > 0}

\* A nudge that is not debounced: it queues the document, if it is not queued.
Enqueue(d) ==
    /\ place' = IF d \in Pending THEN place
                ELSE [place EXCEPT ![d] = Cardinality(Pending) + 1]
    /\ seen' = seen \cup {d}

\* A nudge within the window of the last one, which changes that time only.
Debounce(d) ==
    /\ d \in seen
    /\ UNCHANGED queueVars

\* next_pending leaves the document in the list.
IsNext(d) == d \in Pending /\ \A e \in Pending : place[d] <= place[e]

\* Fault: every other document is taken to be behind this one.
MarkHeadDone(d) ==
    /\ place' = [e \in Docs |-> IF e = d THEN 0 ELSE place[e] - 1]
    /\ UNCHANGED seen

\* The others keep their order.
MarkDone(d) ==
    /\ place' = [e \in Docs |->
                    IF e = d THEN 0
                    ELSE IF d \in Pending /\ place[e] > place[d] THEN place[e] - 1
                    ELSE place[e]]
    /\ UNCHANGED seen
=============================================================================
