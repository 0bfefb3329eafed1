----------------------------- MODULE StateFile -----------------------------
(***************************************************************************)
(* The discipline all three stores of the control plane share              *)
(* (store.py, billing.py, direct.py): the JSON file is read once, when the *)
(* store object is built, and every operation under the store's lock       *)
(* changes the copy in memory and replaces the whole file with it.         *)
(* Nothing reads the file again, so two processes that hold the same file  *)
(* never see each other's changes and the last one to save wins.  A file   *)
(* that cannot be read counts as empty, and a save that fails leaves the   *)
(* change in memory.                                                       *)
(***************************************************************************)
CONSTANTS Procs, NoCopy, Nothing    \* Nothing is what an empty file holds

VARIABLES
    disk,           \* what the file holds
    copy,           \* what each process holds in memory
    shared,         \* history: processes whose file somebody else also had
                    \* open at some time since they read it
    apart           \* history: processes whose last read or save has failed

Holders == {p \in Procs : copy[p] # NoCopy}

Initially ==
    /\ disk = Nothing
    /\ copy = [p \in Procs |-> NoCopy]
    /\ shared = {}
    /\ apart = {}

Meets(p) ==
    shared' = IF Holders = {} THEN shared ELSE shared \cup Holders \cup {p}

\* __init__: the file is read into memory.
Open(p) ==
    /\ copy[p] = NoCopy
    /\ copy' = [copy EXCEPT ![p] = disk]
    /\ Meets(p)
    /\ UNCHANGED <<disk, apart>>

\* The file cannot be read, or not be parsed: the error is swallowed.
OpenUnread(p) ==
    /\ copy[p] = NoCopy
    /\ copy' = [copy EXCEPT ![p] = Nothing]
    /\ Meets(p)
    /\ apart' = apart \cup {p}
    /\ UNCHANGED disk

\* Fault: the file is written when the process ends well, not at once.
SaveLater(p, v) ==
    /\ copy[p] # NoCopy
    /\ copy' = [copy EXCEPT ![p] = v]
    /\ UNCHANGED <<disk, shared, apart>>

\* An operation: the copy in memory and the file are both v afterwards.
Save(p, v) ==
    /\ copy[p] # NoCopy
    /\ disk' = v
    /\ copy' = [copy EXCEPT ![p] = v]
    /\ apart' = apart \ {p}
    /\ UNCHANGED shared

\* The copy is changed, and writing the file raises.
SaveFails(p, v) ==
    /\ copy[p] # NoCopy
    /\ copy' = [copy EXCEPT ![p] = v]
    /\ apart' = apart \cup {p}
    /\ UNCHANGED <<disk, shared>>

Forgets(p) ==
    /\ copy[p] # NoCopy
    /\ copy' = [copy EXCEPT ![p] = NoCopy]
    /\ shared' = shared \ {p}
    /\ apart' = apart \ {p}

\* The process is gone, and its memory with it.
Close(p) == Forgets(p) /\ UNCHANGED disk

\* One operation of a process that ends with it.
SaveAndClose(p, v) == Forgets(p) /\ disk' = v

\* A process that has had the file for itself, could read it, and whose last
\* save has worked can be killed at any moment without losing a change, and
\* replaces nothing it has not seen.
LoneIsOnDisk == \A p \in Holders \ (shared \cup apart) : copy[p] = disk
=============================================================================
