--------------------------- MODULE DirectTargets ---------------------------
(***************************************************************************)
(* The registry of direct targets (Mode C) and its operations              *)
(* (src/src/paperless_control_plane/direct.py), as functions from one      *)
(* content of the registry to the next.                                    *)
(*                                                                         *)
(* Abstractions.  The token is present as long as the record is; the host  *)
(* of a URL is a model value; last_review is whether a run reported.       *)
(***************************************************************************)
EXTENDS Naturals, FiniteSets

CONSTANTS
    Tenants,
    Hosts,          \* host names a URL can have
    NoTarget        \* not a target

Target == [tenant : Tenants, url : Hosts, allowed : SUBSET Hosts,
           enabled : BOOLEAN, reviewed : BOOLEAN]

IsRegistry(r) ==
    /\ DOMAIN r = {"seq", "targets"}
    /\ r.seq \in Nat
    /\ DOMAIN r.targets \subseteq Nat
    /\ r.targets \in [DOMAIN r.targets -> Target]

EmptyRegistry == [seq |-> 0, targets |-> [i \in {} |-> NoTarget]]

\* The list defaults to the host of the URL, which always belongs to it.
AllowedHosts(url, list) == IF list = {} THEN {url} ELSE list \cup {url}

NewTarget(t, url, list, on) ==
    [tenant |-> t, url |-> url, allowed |-> AllowedHosts(url, list),
     enabled |-> on, reviewed |-> FALSE]

\* An id that is there already would be assigned to the new target.
Put(r, i, x) ==
    [seq |-> i,
     targets |-> [j \in DOMAIN r.targets \cup {i} |-> IF j = i THEN x ELSE r.targets[j]]]

\* Fault: the number of targets is taken for the number of the last one.
AddAfterCount(r, t, url, list, on) ==
    Put(r, Cardinality(DOMAIN r.targets) + 1, NewTarget(t, url, list, on))

AddTarget(r, t, url, list, on) == Put(r, r.seq + 1, NewTarget(t, url, list, on))

Known(r, i) == i \in DOMAIN r.targets

Revoke(r, i) ==
    [r EXCEPT !.targets = [j \in DOMAIN r.targets \ {i} |-> r.targets[j]]]

RecordReview(r, i) == [r EXCEPT !.targets[i].reviewed = TRUE]

\* What tells a target from another, for each of a registry.
Entries(r) ==
    {[id |-> i, tenant |-> r.targets[i].tenant, url |-> r.targets[i].url] :
        i \in DOMAIN r.targets}
=============================================================================
