---------------------------- MODULE BillingStore ----------------------------
(***************************************************************************)
(* What the billing store keeps of each tenant and its operations          *)
(* (src/src/paperless_control_plane/billing.py), as functions from one     *)
(* content of the store to the next.                                       *)
(*                                                                         *)
(* Abstractions.  Every call costs one unit, so a tenant's ledger is the   *)
(* number of its usage records; "suspended" also stands for "canceled".    *)
(***************************************************************************)
EXTENDS Naturals

CONSTANTS
    Tenants,
    MaxCap          \* bound: largest spend cap an operator sets

Statuses == {"none", "active", "suspended"}
Subscription == [status : Statuses, cap : 0..MaxCap]
Billing == [subs : [Tenants -> Subscription], spent : [Tenants -> Nat]]

EmptyBilling == [subs |-> [t \in Tenants |-> [status |-> "none", cap |-> 0]],
                 spent |-> [t \in Tenants |-> 0]]

\* Fault: the status is stored as it was typed.
SetTypedStatus(b, t, s, k) ==
    [b EXCEPT !.subs[t] = [status |-> IF s = "active" THEN s ELSE "paused", cap |-> k]]

SetSubscription(b, t, s, k) ==
    [b EXCEPT !.subs[t] = [status |-> s, cap |-> k]]

ResetUsage(b, t) == [b EXCEPT !.spent[t] = 0]

RecordUsage(b, t) == [b EXCEPT !.spent[t] = @ + 1]

\* Fail closed: a tenant without a subscription is not entitled.
Entitled(b, t) == b.subs[t].status = "active"

\* Fault: the call that reaches the cap is compared, not the one after it.
MayPassCap(b, t) == b.subs[t].cap = 0 \/ b.spent[t] <= b.subs[t].cap

\* A cap of 0 is no cap.
UnderCap(b, t) == b.subs[t].cap = 0 \/ b.spent[t] < b.subs[t].cap
=============================================================================
