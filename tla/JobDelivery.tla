---------------------------- MODULE JobDelivery ----------------------------
(***************************************************************************)
(* What hosted mode promises about a job, without messages, crashes, files *)
(* or credentials: a submitted job is pending until the agent has carried  *)
(* it out, is carried out before it is reported, is reported once, and the *)
(* report is then final.                                                   *)
(***************************************************************************)
CONSTANTS Jobs, Reports, NoReport

VARIABLES phase, report

TypeOK ==
    /\ phase \in [Jobs -> {"new", "pending", "done", "reported"}]
    /\ report \in [Jobs -> Reports \cup {NoReport}]

Init ==
    /\ phase = [j \in Jobs |-> "new"]
    /\ report = [j \in Jobs |-> NoReport]

Submit(j) ==
    /\ phase[j] = "new"
    /\ phase' = [phase EXCEPT ![j] = "pending"]
    /\ UNCHANGED report

CarryOut(j) ==
    /\ phase[j] = "pending"
    /\ phase' = [phase EXCEPT ![j] = "done"]
    /\ UNCHANGED report

ReportDone(j, r) ==
    /\ phase[j] = "done"
    /\ phase' = [phase EXCEPT ![j] = "reported"]
    /\ report' = [report EXCEPT ![j] = r]

Next == \E j \in Jobs :
            Submit(j) \/ CarryOut(j) \/ \E r \in Reports : ReportDone(j, r)

Spec == Init /\ [][Next]_<<phase, report>>
=============================================================================
