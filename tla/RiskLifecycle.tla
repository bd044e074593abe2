---------------------------- MODULE RiskLifecycle ----------------------------
(***************************************************************************)
(* What varroa promises of one security risk, whatever workers, casts,     *)
(* locks and failures there are: the risk as its owner sees it.            *)
(* RiskProcessing implements it for every risk.                            *)
(***************************************************************************)
EXTENDS Integers

CONSTANTS
    Projects,   \* who may own a risk
    Senders,    \* who sends messages about it
    NoVal,      \* nobody
    Empty       \* a project of no name, which owns nothing

VARIABLES
    status,     \* "none" before it is reported, "gone" once it is deleted
    project,    \* its owner, or NoVal, or Empty
    located,    \* it was reported with its resource, not by IP
    mail,       \* sender -> whom it is writing to, or NoVal
    told        \* how many notifications were sent for it

vars == <<status, project, located, mail, told>>

Nobody == {NoVal, Empty}

OnRecord == status \in {"NEW", "PROCESSED", "ERROR"}

Init ==
    /\ status = "none" /\ project = NoVal /\ located = FALSE
    /\ mail = [s \in Senders |-> NoVal] /\ told = 0

Report(p) ==
    /\ status = "none"
    /\ status' = "NEW" /\ project' = p /\ located' = (p \notin Nobody)
    /\ UNCHANGED <<mail, told>>

(* Once attributed a risk may change hands, but never has no owner again;  *)
(* a risk put aside may be attributed without being taken up again.        *)
Settle(p) ==
    /\ OnRecord /\ (p \in Nobody => p = project)
    /\ project' = p
    /\ status' = "PROCESSED" \/ (status = "ERROR" /\ UNCHANGED status)
    /\ UNCHANGED <<located, mail, told>>

(* Only a risk that nobody owns can be ambiguous.                          *)
PutAside ==
    /\ OnRecord /\ project \in Nobody
    /\ status' = "ERROR"
    /\ UNCHANGED <<project, located, mail, told>>

(* A message is written to the project that owns the settled risk.         *)
Prepare(s) ==
    /\ OnRecord /\ status # "NEW" /\ project # NoVal
    /\ mail' = [mail EXCEPT ![s] = project]
    /\ UNCHANGED <<status, project, located, told>>

(* It is sent, whatever became of the risk; of a located risk one is.      *)
Deliver(s) ==
    /\ mail[s] # NoVal
    /\ located => told = 0
    /\ mail' = [mail EXCEPT ![s] = NoVal] /\ told' = told + 1
    /\ UNCHANGED <<status, project, located>>

Drop(s) ==
    /\ mail[s] # NoVal
    /\ mail' = [mail EXCEPT ![s] = NoVal]
    /\ UNCHANGED <<status, project, located, told>>

Remove ==
    /\ OnRecord
    /\ status' = "gone" /\ project' = NoVal
    /\ UNCHANGED <<located, mail, told>>

Next ==
    \/ \E p \in Projects \cup {NoVal} : Report(p) \/ Settle(p)
    \/ \E s \in Senders : Prepare(s) \/ Deliver(s) \/ Drop(s)
    \/ PutAside \/ Remove

Spec == Init /\ [][Next]_vars

=============================================================================
