---------------------------- MODULE ReviewProcess ----------------------------
(***************************************************************************)
(* What the project service promises an applicant and a reviewer together, *)
(* one atomic operation at a time: no sessions, no version numbers, no     *)
(* stale rows.  What is reviewed is the draft as it was when it was        *)
(* submitted; a verdict stands until the next submission; deactivation is  *)
(* the end.  ProjectLifecycle implements it for projects whose requests do *)
(* not overlap.                                                            *)
(***************************************************************************)
EXTENDS Sequences

CONSTANTS
    Users,     \* accounts
    Projects,  \* project ids
    Texts,     \* what an applicant may write
    Null       \* no verdict, nothing written

VARIABLES
    phase,      \* where a project stands, "none" before it is created
    draft,      \* what the applicant has written
    submitted,  \* what it was at each submission
    verdict     \* who rejected the last submission

vars == <<phase, draft, submitted, verdict>>

Init ==
    /\ phase = [p \in Projects |-> "none"]
    /\ draft = [p \in Projects |-> Null]
    /\ submitted = [p \in Projects |-> <<>>]
    /\ verdict = [p \in Projects |-> Null]

Create(p, text) ==
    /\ phase[p] = "none"
    /\ phase' = [phase EXCEPT ![p] = "draft"]
    /\ draft' = [draft EXCEPT ![p] = text]
    /\ UNCHANGED <<submitted, verdict>>

Open(p) == phase[p] \in {"draft", "rejected"}

Edit(p, text) ==
    /\ Open(p)
    /\ draft' = [draft EXCEPT ![p] = text]
    /\ UNCHANGED <<phase, submitted, verdict>>

Submit(p) ==
    /\ Open(p)
    /\ phase' = [phase EXCEPT ![p] = "submitted"]
    /\ submitted' = [submitted EXCEPT ![p] = Append(@, draft[p])]
    /\ verdict' = [verdict EXCEPT ![p] = Null]
    /\ UNCHANGED draft

Reject(p, u) ==
    /\ phase[p] = "submitted"
    /\ phase' = [phase EXCEPT ![p] = "rejected"]
    /\ verdict' = [verdict EXCEPT ![p] = u]
    /\ UNCHANGED <<draft, submitted>>

Deactivate(p) ==
    /\ phase[p] \notin {"none", "deactivated"}
    /\ phase' = [phase EXCEPT ![p] = "deactivated"]
    /\ UNCHANGED <<draft, submitted, verdict>>

Next ==
    \E p \in Projects :
        \/ \E text \in Texts : Create(p, text) \/ Edit(p, text)
        \/ Submit(p)
        \/ \E u \in Users : Reject(p, u)
        \/ Deactivate(p)

Spec == Init /\ [][Next]_vars
=============================================================================
