--------------------------- MODULE WorkflowResume ---------------------------
(***************************************************************************)
(* WorkflowState with a history of the receipts that job-state.json has    *)
(* referred to, to state what resume should guarantee about every step     *)
(* that the job has completed, not only the last one.                      *)
(***************************************************************************)
EXTENDS WorkflowState

VARIABLE committed

hvars == <<vars, committed>>

HInit == Init /\ committed = {}

HNext ==
    /\ Next
    /\ committed' = IF jobFile' # None /\ jobFile'.last # None
                    THEN committed \cup {jobFile'.last} ELSE committed

HSpec == HInit /\ [][HNext]_hvars

\* implement-plan.md:165 -- a job is resumed only if all the prerequisites
\* that its completed steps relied on still hold.  resume compares those of
\* the last receipt only (state_machine.py:61-66).
ResumeChecksEveryStep ==
    (\E input \in Inputs, K \in SUBSET Keys : Resumable(input, K))
        => \A r \in committed :
             r.status = "succeeded" /\ r.step # jobFile.last.step =>
                \A k \in DOMAIN r.prerequisites : facts[k] = r.prerequisites[k]
=============================================================================
