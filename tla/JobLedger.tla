----------------------------- MODULE JobLedger -----------------------------
(***************************************************************************)
(* What the workflow state store promises to one holder of a job, with no  *)
(* files, no workers and no crashes: a single job record on which every    *)
(* operation acts atomically, on the record's current value.               *)
(*                                                                         *)
(* WorkflowState is the detailed specification; under a single writer it   *)
(* implements this one (see WorkflowStateProofs).                          *)
(***************************************************************************)
EXTENDS Naturals

CONSTANTS
    Steps,      \* names of workflow steps that the job-state schema accepts
    Inputs,     \* fingerprints of the inputs of a job
    Receipts,   \* step receipts: records with step, attempt, status, input
    None        \* "no job yet", "no receipt yet", "no next step"

VARIABLE job

Jobs == [status : {"pending", "succeeded", "failed", "waiting_approval"},
         step : Steps, attempt : Nat, input : Inputs,
         last : Receipts \cup {None}]

Init == job = None

\* A job starts once, at its first attempt of a step.
Create(input, step) ==
    /\ job = None
    /\ job' = [status |-> "pending", step |-> step, attempt |-> 1,
               input |-> input, last |-> None]

\* A receipt closes the attempt that the job is at, and no other; the job
\* then waits at that step or goes on to the next one.
Complete(receipt, next) ==
    /\ job # None
    /\ receipt.step = job.step
    /\ receipt.attempt = job.attempt
    /\ receipt.input = job.input
    /\ job' = IF next = None
              THEN [job EXCEPT !.status = receipt.status, !.last = receipt]
              ELSE [job EXCEPT !.status = "pending", !.step = next,
                               !.attempt = 1, !.last = receipt]

Retry ==
    /\ job # None
    /\ job' = [job EXCEPT !.status = "pending", !.attempt = @ + 1]

Next ==
    \/ \E input \in Inputs, step \in Steps : Create(input, step)
    \/ \E receipt \in Receipts, next \in Steps \cup {None} : Complete(receipt, next)
    \/ Retry

Spec == Init /\ [][Next]_job
=============================================================================
