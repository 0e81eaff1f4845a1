-------------------------- MODULE MCWorkflowState --------------------------
(* Instances of WorkflowState for TLC. *)
EXTENDS WorkflowState, TLC

CONSTANTS w1, w2, i1, i2, intake, intent

\* Workers, inputs and step names are interchangeable.
Symmetry == Permutations({w1, w2}) \cup Permutations({i1, i2})
                \cup Permutations({intake, intent})
=============================================================================
