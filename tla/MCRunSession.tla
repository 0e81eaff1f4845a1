---------------------------- MODULE MCRunSession ----------------------------
(* Instances of RunSession for TLC. *)
EXTENDS RunSession, TLC

CONSTANTS x1, x2, read, probe, remote, out1, out2

MCAuthorized == [x \in Contexts |-> IF x = x1 THEN {read, probe} ELSE {read, remote}]

MCLimit(tools, models, revisions, cost, bytes) ==
    [r \in Resources |->
        CASE r = "tool_calls" -> tools [] r = "model_calls" -> models
          [] r = "revisions" -> revisions [] r = "cost_units" -> cost
          [] OTHER -> bytes]

\* Two tool calls, so that one tool may invoke another.
SmallLimit == MCLimit(2, 1, 0, 1, 1)

Submission(cost, bytes, valid) ==
    [allowed |-> TRUE, executable |-> FALSE, valid |-> valid, cost |-> cost, bytes |-> bytes]

\* Submissions that are accepted, that cost too much, that cost a negative
\* amount, and that are refused before any charge.
MCCandidates ==
    { Submission(1, 1, TRUE), Submission(2, 1, TRUE), Submission(-1, 1, FALSE),
      [Submission(0, 0, TRUE) EXCEPT !.allowed = FALSE],
      [Submission(0, 0, TRUE) EXCEPT !.executable = TRUE] }
=============================================================================
