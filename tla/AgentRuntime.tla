---------------------------- MODULE AgentRuntime ----------------------------
(***************************************************************************)
(* BoundedAgentRuntime (workflow/agent_runtime.py): a planner or a         *)
(* composer submits a typed candidate, which is refused or accepted, and   *)
(* asks for repairs; both are charged to the budget of its context.        *)
(***************************************************************************)
EXTENDS ExecutionContext

CONSTANTS
    Candidates   \* submissions, of SubmissionType

\* What matters of an AgentSubmission: whether its schema is one of its
\* role's, whether the candidate holds executable content, whether it meets
\* the schema, its estimated cost (which the caller states, and may be
\* negative) and its size.
SubmissionType == [allowed : BOOLEAN, executable : BOOLEAN, valid : BOOLEAN,
                   cost : Int, bytes : Nat]

ASSUME CandidatesAssumption == Candidates \subseteq SubmissionType

VARIABLES
    accepted,   \* history: per context, model calls, cost and bytes accepted
    repairs     \* history: repairs granted to each context

agents == <<accepted, repairs>>

AgentInit ==
    /\ accepted = [x \in Contexts |-> [calls |-> 0, cost |-> 0, bytes |-> 0]]
    /\ repairs = [x \in Contexts |-> 0]

\* A runtime that takes a negative cost as it comes.
ChargesSigned(x, s) ==
    [counters |-> [used[x] EXCEPT
        !["model_calls"] = Counted(x, "model_calls", 1),
        !["cost_units"] = Counted(x, "cost_units", s.cost),
        !["context_bytes"] = Counted(x, "context_bytes", s.bytes)],
     admitted |-> /\ ~ Exceeded(x, "model_calls", 1)
                  /\ ~ Exceeded(x, "cost_units", s.cost)
                  /\ ~ Exceeded(x, "context_bytes", s.bytes)]

\* The charges of submit, in order: a refused one ends the call, but it and
\* those before it stay in the counters.  A negative cost is refused before
\* it is added.
Charges(x, s) ==
    LET model   == Exceeded(x, "model_calls", 1)
        cost    == s.cost < 0 \/ Exceeded(x, "cost_units", s.cost)
        counted == [used[x] EXCEPT
            !["model_calls"] = Counted(x, "model_calls", 1),
            !["cost_units"] = IF model \/ s.cost < 0 THEN @ ELSE Counted(x, "cost_units", s.cost),
            !["context_bytes"] = IF model \/ cost THEN @ ELSE Counted(x, "context_bytes", s.bytes)]
    IN  [counters |-> counted,
         admitted |-> ~ model /\ ~ cost /\ ~ Exceeded(x, "context_bytes", s.bytes)]

\* submit: role and content are checked before the budget, the schema after.
Submit(x, s) ==
    /\ s.allowed
    /\ ~ s.executable
    /\ Followed(x, "model_calls", 1)
    /\ Followed(x, "cost_units", s.cost)
    /\ Followed(x, "context_bytes", s.bytes)
    /\ used' = [used EXCEPT ![x] = Charges(x, s).counters]
    /\ accepted' = IF Charges(x, s).admitted /\ s.valid
                   THEN [accepted EXCEPT ![x] =
                           [calls |-> @.calls + 1, cost |-> @.cost + s.cost,
                            bytes |-> @.bytes + s.bytes]]
                   ELSE accepted
    /\ UNCHANGED <<clock, repairs>>

Repair(x) ==
    /\ Charge(x, "revisions", 1)
    /\ repairs' = IF Exceeded(x, "revisions", 1) THEN repairs
                  ELSE [repairs EXCEPT ![x] = @ + 1]
    /\ UNCHANGED <<clock, accepted>>

AgentNext ==
    \E x \in Contexts : (\E s \in Candidates : Submit(x, s)) \/ Repair(x)

-----------------------------------------------------------------------------
(* Properties.                                                             *)

\* What was accepted, all of it together, is within the budget; in particular
\* no submission gives back what others have spent.
AcceptedWithinBudget ==
    \A x \in Contexts :
        /\ accepted[x].calls <= Limit["model_calls"]
        /\ accepted[x].cost <= Limit["cost_units"]
        /\ accepted[x].bytes <= Limit["context_bytes"]
        /\ repairs[x] <= Limit["revisions"]

\* Counters never go down, so a budget that is exhausted stays so.
BudgetNeverRefunded ==
    [][\A x \in Contexts, r \in Resources : used'[x][r] >= used[x][r]]_used
=============================================================================
