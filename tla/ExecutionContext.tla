-------------------------- MODULE ExecutionContext --------------------------
(***************************************************************************)
(* ExecutionContext and ExecutionBudget (workflow/models.py): what a run   *)
(* may do, and how much of it.  Everything that a run does (tool calls,    *)
(* model calls, repairs) is charged to the budget of its context before it *)
(* is done.                                                                *)
(*                                                                         *)
(* A charge is added to the counter before the counter is compared with    *)
(* its limit, so a refused charge is charged all the same, and a counter   *)
(* that has passed its limit stays beyond it.                              *)
(***************************************************************************)
EXTENDS Integers

CONSTANTS
    Contexts,      \* execution contexts, one per run
    InScope,       \* contexts whose project is among their namespaces
    Authorized,    \* [Contexts -> SUBSET Capabilities]
    Limit,         \* [Resources -> Nat], the max_ fields of the budget
    MaxElapsed,    \* max_elapsed_seconds
    MaxClock,      \* bound: last value of the clock
    Slack          \* bound: how far a counter is followed past its limit

Resources == {"tool_calls", "model_calls", "revisions", "cost_units", "context_bytes"}

ASSUME ContextAssumption ==
    /\ InScope \subseteq Contexts
    /\ Limit \in [Resources -> Nat]
    /\ MaxElapsed \in Nat
    /\ MaxClock \in Nat
    /\ Slack \in Nat

VARIABLES
    used,    \* [Contexts -> [Resources -> Nat]], the counters
    clock    \* seconds since the contexts were created

ContextInit ==
    /\ used = [x \in Contexts |-> [r \in Resources |-> 0]]
    /\ clock = 0

\* The counter of a resource after consume.
Counted(x, r, amount) == used[x][r] + amount

\* The bound on counters: a caller stops when it has been refused enough.
Followed(x, r, amount) == used[x][r] + amount <= Limit[r] + Slack

\* A budget that lets one charge too many through.
ExceededLate(x, r, amount) ==
    Counted(x, r, amount) > Limit[r] + 1 \/ clock > MaxElapsed

\* A budget that only counts.
ExceededUntimed(x, r, amount) == Counted(x, r, amount) > Limit[r]

\* consume raises EXECUTION_BUDGET_EXCEEDED.
Exceeded(x, r, amount) ==
    Counted(x, r, amount) > Limit[r] \/ clock > MaxElapsed

Charge(x, r, amount) ==
    /\ Followed(x, r, amount)
    /\ used' = [used EXCEPT ![x][r] = Counted(x, r, amount)]

\* Time passes, in a tool as well as between calls.
Tick ==
    /\ clock < MaxClock
    /\ clock' = clock + 1
    /\ used' = used
=============================================================================
