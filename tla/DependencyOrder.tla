-------------------------- MODULE DependencyOrder --------------------------
(***************************************************************************)
(* What the callers of DependencyResolver.resolve rely on: of the contracts*)
(* that the roots need, each is placed after its dependencies and once,    *)
(* and a refusal has its cause among the contracts that are needed.        *)
(***************************************************************************)
EXTENDS Sequences, Functions

CONSTANTS Nodes   \* contract ids

VARIABLES
    graph,     \* pinned contracts, each with the list of its dependencies
    roots,     \* the list of contracts that were asked for
    ordered,   \* the contracts placed so far
    verdict

input == <<graph, roots>>

IsGraph == DOMAIN graph \subseteq Nodes /\ graph \in [DOMAIN graph -> Seq(Nodes)]

\* A set of contracts that no dependency leads out of.
Closed(S) ==
    /\ Range(roots) \subseteq S
    /\ \A n \in S \cap DOMAIN graph : Range(graph[n]) \subseteq S

\* The contracts that the roots need, directly or not.
Needed == { n \in Nodes : \A S \in SUBSET Nodes : Closed(S) => n \in S }

\* A set of contracts each of which waits for another of them.
Knot(S) ==
    /\ S # {}
    /\ S \subseteq Needed \cap DOMAIN graph
    /\ \A n \in S : Range(graph[n]) \cap S # {}

Init ==
    /\ IsGraph
    /\ roots \in Seq(Nodes)
    /\ ordered = <<>>
    /\ verdict = "none"

Place(n) ==
    /\ n \in (Needed \cap DOMAIN graph) \ Range(ordered)
    /\ Range(graph[n]) \subseteq Range(ordered)
    /\ ordered' = Append(ordered, n)
    /\ UNCHANGED <<input, verdict>>

Succeed ==
    /\ Needed = Range(ordered)
    /\ verdict' = "ordered"
    /\ UNCHANGED <<input, ordered>>

RefuseCycle ==
    /\ \E S \in SUBSET Nodes : Knot(S)
    /\ verdict' = "cycle"
    /\ UNCHANGED <<input, ordered>>

RefuseUnpinned ==
    /\ Needed \ DOMAIN graph # {}
    /\ verdict' = "unpinned"
    /\ UNCHANGED <<input, ordered>>

Next ==
    /\ verdict = "none"
    /\ \/ \E n \in Nodes : Place(n)
       \/ Succeed
       \/ RefuseCycle
       \/ RefuseUnpinned

Spec == Init /\ [][Next]_<<input, ordered, verdict>>
=============================================================================
