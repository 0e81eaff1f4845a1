------------------------- MODULE DependencyResolver -------------------------
(***************************************************************************)
(* DependencyResolver.resolve (compiler/dependencies.py): a depth-first    *)
(* walk from each root, in which a contract is placed when all of its      *)
(* dependencies have been.  The nested calls of visit are the sequence     *)
(* frames, the innermost last.                                             *)
(***************************************************************************)
EXTENDS Naturals, Sequences, Functions

CONSTANTS Nodes   \* contract ids

VARIABLES
    graph,      \* pinned contracts, each with the list of its dependencies
    roots,      \* the list of contracts that were asked for
    visited,
    visiting,
    ordered,    \* the list that resolve returns
    frames,     \* calls of visit in progress: the contract, the next dependency
    root,       \* the next root
    verdict     \* "none" while resolve runs

input  == <<graph, roots>>
walk   == <<visited, visiting, ordered, frames, root>>
resolver == <<input, walk, verdict>>

Frames == [node : Nodes, next : Nat \ {0}]

ResolverInit ==
    /\ visited = {}
    /\ visiting = {}
    /\ ordered = <<>>
    /\ frames = <<>>
    /\ root = 1
    /\ verdict = "none"

Top == frames[Len(frames)]

\* The frames of the calls in progress while the innermost one calls visit.
Advanced == [frames EXCEPT ![Len(frames)].next = @ + 1]

\* The first lines of visit: a contract that is being visited is part of a
\* cycle, one that has been visited is done, one without an entry in the
\* graph is not pinned; any other is entered.
Enter(n, calls) ==
    /\ n \notin visiting \cup visited
    /\ n \in DOMAIN graph
    /\ frames' = Append(calls, [node |-> n, next |-> 1])
    /\ visiting' = visiting \cup {n}
    /\ UNCHANGED <<visited, ordered, verdict>>

\* A visit that takes a contract in progress for one that is done.
SkipInProgress(n, calls) ==
    /\ n \in visited \cup visiting
    /\ frames' = calls
    /\ UNCHANGED <<visited, visiting, ordered, verdict>>

Skip(n, calls) ==
    /\ n \in visited \ visiting
    /\ frames' = calls
    /\ UNCHANGED <<visited, visiting, ordered, verdict>>

\* A visit that waits for a contract in progress.
RaiseUnpinnedOnly(n) ==
    /\ n \notin visiting \cup visited \cup DOMAIN graph
    /\ verdict' = "unpinned"
    /\ UNCHANGED <<visited, visiting, ordered, frames>>

Raise(n) ==
    /\ \/ n \in visiting /\ verdict' = "cycle"
       \/ n \notin visiting \cup visited \cup DOMAIN graph /\ verdict' = "unpinned"
    /\ UNCHANGED <<visited, visiting, ordered, frames>>

Visit(n, calls) == Enter(n, calls) \/ Skip(n, calls) \/ Raise(n)

\* The loop over the roots.
NextRoot ==
    /\ frames = <<>>
    /\ root <= Len(roots)
    /\ Visit(roots[root], frames)
    /\ root' = root + 1

\* The loop of visit over the dependencies of its contract.
NextDependency ==
    /\ frames # <<>>
    /\ Top.next <= Len(graph[Top.node])
    /\ Visit(graph[Top.node][Top.next], Advanced)
    /\ UNCHANGED root

\* A list that is built the other way round.
PlacedInFront == <<Top.node>> \o ordered

Placed == Append(ordered, Top.node)

\* The end of visit.
Leave ==
    /\ frames # <<>>
    /\ Top.next = Len(graph[Top.node]) + 1
    /\ visiting' = visiting \ {Top.node}
    /\ visited' = visited \cup {Top.node}
    /\ ordered' = Placed
    /\ frames' = SubSeq(frames, 1, Len(frames) - 1)
    /\ UNCHANGED <<root, verdict>>

Finish ==
    /\ frames = <<>>
    /\ root = Len(roots) + 1
    /\ verdict' = "ordered"
    /\ UNCHANGED walk

ResolverNext ==
    /\ verdict = "none"
    /\ NextRoot \/ NextDependency \/ Leave \/ Finish
    /\ UNCHANGED input

-----------------------------------------------------------------------------
(* Properties.                                                             *)

IsGraph == DOMAIN graph \subseteq Nodes /\ graph \in [DOMAIN graph -> Seq(Nodes)]

ResolverTypeOK ==
    /\ IsGraph
    /\ roots \in Seq(Nodes)
    /\ visited \subseteq Nodes
    /\ visiting \subseteq Nodes
    /\ ordered \in Seq(Nodes)
    /\ frames \in Seq(Frames)
    /\ root \in Nat \ {0}
    /\ verdict \in {"none", "ordered", "cycle", "unpinned"}

\* The calls in progress are a path of the graph that meets no contract
\* twice, and visiting holds just its contracts: so the recursion is never
\* deeper than there are pinned contracts.
CallsArePath ==
    /\ visiting = { frames[i].node : i \in DOMAIN frames }
    /\ \A i, j \in DOMAIN frames : frames[i].node = frames[j].node => i = j
    /\ \A i \in DOMAIN frames : i < Len(frames) =>
         /\ frames[i].next > 1
         /\ graph[frames[i].node][frames[i].next - 1] = frames[i + 1].node

\* At every moment, what has been placed is placed once, and after all that
\* it depends on.
DependenciesFirst ==
    /\ \A i, j \in DOMAIN ordered : ordered[i] = ordered[j] => i = j
    /\ \A i \in DOMAIN ordered :
         \A n \in Range(graph[ordered[i]]) : \E j \in 1..(i - 1) : ordered[j] = n

\* The walk implements the abstract order: each contract placed is one that
\* the roots need and whose dependencies are placed, the result is complete,
\* and each refusal has its cause among the contracts the roots need.
Order == INSTANCE DependencyOrder
OrderSpec == Order!Spec
=============================================================================
