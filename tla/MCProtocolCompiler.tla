------------------------- MODULE MCProtocolCompiler -------------------------
(* An instance of ProtocolCompiler for TLC. *)
EXTENDS ProtocolCompiler, FiniteSets

CONSTANTS a, b, c, good, other, bad

\* All lists of at most two dependencies.
Lists == {<<>>} \cup { <<n>> : n \in Nodes } \cup { <<m, n>> : m, n \in Nodes }

\* All graphs of such lists, with any of the contracts not pinned.
MCGraphs == UNION { [pinned -> Lists] : pinned \in SUBSET Nodes }

\* Contracts are interchangeable, so these stand for all lists of at most two roots.
MCRoots == {<<>>, <<a>>, <<a, a>>, <<a, b>>}

Contract(n, content) == [id |-> n, content |-> content]

\* All contracts, one too few, one of them twice, and one that is refused.
MCContracts ==
    { <<Contract(a, good), Contract(b, good), Contract(c, other)>>,
      <<Contract(b, other), Contract(a, good)>>,
      <<Contract(a, good), Contract(b, good), Contract(a, other), Contract(c, good)>>,
      <<Contract(a, good), Contract(b, bad)>> }

MCInit ==
    /\ graph \in MCGraphs
    /\ roots \in MCRoots
    /\ contracts \in MCContracts
    /\ CompilerInit

MCSpec == MCInit /\ [][CompilerNext]_vars /\ WF_vars(CompilerNext)
=============================================================================
