--------------------------- MODULE CompilerProofs ---------------------------
(***************************************************************************)
(* Proofs about the protocol compiler, for every dependency graph, list of *)
(* roots and list of contracts.                                            *)
(***************************************************************************)
EXTENDS ProtocolCompiler, FiniteSetTheorems, TLAPS

-----------------------------------------------------------------------------
(* What the roots need.                                                    *)

\* The roots are needed, and so are the dependencies of what is needed.
LEMMA NeededIsClosed ==
    ASSUME IsGraph, roots \in Seq(Nodes)
    PROVE  /\ \A i \in 1..Len(roots) : roots[i] \in Order!Needed
           /\ \A n \in Order!Needed \cap DOMAIN graph :
                \A k \in 1..Len(graph[n]) : graph[n][k] \in Order!Needed
<1> USE DEF Order!Range
<1>1. ASSUME NEW i \in 1..Len(roots)
      PROVE  roots[i] \in Order!Needed
  <2>1. roots[i] \in Nodes /\ roots[i] \in Range(roots)
    BY <1>1 DEF Range
  <2> QED BY <2>1, <1>1 DEF Order!Needed, Order!Closed, Range
<1>2. ASSUME NEW n \in Order!Needed \cap DOMAIN graph, NEW k \in 1..Len(graph[n])
      PROVE  graph[n][k] \in Order!Needed
  <2>1. graph[n] \in Seq(Nodes) /\ graph[n][k] \in Nodes
    BY <1>2 DEF IsGraph
  <2>2. ASSUME NEW S \in SUBSET Nodes, Order!Closed(S)
        PROVE  graph[n][k] \in S
    BY <1>2, <2>1, <2>2 DEF Order!Needed, Order!Closed
  <2> QED BY <2>1, <2>2 DEF Order!Needed
<1> QED BY <1>1, <1>2

\* A set that no dependency leads out of holds all that the roots need.
LEMMA ClosedHoldsNeeded ==
    ASSUME NEW S \in SUBSET Nodes, Order!Closed(S)
    PROVE  Order!Needed \subseteq S
BY DEF Order!Needed

-----------------------------------------------------------------------------
(* The invariant of the walk.                                              *)

\* A call of visit is at one of the dependencies of a pinned contract, or
\* behind the last.
CallsFit ==
    \A i \in 1..Len(frames) :
        /\ frames[i].node \in DOMAIN graph
        /\ frames[i].next <= Len(graph[frames[i].node]) + 1

\* The dependencies that a call has behind it are placed, all but the one
\* that the next call is about.
BehindIsDone ==
    \A i \in 1..Len(frames) : \A k \in 1..(frames[i].next - 1) :
        \/ graph[frames[i].node][k] \in visited
        \/ i < Len(frames) /\ k = frames[i].next - 1

\* The contracts that are visited are those placed; they, and those being
\* visited, are needed.
PlacedIsVisited ==
    /\ visited = { ordered[i] : i \in 1..Len(ordered) }
    /\ visited \cap visiting = {}
    /\ visited \subseteq DOMAIN graph
    /\ visited \cup visiting \subseteq Order!Needed

WalkInv ==
    /\ ResolverTypeOK
    /\ CallsArePath
    /\ CallsFit
    /\ BehindIsDone
    /\ DependenciesFirst
    /\ PlacedIsVisited

\* The roots that the loop has behind it are placed, all but the one whose
\* visit is in progress; at the end all that is needed is placed.
RootsAreDone ==
    /\ verdict = "none" =>
         /\ root <= Len(roots) + 1
         /\ \A k \in 1..(root - 1) :
              \/ roots[k] \in visited
              \/ k = root - 1 /\ frames # <<>> /\ frames[1].node = roots[k]
    /\ verdict = "ordered" => Order!Needed = visited

\* A call of visit(n): from the loop over the roots, or from the innermost
\* call in progress, which then goes on with its next dependency.
Called(n, calls) ==
    /\ n \in Order!Needed
    /\ calls \in Seq(Frames)
    /\ Len(calls) = Len(frames)
    /\ \A i \in 1..Len(frames) :
         /\ i < Len(frames) => calls[i] = frames[i]
         /\ i = Len(frames) =>
              /\ calls[i].node = frames[i].node
              /\ calls[i].next = frames[i].next + 1
              /\ frames[i].next <= Len(graph[frames[i].node])
              /\ graph[frames[i].node][frames[i].next] = n

LEMMA NeededInNodes == Order!Needed \subseteq Nodes
BY DEF Order!Needed

\* The loops call visit for contracts that are needed.
LEMMA RootIsCalled ==
    ASSUME WalkInv, NextRoot
    PROVE  Called(roots[root], frames)
<1>1. root \in 1..Len(roots) /\ frames = <<>> /\ frames \in Seq(Frames)
  BY DEF NextRoot, WalkInv, ResolverTypeOK
<1>2. roots[root] \in Order!Needed
  BY <1>1, NeededIsClosed DEF WalkInv, ResolverTypeOK
<1> QED BY <1>1, <1>2 DEF Called

LEMMA DependencyIsCalled ==
    ASSUME WalkInv, NextDependency
    PROVE  Called(graph[Top.node][Top.next], Advanced)
<1> DEFINE L == Len(frames)
<1>1. frames \in Seq(Frames) /\ frames # <<>>
  BY DEF NextDependency, WalkInv, ResolverTypeOK
<1>2. L \in Nat /\ L > 0 /\ L \in 1..Len(frames) /\ frames[L] \in Frames
  BY <1>1
<1>3. Top = frames[L] /\ Top \in Frames
  BY <1>2 DEF Top
<1>4. Top.node \in DOMAIN graph /\ Top.next \in 1..Len(graph[Top.node])
  BY <1>2, <1>3 DEF WalkInv, CallsFit, NextDependency, Frames
<1>5. Top.node \in visiting
  BY <1>2, <1>3 DEF WalkInv, CallsArePath
<1>6. graph[Top.node][Top.next] \in Order!Needed
  <2>1. Top.node \in Order!Needed \cap DOMAIN graph
    BY <1>4, <1>5 DEF WalkInv, PlacedIsVisited
  <2> QED BY <2>1, <1>4, NeededIsClosed DEF WalkInv, ResolverTypeOK
<1>7. [frames[L] EXCEPT !.next = @ + 1] = [node |-> Top.node, next |-> Top.next + 1]
  BY <1>3 DEF Frames
<1>8. [node |-> Top.node, next |-> Top.next + 1] \in Frames
  BY <1>3 DEF Frames
<1>9. /\ Advanced \in Seq(Frames) /\ Len(Advanced) = L
      /\ \A i \in 1..L : Advanced[i] = IF i = L THEN [node |-> Top.node, next |-> Top.next + 1]
                                       ELSE frames[i]
  BY <1>1, <1>2, <1>7, <1>8 DEF Advanced
<1> QED BY <1>2, <1>3, <1>4, <1>6, <1>9 DEF Called

-----------------------------------------------------------------------------
(* The steps of the walk keep its invariant.                               *)

\* A contract that is entered prolongs the path of calls.
LEMMA EnterKeeps ==
    ASSUME WalkInv, NEW STATE n, NEW STATE calls, Called(n, calls), Enter(n, calls), UNCHANGED input,
           verdict' = verdict, root' \in Nat \ {0}
    PROVE  WalkInv'
<1> DEFINE L == Len(frames)
           new == [node |-> n, next |-> 1]
<1>1. /\ frames \in Seq(Frames) /\ calls \in Seq(Frames) /\ L = Len(calls) /\ L \in Nat
      /\ n \in Nodes /\ new \in Frames
  BY NeededInNodes DEF WalkInv, ResolverTypeOK, Called, Frames
<1>2. /\ Len(frames') = L + 1
      /\ frames'[L + 1] = new /\ new.node = n /\ new.next = 1
      /\ \A i \in 1..L : frames'[i] = calls[i] /\ frames'[i].node = frames[i].node
      /\ frames' \in Seq(Frames)
  <2>1. frames' = Append(calls, new)
    BY DEF Enter
  <2>2. \A i \in 1..L : calls[i].node = frames[i].node
    BY DEF Called
  <2> HIDE DEF new
  <2>3. Len(frames') = L + 1 /\ frames'[L + 1] = new /\ \A i \in 1..L : frames'[i] = calls[i]
    BY <1>1, <2>1
  <2>4. frames' \in Seq(Frames)
    BY <1>1, <2>1
  <2> QED BY <2>2, <2>3, <2>4 DEF new
<1> HIDE DEF new
<1>3. /\ visiting' = visiting \cup {n} /\ visited' = visited /\ ordered' = ordered
      /\ graph' = graph /\ roots' = roots
      /\ n \in DOMAIN graph /\ n \notin visiting \cup visited
  BY DEF Enter, input
<1>4. \A i \in 1..L : frames[i] \in Frames /\ calls[i] \in Frames /\ frames'[i] \in Frames
  BY <1>1, <1>2
<1>5. ResolverTypeOK'
  BY <1>1, <1>2, <1>3 DEF WalkInv, ResolverTypeOK, IsGraph
<1>6. CallsArePath'
  <2>0. DOMAIN frames = 1..L /\ DOMAIN frames' = 1..(L + 1)
    BY <1>1, <1>2
  <2>1. visiting' = { frames'[i].node : i \in 1..(L + 1) }
    <3>1. visiting = { frames[i].node : i \in 1..L }
      BY <2>0 DEF WalkInv, CallsArePath
    <3>2. ASSUME NEW x \in visiting'
          PROVE  \E i \in 1..(L + 1) : frames'[i].node = x
      BY <1>1, <1>2, <1>3, <3>1, <3>2
    <3>3. \A i \in 1..(L + 1) : i = L + 1 \/ i \in 1..L
      BY <1>1
    <3>4. ASSUME NEW i \in 1..(L + 1)
          PROVE  frames'[i].node \in visiting'
      BY <1>2, <1>3, <3>1, <3>3
    <3> QED BY <3>2, <3>4
  <2>2. ASSUME NEW i \in 1..(L + 1), NEW j \in 1..(L + 1), frames'[i].node = frames'[j].node
        PROVE  i = j
    <3>1. \A k \in 1..L : frames[k].node # n
      BY <1>1, <1>3 DEF WalkInv, CallsArePath
    <3> QED BY <1>1, <1>2, <2>2, <3>1 DEF WalkInv, CallsArePath
  <2>3. ASSUME NEW i \in 1..L
        PROVE  frames'[i].next > 1 /\ graph[frames'[i].node][frames'[i].next - 1] = frames'[i + 1].node
    <3>1. CASE i < L
      <4>1. frames'[i] = frames[i] /\ frames'[i + 1].node = frames[i + 1].node
        BY <1>1, <1>2, <3>1 DEF Called
      <4> QED BY <1>1, <3>1, <4>1 DEF WalkInv, CallsArePath
    <3>2. CASE i = L
      <4>1. /\ frames'[i].node = frames[i].node /\ frames'[i].next = frames[i].next + 1
            /\ graph[frames[i].node][frames[i].next] = n
            /\ frames'[i + 1].node = n
        BY <1>1, <1>2, <3>2 DEF Called
      <4>2. frames[i].next \in Nat \ {0}
        BY <1>4 DEF Frames
      <4> QED BY <4>1, <4>2
    <3> QED BY <3>1, <3>2, <1>1
  <2>4. \A i \in DOMAIN frames' : i < Len(frames') =>
          frames'[i].next > 1 /\ graph'[frames'[i].node][frames'[i].next - 1] = frames'[i + 1].node
    <3>1. \A i \in DOMAIN frames' : i < Len(frames') => i \in 1..L
      BY <1>1, <1>2, <2>0
    <3> QED BY <1>3, <2>3, <3>1
  <2> QED BY <2>0, <2>1, <2>2, <2>4 DEF CallsArePath
<1>7. CallsFit'
  <2>1. graph[n] \in Seq(Nodes)
    BY <1>3 DEF WalkInv, ResolverTypeOK, IsGraph
  <2>2. ASSUME NEW i \in 1..L
        PROVE  frames'[i].node \in DOMAIN graph /\ frames'[i].next <= Len(graph[frames'[i].node]) + 1
    <3>1. frames[i].node \in DOMAIN graph /\ graph[frames[i].node] \in Seq(Nodes)
      BY <1>1 DEF WalkInv, CallsFit, ResolverTypeOK, IsGraph
    <3>2. CASE i < L
      BY <1>1, <1>2, <3>2 DEF Called, WalkInv, CallsFit
    <3>3. CASE i = L
      <4>1. /\ frames'[i].node = frames[i].node /\ frames'[i].next = frames[i].next + 1
            /\ frames[i].next <= Len(graph[frames[i].node])
        BY <1>1, <1>2, <3>3 DEF Called
      <4>2. frames[i].next \in Nat /\ Len(graph[frames[i].node]) \in Nat
        BY <1>4, <3>1 DEF Frames
      <4> QED BY <3>1, <4>1, <4>2
    <3> QED BY <3>2, <3>3, <1>1
  <2> QED BY <1>1, <1>2, <1>3, <2>1, <2>2 DEF CallsFit
<1>8. BehindIsDone'
  <2>1. ASSUME NEW i \in 1..L, NEW k \in 1..(frames'[i].next - 1)
        PROVE  graph[frames'[i].node][k] \in visited \/ k = frames'[i].next - 1
    <3>1. CASE i < L
      <4>1. frames'[i] = frames[i]
        BY <1>1, <1>2, <3>1 DEF Called
      <4> QED BY <1>1, <3>1, <4>1 DEF WalkInv, BehindIsDone
    <3>2. CASE i = L
      <4>1. frames'[i].node = frames[i].node /\ frames'[i].next = frames[i].next + 1
        BY <1>1, <1>2, <3>2 DEF Called
      <4>2. frames[i].next \in Nat \ {0}
        BY <1>4 DEF Frames
      <4>3. k = frames[i].next \/ k \in 1..(frames[i].next - 1)
        BY <4>1, <4>2
      <4> QED BY <1>1, <3>2, <4>1, <4>2, <4>3 DEF WalkInv, BehindIsDone
    <3> QED BY <3>1, <3>2, <1>1
  <2>2. 1..(frames'[L + 1].next - 1) = {}
    BY <1>2
  <2> QED BY <1>1, <1>2, <1>3, <2>1, <2>2 DEF BehindIsDone
<1>9. DependenciesFirst'
  BY <1>3 DEF WalkInv, DependenciesFirst
<1>10. PlacedIsVisited'
  <2>1. Order!Needed' = Order!Needed
    BY <1>3 DEF Order!Needed, Order!Closed
  <2> QED BY <1>3, <2>1 DEF WalkInv, PlacedIsVisited, Called
<1> QED BY <1>5, <1>6, <1>7, <1>8, <1>9, <1>10 DEF WalkInv

\* A call that goes on with its next dependency, because this one is placed.
LEMMA SkipKeeps ==
    ASSUME WalkInv, NEW STATE n, NEW STATE calls, Called(n, calls), Skip(n, calls),
           UNCHANGED input, verdict' = verdict, root' \in Nat \ {0}
    PROVE  WalkInv'
<1> DEFINE L == Len(frames)
<1>1. /\ frames \in Seq(Frames) /\ calls \in Seq(Frames) /\ L = Len(calls) /\ L \in Nat
      /\ DOMAIN frames = 1..L
  BY DEF WalkInv, ResolverTypeOK, Called
<1>2. /\ frames' \in Seq(Frames) /\ Len(frames') = L /\ DOMAIN frames' = 1..L
      /\ \A i \in 1..L : frames'[i] = calls[i] /\ frames'[i].node = frames[i].node
  BY <1>1 DEF Skip, Called
<1>3. /\ visiting' = visiting /\ visited' = visited /\ ordered' = ordered
      /\ graph' = graph /\ roots' = roots /\ n \in visited
  BY DEF Skip, input
<1>4. \A i \in 1..L : frames[i] \in Frames /\ frames[i].next \in Nat \ {0}
  <2>1. \A i \in 1..L : frames[i] \in Frames
    BY <1>1
  <2> QED BY <2>1 DEF Frames
<1>5. ASSUME NEW i \in 1..L
      PROVE  \/ i < L /\ frames'[i] = frames[i]
             \/ /\ i = L /\ frames'[i].next = frames[i].next + 1
                /\ frames[i].next <= Len(graph[frames[i].node])
                /\ graph[frames[i].node][frames[i].next] = n
  BY <1>1, <1>2 DEF Called
<1>6. ResolverTypeOK'
  BY <1>2, <1>3 DEF WalkInv, ResolverTypeOK, IsGraph
<1>7. CallsArePath'
  <2>1. ASSUME NEW i \in 1..L, i < L
        PROVE  /\ frames'[i] = frames[i] /\ frames'[i + 1].node = frames[i + 1].node
               /\ frames[i].next > 1
               /\ graph[frames[i].node][frames[i].next - 1] = frames[i + 1].node
    <3>1. i \in DOMAIN frames /\ i < Len(frames) /\ i + 1 \in 1..L
      BY <1>1, <2>1
    <3>2. frames'[i] = frames[i] /\ frames'[i + 1].node = frames[i + 1].node
      BY <1>2, <1>5, <2>1, <3>1
    <3> QED BY <3>1, <3>2 DEF WalkInv, CallsArePath
  <2>2. { frames'[i].node : i \in 1..L } = { frames[i].node : i \in 1..L }
    BY <1>2
  <2> QED BY <1>1, <1>2, <1>3, <2>1, <2>2 DEF WalkInv, CallsArePath
<1>8. CallsFit'
  <2>1. ASSUME NEW i \in 1..L
        PROVE  frames'[i].node \in DOMAIN graph /\ frames'[i].next <= Len(graph[frames'[i].node]) + 1
    <3>1. frames[i].node \in DOMAIN graph /\ Len(graph[frames[i].node]) \in Nat
      BY <1>1 DEF WalkInv, CallsFit, ResolverTypeOK, IsGraph
    <3>2. CASE frames'[i] = frames[i]
      BY <1>1, <3>2 DEF WalkInv, CallsFit
    <3>3. CASE frames'[i].next = frames[i].next + 1 /\ frames[i].next <= Len(graph[frames[i].node])
      BY <1>2, <1>4, <3>1, <3>3
    <3> QED BY <1>5, <3>2, <3>3
  <2> QED BY <1>2, <1>3, <2>1 DEF CallsFit
<1>9. BehindIsDone'
  <2>1. ASSUME NEW i \in 1..L, NEW k \in 1..(frames'[i].next - 1)
        PROVE  graph[frames'[i].node][k] \in visited \/ (i < L /\ k = frames'[i].next - 1)
    <3>1. CASE i < L /\ frames'[i] = frames[i]
      BY <1>1, <3>1 DEF WalkInv, BehindIsDone
    <3>2. CASE i = L /\ frames'[i].next = frames[i].next + 1 /\ graph[frames[i].node][frames[i].next] = n
      <4>1. k = frames[i].next \/ k \in 1..(frames[i].next - 1)
        BY <1>4, <3>2
      <4> QED BY <1>1, <1>2, <1>3, <3>2, <4>1 DEF WalkInv, BehindIsDone
    <3> QED BY <1>5, <3>1, <3>2
  <2> QED BY <1>2, <1>3, <2>1 DEF BehindIsDone
<1>10. DependenciesFirst'
  BY <1>3 DEF WalkInv, DependenciesFirst
<1>11. PlacedIsVisited'
  <2>1. Order!Needed' = Order!Needed
    BY <1>3 DEF Order!Needed, Order!Closed
  <2> QED BY <1>3, <2>1 DEF WalkInv, PlacedIsVisited
<1> QED BY <1>6, <1>7, <1>8, <1>9, <1>10, <1>11 DEF WalkInv

\* The end of a call, which places its contract.
LEMMA LeaveKeeps ==
    ASSUME WalkInv, Leave, UNCHANGED input
    PROVE  /\ WalkInv'
           /\ Top.node \in (Order!Needed \cap DOMAIN graph) \ visited
           /\ \A k \in 1..Len(graph[Top.node]) : graph[Top.node][k] \in visited
<1> DEFINE L == Len(frames)
           n == Top.node
           P == Len(ordered)
<1>1. /\ frames \in Seq(Frames) /\ L \in Nat \ {0} /\ DOMAIN frames = 1..L /\ L \in 1..L
      /\ Top = frames[L]
  BY DEF Leave, WalkInv, ResolverTypeOK, Top
<1>2. /\ frames' \in Seq(Frames) /\ Len(frames') = L - 1 /\ DOMAIN frames' = 1..(L - 1)
      /\ \A i \in 1..(L - 1) : frames'[i] = frames[i]
  <2>1. frames' = SubSeq(frames, 1, L - 1)
    BY DEF Leave
  <2> QED BY <1>1, <2>1
<1>3. \A i \in 1..L : frames[i] \in Frames /\ frames[i].next \in Nat \ {0} /\ frames[i].node \in Nodes
  <2>1. \A i \in 1..L : frames[i] \in Frames
    BY <1>1
  <2> QED BY <2>1 DEF Frames
<1>0. \A i \in Nat : /\ i \in 1..(L - 1) => i \in 1..L /\ i < L /\ i # L /\ (i < L - 1 \/ i + 1 = L)
                     /\ i \in 1..L => i = L \/ i \in 1..(L - 1)
  <2>1. ASSUME NEW l \in Nat \ {0}, NEW i \in Nat
        PROVE  /\ i \in 1..(l - 1) => i \in 1..l /\ i < l /\ i # l /\ (i < l - 1 \/ i + 1 = l)
               /\ i \in 1..l => i = l \/ i \in 1..(l - 1)
    OBVIOUS
  <2> QED BY <1>1, <2>1
<1>4. /\ visiting' = visiting \ {n} /\ visited' = visited \cup {n} /\ ordered' = Append(ordered, n)
      /\ graph' = graph /\ roots' = roots /\ root' = root /\ verdict' = verdict
      /\ Top.next = Len(graph[n]) + 1
  BY DEF Leave, input, Placed
<1>5. /\ n \in DOMAIN graph /\ n \in Nodes /\ n \in visiting /\ n \in Order!Needed /\ n \notin visited
      /\ graph[n] \in Seq(Nodes) /\ Len(graph[n]) \in Nat
  <2>1. n \in DOMAIN graph /\ n \in Nodes
    BY <1>1, <1>3 DEF WalkInv, CallsFit
  <2>2. n \in visiting
    BY <1>1 DEF WalkInv, CallsArePath
  <2>3. n \in Order!Needed /\ n \notin visited
    BY <2>2 DEF WalkInv, PlacedIsVisited
  <2>4. graph[n] \in Seq(Nodes)
    BY <2>1 DEF WalkInv, ResolverTypeOK, IsGraph
  <2> QED BY <2>1, <2>2, <2>3, <2>4
<1>6. \A k \in 1..Len(graph[n]) : graph[n][k] \in visited
  <2>1. \A k \in 1..(frames[L].next - 1) : graph[frames[L].node][k] \in visited
    BY <1>1 DEF WalkInv, BehindIsDone
  <2>2. frames[L].next - 1 = Len(graph[n])
    BY <1>1, <1>4, <1>5
  <2> QED BY <1>1, <2>1, <2>2
<1>7. /\ ordered \in Seq(Nodes) /\ P \in Nat /\ DOMAIN ordered = 1..P
      /\ ordered' \in Seq(Nodes) /\ Len(ordered') = P + 1 /\ DOMAIN ordered' = 1..(P + 1)
      /\ ordered'[P + 1] = n /\ \A i \in 1..P : ordered'[i] = ordered[i]
  <2>1. ordered \in Seq(Nodes) /\ n \in Nodes
    BY <1>5 DEF WalkInv, ResolverTypeOK
  <2> HIDE DEF n
  <2> QED BY <1>4, <2>1
<1>8. ResolverTypeOK'
  BY <1>2, <1>4, <1>5, <1>7 DEF WalkInv, ResolverTypeOK, IsGraph
<1>9. CallsArePath'
  <2>1. visiting' = { frames[i].node : i \in 1..(L - 1) }
    <3>1. \A i \in 1..L : frames[i].node = n => i = L
      BY <1>1 DEF WalkInv, CallsArePath
    <3>2. visiting = { frames[i].node : i \in 1..L }
      BY <1>1 DEF WalkInv, CallsArePath
    <3>3. \A i \in 1..L : i = L \/ i \in 1..(L - 1)
      BY <1>0
    <3>4. \A i \in 1..(L - 1) : i \in 1..L /\ i # L
      BY <1>0
    <3> QED BY <1>1, <1>4, <3>1, <3>2, <3>3, <3>4
  <2>2. { frames'[i].node : i \in 1..(L - 1) } = { frames[i].node : i \in 1..(L - 1) }
    BY <1>2
  <2>3. ASSUME NEW i \in 1..(L - 1), i < L - 1
        PROVE  frames'[i].next > 1 /\ graph[frames'[i].node][frames'[i].next - 1] = frames'[i + 1].node
    <3>1. i \in 1..L /\ i < L /\ i + 1 \in 1..(L - 1)
      BY <1>1, <2>3
    <3> QED BY <1>1, <1>2, <3>1 DEF WalkInv, CallsArePath
  <2>4. \A i, j \in 1..(L - 1) : frames'[i].node = frames'[j].node => i = j
    BY <1>1, <1>2 DEF WalkInv, CallsArePath
  <2> QED BY <1>2, <1>4, <2>1, <2>2, <2>3, <2>4 DEF CallsArePath
<1>10. CallsFit'
  BY <1>1, <1>2, <1>4 DEF WalkInv, CallsFit
<1>11. BehindIsDone'
  <2>1. ASSUME NEW i \in 1..(L - 1), NEW k \in 1..(frames[i].next - 1)
        PROVE  graph[frames[i].node][k] \in visited' \/ (i < L - 1 /\ k = frames[i].next - 1)
    <3>1. i \in 1..L /\ i < L /\ (i < L - 1 \/ i + 1 = L)
      BY <1>0
    <3>2. graph[frames[i].node][frames[i].next - 1] = frames[i + 1].node
      BY <1>1, <3>1 DEF WalkInv, CallsArePath
    <3>3. graph[frames[i].node][k] \in visited \/ k = frames[i].next - 1
      BY <1>1, <3>1 DEF WalkInv, BehindIsDone
    <3> QED BY <1>1, <1>4, <3>1, <3>2, <3>3
  <2> QED BY <1>2, <1>4, <2>1 DEF BehindIsDone
<1>12. DependenciesFirst'
  <2>1. visited = { ordered[i] : i \in 1..P }
    BY DEF WalkInv, PlacedIsVisited
  <2>2. ASSUME NEW i \in 1..(P + 1), NEW j \in 1..(P + 1), ordered'[i] = ordered'[j]
        PROVE  i = j
    <3>1. \A k \in 1..P : ordered[k] # n
      BY <1>5, <2>1
    <3>2. \A k \in 1..(P + 1) : k = P + 1 \/ k \in 1..P
      BY <1>7
    <3> QED BY <1>7, <2>2, <3>1, <3>2 DEF WalkInv, DependenciesFirst
  <2>3. ASSUME NEW i \in 1..(P + 1), NEW m \in Range(graph[ordered'[i]])
        PROVE  \E j \in 1..(i - 1) : ordered'[j] = m
    <3>1. CASE i \in 1..P
      <4>1. PICK j \in 1..(i - 1) : ordered[j] = m
        BY <1>7, <2>3, <3>1 DEF WalkInv, DependenciesFirst
      <4>2. j \in 1..P
        BY <1>7, <3>1
      <4> QED BY <1>7, <4>1, <4>2
    <3>2. CASE i = P + 1
      <4>1. PICK k \in 1..Len(graph[n]) : graph[n][k] = m
        BY <1>5, <1>7, <2>3, <3>2 DEF Range
      <4>2. PICK j \in 1..P : ordered[j] = m
        BY <1>6, <2>1, <4>1
      <4> QED BY <1>7, <3>2, <4>2
    <3> QED BY <1>7, <3>1, <3>2
  <2> QED BY <1>4, <1>7, <2>2, <2>3 DEF DependenciesFirst
<1>13. PlacedIsVisited'
  <2>1. Order!Needed' = Order!Needed
    BY <1>4 DEF Order!Needed, Order!Closed
  <2>2. visited = { ordered[i] : i \in 1..P }
    BY DEF WalkInv, PlacedIsVisited
  <2>3. \A i \in 1..(P + 1) : i = P + 1 \/ i \in 1..P
    BY <1>7
  <2>4. visited' = { ordered'[i] : i \in 1..(P + 1) }
    <3>1. \A i \in 1..P : i \in 1..(P + 1)
      BY <1>7
    <3>2. P + 1 \in 1..(P + 1)
      BY <1>7
    <3> QED BY <1>4, <1>7, <2>2, <2>3, <3>1, <3>2
  <2> QED BY <1>4, <1>5, <1>7, <2>1, <2>4 DEF WalkInv, PlacedIsVisited
<1> QED BY <1>5, <1>6, <1>8, <1>9, <1>10, <1>11, <1>12, <1>13 DEF WalkInv

-----------------------------------------------------------------------------
(* The walk implements the abstract order.                                 *)

\* A call that raises for a contract in progress has found contracts that
\* wait for one another: those of the calls from there on.
LEMMA CycleIsKnot ==
    ASSUME WalkInv, NEW STATE n, NEW STATE calls, Called(n, calls), n \in visiting
    PROVE  \E S \in SUBSET Nodes : Order!Knot(S)
<1> DEFINE L == Len(frames)
<1>0. \A k, l : l \in 1..L /\ k \in l..L => k < L \/ k = L
  BY DEF WalkInv, ResolverTypeOK
<1>1. L \in Nat /\ DOMAIN frames = 1..L /\ frames \in Seq(Frames)
  BY DEF WalkInv, ResolverTypeOK
<1>2. PICK j \in 1..L : frames[j].node = n
  BY <1>1 DEF WalkInv, CallsArePath
<1> DEFINE S == { frames[i].node : i \in j..L }
<1>3. ASSUME NEW i \in j..L
      PROVE  /\ i \in 1..L /\ (i < L => i + 1 \in j..L) /\ j \in j..L
             /\ frames[i] \in Frames
  BY <1>1, <1>2
<1>4. /\ \A i \in j..L : frames[i].node \in S
      /\ \A m \in S : \E i \in j..L : m = frames[i].node
  OBVIOUS
<1> HIDE DEF S
<1>5. S \subseteq Order!Needed \cap DOMAIN graph /\ S # {}
  <2>1. \A i \in 1..L : frames[i].node \in visiting /\ frames[i].node \in DOMAIN graph
    BY <1>1 DEF WalkInv, CallsFit, CallsArePath
  <2>2. visiting \subseteq Order!Needed
    BY DEF WalkInv, PlacedIsVisited
  <2>3. j \in j..L
    BY <1>1, <1>2
  <2> QED BY <1>3, <1>4, <2>1, <2>2, <2>3
<1>6. ASSUME NEW i \in j..L
      PROVE  \E k \in 1..Len(graph[frames[i].node]) : graph[frames[i].node][k] \in S
  <2>1. frames[i].next \in Nat \ {0} /\ frames[i].next <= Len(graph[frames[i].node]) + 1
    BY <1>3 DEF Frames, WalkInv, CallsFit
  <2>2. Len(graph[frames[i].node]) \in Nat
    BY <1>3 DEF WalkInv, CallsFit, ResolverTypeOK, IsGraph
  <2>3. CASE i < L
    <3>1. frames[i].next > 1 /\ graph[frames[i].node][frames[i].next - 1] = frames[i + 1].node
      BY <1>1, <1>3, <2>3 DEF WalkInv, CallsArePath
    <3>2. frames[i].next - 1 \in 1..Len(graph[frames[i].node])
      BY <2>1, <2>2, <3>1
    <3>3. frames[i + 1].node \in S
      BY <1>3, <1>4, <2>3
    <3> QED BY <3>1, <3>2, <3>3
  <2>4. CASE i = L
    <3>1. graph[frames[i].node][frames[i].next] = n /\ frames[i].next <= Len(graph[frames[i].node])
      BY <1>3, <2>4 DEF Called
    <3>2. n \in S
      BY <1>2, <1>3, <1>4
    <3>3. frames[i].next \in 1..Len(graph[frames[i].node])
      BY <2>1, <2>2, <3>1
    <3> QED BY <3>1, <3>2, <3>3
  <2>5. i < L \/ i = L
    BY <1>0
  <2> QED BY <2>3, <2>4, <2>5
<1>7. \A m \in S : Order!Range(graph[m]) \cap S # {}
  <2>1. ASSUME NEW i \in j..L
        PROVE  Order!Range(graph[frames[i].node]) \cap S # {}
    <3>1. graph[frames[i].node] \in Seq(Nodes)
      BY <1>3 DEF WalkInv, CallsFit, ResolverTypeOK, IsGraph
    <3>2. PICK k \in 1..Len(graph[frames[i].node]) : graph[frames[i].node][k] \in S
      BY <1>6
    <3> QED BY <3>1, <3>2 DEF Order!Range
  <2> QED BY <1>4, <2>1
<1>8. Order!Knot(S)
  BY <1>5, <1>7 DEF Order!Knot
<1> QED BY <1>5, <1>8, NeededInNodes

\* A refusal has its cause among the contracts that are needed.
LEMMA RaiseIsRight ==
    ASSUME WalkInv, verdict = "none", NEW STATE n, NEW STATE calls, Called(n, calls),
           Raise(n), UNCHANGED input
    PROVE  Order!Next /\ verdict' \in {"cycle", "unpinned"}
<1>1. /\ graph' = graph /\ roots' = roots /\ ordered' = ordered
      /\ UNCHANGED Order!input
  BY DEF Raise, input, Order!input
<1>2. CASE n \in visiting /\ verdict' = "cycle"
  <2>1. \E S \in SUBSET Nodes : Order!Knot(S)
    BY <1>2, CycleIsKnot
  <2>2. Order!RefuseCycle
    BY <1>1, <1>2, <2>1 DEF Order!RefuseCycle
  <2> QED BY <1>2, <2>2 DEF Order!Next
<1>3. CASE n \notin visiting \cup visited \cup DOMAIN graph /\ verdict' = "unpinned"
  <2>1. Order!Needed \ DOMAIN graph # {}
    BY <1>3 DEF Called
  <2>2. Order!RefuseUnpinned
    BY <1>1, <1>3, <2>1 DEF Order!RefuseUnpinned
  <2> QED BY <1>3, <2>2 DEF Order!Next
<1> QED BY <1>2, <1>3 DEF Raise

\* A call that raises leaves the walk as it is.
LEMMA RaiseKeeps ==
    ASSUME WalkInv, NEW STATE n, Raise(n), UNCHANGED input, root' \in Nat \ {0}
    PROVE  WalkInv'
<1>1. /\ graph' = graph /\ roots' = roots /\ ordered' = ordered /\ visited' = visited
      /\ visiting' = visiting /\ frames' = frames /\ verdict' \in {"cycle", "unpinned"}
  BY DEF Raise, input
<1>2. Order!Needed' = Order!Needed
  BY <1>1 DEF Order!Needed, Order!Closed
<1>3. ResolverTypeOK' /\ CallsArePath' /\ CallsFit'
  BY <1>1 DEF WalkInv, ResolverTypeOK, IsGraph, CallsArePath, CallsFit
<1>4. BehindIsDone' /\ DependenciesFirst' /\ PlacedIsVisited'
  BY <1>1, <1>2 DEF WalkInv, BehindIsDone, DependenciesFirst, PlacedIsVisited
<1> QED BY <1>3, <1>4 DEF WalkInv

\* When the walk ends by itself it has placed all that is needed.
LEMMA EndIsComplete ==
    ASSUME WalkInv, RootsAreDone, verdict = "none", Finish
    PROVE  Order!Needed = visited
<1>1. \A k \in 1..Len(roots) : roots[k] \in visited
  BY DEF Finish, RootsAreDone, WalkInv, ResolverTypeOK
<1>2. Order!Closed(visited)
  <2>1. Order!Range(roots) \subseteq visited
    BY <1>1 DEF Order!Range, WalkInv, ResolverTypeOK
  <2>2. ASSUME NEW m \in visited \cap DOMAIN graph
        PROVE  Order!Range(graph[m]) \subseteq visited
    <3>1. PICK i \in 1..Len(ordered) : ordered[i] = m
      BY DEF WalkInv, PlacedIsVisited
    <3>2. ordered \in Seq(Nodes) /\ i \in DOMAIN ordered /\ Len(ordered) \in Nat
      BY DEF WalkInv, ResolverTypeOK
    <3>3. ASSUME NEW d \in Range(graph[m])
          PROVE  d \in visited
      <4>1. PICK j \in 1..(i - 1) : ordered[j] = d
        BY <3>1, <3>2 DEF WalkInv, DependenciesFirst
      <4>2. j \in 1..Len(ordered)
        BY <3>2
      <4> QED BY <4>1, <4>2 DEF WalkInv, PlacedIsVisited
    <3> QED BY <3>3 DEF Order!Range, Range
  <2> QED BY <2>1, <2>2 DEF Order!Closed
<1>3. visited \in SUBSET Nodes
  BY DEF WalkInv, ResolverTypeOK
<1> QED BY <1>2, <1>3, ClosedHoldsNeeded DEF WalkInv, PlacedIsVisited

\* Each step of the walk keeps the invariant and is one of the abstract
\* order, or none.
LEMMA WalkSteps ==
    ASSUME WalkInv, RootsAreDone, ResolverNext
    PROVE  WalkInv' /\ RootsAreDone' /\ [Order!Next]_<<Order!input, ordered, verdict>>
<1> USE DEF ResolverNext
<1>0. /\ verdict = "none" /\ graph' = graph /\ roots' = roots /\ UNCHANGED input
      /\ UNCHANGED Order!input /\ root \in Nat \ {0} /\ Order!Needed' = Order!Needed
  BY DEF input, Order!input, WalkInv, ResolverTypeOK, Order!Needed, Order!Closed
<1>1. CASE NextRoot
  <2> DEFINE n == roots[root]
  <2>1. Called(n, frames)
    BY <1>1, RootIsCalled
  <2>2. /\ frames = <<>> /\ root' = root + 1 /\ root <= Len(roots) /\ Visit(n, frames)
        /\ Len(roots) \in Nat /\ root' \in Nat \ {0}
    BY <1>0, <1>1 DEF NextRoot, WalkInv, ResolverTypeOK
  <2>3. \A k \in 1..(root - 1) : roots[k] \in visited
    BY <1>0, <2>2 DEF RootsAreDone
  <2>4. \A k \in 1..(root' - 1) : k = root' - 1 \/ k \in 1..(root - 1)
    BY <1>0, <2>2
  <2> HIDE DEF n
  <2>5. CASE Enter(n, frames)
    <3>1. WalkInv'
      BY <1>0, <2>1, <2>2, <2>5, EnterKeeps DEF Enter
    <3>2. frames' = <<[node |-> n, next |-> 1]>> /\ frames' # <<>> /\ frames'[1].node = n
      BY <2>2, <2>5 DEF Enter
    <3>3. RootsAreDone'
      BY <1>0, <2>2, <2>3, <2>4, <2>5, <3>2 DEF RootsAreDone, Enter, n
    <3> QED BY <1>0, <2>5, <3>1, <3>3 DEF Enter
  <2>6. CASE Skip(n, frames)
    <3>1. WalkInv'
      BY <1>0, <2>1, <2>2, <2>6, SkipKeeps DEF Skip
    <3>2. RootsAreDone'
      BY <1>0, <2>2, <2>3, <2>4, <2>6 DEF RootsAreDone, Skip, n
    <3> QED BY <1>0, <2>6, <3>1, <3>2 DEF Skip
  <2>7. CASE Raise(n)
    <3>1. WalkInv'
      BY <1>0, <2>2, <2>7, RaiseKeeps
    <3>2. Order!Next /\ verdict' \in {"cycle", "unpinned"}
      BY <1>0, <2>1, <2>7, RaiseIsRight
    <3> QED BY <3>1, <3>2 DEF RootsAreDone
  <2> QED BY <2>2, <2>5, <2>6, <2>7 DEF Visit
<1>2. CASE NextDependency
  <2> DEFINE n == graph[Top.node][Top.next]
             calls == Advanced
  <2>1. Called(n, calls)
    BY <1>2, DependencyIsCalled
  <2>2. frames # <<>> /\ Visit(n, calls) /\ root' = root
    BY <1>2 DEF NextDependency
  <2>3. Len(frames) \in Nat /\ Len(frames) > 0 /\ 1 \in 1..Len(frames) /\ frames \in Seq(Frames)
    BY <2>2 DEF WalkInv, ResolverTypeOK
  <2>4. calls \in Seq(Frames) /\ Len(calls) = Len(frames) /\ calls # <<>> /\ calls[1].node = frames[1].node
    BY <2>1, <2>3 DEF Called
  <2> HIDE DEF n, calls
  <2>5. CASE Enter(n, calls)
    <3>1. WalkInv'
      BY <1>0, <2>1, <2>2, <2>5, EnterKeeps DEF Enter
    <3>2. frames' = Append(calls, [node |-> n, next |-> 1])
      BY <2>5 DEF Enter
    <3>3. frames' # <<>> /\ frames'[1] = calls[1]
      BY <2>3, <2>4, <3>2
    <3>4. RootsAreDone'
      BY <1>0, <2>2, <2>4, <2>5, <3>3 DEF RootsAreDone, Enter
    <3> QED BY <1>0, <2>5, <3>1, <3>4 DEF Enter
  <2>6. CASE Skip(n, calls)
    <3>1. WalkInv'
      BY <1>0, <2>1, <2>2, <2>6, SkipKeeps DEF Skip
    <3>2. RootsAreDone'
      BY <1>0, <2>2, <2>4, <2>6 DEF RootsAreDone, Skip
    <3> QED BY <1>0, <2>6, <3>1, <3>2 DEF Skip
  <2>7. CASE Raise(n)
    <3>1. WalkInv'
      BY <1>0, <2>2, <2>7, RaiseKeeps
    <3>2. Order!Next /\ verdict' \in {"cycle", "unpinned"}
      BY <1>0, <2>1, <2>7, RaiseIsRight
    <3> QED BY <3>1, <3>2 DEF RootsAreDone
  <2> QED BY <2>2, <2>5, <2>6, <2>7 DEF Visit
<1>3. CASE Leave
  <2>1. /\ WalkInv'
        /\ Top.node \in (Order!Needed \cap DOMAIN graph) \ visited
        /\ \A k \in 1..Len(graph[Top.node]) : graph[Top.node][k] \in visited
    BY <1>0, <1>3, LeaveKeeps
  <2>2. /\ visited' = visited \cup {Top.node} /\ root' = root /\ verdict' = verdict
        /\ ordered' = Append(ordered, Top.node)
    BY <1>3 DEF Leave, Placed
  <2>3. frames \in Seq(Frames) /\ Len(frames) \in Nat \ {0} /\ Top = frames[Len(frames)]
    BY <1>3 DEF Leave, Top, WalkInv, ResolverTypeOK
  <2>4. (frames'[1] = frames[1] /\ frames' # <<>>) \/ Top = frames[1]
    <3>1. frames' = SubSeq(frames, 1, Len(frames) - 1)
      BY <1>3 DEF Leave
    <3>2. CASE Len(frames) = 1
      BY <2>3, <3>2
    <3>3. CASE Len(frames) # 1
      <4>1. Len(frames) \in Nat \ {0}
        BY <2>3
      <4>2. 1 \in 1..(Len(frames) - 1) /\ Len(frames) - 1 \in Nat \ {0}
        BY <3>3, <4>1
      <4>3. frames' \in Seq(Frames) /\ Len(frames') = Len(frames) - 1 /\ frames'[1] = frames[1]
        BY <2>3, <3>1, <4>2
      <4>4. Len(frames') # 0
        BY <4>2, <4>3
      <4> QED BY <4>3, <4>4
    <3> QED BY <3>2, <3>3
  <2>5. RootsAreDone'
    <3>1. ASSUME NEW k \in 1..(root - 1)
          PROVE  roots[k] \in visited' \/ (k = root - 1 /\ frames' # <<>> /\ frames'[1].node = roots[k])
      BY <1>0, <2>2, <2>4 DEF RootsAreDone
    <3> QED BY <1>0, <2>2, <3>1 DEF RootsAreDone
  <2>6. Order!Place(Top.node)
    <3>1. visited = Range(ordered)
      BY DEF WalkInv, PlacedIsVisited, ResolverTypeOK, Range
    <3>2. graph[Top.node] \in Seq(Nodes)
      BY <2>1 DEF WalkInv, ResolverTypeOK, IsGraph
    <3>3. Order!Range(graph[Top.node]) \subseteq visited
      BY <2>1, <3>2 DEF Order!Range
    <3>4. Order!Range(ordered) = visited
      BY <3>1 DEF Range, Order!Range
    <3> QED BY <1>0, <2>1, <2>2, <3>3, <3>4 DEF Order!Place
  <2>7. Order!Next
    BY <1>0, <2>1, <2>6, NeededInNodes DEF Order!Next
  <2> QED BY <2>1, <2>5, <2>7
<1>4. CASE Finish
  <2>1. /\ Order!Needed = visited /\ verdict' = "ordered" /\ visited' = visited
        /\ ordered' = ordered /\ visiting' = visiting /\ frames' = frames /\ root' = root
    BY <1>0, <1>4, EndIsComplete DEF Finish, walk
  <2>2. WalkInv'
    <3>1. ResolverTypeOK' /\ CallsArePath' /\ CallsFit'
      BY <1>0, <2>1 DEF WalkInv, ResolverTypeOK, IsGraph, CallsArePath, CallsFit
    <3>2. BehindIsDone' /\ DependenciesFirst' /\ PlacedIsVisited'
      BY <1>0, <2>1 DEF WalkInv, BehindIsDone, DependenciesFirst, PlacedIsVisited
    <3> QED BY <3>1, <3>2 DEF WalkInv
  <2>3. RootsAreDone'
    BY <1>0, <2>1 DEF RootsAreDone
  <2>4. Order!Range(ordered) = visited
    BY DEF WalkInv, PlacedIsVisited, ResolverTypeOK, Order!Range
  <2>5. Order!Succeed
    BY <1>0, <2>1, <2>4 DEF Order!Succeed
  <2>6. Order!Next
    BY <1>0, <2>5 DEF Order!Next
  <2> QED BY <2>2, <2>3, <2>6
<1> QED BY <1>1, <1>2, <1>3, <1>4

-----------------------------------------------------------------------------
(* The compiler.                                                           *)

CompilerTypeOK ==
    /\ contracts \in Seq(Contracts)
    /\ taken \in 0..Len(contracts)
    /\ DOMAIN by_id \subseteq Nodes /\ by_id \in [DOMAIN by_id -> Contents \ Invalid]
    /\ stage \in {"contracts", "walk", "compiled"} \cup Refusals
    /\ DOMAIN snapshot \subseteq Nodes /\ snapshot \in [DOMAIN snapshot -> Contents \ Invalid]

\* by_id holds the contracts taken so far, no two of which have one id.
TakenOnce ==
    /\ \A n \in DOMAIN by_id : \E i \in 1..taken : contracts[i] = [id |-> n, content |-> by_id[n]]
    /\ \A i \in 1..taken : contracts[i].id \in DOMAIN by_id
    /\ \A i, j \in 1..taken : contracts[i].id = contracts[j].id => i = j
    /\ stage \in {"walk", "compiled"} => taken = Len(contracts)

\* The snapshot is of all that was ordered.
SnapshotIsOrder ==
    stage = "compiled" =>
        /\ verdict = "ordered"
        /\ DOMAIN snapshot = visited
        /\ \A n \in visited : n \in DOMAIN by_id /\ snapshot[n] = by_id[n]

CompilerInv ==
    /\ WalkInv
    /\ RootsAreDone
    /\ CompilerTypeOK
    /\ TakenOnce
    /\ SnapshotIsOrder

LEMMA InvImpliesProperties ==
    ASSUME CompilerInv
    PROVE  TypeOK /\ DependenciesFirst /\ CallsArePath /\ SnapshotIsClosed
<1>1. TypeOK /\ DependenciesFirst /\ CallsArePath
  BY DEF CompilerInv, WalkInv, CompilerTypeOK, TypeOK
<1>2. ASSUME stage = "compiled"
      PROVE  /\ DOMAIN snapshot = Order!Needed
             /\ Order!Closed(Order!Needed)
  <2>1. DOMAIN snapshot = visited /\ visited = Order!Needed
    BY <1>2 DEF CompilerInv, SnapshotIsOrder, RootsAreDone
  <2>2. IsGraph /\ roots \in Seq(Nodes)
    BY DEF CompilerInv, WalkInv, ResolverTypeOK
  <2>3. Order!Range(roots) \subseteq Order!Needed
    BY <2>2, NeededIsClosed DEF Order!Range
  <2>4. ASSUME NEW n \in Order!Needed \cap DOMAIN graph
        PROVE  Order!Range(graph[n]) \subseteq Order!Needed
    <3>1. graph[n] \in Seq(Nodes)
      BY <2>2 DEF IsGraph
    <3>2. \A k \in 1..Len(graph[n]) : graph[n][k] \in Order!Needed
      BY <2>2, NeededIsClosed
    <3> QED BY <3>1, <3>2 DEF Order!Range
  <2> QED BY <2>1, <2>3, <2>4 DEF Order!Closed
<1>3. ASSUME stage = "compiled"
      PROVE  /\ \A n \in DOMAIN snapshot : \E i \in DOMAIN contracts :
                  contracts[i] = [id |-> n, content |-> snapshot[n]]
             /\ \A i, j \in DOMAIN contracts : contracts[i].id = contracts[j].id => i = j
  <2>1. taken = Len(contracts) /\ DOMAIN contracts = 1..taken
    BY <1>3 DEF CompilerInv, CompilerTypeOK, TakenOnce
  <2>2. \A n \in DOMAIN snapshot : n \in DOMAIN by_id /\ snapshot[n] = by_id[n]
    BY <1>3 DEF CompilerInv, SnapshotIsOrder
  <2> QED BY <2>1, <2>2 DEF CompilerInv, TakenOnce
<1> QED BY <1>1, <1>2, <1>3 DEF SnapshotIsClosed

LEMMA InitHolds ==
    ASSUME Requests, CompilerInit
    PROVE  CompilerInv /\ Order!Init
<1> USE DEF Requests, CompilerInit, ResolverInit
<1>1. Len(ordered) = 0 /\ Len(frames) = 0 /\ DOMAIN frames = {} /\ DOMAIN ordered = {}
  OBVIOUS
<1>2. 1..Len(ordered) = {} /\ 1..Len(frames) = {} /\ 1..(root - 1) = {}
  BY <1>1
<1>3. ResolverTypeOK
  BY DEF ResolverTypeOK
<1>4. CallsArePath /\ CallsFit /\ BehindIsDone /\ DependenciesFirst
  BY <1>1, <1>2 DEF CallsArePath, CallsFit, BehindIsDone, DependenciesFirst
<1>5. PlacedIsVisited
  BY <1>2 DEF PlacedIsVisited
<1>6. RootsAreDone
  BY <1>2 DEF RootsAreDone
<1>7. DOMAIN by_id = {} /\ DOMAIN snapshot = {} /\ 1..taken = {}
  BY DEF Nothing
<1>8. CompilerTypeOK
  BY <1>7 DEF CompilerTypeOK
<1>9. TakenOnce /\ SnapshotIsOrder
  BY <1>7 DEF TakenOnce, SnapshotIsOrder
<1>10. Order!Init
  BY DEF Order!Init, Order!IsGraph, IsGraph
<1> QED BY <1>3, <1>4, <1>5, <1>6, <1>8, <1>9, <1>10 DEF CompilerInv, WalkInv

\* While the walk is not running its state does not change.
LEMMA WalkRests ==
    ASSUME WalkInv, RootsAreDone, UNCHANGED resolver
    PROVE  /\ WalkInv' /\ RootsAreDone'
           /\ UNCHANGED <<Order!input, ordered, verdict>>
<1>1. /\ graph' = graph /\ roots' = roots /\ ordered' = ordered /\ visited' = visited
      /\ visiting' = visiting /\ frames' = frames /\ root' = root /\ verdict' = verdict
      /\ UNCHANGED Order!input
  BY DEF resolver, input, walk, Order!input
<1>2. Order!Needed' = Order!Needed
  BY <1>1 DEF Order!Needed, Order!Closed
<1>3. ResolverTypeOK' /\ CallsArePath' /\ CallsFit'
  BY <1>1 DEF WalkInv, ResolverTypeOK, IsGraph, CallsArePath, CallsFit
<1>4. BehindIsDone' /\ DependenciesFirst' /\ PlacedIsVisited' /\ RootsAreDone'
  BY <1>1, <1>2 DEF WalkInv, BehindIsDone, DependenciesFirst, PlacedIsVisited, RootsAreDone
<1> QED BY <1>1, <1>3, <1>4 DEF WalkInv

LEMMA CompilerSteps ==
    ASSUME CompilerInv, [CompilerNext]_vars
    PROVE  CompilerInv' /\ [Order!Next]_<<Order!input, ordered, verdict>>
<1> USE DEF CompilerInv
<1>1. CASE Take
  <2>1. WalkInv' /\ RootsAreDone' /\ UNCHANGED <<Order!input, ordered, verdict>>
    BY <1>1, WalkRests DEF Take
  <2> DEFINE c == contracts[taken + 1]
  <2>2. /\ taken \in Nat /\ taken + 1 \in 1..Len(contracts) /\ taken' = taken + 1
        /\ Len(contracts) \in Nat
    BY <1>1 DEF Take, CompilerTypeOK
  <2>3. c \in Contracts /\ c.id \in Nodes /\ c.content \in Contents \ Invalid /\ c.id \notin DOMAIN by_id
    <3>1. c \in Contracts
      BY <2>2 DEF CompilerTypeOK
    <3>2. c.id \notin DOMAIN by_id /\ c.content \notin Invalid
      BY <1>1 DEF Take, MayTake, Current
    <3> QED BY <3>1, <3>2 DEF Contracts
  <2>4. /\ by_id' = [n \in DOMAIN by_id \cup {c.id} |-> IF n = c.id THEN c.content ELSE by_id[n]]
        /\ contracts' = contracts /\ stage' = stage /\ snapshot' = snapshot /\ stage = "contracts"
    BY <1>1 DEF Take, Current
  <2>5. c = [id |-> c.id, content |-> c.content]
    BY <2>3 DEF Contracts
  <2>6. taken' \in 0..Len(contracts) /\ \A i \in 1..taken' : i \in 1..taken \/ i = taken + 1
    BY <2>2
  <2>7. \A i \in 1..taken : i \in 1..taken' /\ i # taken + 1
    BY <2>2
  <2>8. taken + 1 \in 1..taken'
    BY <2>2
  <2> HIDE DEF c
  <2>9. CompilerTypeOK'
    BY <2>3, <2>4, <2>6 DEF CompilerTypeOK
  <2>10. TakenOnce'
    <3>1. c = contracts[taken + 1]
      BY DEF c
    <3>2. \A n \in DOMAIN by_id' : \E i \in 1..taken' : contracts[i] = [id |-> n, content |-> by_id'[n]]
      BY <2>3, <2>4, <2>5, <2>7, <2>8, <3>1 DEF TakenOnce
    <3>3. \A i \in 1..taken' : contracts[i].id \in DOMAIN by_id'
      BY <2>4, <2>6, <3>1 DEF TakenOnce
    <3>4. \A i, j \in 1..taken' : contracts[i].id = contracts[j].id => i = j
      BY <2>3, <2>6, <3>1 DEF TakenOnce
    <3> QED BY <2>4, <3>2, <3>3, <3>4 DEF TakenOnce
  <2>11. SnapshotIsOrder'
    BY <2>4 DEF SnapshotIsOrder
  <2> QED BY <2>1, <2>9, <2>10, <2>11
<1>2. CASE \E why \in Refusals : Refuse(why)
  <2>1. WalkInv' /\ RootsAreDone' /\ UNCHANGED <<Order!input, ordered, verdict>>
    BY <1>2, WalkRests DEF Refuse
  <2>2. /\ contracts' = contracts /\ taken' = taken /\ by_id' = by_id /\ snapshot' = snapshot
        /\ stage' \in Refusals
    BY <1>2 DEF Refuse
  <2>3. stage' # "walk" /\ stage' # "compiled"
    BY <2>2 DEF Refusals
  <2>4. CompilerTypeOK' /\ TakenOnce' /\ SnapshotIsOrder'
    BY <2>2, <2>3 DEF CompilerTypeOK, TakenOnce, SnapshotIsOrder
  <2> QED BY <2>1, <2>4
<1>3. CASE StartWalk
  <2>1. WalkInv' /\ RootsAreDone' /\ UNCHANGED <<Order!input, ordered, verdict>>
    BY <1>3, WalkRests DEF StartWalk
  <2>2. CompilerTypeOK' /\ TakenOnce' /\ SnapshotIsOrder'
    BY <1>3 DEF StartWalk, CompilerTypeOK, TakenOnce, SnapshotIsOrder
  <2> QED BY <2>1, <2>2
<1>4. CASE Walk
  <2>1. WalkInv' /\ RootsAreDone' /\ [Order!Next]_<<Order!input, ordered, verdict>>
    BY <1>4, WalkSteps DEF Walk
  <2>2. CompilerTypeOK' /\ TakenOnce' /\ SnapshotIsOrder'
    BY <1>4 DEF Walk, compiler, CompilerTypeOK, TakenOnce, SnapshotIsOrder
  <2> QED BY <2>1, <2>2
<1>5. CASE TakeSnapshot
  <2>1. WalkInv' /\ RootsAreDone' /\ UNCHANGED <<Order!input, ordered, verdict>>
    BY <1>5, WalkRests DEF TakeSnapshot
  <2>2. Range(ordered) = visited /\ visited \subseteq Nodes
    BY DEF Range, WalkInv, PlacedIsVisited, ResolverTypeOK
  <2>3. /\ contracts' = contracts /\ taken' = taken /\ by_id' = by_id /\ stage = "walk"
        /\ stage' = "compiled" /\ verdict' = "ordered" /\ visited' = visited
        /\ snapshot' = [n \in visited |-> by_id[n]] /\ visited \subseteq DOMAIN by_id
    BY <1>5, <2>2 DEF TakeSnapshot, AllSupplied, resolver, walk
  <2>4. CompilerTypeOK' /\ TakenOnce' /\ SnapshotIsOrder'
    <3>1. DOMAIN snapshot' = visited /\ \A n \in visited : snapshot'[n] = by_id[n]
      BY <2>3
    <3>2. CompilerTypeOK'
      BY <2>2, <2>3 DEF CompilerTypeOK
    <3>3. TakenOnce'
      BY <2>3 DEF TakenOnce
    <3>4. SnapshotIsOrder'
      BY <2>3, <3>1 DEF SnapshotIsOrder
    <3> QED BY <3>2, <3>3, <3>4
  <2> QED BY <2>1, <2>4
<1>6. CASE UNCHANGED vars
  <2>1. WalkInv' /\ RootsAreDone' /\ UNCHANGED <<Order!input, ordered, verdict>>
    BY <1>6, WalkRests DEF vars
  <2>2. visited' = visited /\ verdict' = verdict
    BY <1>6 DEF vars, resolver, walk
  <2>3. CompilerTypeOK' /\ TakenOnce' /\ SnapshotIsOrder'
    BY <1>6, <2>2 DEF vars, compiler, CompilerTypeOK, TakenOnce, SnapshotIsOrder
  <2> QED BY <2>1, <2>3
<1>7. RefuseContract \/ StopWalk \/ RefuseMissing => \E why \in Refusals : Refuse(why)
  BY DEF RefuseContract, StopWalk, RefuseMissing, Refusals
<1> QED BY <1>1, <1>2, <1>3, <1>4, <1>5, <1>6, <1>7 DEF CompilerNext

THEOREM CompilerInvariant == Spec => []CompilerInv
<1>1. Requests /\ CompilerInit => CompilerInv
  BY InitHolds
<1>2. CompilerInv /\ [CompilerNext]_vars => CompilerInv'
  BY CompilerSteps
<1> QED BY <1>1, <1>2, PTL DEF Spec

\* Every request's walk implements the abstract order: what is placed is
\* needed and comes after its dependencies, a result is complete, and a
\* refusal has its cause among what is needed (dependencies.py:12-33).
THEOREM WalkImplementsOrder == Spec => OrderSpec
<1>1. Requests /\ CompilerInit => Order!Init
  BY InitHolds
<1>2. CompilerInv /\ [CompilerNext]_vars => [Order!Next]_<<Order!input, ordered, verdict>>
  BY CompilerSteps
<1> QED BY <1>1, <1>2, CompilerInvariant, PTL DEF Spec, OrderSpec, Order!Spec

\* At every moment dependencies come first, and the calls in progress are a
\* path that meets no contract twice (dependencies.py:17-29).
THEOREM DependenciesComeFirst == Spec => [](DependenciesFirst /\ CallsArePath)
<1>1. CompilerInv => DependenciesFirst /\ CallsArePath
  BY InvImpliesProperties
<1> QED BY <1>1, CompilerInvariant, PTL

\* What is compiled is what the roots need, with the contents supplied for it,
\* once (protocol.py:28-40).
THEOREM CompiledIsClosed == Spec => [](TypeOK /\ SnapshotIsClosed)
<1>1. CompilerInv => TypeOK /\ SnapshotIsClosed
  BY InvImpliesProperties
<1> QED BY <1>1, CompilerInvariant, PTL
-----------------------------------------------------------------------------
(* Every step brings the compile nearer to its end.                        *)

Ended == {"compiled"} \cup Refusals

PhasesLeft ==
    IF stage \in Ended THEN 0
    ELSE IF stage = "contracts" THEN 3
    ELSE IF verdict = "none" THEN 2 ELSE 1

ContractsLeft == Len(contracts) - taken

\* The pinned contracts that no call of visit has been entered for.
Fresh == DOMAIN graph \ (visiting \cup visited)

RootsLeft == IF verdict = "none" THEN Len(roots) + 1 - root ELSE 0

\* Of the innermost call.
DependenciesLeft == IF frames = <<>> THEN 0 ELSE Len(graph[Top.node]) + 1 - Top.next

CountsAreNatural ==
    /\ PhasesLeft \in Nat
    /\ ContractsLeft \in Nat
    /\ Cardinality(Fresh) \in Nat
    /\ RootsLeft \in Nat
    /\ Len(frames) \in Nat
    /\ DependenciesLeft \in Nat

Less(new, old, further) == new < old \/ (new = old /\ further)

\* The first of the counts that changes becomes smaller.
Advances ==
    Less(PhasesLeft', PhasesLeft,
      Less(ContractsLeft', ContractsLeft,
        Less(Cardinality(Fresh)', Cardinality(Fresh),
          Less(RootsLeft', RootsLeft,
            Less(Len(frames)', Len(frames),
              DependenciesLeft' < DependenciesLeft)))))

LEMMA CountsType ==
    ASSUME IsFiniteSet(Nodes), CompilerInv
    PROVE  IsFiniteSet(Fresh) /\ CountsAreNatural
<1>1. /\ DOMAIN graph \subseteq Nodes /\ frames \in Seq(Frames) /\ roots \in Seq(Nodes)
      /\ contracts \in Seq(Contracts) /\ taken \in 0..Len(contracts) /\ root \in Nat \ {0}
  BY DEF CompilerInv, WalkInv, ResolverTypeOK, IsGraph, CompilerTypeOK
<1>2. IsFiniteSet(Fresh) /\ Cardinality(Fresh) \in Nat
  <2>1. Fresh \subseteq Nodes
    BY <1>1 DEF Fresh
  <2>2. IsFiniteSet(Fresh)
    BY <2>1, FS_Subset
  <2> QED BY <2>2, FS_CardinalityType
<1>3. PhasesLeft \in Nat
  BY DEF PhasesLeft
<1>4. ContractsLeft \in Nat
  BY <1>1 DEF ContractsLeft
<1>5. RootsLeft \in Nat
  BY <1>1 DEF CompilerInv, RootsAreDone, RootsLeft
<1>6. DependenciesLeft \in Nat
  <2> SUFFICES ASSUME frames # <<>> PROVE Len(graph[Top.node]) + 1 - Top.next \in Nat
    BY DEF DependenciesLeft
  <2>1. Len(frames) \in 1..Len(frames) /\ Top \in Frames
    BY <1>1 DEF Top
  <2>2. Top.node \in DOMAIN graph /\ Top.next <= Len(graph[Top.node]) + 1 /\ Top.next \in Nat
    BY <2>1 DEF CompilerInv, WalkInv, CallsFit, Top, Frames
  <2>3. Len(graph[Top.node]) \in Nat
    BY <2>2 DEF CompilerInv, WalkInv, ResolverTypeOK, IsGraph
  <2> QED BY <2>2, <2>3
<1> QED BY <1>1, <1>2, <1>3, <1>4, <1>5, <1>6 DEF CountsAreNatural

\* A contract that is entered is no longer fresh.
LEMMA EnterLessens ==
    ASSUME IsFiniteSet(Fresh), NEW STATE n, NEW STATE calls, Enter(n, calls), graph' = graph
    PROVE  Cardinality(Fresh)' < Cardinality(Fresh)
<1>1. n \in Fresh /\ Fresh' = Fresh \ {n}
  BY DEF Enter, Fresh
<1>2. Cardinality(Fresh \ {n}) = Cardinality(Fresh) - 1 /\ Cardinality(Fresh) \in Nat
  BY <1>1, FS_RemoveElement, FS_CardinalityType
<1>3. Cardinality(Fresh)' = Cardinality(Fresh \ {n})
  BY <1>1
<1> QED BY <1>2, <1>3

LEMMA WalkAdvances ==
    ASSUME IsFiniteSet(Fresh), CountsAreNatural, CountsAreNatural', CompilerInv, Walk
    PROVE  Advances
<1>1. /\ stage = "walk" /\ stage' = "walk" /\ contracts' = contracts /\ taken' = taken
      /\ verdict = "none" /\ graph' = graph /\ roots' = roots
      /\ NextRoot \/ NextDependency \/ Leave \/ Finish
  BY DEF Walk, ResolverNext, compiler, input
<1>2. ContractsLeft' = ContractsLeft
  BY <1>1 DEF ContractsLeft
<1>3. "walk" \notin Ended /\ PhasesLeft = 2
  BY <1>1 DEF PhasesLeft, Ended, Refusals
<1>4. CASE verdict' # "none"
  <2>1. PhasesLeft' = 1
    BY <1>1, <1>3, <1>4 DEF PhasesLeft
  <2> QED BY <1>3, <2>1 DEF Advances, Less
<1>5. CASE verdict' = "none"
  <2>1. PhasesLeft' = PhasesLeft
    BY <1>1, <1>3, <1>5 DEF PhasesLeft
  <2>2. CASE Cardinality(Fresh)' < Cardinality(Fresh)
    BY <1>2, <2>1, <2>2 DEF Advances, Less
  <2>3. CASE NextRoot
    <3>1. CASE Enter(roots[root], frames)
      BY <1>1, <2>2, <3>1, EnterLessens
    <3>2. CASE Skip(roots[root], frames)
      <4>1. Fresh' = Fresh /\ root' = root + 1
        BY <1>1, <2>3, <3>2 DEF Skip, Fresh, NextRoot
      <4>2. RootsLeft' < RootsLeft
        <5>1. Len(roots) \in Nat /\ root \in Nat
          BY DEF CompilerInv, WalkInv, ResolverTypeOK
        <5> QED BY <1>1, <1>5, <4>1, <5>1 DEF RootsLeft
      <4> QED BY <1>2, <2>1, <4>1, <4>2 DEF Advances, Less
    <3> QED BY <1>5, <2>3, <3>1, <3>2, <1>1 DEF NextRoot, Visit, Raise
  <2>4. CASE NextDependency
    <3> DEFINE n == graph[Top.node][Top.next]
    <3>1. CASE Enter(n, Advanced)
      BY <1>1, <2>2, <3>1, EnterLessens
    <3>2. CASE Skip(n, Advanced)
      <4>1. Fresh' = Fresh /\ RootsLeft' = RootsLeft /\ frames' = Advanced /\ frames # <<>>
        BY <1>1, <1>5, <2>4, <3>2 DEF Skip, Fresh, NextDependency, RootsLeft
      <4>2. /\ frames \in Seq(Frames) /\ Len(frames) \in Nat \ {0} /\ Len(frames) \in 1..Len(frames)
        BY <4>1 DEF CompilerInv, WalkInv, ResolverTypeOK
      <4>3. Called(n, Advanced)
        BY <2>4, DependencyIsCalled DEF CompilerInv
      <4>4. Len(frames') = Len(frames) /\ frames' # <<>>
        BY <4>1, <4>2, <4>3 DEF Called
      <4>5. Top'.node = Top.node /\ Top'.next = Top.next + 1
        BY <4>1, <4>2, <4>3, <4>4 DEF Called, Top
      <4>6. Top.next \in Nat /\ Len(graph[Top.node]) \in Nat
        <5>1. Top \in Frames /\ Top.node \in DOMAIN graph
          BY <4>2 DEF Top, CompilerInv, WalkInv, CallsFit
        <5> QED BY <5>1 DEF Frames, CompilerInv, WalkInv, ResolverTypeOK, IsGraph
      <4>7. DependenciesLeft' < DependenciesLeft
        <5>1. DependenciesLeft = Len(graph[Top.node]) + 1 - Top.next
          BY <4>1 DEF DependenciesLeft
        <5>2. DependenciesLeft' = Len(graph[Top.node]) + 1 - (Top.next + 1)
          BY <1>1, <4>4, <4>5 DEF DependenciesLeft
        <5>3. \A l, k \in Nat : l + 1 - (k + 1) < l + 1 - k
          OBVIOUS
        <5> QED BY <4>6, <5>1, <5>2, <5>3
      <4> QED BY <1>2, <2>1, <4>1, <4>4, <4>7 DEF Advances, Less
    <3> QED BY <1>5, <2>4, <3>1, <3>2, <1>1 DEF NextDependency, Visit, Raise
  <2>5. CASE Leave
    <3>1. /\ frames \in Seq(Frames) /\ frames # <<>> /\ frames' = SubSeq(frames, 1, Len(frames) - 1)
          /\ root' = root /\ visiting' = visiting \ {Top.node} /\ visited' = visited \cup {Top.node}
      BY <2>5 DEF Leave, CompilerInv, WalkInv, ResolverTypeOK
    <3>2. Len(frames') < Len(frames)
      BY <3>1
    <3>3. Top.node \in visiting
      <4>1. Len(frames) \in DOMAIN frames
        BY <3>1
      <4> QED BY <4>1 DEF Top, CompilerInv, WalkInv, CallsArePath
    <3>4. Fresh' = Fresh /\ RootsLeft' = RootsLeft
      BY <1>1, <1>5, <3>1, <3>3 DEF Fresh, RootsLeft
    <3> QED BY <1>2, <2>1, <3>2, <3>4 DEF Advances, Less
  <2> QED BY <1>1, <1>5, <2>3, <2>4, <2>5 DEF Finish
<1> QED BY <1>4, <1>5

\* Whatever the graph, with cycles or contracts missing from it: each step of
\* a compile makes smaller the first that it changes of six numbers, so there
\* is no compile that goes on for ever (dependencies.py:17-33,
\* protocol.py:30-40).
THEOREM CompileAdvances ==
    ASSUME IsFiniteSet(Nodes)
    PROVE  Spec => [](CountsAreNatural) /\ [][Advances]_vars
<1>1. CompilerInv => CountsAreNatural
  BY CountsType
<1>2. CompilerInv' => CountsAreNatural'
  BY <1>1, PTL
<1>3. ASSUME CompilerInv, CompilerInv', CompilerNext PROVE Advances
  <2>1. IsFiniteSet(Fresh) /\ CountsAreNatural /\ CountsAreNatural'
    BY <1>3, <1>2, CountsType
  <2>2. CASE Take
    <3>1. PhasesLeft' = PhasesLeft
      BY <2>2 DEF Take, PhasesLeft, resolver
    <3>2. ContractsLeft' < ContractsLeft
      BY <1>3, <2>2 DEF Take, ContractsLeft, CompilerInv, CompilerTypeOK
    <3> QED BY <3>1, <3>2 DEF Advances, Less
  <2>3. CASE RefuseContract \/ StopWalk \/ RefuseMissing \/ TakeSnapshot
    <3>1. stage \in {"contracts", "walk"} /\ stage' \in Ended
      BY <2>3 DEF RefuseContract, StopWalk, RefuseMissing, TakeSnapshot, Refuse, Ended, Refusals
    <3>2. PhasesLeft' = 0 /\ PhasesLeft \in {1, 2, 3}
      BY <3>1 DEF PhasesLeft, Ended, Refusals
    <3> QED BY <3>2 DEF Advances, Less
  <2>4. CASE StartWalk
    <3>1. PhasesLeft' \in {1, 2} /\ PhasesLeft = 3
      BY <2>4 DEF StartWalk, PhasesLeft, Ended, Refusals
    <3> QED BY <3>1 DEF Advances, Less
  <2> QED BY <1>3, <2>1, <2>2, <2>3, <2>4, WalkAdvances DEF CompilerNext
<1>4. CompilerInv /\ CompilerInv' /\ [CompilerNext]_vars => [Advances]_vars
  BY <1>3
<1> QED BY <1>1, <1>4, CompilerInvariant, PTL DEF Spec
=============================================================================
