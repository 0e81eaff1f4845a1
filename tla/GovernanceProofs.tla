-------------------------- MODULE GovernanceProofs --------------------------
(***************************************************************************)
(* Proofs about Governance: the loader, the merge and the permissions.     *)
(*                                                                         *)
(* The merge: what has been merged so far is equal to what each segment    *)
(* behind it gives, and is given by one of them under the owner entered;   *)
(* so a conflict with it is a conflict with that segment.                  *)
(*                                                                         *)
(* The loader: the containers of the calls in progress are those in        *)
(* active, so a container that is not active can be entered.               *)
(*                                                                         *)
(* The permissions: what a redaction leaves of a part is defined by        *)
(* recursion over what is in it.  Parts have a rank above what is in them, *)
(* so there is a function that satisfies the recursion, and it and the     *)
(* ways on which no key is sensitive are equal by induction on the rank.   *)
(***************************************************************************)
EXTENDS Governance, FiniteSetTheorems, SequenceTheorems, TLAPS

-----------------------------------------------------------------------------
(* Induction, and functions whose values come one from the other.          *)

\* What holds of zero, and of the successor of each number of which it holds,
\* holds of every number: else the numbers up to the first exception could
\* each be sent to its predecessor among the exceptions, one too few.
LEMMA SetInduction ==
    ASSUME NEW S, 0 \in S, \A n \in Nat : n \in S => n + 1 \in S
    PROVE  \A n \in Nat : n \in S
<1> SUFFICES ASSUME NEW n \in Nat, n \notin S PROVE FALSE
  OBVIOUS
<1> DEFINE T == { k \in 0..n : k \notin S }
           before == [k \in T |-> k - 1]
<1>1. n \in T /\ T \in SUBSET (0..n)
  OBVIOUS
<1>2. IsFiniteSet(0..n) /\ IsFiniteSet(T)
  <2>1. IsFiniteSet(0..n)
    BY FS_Interval
  <2> HIDE DEF T
  <2> QED
    BY <1>1, <2>1, FS_Subset
<1>3. IsFiniteSet(T \ {n}) /\ Cardinality(T \ {n}) < Cardinality(T)
  <2> HIDE DEF T
  <2>1. Cardinality(T) \in Nat
    BY <1>2, FS_CardinalityType
  <2>2. IsFiniteSet(T \ {n}) /\ Cardinality(T \ {n}) = Cardinality(T) - 1
    BY <1>1, <1>2, FS_RemoveElement
  <2> QED
    BY <2>1, <2>2
<1>4. \A k \in T : k - 1 \in T \ {n}
  OBVIOUS
<1>5. before \in [T -> T \ {n}]
  BY <1>4
<1>6. \E x, y \in T : x # y /\ before[x] = before[y]
  <2> HIDE DEF T, before
  <2> QED
    BY <1>2, <1>3, <1>5, FS_PigeonHole
<1> QED
  BY <1>6

\* There is a function of which the first value is w and each further one
\* comes from the one before.
Iterated(W, w, max, onward) ==
    \E f \in [0..max -> W] : f[0] = w /\ \A n \in 1..max : f[n] = onward[n][f[n - 1]]

LEMMA StepsHaveFunction ==
    ASSUME NEW W, NEW w \in W, NEW max \in Nat, NEW onward \in [1..max -> [W -> W]]
    PROVE  Iterated(W, w, max, onward)
<1> DEFINE Upto(f, m) == f[0] = w /\ \A n \in 1..m : f[n] = onward[n][f[n - 1]]
           S == { m \in Nat : m <= max => \E f \in [0..max -> W] : Upto(f, m) }
<1>1. 0 \in S
  <2>1. Upto([n \in 0..max |-> w], 0)
    OBVIOUS
  <2> QED
    BY <2>1
<1>2. ASSUME NEW m \in Nat, m \in S PROVE m + 1 \in S
  <2> SUFFICES ASSUME m + 1 <= max PROVE \E f \in [0..max -> W] : Upto(f, m + 1)
    OBVIOUS
  <2>1. PICK f \in [0..max -> W] : Upto(f, m)
    BY <1>2
  <2> DEFINE g == [f EXCEPT ![m + 1] = onward[m + 1][f[m]]]
  <2>2. onward[m + 1][f[m]] \in W
    OBVIOUS
  <2>3. g \in [0..max -> W] /\ g[m + 1] = onward[m + 1][f[m]] /\ \A n \in 0..m : g[n] = f[n]
    BY <2>2
  <2>4. \A n \in 1..m : n - 1 \in 0..m /\ n \in 0..m
    OBVIOUS
  <2>5. \A n \in 1..(m + 1) : n = m + 1 \/ n \in 1..m
    OBVIOUS
  <2>6. Upto(g, m + 1)
    <3> HIDE DEF g
    <3> QED
      BY <2>1, <2>3, <2>4, <2>5
  <2> QED
    BY <2>3, <2>6
<1>3. max \in S
  <2> HIDE DEF S
  <2> QED
    BY <1>1, <1>2, SetInduction
<1> QED
  BY <1>3 DEF Iterated

-----------------------------------------------------------------------------
(* What the steps of the whole do to the loader and the merge.             *)

\* A new invocation starts with a loader that has not begun.
Restarted ==
    stage' = "unread" /\ calls' = <<>> /\ active' = {} /\ UNCHANGED <<file, root, items>>

LEMMA LineLeavesLoader == LineNext => UNCHANGED loader \/ Restarted
<1> SUFFICES ASSUME LineNext PROVE UNCHANGED loader \/ Restarted
  OBVIOUS
<1>1. ASSUME NEW c \in Commands, NEW d \in Databases, NEW a \in Arguments, Invoke(c, d, a)
      PROVE  Restarted
  BY <1>1 DEF Invoke, Restarted
<1>2. CASE ReturnFromGuard \/ ReturnFromLoad \/ ReturnFromCall \/ CheckReceipt \/ Consume
           \/ PrintSuccess \/ PrintError \/ Die \/ Expire \/ \E d \in Databases : Purge(d)
  BY <1>2 DEF ReturnFromGuard, ReturnFromLoad, ReturnFromCall, CheckReceipt, Consume, PrintSuccess,
              PrintError, Die, Expire, Purge
<1> QED
  BY <1>1, <1>2 DEF LineNext

LEMMA LoaderSteps == [Next]_vars => UNCHANGED loader \/ LoaderNext \/ Restarted
BY LineLeavesLoader
   DEF Next, vars, CommandStep, CommandNext, GuardStep, LoaderStep, MergerStep, CheckerStep,
       KnowledgeStep, ProbeStep, AccessStep, RegistriesStep

LEMMA MergerSteps == [Next]_vars => UNCHANGED merger \/ MergerNext
BY DEF Next, vars, CommandStep, GuardStep, LoaderStep, MergerStep, CheckerStep,
       KnowledgeStep, ProbeStep, AccessStep, RegistriesStep

-----------------------------------------------------------------------------
(* The merge.                                                              *)

BehindIsMerged ==
    \A i \in 1..merged :
        /\ segments[i].owner \in Owners
        /\ \A k \in DOMAIN segments[i].values :
             k \in DOMAIN result /\ <<segments[i].values[k], result[k]>> \in Equal

ResultIsGiven ==
    \A k \in DOMAIN result : \E i \in 1..merged :
        segments[i].owner = owners[k] /\ Gives(i, k, result[k])

MergerInv ==
    /\ MergerTypeOK
    /\ BehindIsMerged
    /\ ResultIsGiven
    /\ outcome = "merged" => merged = Len(segments)
    /\ RefusalsAreOrderFree

LEMMA EqualToSame ==
    ASSUME NEW u \in Literals, NEW v \in Literals, NEW w \in Literals,
           <<u, w>> \in Equal, <<v, w>> \in Equal
    PROVE  <<u, v>> \in Equal
<1>1. <<w, v>> \in Equal
  BY OwnershipAssumption
<1> QED
  BY <1>1, OwnershipAssumption

LEMMA SegmentType ==
    ASSUME MergerTypeOK, NEW i \in DOMAIN segments
    PROVE  /\ segments[i] \in Segments
           /\ segments[i].owner \in Owners \cup Strangers
           /\ DOMAIN segments[i].values \subseteq Keys
           /\ \A k \in DOMAIN segments[i].values : segments[i].values[k] \in Literals
<1>1. segments[i] \in Segments
  BY DEF MergerTypeOK
<1> QED
  BY <1>1 DEF Segments, PartialMaps

LEMMA ResultType ==
    ASSUME MergerTypeOK
    PROVE  /\ DOMAIN result \subseteq Keys
           /\ DOMAIN owners = DOMAIN result
           /\ \A k \in DOMAIN result : result[k] \in Literals /\ owners[k] \in Owners
BY DEF MergerTypeOK, PartialMaps

LEMMA MergerInitInv == Init => MergerInv
<1> SUFFICES ASSUME Init PROVE MergerInv
  OBVIOUS
<1>1. merged = 0 /\ outcome = "none" /\ segments \in Seq(Segments)
  BY DEF Init, MergerInit
<1>2. DOMAIN result = {} /\ DOMAIN owners = {}
  BY DEF Init, MergerInit
<1>3. result \in PartialMaps(Keys, Literals)
  <2>1. result = [k \in {} |-> k]
    BY <1>2 DEF Init, MergerInit
  <2> QED
    BY <2>1 DEF PartialMaps
<1>4. owners \in [DOMAIN result -> Owners]
  BY <1>2 DEF Init, MergerInit
<1>5. MergerTypeOK
  BY <1>1, <1>3, <1>4 DEF MergerTypeOK
<1> QED
  BY <1>1, <1>2, <1>5 DEF MergerInv, BehindIsMerged, ResultIsGiven, RefusalsAreOrderFree

LEMMA MergeSegmentKeeps ==
    ASSUME MergerInv, MergeSegment
    PROVE  MergerInv'
<1> DEFINE n == merged + 1
<1>1. n \in DOMAIN segments /\ merged \in Nat /\ Segment = segments[n]
  BY DEF MergerInv, MergerTypeOK, MergeSegment, Segment
<1>2. /\ DOMAIN Segment.values \subseteq Keys
      /\ \A k \in DOMAIN Segment.values : Segment.values[k] \in Literals
  BY <1>1, SegmentType DEF MergerInv
<1>3. /\ DOMAIN result \subseteq Keys
      /\ DOMAIN owners = DOMAIN result
      /\ \A k \in DOMAIN result : result[k] \in Literals /\ owners[k] \in Owners
  BY ResultType DEF MergerInv
<1>4. /\ DOMAIN result' = DOMAIN result \cup DOMAIN Segment.values
      /\ \A k \in DOMAIN result' :
           result'[k] = IF k \in DOMAIN Segment.values THEN Segment.values[k] ELSE result[k]
      /\ result' = [k \in DOMAIN result' |-> result'[k]]
  BY DEF MergeSegment, Overlaid
<1>5. /\ DOMAIN owners' = DOMAIN result'
      /\ \A k \in DOMAIN result' :
           owners'[k] = IF k \in DOMAIN Segment.values THEN Segment.owner ELSE owners[k]
      /\ owners' = [k \in DOMAIN result' |-> owners'[k]]
  BY <1>3, <1>4 DEF MergeSegment, OwnersAfter, Overlaid
<1>6. segments' = segments /\ outcome = "none" /\ outcome' = "none" /\ merged' = n
  BY DEF MergeSegment
<1>7. Segment.owner \in Owners
  BY DEF MergeSegment
<1>8. MergerTypeOK'
  <2>1. merged' \in 0..Len(segments')
    BY <1>1, <1>6 DEF MergerInv, MergerTypeOK
  <2>2. \A k \in DOMAIN result' : result'[k] \in Literals
    BY <1>2, <1>3, <1>4
  <2>3. result' \in [DOMAIN result' -> Literals]
    BY <2>2, <1>4
  <2>4. result' \in PartialMaps(Keys, Literals)
    BY <2>3, <1>2, <1>3, <1>4 DEF PartialMaps
  <2>5. \A k \in DOMAIN result' : owners'[k] \in Owners
    BY <1>3, <1>4, <1>5, <1>7
  <2>6. owners' \in [DOMAIN result' -> Owners]
    BY <2>5, <1>5
  <2> QED
    BY <2>1, <2>4, <2>6, <1>6 DEF MergerInv, MergerTypeOK
<1>9. BehindIsMerged'
  <2> SUFFICES ASSUME NEW i \in 1..n
               PROVE  /\ segments[i].owner \in Owners
                      /\ \A k \in DOMAIN segments[i].values :
                           k \in DOMAIN result' /\ <<segments[i].values[k], result'[k]>> \in Equal
    BY <1>6 DEF BehindIsMerged
  <2>1. CASE i = n
    BY <2>1, <1>1, <1>2, <1>4, <1>7, OwnershipAssumption
  <2>2. CASE i # n
    <3>1. i \in 1..merged /\ i \in DOMAIN segments
      <4>1. DOMAIN segments = 1..Len(segments) /\ Len(segments) \in Nat
        BY DEF MergerInv, MergerTypeOK
      <4>2. merged \in Nat /\ merged + 1 <= Len(segments)
        BY <1>1, <4>1
      <4> QED
        BY <2>2, <4>1, <4>2
    <3>2. segments[i].owner \in Owners
      BY <3>1 DEF MergerInv, BehindIsMerged
    <3>3. ASSUME NEW k \in DOMAIN segments[i].values
          PROVE  k \in DOMAIN result' /\ <<segments[i].values[k], result'[k]>> \in Equal
      <4>1. k \in DOMAIN result /\ <<segments[i].values[k], result[k]>> \in Equal
        BY <3>1, <3>3 DEF MergerInv, BehindIsMerged
      <4>2. segments[i].values[k] \in Literals /\ k \in Keys
        BY <3>1, <3>3, SegmentType DEF MergerInv
      <4>3. CASE k \in DOMAIN Segment.values
        <5>1. <<result[k], Segment.values[k]>> \in Equal
          BY <4>1, <4>2, <4>3 DEF MergeSegment, Conflicts
        <5>2. <<segments[i].values[k], Segment.values[k]>> \in Equal
          BY <4>1, <4>2, <5>1, <1>2, <1>3, <4>3, OwnershipAssumption
        <5> QED
          BY <5>2, <4>1, <4>3, <1>4
      <4>4. CASE k \notin DOMAIN Segment.values
        BY <4>1, <4>4, <1>4
      <4> QED
        BY <4>3, <4>4
    <3> QED
      BY <3>2, <3>3
  <2> QED
    BY <2>1, <2>2
<1>10. ResultIsGiven'
  <2> SUFFICES ASSUME NEW k \in DOMAIN result'
               PROVE  \E i \in 1..n :
                        /\ segments[i].owner = owners'[k]
                        /\ k \in DOMAIN segments[i].values
                        /\ segments[i].values[k] = result'[k]
    BY <1>6 DEF ResultIsGiven, Gives
  <2>1. CASE k \in DOMAIN Segment.values
    <3>1. n \in 1..n
      BY <1>1
    <3> QED
      BY <3>1, <2>1, <1>1, <1>4, <1>5
  <2>2. CASE k \notin DOMAIN Segment.values
    <3>1. k \in DOMAIN result
      BY <2>2, <1>4
    <3>2. PICK i \in 1..merged : segments[i].owner = owners[k] /\ Gives(i, k, result[k])
      BY <3>1 DEF MergerInv, ResultIsGiven
    <3>3. i \in 1..n
      BY <3>2, <1>1
    <3>4. result'[k] = result[k] /\ owners'[k] = owners[k]
      BY <2>2, <1>4, <1>5
    <3> QED
      BY <3>2, <3>3, <3>4 DEF Gives
  <2> QED
    BY <2>1, <2>2
<1> QED
  BY <1>6, <1>8, <1>9, <1>10 DEF MergerInv, RefusalsAreOrderFree

\* The segment that conflicts with the result disagrees with the one behind
\* it that gave the result its value.
LEMMA RefuseSegmentKeeps ==
    ASSUME MergerInv, RefuseSegment
    PROVE  MergerInv'
<1>1. UNCHANGED <<segments, merged, result, owners>> /\ outcome = "none"
      /\ outcome' \in {"unknown_owner", "conflict"}
  BY DEF RefuseSegment
<1>2. /\ merged + 1 \in DOMAIN segments /\ merged \in Nat
      /\ Segment = segments[merged + 1]
  BY DEF MergerInv, MergerTypeOK, RefuseSegment, Segment
<1>3. outcome' = "unknown_owner" => \E i \in DOMAIN segments : segments[i].owner \in Strangers
  BY <1>2 DEF RefuseSegment
<1>4. ASSUME outcome' = "conflict"
      PROVE  \E i, j \in DOMAIN segments : Disagree(i, j)
  <2>1. PICK k \in Keys : Conflicts(k)
    BY <1>4 DEF RefuseSegment
  <2>2. PICK i \in 1..merged : Gives(i, k, result[k])
    BY <2>1 DEF Conflicts, MergerInv, ResultIsGiven
  <2>3. i \in DOMAIN segments
    <3>1. DOMAIN segments = 1..Len(segments) /\ Len(segments) \in Nat
      BY DEF MergerInv, MergerTypeOK
    <3> QED
      BY <1>2, <3>1
  <2>4. Disagree(i, merged + 1)
    BY <2>1, <2>2, <1>2 DEF Conflicts, Gives, Disagree
  <2> QED
    BY <2>3, <2>4, <1>2
<1>5. RefusalsAreOrderFree'
  BY <1>1, <1>3, <1>4 DEF RefusalsAreOrderFree, Disagree
<1>6. MergerTypeOK' /\ BehindIsMerged' /\ ResultIsGiven'
  BY <1>1 DEF MergerInv, MergerTypeOK, BehindIsMerged, ResultIsGiven, Gives
<1> QED
  BY <1>1, <1>5, <1>6 DEF MergerInv

\* When all segments are behind it, no two disagree: both are equal to the
\* result.
LEMMA ReturnKeeps ==
    ASSUME MergerInv, Return
    PROVE  MergerInv'
<1>1. /\ UNCHANGED <<segments, merged, result, owners>> /\ merged = Len(segments)
      /\ outcome' = "merged"
  BY DEF Return
<1>2. DOMAIN segments = 1..merged
  BY <1>1 DEF MergerInv, MergerTypeOK
<1>3. ASSUME NEW i \in DOMAIN segments, NEW j \in DOMAIN segments
      PROVE  ~ Disagree(i, j)
  <2> SUFFICES ASSUME NEW k \in DOMAIN segments[i].values \cap DOMAIN segments[j].values
               PROVE  <<segments[i].values[k], segments[j].values[k]>> \in Equal
    BY DEF Disagree
  <2>1. /\ k \in DOMAIN result
        /\ <<segments[i].values[k], result[k]>> \in Equal
        /\ <<segments[j].values[k], result[k]>> \in Equal
    BY <1>2 DEF MergerInv, BehindIsMerged
  <2>2. /\ segments[i].values[k] \in Literals /\ segments[j].values[k] \in Literals
        /\ result[k] \in Literals
    BY <2>1, SegmentType, ResultType DEF MergerInv
  <2> QED
    BY <2>1, <2>2, EqualToSame
<1>4. \A i \in DOMAIN segments : segments[i].owner \in Owners
  BY <1>2 DEF MergerInv, BehindIsMerged
<1>5. RefusalsAreOrderFree'
  BY <1>1, <1>3, <1>4 DEF RefusalsAreOrderFree, Disagree
<1>6. MergerTypeOK' /\ BehindIsMerged' /\ ResultIsGiven'
  BY <1>1 DEF MergerInv, MergerTypeOK, BehindIsMerged, ResultIsGiven, Gives
<1> QED
  BY <1>1, <1>5, <1>6 DEF MergerInv

LEMMA MergerStepInv == MergerInv /\ [Next]_vars => MergerInv'
<1> SUFFICES ASSUME MergerInv, [Next]_vars PROVE MergerInv'
  OBVIOUS
<1>1. CASE UNCHANGED merger
  <2>1. UNCHANGED <<segments, merged, result, owners, outcome>>
    BY <1>1 DEF merger
  <2>2. MergerTypeOK'
    BY <2>1 DEF MergerInv, MergerTypeOK
  <2>3. BehindIsMerged' /\ ResultIsGiven'
    BY <2>1 DEF MergerInv, BehindIsMerged, ResultIsGiven, Gives
  <2>4. RefusalsAreOrderFree'
    BY <2>1 DEF MergerInv, RefusalsAreOrderFree, Disagree
  <2> QED
    BY <2>1, <2>2, <2>3, <2>4 DEF MergerInv
<1>2. CASE MergerNext
  BY <1>2, MergeSegmentKeeps, RefuseSegmentKeeps, ReturnKeeps DEF MergerNext
<1> QED
  BY <1>1, <1>2, MergerSteps

\* For every list of segments: a merge is complete, equal to what each
\* segment gives, attributed to an owner who gave the value as it is entered,
\* and is refused just when a segment is a stranger's or two disagree.
THEOREM MergeIsSound == Spec => [](MergedIsAttributed /\ RefusalsAreOrderFree)
<1>1. MergerInv => MergedIsAttributed /\ RefusalsAreOrderFree
  <2> SUFFICES ASSUME MergerInv, outcome = "merged"
               PROVE  MergedIsAttributed
    BY DEF MergerInv, MergedIsAttributed
  <2>1. DOMAIN segments = 1..merged
    BY DEF MergerInv, MergerTypeOK
  <2> QED
    BY <2>1 DEF MergerInv, MergedIsAttributed, BehindIsMerged, ResultIsGiven
<1> QED
  BY <1>1, MergerInitInv, MergerStepInv, PTL DEF Spec

-----------------------------------------------------------------------------
(* The loader.                                                             *)

\* A way down in the document doc.
WayIn(doc, s) ==
    \A i \in DOMAIN s : i > 1 =>
        s[i - 1] \in Containers /\ \E n \in DOMAIN doc[s[i - 1]] : doc[s[i - 1]][n].value = s[i]

SoundIn(doc, v) == v \in Containers => \A n \in DOMAIN doc[v] : doc[v][n].string

\* Nothing is wrong with v, nor with what is in it, at depth d.
FitsIn(doc, v, d) ==
    \A n \in 1..(MaxDepth + 2) : \A s \in [1..n -> Values] :
        s[1] = v /\ WayIn(doc, s) => d + n <= MaxDepth + 1 /\ SoundIn(doc, s[n])

Fits(v, d) == FitsIn(items, v, d)

\* What call i has behind it fits, all but the container it is waiting for.
Behind(i) ==
    LET c == calls[i].container
    IN  /\ calls[i].next <= Len(items[c]) + 1
        /\ \A n \in 1..(calls[i].next - 1) :
             /\ items[c][n].string
             /\ i = Len(calls) \/ n < calls[i].next - 1 => Fits(items[c][n].value, i)

LoaderInv ==
    /\ LoaderTypeOK
    /\ CallsAreNested
    /\ stage = "walking" => calls[1].container = root /\ \A i \in 1..Len(calls) : Behind(i)
    /\ stage = "loaded" => Fits(root, 0)
    /\ RefusalsAreRight

\* What the steps of the walk start from.
LEMMA WalkFacts ==
    ASSUME LoaderInv, stage = "walking"
    PROVE  /\ Len(calls) \in Nat /\ Len(calls) \in 1..(MaxDepth + 1)
           /\ DOMAIN calls = 1..Len(calls)
           /\ \A i \in 1..Len(calls) :
                /\ calls[i] \in Calls
                /\ calls[i].container \in Containers
                /\ calls[i].next \in Nat \ {0}
                /\ items[calls[i].container] \in Seq(Entries)
                /\ Len(items[calls[i].container]) \in Nat
                /\ DOMAIN items[calls[i].container] = 1..Len(items[calls[i].container])
                /\ calls[i].next <= Len(items[calls[i].container]) + 1
           /\ Top = calls[Len(calls)]
<1>1. calls \in Seq(Calls) /\ Len(calls) \in 1..(MaxDepth + 1)
  BY DEF LoaderInv, LoaderTypeOK, CallsAreNested
<1>2. DOMAIN calls = 1..Len(calls) /\ Len(calls) \in Nat
  BY <1>1
<1>3. ASSUME NEW i \in 1..Len(calls)
      PROVE  /\ calls[i] \in Calls
             /\ calls[i].container \in Containers
             /\ calls[i].next \in Nat \ {0}
             /\ items[calls[i].container] \in Seq(Entries)
             /\ Len(items[calls[i].container]) \in Nat
             /\ DOMAIN items[calls[i].container] = 1..Len(items[calls[i].container])
             /\ calls[i].next <= Len(items[calls[i].container]) + 1
  <2>1. calls[i] \in Calls
    BY <1>1, <1>2
  <2>2. calls[i].container \in Containers /\ calls[i].next \in Nat \ {0}
    BY <2>1 DEF Calls
  <2>3. items[calls[i].container] \in Seq(Entries)
    BY <2>2 DEF LoaderInv, LoaderTypeOK
  <2>4. calls[i].next <= Len(items[calls[i].container]) + 1
    BY DEF LoaderInv, Behind
  <2> QED
    BY <2>1, <2>2, <2>3, <2>4
<1> QED
  BY <1>1, <1>2, <1>3 DEF Top

\* The containers of the calls are a way down from the root.
LEMMA PathIsWay ==
    ASSUME LoaderInv, stage = "walking"
    PROVE  [i \in 1..Len(calls) |-> calls[i].container] \in Ways(root)
<1> DEFINE s == [i \in 1..Len(calls) |-> calls[i].container]
<1>1. s \in [1..Len(calls) -> Values] /\ Len(calls) \in 1..(MaxDepth + 2)
  BY WalkFacts, DocumentAssumption DEF Values
<1>2. s[1] = root
  BY WalkFacts DEF LoaderInv
<1>3. ASSUME NEW i \in 1..Len(calls), i > 1
      PROVE  Holds(s[i - 1], s[i])
  <2>1. /\ i - 1 \in 1..Len(calls) /\ i - 1 < Len(calls) /\ (i - 1) + 1 = i
    BY <1>3, WalkFacts
  <2>2. /\ calls[i - 1].next > 1
        /\ items[calls[i - 1].container][calls[i - 1].next - 1].value = calls[i].container
    BY <2>1, WalkFacts DEF LoaderInv, CallsAreNested
  <2>3. calls[i - 1].next - 1 \in DOMAIN items[calls[i - 1].container]
    BY <2>1, <2>2, WalkFacts
  <2>4. Holds(calls[i - 1].container, calls[i].container)
    BY <2>1, <2>2, <2>3, WalkFacts DEF Holds
  <2> QED
    BY <2>1, <2>4
<1> QED
  BY <1>1, <1>2, <1>3 DEF Ways

\* And so they are with the item that is next.
LEMMA PathToItem ==
    ASSUME LoaderInv, AtItem
    PROVE  /\ Top.next \in DOMAIN items[Top.container]
           /\ Item \in Entries
           /\ Holds(Top.container, Item.value)
           /\ [i \in 1..(Len(calls) + 1) |->
                 IF i <= Len(calls) THEN calls[i].container ELSE Item.value] \in Ways(root)
<1> DEFINE s == [i \in 1..Len(calls) |-> calls[i].container]
           t == [i \in 1..(Len(calls) + 1) |->
                   IF i <= Len(calls) THEN calls[i].container ELSE Item.value]
<1>0. stage = "walking" /\ Top.next <= Len(items[Top.container])
  BY DEF AtItem
<1>1. /\ Top.next \in DOMAIN items[Top.container] /\ Item \in Entries
      /\ Top.container \in Containers
  <2>1. Len(calls) \in 1..Len(calls)
    BY <1>0, WalkFacts
  <2> QED
    BY <1>0, <2>1, WalkFacts DEF Item
<1>2. Holds(Top.container, Item.value) /\ Item.value \in Values
  BY <1>1 DEF Holds, Item, Entries
<1>3. s \in Ways(root) /\ Len(calls) \in Nat /\ Len(calls) \in 1..(MaxDepth + 1)
  BY <1>0, PathIsWay, WalkFacts
<1>4. Len(calls) + 1 \in 1..(MaxDepth + 2)
  BY <1>3, DocumentAssumption
<1>5. t \in [1..(Len(calls) + 1) -> Values]
  BY <1>0, <1>2, WalkFacts DEF Values
<1>6. t[1] = root
  BY <1>0, <1>3, WalkFacts DEF LoaderInv
<1>7. ASSUME NEW i \in 1..(Len(calls) + 1), i > 1
      PROVE  Holds(t[i - 1], t[i])
  <2>1. CASE i <= Len(calls)
    <3>1. i \in DOMAIN s /\ i - 1 \in DOMAIN s /\ i - 1 <= Len(calls)
      BY <2>1, <1>7, <1>3
    <3>2. Holds(s[i - 1], s[i])
      BY <3>1, <1>3, <1>7 DEF Ways
    <3>3. t[i - 1] = s[i - 1] /\ t[i] = s[i]
      BY <3>1, <2>1, <1>7, <1>3
    <3> QED
      BY <3>2, <3>3
  <2>2. CASE i = Len(calls) + 1
    <3>1. i - 1 = Len(calls) /\ i - 1 \in 1..(Len(calls) + 1) /\ ~ (i <= Len(calls))
      BY <2>2, <1>3
    <3>2. t[i - 1] = calls[Len(calls)].container /\ t[i] = Item.value
      BY <3>1
    <3> QED
      BY <3>2, <1>2 DEF Top
  <2> QED
    BY <2>1, <2>2, <1>3
<1>8. t \in Ways(root)
  BY <1>4, <1>5, <1>6, <1>7 DEF Ways
<1> QED
  BY <1>1, <1>2, <1>8

LEMMA ScalarFits ==
    ASSUME NEW doc, NEW d \in Nat, d <= MaxDepth
    PROVE  FitsIn(doc, Scalar, d)
<1> SUFFICES ASSUME NEW n \in 1..(MaxDepth + 2), NEW s \in [1..n -> Values],
                    s[1] = Scalar, WayIn(doc, s)
             PROVE  d + n <= MaxDepth + 1 /\ SoundIn(doc, s[n])
  BY DEF FitsIn
<1>1. ~ (n > 1)
  <2> SUFFICES ASSUME n > 1 PROVE FALSE
    OBVIOUS
  <2>1. 2 \in DOMAIN s /\ 2 > 1 /\ 2 - 1 = 1
    BY DocumentAssumption
  <2>2. s[2 - 1] \in Containers
    BY <2>1 DEF WayIn
  <2> QED
    BY <2>1, <2>2, DocumentAssumption
<1>2. n = 1
  BY <1>1, DocumentAssumption
<1> QED
  BY <1>2, DocumentAssumption DEF SoundIn

\* A container fits when all that is in it fits one step further down.
LEMMA ContainerFits ==
    ASSUME NEW doc, NEW c \in Containers, NEW d \in Nat, d <= MaxDepth,
           \A m \in DOMAIN doc[c] : doc[c][m].string /\ FitsIn(doc, doc[c][m].value, d + 1)
    PROVE  FitsIn(doc, c, d)
<1> SUFFICES ASSUME NEW n \in 1..(MaxDepth + 2), NEW s \in [1..n -> Values],
                    s[1] = c, WayIn(doc, s)
             PROVE  d + n <= MaxDepth + 1 /\ SoundIn(doc, s[n])
  BY DEF FitsIn
<1>0. MaxDepth \in Nat /\ n \in Nat
  BY DocumentAssumption
<1>1. CASE n = 1
  BY <1>0, <1>1 DEF SoundIn
<1>2. CASE n > 1
  <2> DEFINE t == [i \in 1..(n - 1) |-> s[i + 1]]
  <2>1. n - 1 \in 1..(MaxDepth + 2) /\ (n - 1) + 1 = n /\ n - 1 \in 1..(n - 1) /\ 1 \in 1..(n - 1)
    BY <1>0, <1>2
  <2>2. \A i \in 1..(n - 1) : i + 1 \in 1..n
    BY <1>0
  <2>3. t \in [1..(n - 1) -> Values]
    BY <2>2
  <2>4. t[1] = s[2] /\ t[n - 1] = s[n]
    BY <2>1
  <2>5. WayIn(doc, t)
    <3> SUFFICES ASSUME NEW i \in 1..(n - 1), i > 1
                 PROVE  /\ t[i - 1] \in Containers
                        /\ \E m \in DOMAIN doc[t[i - 1]] : doc[t[i - 1]][m].value = t[i]
      BY DEF WayIn
    <3>1. i + 1 \in 1..n /\ i + 1 > 1 /\ (i + 1) - 1 = i /\ i - 1 \in 1..(n - 1) /\ (i - 1) + 1 = i
      BY <1>0
    <3>2. /\ s[i] \in Containers
          /\ \E m \in DOMAIN doc[s[i]] : doc[s[i]][m].value = s[i + 1]
      BY <3>1 DEF WayIn
    <3>3. t[i - 1] = s[i] /\ t[i] = s[i + 1]
      BY <3>1
    <3> QED
      BY <3>2, <3>3
  <2>6. PICK m \in DOMAIN doc[c] : doc[c][m].value = t[1]
    <3>1. 2 \in DOMAIN s /\ 2 > 1 /\ 2 - 1 = 1
      BY <1>0, <1>2
    <3>2. \E m \in DOMAIN doc[s[2 - 1]] : doc[s[2 - 1]][m].value = s[2]
      <4> HIDE DEF t
      <4> QED
        BY <3>1 DEF WayIn
    <3>3. s[1] = c /\ t[1] = s[2]
      BY <2>4
    <3> HIDE DEF t
    <3> QED
      BY <3>1, <3>2, <3>3
  <2>7. FitsIn(doc, t[1], d + 1)
    BY <2>6
  <2> HIDE DEF t
  <2>8. (d + 1) + (n - 1) <= MaxDepth + 1 /\ SoundIn(doc, t[n - 1])
    BY <2>1, <2>3, <2>5, <2>7 DEF FitsIn
  <2>9. d + n <= MaxDepth + 1
    BY <1>0, <2>8
  <2> QED
    BY <2>4, <2>8, <2>9
<1> QED
  BY <1>0, <1>1, <1>2

\* The calls in progress once the innermost one has its next item.
LEMMA AdvancedFacts ==
    ASSUME LoaderInv, AtItem
    PROVE  /\ Advanced \in Seq(Calls)
           /\ Len(Advanced) = Len(calls)
           /\ \A i \in 1..Len(calls) :
                /\ Advanced[i].container = calls[i].container
                /\ i < Len(calls) => Advanced[i] = calls[i]
                /\ i = Len(calls) => Advanced[i].next = calls[i].next + 1
<1>0. stage = "walking"
  BY DEF AtItem
<1>1. calls \in Seq(Calls) /\ Len(calls) \in 1..Len(calls)
  BY <1>0, WalkFacts DEF LoaderInv, LoaderTypeOK
<1>2. ASSUME NEW i \in 1..Len(calls)
      PROVE  /\ Advanced[i] = IF i = Len(calls) THEN [calls[i] EXCEPT !.next = @ + 1] ELSE calls[i]
             /\ calls[i] \in Calls
  BY <1>0, <1>1, WalkFacts DEF Advanced
<1>3. ASSUME NEW i \in 1..Len(calls)
      PROVE  /\ Advanced[i] \in Calls
             /\ Advanced[i].container = calls[i].container
             /\ i < Len(calls) => Advanced[i] = calls[i]
             /\ i = Len(calls) => Advanced[i].next = calls[i].next + 1
  <2>1. CASE i = Len(calls)
    <3>1. Advanced[i] = [calls[i] EXCEPT !.next = @ + 1]
      BY <1>2, <2>1
    <3>2. calls[i] \in [container : Containers, next : Nat \ {0}]
      BY <1>2 DEF Calls
    <3> QED
      BY <2>1, <3>1, <3>2 DEF Calls
  <2>2. CASE i # Len(calls)
    BY <1>2, <2>2
  <2> QED
    BY <2>1, <2>2
<1>4. DOMAIN Advanced = 1..Len(calls)
  BY <1>1 DEF Advanced
<1>5. calls \in [1..Len(calls) -> Calls]
  BY <1>1
<1>6. Advanced \in [1..Len(calls) -> Calls]
  <2>1. [calls[Len(calls)] EXCEPT !.next = @ + 1] \in Calls
    BY <1>1, <1>2, <1>3
  <2> QED
    BY <1>1, <1>5, <2>1 DEF Advanced
<1>7. Len(calls) \in Nat
  BY <1>0, WalkFacts
<1>8. Advanced \in Seq(Calls) /\ Len(Advanced) = Len(calls)
  BY <1>4, <1>6, <1>7
<1> QED
  BY <1>3, <1>8

LEMMA LoaderInitInv == Init => LoaderInv
<1> SUFFICES ASSUME Init PROVE LoaderInv
  OBVIOUS
<1>1. stage = "unread" /\ calls = <<>> /\ active = {}
  BY DEF Init, LoaderInit
<1>2. LoaderTypeOK
  BY <1>1 DEF Init, LoaderTypeOK
<1> QED
  BY <1>1, <1>2 DEF LoaderInv, CallsAreNested, RefusalsAreRight

\* The steps before the walk, which end in a refusal of the file, in the
\* document of a scalar, or in the call on the root.
LEMMA FileStepKeeps ==
    ASSUME LoaderInv, Measure \/ Replace \/ RefuseFile
    PROVE  LoaderInv'
<1>1. /\ UNCHANGED <<root, items, calls, active>>
      /\ stage' \in {"measured"} \cup Defects
      /\ file' \subseteq Defects
  BY DEF Measure, Replace, RefuseFile, Refuse, LoaderInv, LoaderTypeOK, Defects
<1>2. LoaderTypeOK'
  BY <1>1 DEF LoaderInv, LoaderTypeOK, Refusals
<1>3. stage' \notin {"walking", "loaded", "too_deep", "cyclic", "invalid_key"}
  BY <1>1 DEF Defects
<1> QED
  BY <1>2, <1>3 DEF LoaderInv, CallsAreNested, RefusalsAreRight

LEMMA ParseKeeps ==
    ASSUME LoaderInv, Parse
    PROVE  LoaderInv'
<1>1. UNCHANGED <<file, root, items>> /\ MaxDepth \in Nat /\ root \in Values
  BY DocumentAssumption DEF Parse, LoaderInv, LoaderTypeOK
<1>2. CASE root = Scalar
  <2>1. stage' = "loaded" /\ UNCHANGED <<calls, active>>
    BY <1>2 DEF Parse
  <2>2. Fits(root, 0)'
    BY <1>1, <1>2, ScalarFits DEF Fits
  <2>3. LoaderTypeOK'
    BY <1>1, <2>1 DEF LoaderInv, LoaderTypeOK
  <2> QED
    BY <2>1, <2>2, <2>3 DEF LoaderInv, CallsAreNested, RefusalsAreRight
<1>3. CASE root # Scalar
  <2> DEFINE call == [container |-> root, next |-> 1]
  <2>1. stage' = "walking" /\ calls' = <<call>> /\ active' = {root} /\ root \in Containers
    BY <1>1, <1>3 DEF Parse, Values
  <2>2. call \in Calls
    BY <2>1 DEF Calls
  <2>3. /\ calls' \in Seq(Calls) /\ Len(calls') = 1 /\ calls'[1] = call
        /\ DOMAIN calls' = {1}
    BY <2>1, <2>2
  <2>4. call.container = root /\ call.next = 1
    OBVIOUS
  <2> HIDE DEF call
  <2>5. LoaderTypeOK'
    BY <1>1, <2>1, <2>3 DEF LoaderInv, LoaderTypeOK
  <2>6. CallsAreNested'
    BY <1>1, <2>1, <2>3, <2>4 DEF CallsAreNested
  <2>7. Behind(1)'
    <3>1. Len(items[root]) \in Nat
      BY <2>1 DEF LoaderInv, LoaderTypeOK
    <3> QED
      BY <1>1, <2>3, <2>4, <3>1 DEF Behind
  <2>8. \A i \in 1..Len(calls') : Behind(i)'
    BY <2>3, <2>7
  <2> QED
    BY <1>1, <2>1, <2>3, <2>4, <2>5, <2>6, <2>8 DEF LoaderInv, RefusalsAreRight
<1> QED
  BY <1>2, <1>3

LEMMA RefuseItemKeeps ==
    ASSUME LoaderInv, RefuseItem
    PROVE  LoaderInv'
<1>1. /\ UNCHANGED <<file, root, items, calls, active>>
      /\ stage' \in {"invalid_key", "too_deep", "cyclic"}
      /\ AtItem /\ stage = "walking"
  BY DEF RefuseItem, Refuse, AtItem
<1>2. LoaderTypeOK'
  BY <1>1 DEF LoaderInv, LoaderTypeOK, Refusals
<1> DEFINE s == [i \in 1..Len(calls) |-> calls[i].container]
           t == [i \in 1..(Len(calls) + 1) |->
                   IF i <= Len(calls) THEN calls[i].container ELSE Item.value]
<1>3. Len(calls) \in Nat /\ Len(calls) \in 1..(MaxDepth + 1) /\ MaxDepth \in Nat
  BY <1>1, WalkFacts, DocumentAssumption
<1>4. ASSUME stage' = "invalid_key"
      PROVE  \E w \in Ways(root) : HasBadKey(w[Len(w)])
  <2>1. ~ Item.string
    BY <1>4 DEF RefuseItem, Refuse
  <2>2. HasBadKey(Top.container)
    <3>1. Holds(Top.container, Item.value) /\ Top.next \in DOMAIN items[Top.container]
      BY <1>1, PathToItem
    <3> QED
      BY <2>1, <3>1 DEF HasBadKey, Holds, Item
  <2>3. s \in Ways(root)
    BY <1>1, PathIsWay
  <2>4. Len(s) = Len(calls) /\ s[Len(calls)] = Top.container
    BY <1>3 DEF Top
  <2> HIDE DEF s
  <2>5. HasBadKey(s[Len(s)])
    BY <2>2, <2>4
  <2> QED
    BY <2>3, <2>5
<1>5. t \in Ways(root)
  BY <1>1, PathToItem
<1>6. ASSUME stage' = "too_deep"
      PROVE  \E w \in Ways(root) : Len(w) = MaxDepth + 2
  <2>1. Len(calls) > MaxDepth
    BY <1>6 DEF RefuseItem, Refuse, TooDeep
  <2>2. Len(t) = Len(calls) + 1
    BY <1>3
  <2>3. Len(calls) + 1 = MaxDepth + 2
    BY <2>1, <1>3
  <2> HIDE DEF t
  <2> QED
    BY <1>5, <2>2, <2>3
<1>7. ASSUME stage' = "cyclic"
      PROVE  \E w \in Ways(root) : \E i, j \in DOMAIN w : i # j /\ w[i] = w[j]
  <2>1. Item.value \in active
    BY <1>7 DEF RefuseItem, Refuse, Cyclic
  <2>2. PICK i \in 1..Len(calls) : calls[i].container = Item.value
    <3>1. DOMAIN calls = 1..Len(calls)
      BY <1>1, WalkFacts
    <3>2. active = { calls[i].container : i \in DOMAIN calls }
      BY <1>1 DEF LoaderInv, CallsAreNested
    <3> QED
      BY <2>1, <3>1, <3>2
  <2>3. /\ i \in DOMAIN t /\ Len(calls) + 1 \in DOMAIN t /\ i # Len(calls) + 1
        /\ t[i] = Item.value /\ t[Len(calls) + 1] = Item.value
    BY <1>3, <2>2
  <2> HIDE DEF t
  <2> QED
    BY <1>5, <2>3
<1>8. RefusalsAreRight'
  <2>1. Ways(root)' = Ways(root)
    BY <1>1 DEF Ways, Holds
  <2>2. stage' = "too_deep" => (\E w \in Ways(root) : Len(w) = MaxDepth + 2)'
    BY <1>6, <2>1
  <2>3. stage' = "cyclic" =>
          (\E w \in Ways(root) : \E i, j \in DOMAIN w : i # j /\ w[i] = w[j])'
    BY <1>7, <2>1
  <2>4. stage' = "invalid_key" => (\E w \in Ways(root) : HasBadKey(w[Len(w)]))'
    BY <1>1, <1>4, <2>1 DEF HasBadKey
  <2> QED
    BY <2>2, <2>3, <2>4 DEF RefusalsAreRight
<1> QED
  BY <1>1, <1>2, <1>8 DEF LoaderInv, CallsAreNested

\* Facts about the calls in progress, in the form that the steps use.
LEMMA NestedFacts ==
    ASSUME LoaderInv, stage = "walking"
    PROVE  /\ active = { calls[i].container : i \in 1..Len(calls) }
           /\ \A i, j \in 1..Len(calls) : calls[i].container = calls[j].container => i = j
           /\ \A i \in 1..Len(calls) : i < Len(calls) =>
                /\ calls[i].next > 1
                /\ items[calls[i].container][calls[i].next - 1].value = calls[i + 1].container
           /\ calls[1].container = root
           /\ \A i \in 1..Len(calls) : Behind(i)
<1>1. DOMAIN calls = 1..Len(calls)
  BY WalkFacts
<1> QED
  BY <1>1 DEF LoaderInv, CallsAreNested

\* The innermost call once it has its next item behind it, but for what is
\* in that item.
LEMMA ItemIsSound ==
    ASSUME LoaderInv, AtItem, Admissible
    PROVE  /\ Top.next + 1 <= Len(items[Top.container]) + 1
           /\ \A n \in 1..Top.next :
                /\ items[Top.container][n].string
                /\ n < Top.next => Fits(items[Top.container][n].value, Len(calls))
<1>0. stage = "walking"
  BY DEF AtItem
<1>1. /\ Len(calls) \in 1..Len(calls) /\ Top = calls[Len(calls)]
      /\ Top.next \in Nat \ {0} /\ Len(items[Top.container]) \in Nat
  BY <1>0, WalkFacts
<1>2. Behind(Len(calls))
  BY <1>0, <1>1, NestedFacts
<1>3. Top.next <= Len(items[Top.container])
  BY DEF AtItem
<1>4. items[Top.container][Top.next].string
  BY DEF Admissible, Item
<1>5. ASSUME NEW n \in 1..Top.next
      PROVE  /\ items[Top.container][n].string
             /\ n < Top.next => Fits(items[Top.container][n].value, Len(calls))
  <2>1. CASE n = Top.next
    BY <1>4, <2>1, <1>1
  <2>2. CASE n # Top.next
    <3>1. n \in 1..(Top.next - 1)
      BY <1>1, <2>2
    <3> QED
      BY <1>1, <1>2, <3>1 DEF Behind
  <2> QED
    BY <2>1, <2>2
<1> QED
  BY <1>1, <1>3, <1>5

LEMMA PassKeeps ==
    ASSUME LoaderInv, Pass
    PROVE  LoaderInv'
<1>1. /\ UNCHANGED <<file, root, items, active>> /\ calls' = Advanced
      /\ stage = "walking" /\ stage' = "walking" /\ AtItem /\ Admissible /\ Item.value = Scalar
  BY DEF Pass, Admissible, AtItem
<1>2. /\ calls' \in Seq(Calls) /\ Len(calls') = Len(calls) /\ DOMAIN calls' = 1..Len(calls)
      /\ \A i \in 1..Len(calls) :
           /\ calls'[i].container = calls[i].container
           /\ i < Len(calls) => calls'[i] = calls[i]
           /\ i = Len(calls) => calls'[i].next = calls[i].next + 1
  BY <1>1, AdvancedFacts
<1>3. /\ Len(calls) \in Nat /\ Len(calls) \in 1..(MaxDepth + 1)
      /\ 1 \in 1..Len(calls) /\ Len(calls) \in 1..Len(calls)
  BY <1>1, WalkFacts, DocumentAssumption
<1>4. LoaderTypeOK'
  BY <1>1, <1>2 DEF LoaderInv, LoaderTypeOK
<1>5. CallsAreNested'
  <2>1. active' = { calls'[i].container : i \in 1..Len(calls) }
    <3>1. active' = { calls[i].container : i \in 1..Len(calls) }
      BY <1>1, NestedFacts
    <3>2. \A i \in 1..Len(calls) : calls'[i].container = calls[i].container
      BY <1>2
    <3> QED
      BY <3>1, <3>2
  <2>2. \A i, j \in 1..Len(calls) : calls'[i].container = calls'[j].container => i = j
    BY <1>1, <1>2, NestedFacts
  <2>3. ASSUME NEW i \in 1..Len(calls), i < Len(calls)
        PROVE  /\ calls'[i].next > 1
               /\ items[calls'[i].container][calls'[i].next - 1].value = calls'[i + 1].container
    <3>1. i + 1 \in 1..Len(calls)
      BY <2>3, <1>3
    <3> QED
      BY <2>3, <3>1, <1>1, <1>2, NestedFacts
  <2> QED
    BY <1>1, <1>2, <1>3, <2>1, <2>2, <2>3 DEF CallsAreNested
<1>6. ASSUME NEW i \in 1..Len(calls)
      PROVE  Behind(i)'
  <2>1. CASE i < Len(calls)
    <3>1. Behind(i)
      BY <1>1, NestedFacts
    <3> QED
      BY <1>1, <1>2, <2>1, <3>1 DEF Behind, Fits
  <2>2. CASE i = Len(calls)
    <3>1. /\ calls'[i].container = Top.container /\ calls'[i].next = Top.next + 1
          /\ Top.next \in Nat \ {0}
      BY <1>1, <1>2, <2>2, WalkFacts
    <3>2. Fits(items[Top.container][Top.next].value, Len(calls))
      <4>1. Len(calls) <= MaxDepth
        BY <1>1, <1>3, DocumentAssumption DEF Admissible, TooDeep
      <4> QED
        BY <1>1, <1>3, <4>1, ScalarFits DEF Fits, Item
    <3>3. \A n \in 1..Top.next :
            /\ items[Top.container][n].string
            /\ Fits(items[Top.container][n].value, Len(calls))
      BY <1>1, <3>1, <3>2, ItemIsSound
    <3>4. Top.next + 1 <= Len(items[Top.container]) + 1 /\ (Top.next + 1) - 1 = Top.next
      BY <1>1, <3>1, ItemIsSound
    <3> QED
      BY <1>1, <1>2, <2>2, <3>1, <3>3, <3>4 DEF Behind, Fits
  <2> QED
    BY <2>1, <2>2, <1>3
<1>7. calls'[1].container = root'
  BY <1>1, <1>2, <1>3, NestedFacts
<1> QED
  BY <1>1, <1>2, <1>4, <1>5, <1>6, <1>7 DEF LoaderInv, RefusalsAreRight

LEMMA EnterKeeps ==
    ASSUME LoaderInv, Enter
    PROVE  LoaderInv'
<1> DEFINE L == Len(calls)
           v == Item.value
           call == [container |-> v, next |-> 1]
<1>1. /\ UNCHANGED <<file, root, items>> /\ calls' = Append(Advanced, call)
      /\ active' = active \cup {v}
      /\ stage = "walking" /\ stage' = "walking" /\ AtItem /\ Admissible /\ v \in Containers
      /\ v \notin active /\ ~ (L > MaxDepth)
  BY DEF Enter, Admissible, AtItem, TooDeep, Cyclic
<1>2. call \in Calls /\ call.container = v /\ call.next = 1
  BY <1>1 DEF Calls
<1>3. /\ L \in Nat /\ L \in 1..(MaxDepth + 1) /\ MaxDepth \in Nat
      /\ 1 \in 1..L /\ L \in 1..L
  BY <1>1, WalkFacts, DocumentAssumption
<1> HIDE DEF call
<1>4. /\ calls' \in Seq(Calls) /\ Len(calls') = L + 1 /\ DOMAIN calls' = 1..(L + 1)
      /\ calls'[L + 1] = call
      /\ \A i \in 1..L :
           /\ calls'[i].container = calls[i].container
           /\ i < L => calls'[i] = calls[i]
           /\ i = L => calls'[i].next = calls[i].next + 1
  <2>1. /\ Advanced \in Seq(Calls) /\ Len(Advanced) = L
        /\ \A i \in 1..L :
             /\ Advanced[i].container = calls[i].container
             /\ i < L => Advanced[i] = calls[i]
             /\ i = L => Advanced[i].next = calls[i].next + 1
    BY <1>1, AdvancedFacts
  <2>2. /\ calls' \in Seq(Calls) /\ Len(calls') = L + 1 /\ DOMAIN calls' = 1..(L + 1)
        /\ calls'[L + 1] = call
        /\ \A i \in 1..L : calls'[i] = Advanced[i]
    BY <1>1, <1>2, <1>3, <2>1
  <2> QED
    BY <2>1, <2>2
<1> HIDE DEF v
<1>5. LoaderTypeOK'
  BY <1>1, <1>4 DEF LoaderInv, LoaderTypeOK
<1>6. /\ calls'[L].container = Top.container /\ calls'[L].next = Top.next + 1
      /\ Top.next \in Nat \ {0} /\ items[Top.container][Top.next].value = v
      /\ Len(items[Top.container]) \in Nat
  BY <1>1, <1>3, <1>4, WalkFacts DEF Item, v
<1>7. CallsAreNested'
  <2>1. active' = { calls'[i].container : i \in 1..(L + 1) }
    <3>1. active = { calls[i].container : i \in 1..L }
      BY <1>1, NestedFacts
    <3>2. \A i \in 1..L : calls'[i].container = calls[i].container
      BY <1>4
    <3>3. calls'[L + 1].container = v
      BY <1>2, <1>4
    <3>4. \A i \in 1..(L + 1) : i \in 1..L \/ i = L + 1
      BY <1>3
    <3>5. L + 1 \in 1..(L + 1) /\ \A i \in 1..L : i \in 1..(L + 1)
      BY <1>3
    <3> QED
      BY <1>1, <3>1, <3>2, <3>3, <3>4, <3>5
  <2>2. ASSUME NEW i \in 1..(L + 1), NEW j \in 1..(L + 1),
               calls'[i].container = calls'[j].container
        PROVE  i = j
    <3>1. \A k \in 1..L : calls'[k].container # v
      <4>1. \A k \in 1..L : calls[k].container \in active
        BY <1>1, NestedFacts
      <4> QED
        BY <4>1, <1>1, <1>4
    <3>2. calls'[L + 1].container = v
      BY <1>2, <1>4
    <3>3. CASE i \in 1..L /\ j \in 1..L
      BY <2>2, <3>3, <1>1, <1>4, NestedFacts
    <3>4. CASE ~ (i \in 1..L /\ j \in 1..L)
      BY <2>2, <3>1, <3>2, <3>4, <1>3
    <3> QED
      BY <3>3, <3>4
  <2>3. ASSUME NEW i \in 1..(L + 1), i < L + 1
        PROVE  /\ calls'[i].next > 1
               /\ items[calls'[i].container][calls'[i].next - 1].value = calls'[i + 1].container
    <3>1. CASE i = L
      <4>1. Top.next + 1 > 1 /\ (Top.next + 1) - 1 = Top.next
        BY <1>6
      <4>2. calls'[i + 1].container = v
        BY <3>1, <1>2, <1>4
      <4> QED
        BY <3>1, <4>1, <4>2, <1>6
    <3>2. CASE i # L
      <4>1. i \in 1..L /\ i < L /\ i + 1 \in 1..L
        BY <3>2, <2>3, <1>3
      <4>2. /\ calls[i].next > 1
            /\ items[calls[i].container][calls[i].next - 1].value = calls[i + 1].container
        BY <4>1, <1>1, NestedFacts
      <4> QED
        BY <4>1, <4>2, <1>4
    <3> QED
      BY <3>1, <3>2
  <2>4. L + 1 \in 1..(MaxDepth + 1)
    BY <1>1, <1>3
  <2> QED
    BY <1>1, <1>4, <2>1, <2>2, <2>3, <2>4 DEF CallsAreNested
<1>8. ASSUME NEW i \in 1..(L + 1)
      PROVE  Behind(i)'
  <2>1. CASE i = L + 1
    <3>1. Len(items[v]) \in Nat
      BY <1>1 DEF LoaderInv, LoaderTypeOK
    <3> QED
      BY <1>1, <1>2, <1>4, <2>1, <3>1 DEF Behind
  <2>2. CASE i = L
    <3>1. \A n \in 1..Top.next :
            /\ items[Top.container][n].string
            /\ n < Top.next => Fits(items[Top.container][n].value, L)
      BY <1>1, ItemIsSound
    <3>2. Top.next + 1 <= Len(items[Top.container]) + 1 /\ (Top.next + 1) - 1 = Top.next
      BY <1>1, <1>6, ItemIsSound
    <3>3. /\ calls'[i].container = Top.container /\ calls'[i].next = Top.next + 1
          /\ i # Len(calls')
      BY <1>3, <1>4, <1>6, <2>2
    <3>4. \A n \in 1..Top.next :
            /\ items[Top.container][n].string
            /\ (i # Len(calls') /\ n = Top.next) \/ Fits(items[Top.container][n].value, i)
      <4>1. \A n \in 1..Top.next : n = Top.next \/ n < Top.next
        BY <1>6
      <4> QED
        BY <2>2, <3>1, <3>3, <4>1
    <3> QED
      BY <1>1, <3>2, <3>3, <3>4 DEF Behind, Fits
  <2>3. CASE i # L + 1 /\ i # L
    <3>1. i \in 1..L /\ i < L
      BY <2>3, <1>3
    <3>2. Behind(i)
      BY <3>1, <1>1, NestedFacts
    <3> QED
      BY <1>1, <1>4, <2>3, <3>1, <3>2 DEF Behind, Fits
  <2> QED
    BY <2>1, <2>2, <2>3
<1>9. calls'[1].container = root'
  BY <1>1, <1>3, <1>4, NestedFacts
<1> QED
  BY <1>1, <1>4, <1>5, <1>7, <1>8, <1>9 DEF LoaderInv, RefusalsAreRight

\* A sequence without its last element.
LEMMA PrefixFacts ==
    ASSUME NEW S, NEW s \in Seq(S), Len(s) # 0
    PROVE  LET t == SubSeq(s, 1, Len(s) - 1)
           IN  /\ t \in Seq(S) /\ Len(t) = Len(s) - 1 /\ DOMAIN t = 1..(Len(s) - 1)
               /\ \A i \in 1..(Len(s) - 1) : t[i] = s[i]
<1> DEFINE L == Len(s)
<1>1. L \in Nat \ {0} /\ DOMAIN s = 1..L
  OBVIOUS
<1>2. /\ SubSeq(s, 1, L - 1) \in Seq(S) /\ Len(SubSeq(s, 1, L - 1)) = L - 1
      /\ \A i \in 1..(L - 1) : SubSeq(s, 1, L - 1)[i] = s[i]
  BY <1>1
<1>3. DOMAIN SubSeq(s, 1, L - 1) = 1..(L - 1)
  BY <1>2
<1> QED
  BY <1>2, <1>3

LEMMA LeaveKeeps ==
    ASSUME LoaderInv, Leave
    PROVE  LoaderInv'
<1> DEFINE L == Len(calls)
           c == Top.container
<1>1. /\ UNCHANGED <<file, root, items>> /\ calls' = SubSeq(calls, 1, L - 1)
      /\ active' = active \ {c}
      /\ stage = "walking" /\ Top.next = Len(items[c]) + 1
      /\ stage' = IF L = 1 THEN "loaded" ELSE "walking"
  BY DEF Leave, ActiveAfter
<1>2. /\ L \in Nat /\ L \in 1..(MaxDepth + 1) /\ MaxDepth \in Nat
      /\ 1 \in 1..L /\ L \in 1..L /\ Top = calls[L]
  BY <1>1, WalkFacts, DocumentAssumption
<1>3. /\ c \in Containers /\ Len(items[c]) \in Nat
      /\ DOMAIN items[c] = 1..Len(items[c])
  BY <1>1, <1>2, WalkFacts
<1>4. /\ calls' \in Seq(Calls) /\ Len(calls') = L - 1 /\ DOMAIN calls' = 1..(L - 1)
      /\ \A i \in 1..(L - 1) : i \in 1..L /\ calls'[i] = calls[i]
  <2>1. calls \in Seq(Calls)
    BY DEF LoaderInv, LoaderTypeOK
  <2>2. calls' = SubSeq(calls, 1, L - 1)
    BY <1>1
  <2>3. L \in Nat \ {0}
    BY <1>2
  <2>4. /\ calls' \in Seq(Calls) /\ Len(calls') = L - 1 /\ DOMAIN calls' = 1..(L - 1)
        /\ \A i \in 1..(L - 1) : calls'[i] = calls[i]
    BY <2>1, <2>2, <2>3, PrefixFacts
  <2>5. \A i \in 1..(L - 1) : i \in 1..L
    <3>1. \A l \in Nat : \A i \in 1..(l - 1) : i \in 1..l
      OBVIOUS
    <3> QED
      BY <2>3, <3>1
  <2> QED
    BY <2>4, <2>5
<1>5. Fits(c, L - 1)
  <2>1. Behind(L)
    BY <1>1, <1>2, NestedFacts
  <2>2. Top.next - 1 = Len(items[c])
    BY <1>1, <1>3
  <2>3. \A n \in DOMAIN items[c] : items[c][n].string /\ Fits(items[c][n].value, L)
    BY <1>2, <1>3, <2>1, <2>2 DEF Behind
  <2>4. L - 1 \in Nat /\ L - 1 <= MaxDepth /\ (L - 1) + 1 = L
    BY <1>2
  <2> QED
    BY <1>3, <2>3, <2>4, ContainerFits DEF Fits
<1> HIDE DEF c
<1>6. LoaderTypeOK'
  BY <1>1, <1>4 DEF LoaderInv, LoaderTypeOK
<1>7. CASE L = 1
  <2>1. stage' = "loaded" /\ c = root
    BY <1>1, <1>2, <1>7, NestedFacts DEF c
  <2>2. Fits(root, 0)'
    BY <1>1, <1>5, <1>7, <2>1 DEF Fits
  <2> QED
    BY <1>6, <2>1, <2>2 DEF LoaderInv, CallsAreNested, RefusalsAreRight
<1>8. CASE L # 1
  <2>0. stage' = "walking" /\ L - 1 \in Nat /\ L - 1 \in 1..(MaxDepth + 1) /\ 1 \in 1..(L - 1)
    <3>1. L - 1 \in Nat /\ L - 1 \in 1..(MaxDepth + 1) /\ 1 \in 1..(L - 1)
      <4>1. ASSUME NEW l \in Nat, l \in 1..(MaxDepth + 1), l # 1
            PROVE  l - 1 \in Nat /\ l - 1 \in 1..(MaxDepth + 1) /\ 1 \in 1..(l - 1)
        BY <1>2, <4>1
      <4> QED
        BY <1>2, <1>8, <4>1
    <3>2. stage' = "walking"
      BY <1>1, <1>8
    <3> QED
      BY <3>1, <3>2
  <2>1. CallsAreNested'
    <3>1. active' = { calls'[i].container : i \in 1..(L - 1) }
      <4>1. active = { calls[i].container : i \in 1..L } /\ calls[L].container = c
        BY <1>1, <1>2, NestedFacts DEF c
      <4>2. \A i \in 1..(L - 1) : i \in 1..L /\ i # L /\ calls'[i] = calls[i]
        BY <1>2, <1>4
      <4>3. \A i \in 1..L : i = L \/ i \in 1..(L - 1)
        BY <1>2
      <4>4. \A i \in 1..(L - 1) : calls[i].container # c
        BY <1>1, <1>2, <4>1, <4>2, NestedFacts
      <4> QED
        BY <1>1, <4>1, <4>2, <4>3, <4>4
    <3>2. \A i, j \in 1..(L - 1) : calls'[i].container = calls'[j].container => i = j
      BY <1>1, <1>4, NestedFacts
    <3>3. ASSUME NEW i \in 1..(L - 1), i < L - 1
          PROVE  /\ calls'[i].next > 1
                 /\ items[calls'[i].container][calls'[i].next - 1].value = calls'[i + 1].container
      <4>1. i + 1 \in 1..(L - 1) /\ i < L /\ i \in 1..L
        BY <3>3, <1>2
      <4>2. calls'[i] = calls[i] /\ calls'[i + 1] = calls[i + 1]
        BY <4>1, <1>4
      <4> QED
        BY <4>1, <4>2, <1>1, NestedFacts
    <3> QED
      BY <1>1, <1>4, <2>0, <3>1, <3>2, <3>3 DEF CallsAreNested
  <2>2. ASSUME NEW i \in 1..(L - 1)
        PROVE  Behind(i)'
    <3>1. i \in 1..L /\ i < L /\ i # L /\ calls'[i] = calls[i]
      BY <1>2, <1>4
    <3>2. Behind(i)
      BY <3>1, <1>1, NestedFacts
    <3>3. CASE i = L - 1
      <4>1. items[calls[i].container][calls[i].next - 1].value = c
        <5>1. i + 1 = L
          BY <3>3, <1>2
        <5> QED
          BY <5>1, <3>1, <1>1, <1>2, NestedFacts DEF c
      <4>2. calls[i].next \in Nat \ {0}
        BY <3>1, <1>1, WalkFacts
      <4>3. ASSUME NEW n \in 1..(calls[i].next - 1)
            PROVE  /\ items[calls[i].container][n].string
                   /\ Fits(items[calls[i].container][n].value, i)
        <5>1. CASE n < calls[i].next - 1
          BY <5>1, <3>2 DEF Behind
        <5>2. CASE n = calls[i].next - 1
          BY <5>2, <3>2, <3>3, <4>1, <1>5 DEF Behind
        <5> QED
          BY <5>1, <5>2, <4>2
      <4>4. calls[i].next <= Len(items[calls[i].container]) + 1
        BY <3>2 DEF Behind
      <4> QED
        BY <1>1, <3>1, <4>3, <4>4 DEF Behind, Fits
    <3>4. CASE i # L - 1
      BY <1>1, <1>4, <3>1, <3>2, <3>4 DEF Behind, Fits
    <3> QED
      BY <3>3, <3>4
  <2>3. calls'[1].container = root'
    BY <1>1, <1>4, <2>0, NestedFacts
  <2> QED
    BY <1>4, <1>6, <2>0, <2>1, <2>2, <2>3 DEF LoaderInv, RefusalsAreRight
<1> QED
  BY <1>7, <1>8

LEMMA LoaderStepInv == LoaderInv /\ [Next]_vars => LoaderInv'
<1> SUFFICES ASSUME LoaderInv, [Next]_vars PROVE LoaderInv'
  OBVIOUS
<1>1. CASE UNCHANGED loader
  <2>1. UNCHANGED <<file, root, items, stage, calls, active>>
    BY <1>1 DEF loader
  <2>2. LoaderTypeOK' /\ CallsAreNested'
    BY <2>1 DEF LoaderInv, LoaderTypeOK, CallsAreNested
  <2>3. stage' = "walking" => calls'[1].container = root' /\ \A i \in 1..Len(calls') : Behind(i)'
    BY <2>1 DEF LoaderInv, Behind, Fits
  <2>4. (stage = "loaded" => Fits(root, 0))'
    BY <2>1 DEF LoaderInv, Fits
  <2>5. Ways(root)' = Ways(root)
    BY <2>1 DEF Ways, Holds
  <2>6. RefusalsAreRight'
    BY <2>1, <2>5 DEF LoaderInv, RefusalsAreRight, HasBadKey
  <2> QED
    BY <2>2, <2>3, <2>4, <2>6 DEF LoaderInv
<1>2. CASE LoaderNext
  BY <1>2, FileStepKeeps, ParseKeeps, RefuseItemKeeps, PassKeeps, EnterKeeps, LeaveKeeps
     DEF LoaderNext
<1>3. CASE Restarted
  <2>1. LoaderTypeOK'
    BY <1>3 DEF Restarted, LoaderInv, LoaderTypeOK
  <2> QED
    BY <1>3, <2>1 DEF Restarted, LoaderInv, CallsAreNested, RefusalsAreRight
<1> QED
  BY <1>1, <1>2, <1>3, LoaderSteps

\* For every document, with whatever sharing and cycles: what is loaded is
\* within the depth limit and has string keys throughout, what is refused has
\* the fault it is refused for, and the recursion is bounded by the limit.
THEOREM LoadingIsSound == Spec => [](LoadedIsSound /\ RefusalsAreRight /\ CallsAreNested)
<1>1. LoaderInv => LoadedIsSound /\ RefusalsAreRight /\ CallsAreNested
  <2> SUFFICES ASSUME LoaderInv, stage = "loaded", NEW s \in Ways(root)
               PROVE  Len(s) <= MaxDepth + 1 /\ ~ HasBadKey(s[Len(s)])
    BY DEF LoaderInv, LoadedIsSound
  <2>1. PICK n \in 1..(MaxDepth + 2) : s \in [1..n -> Values]
    BY DEF Ways
  <2>2. n \in Nat /\ Len(s) = n /\ DOMAIN s = 1..n
    BY <2>1, DocumentAssumption
  <2>3. s[1] = root /\ WayIn(items, s)
    BY DEF Ways, WayIn, Holds
  <2>4. 0 + n <= MaxDepth + 1 /\ SoundIn(items, s[n])
    BY <2>1, <2>3 DEF LoaderInv, Fits, FitsIn
  <2> QED
    BY <2>2, <2>4 DEF SoundIn, HasBadKey
<1> QED
  BY <1>1, LoaderInitInv, LoaderStepInv, PTL DEF Spec

-----------------------------------------------------------------------------
(* What a redaction leaves.                                                *)

\* The parts are ranked, above what is in them.
Ranked(rank) ==
    /\ rank \in [Parts -> 1..Cardinality(Parts)]
    /\ \A p \in Parts : \A e \in EntriesOf(p) : e.value \in Parts => rank[e.value] < rank[p]

Held == held \in [Parts -> Seq(PartEntries)]

\* Of a value, the texts that a table says are left in what is in it.
LeftBy(texts, w) == IF w \in Texts THEN {w} ELSE UNION { texts[e.value] : e \in OpenEntries(w) }

LEMMA EntriesType ==
    ASSUME Held, NEW p \in Parts
    PROVE  EntriesOf(p) \subseteq PartEntries /\ OpenEntries(p) \subseteq EntriesOf(p)
BY DEF EntriesOf, OpenEntries, Held

LEMMA LeftByType ==
    ASSUME Held, NEW texts \in [Parts \cup Texts -> SUBSET Texts], NEW w \in Parts \cup Texts
    PROVE  LeftBy(texts, w) \in SUBSET Texts
<1>1. CASE w \in Texts
  BY <1>1 DEF LeftBy
<1>2. CASE w \in Parts /\ w \notin Texts
  <2>1. \A e \in OpenEntries(w) : texts[e.value] \in SUBSET Texts
    BY <1>2, EntriesType DEF PartEntries
  <2> QED
    BY <1>2, <2>1 DEF LeftBy
<1> QED
  BY <1>1, <1>2, AccessAssumption

\* What is left is decided by the values below.
LEMMA LeftByBelow ==
    ASSUME NEW f, NEW g, NEW w, w \notin Texts, \A e \in OpenEntries(w) : f[e.value] = g[e.value]
    PROVE  LeftBy(f, w) = LeftBy(g, w)
BY DEF LeftBy

LEMMA PartsAreFinite == Cardinality(Parts) \in Nat
<1>1. IsFiniteSet(Parts)
  BY AccessAssumption
<1> QED
  BY <1>1, FS_CardinalityType

LEMMA TextsExist ==
    ASSUME Held, NEW rank, Ranked(rank)
    PROVE  \E texts \in [Parts \cup Texts -> SUBSET Texts] :
             texts = [w \in Parts \cup Texts |-> LeftBy(texts, w)]
<1> DEFINE Low(w, k) == w \in Texts \/ rank[w] <= k
           Right(f, k) == \A w \in Parts \cup Texts : Low(w, k) => f[w] = LeftBy(f, w)
           S == { k \in Nat : \E f \in [Parts \cup Texts -> SUBSET Texts] : Right(f, k) }
<1>1. \A w \in Parts : w \notin Texts /\ rank[w] \in Nat /\ 1 <= rank[w] /\ rank[w] <= Cardinality(Parts)
      /\ Cardinality(Parts) \in Nat
  <2>1. Cardinality(Parts) \in Nat
    BY PartsAreFinite
  <2> QED
    BY <2>1, AccessAssumption DEF Ranked
<1>2. 0 \in S
  <2> DEFINE f == [w \in Parts \cup Texts |-> {w} \cap Texts]
  <2>1. f \in [Parts \cup Texts -> SUBSET Texts]
    OBVIOUS
  <2>2. \A w \in Texts : f[w] = LeftBy(f, w)
    BY DEF LeftBy
  <2>3. Right(f, 0)
    BY <1>1, <2>2
  <2> QED
    BY <2>1, <2>3
<1>3. ASSUME NEW k \in Nat, k \in S PROVE k + 1 \in S
  <2>1. PICK f \in [Parts \cup Texts -> SUBSET Texts] : Right(f, k)
    BY <1>3
  <2> DEFINE g == [w \in Parts \cup Texts |-> LeftBy(f, w)]
  <2>2. g \in [Parts \cup Texts -> SUBSET Texts]
    BY LeftByType
  <2>3. \A w \in Parts \cup Texts : Low(w, k) => g[w] = f[w]
    BY <2>1
  <2>4. ASSUME NEW w \in Parts \cup Texts, Low(w, k + 1) PROVE g[w] = LeftBy(g, w)
    <3>1. CASE w \in Texts
      BY <3>1 DEF LeftBy
    <3>2. CASE w \in Parts /\ w \notin Texts
      <4>1. ASSUME NEW e \in OpenEntries(w) PROVE f[e.value] = g[e.value]
        <5>1. e \in PartEntries /\ e \in EntriesOf(w) /\ e.value \in Parts \cup Texts
          BY <3>2, <4>1, EntriesType DEF PartEntries
        <5>2. Low(e.value, k)
          <6>1. CASE e.value \in Texts
            BY <6>1
          <6>2. CASE e.value \in Parts
            <7>1. rank[e.value] < rank[w] /\ rank[w] <= k + 1
              BY <2>4, <3>2, <5>1, <6>2 DEF Ranked
            <7>2. rank[e.value] \in Nat /\ rank[w] \in Nat
              BY <1>1, <3>2, <6>2
            <7> QED
              BY <7>1, <7>2
          <6> QED
            BY <5>1, <6>1, <6>2
        <5> HIDE DEF g, Low
        <5> QED
          BY <2>3, <5>1, <5>2
      <4>2. LeftBy(f, w) = LeftBy(g, w)
        <5> HIDE DEF g
        <5> QED
          BY <3>2, <4>1, LeftByBelow
      <4> QED
        BY <4>2
    <3> QED
      BY <3>1, <3>2, AccessAssumption
  <2>5. Right(g, k + 1)
    BY <2>4
  <2> HIDE DEF g, Right
  <2> QED
    BY <2>2, <2>5
<1>4. \A k \in Nat : k \in S
  <2> HIDE DEF S
  <2> QED
    BY <1>2, <1>3, SetInduction
<1>5. PICK f \in [Parts \cup Texts -> SUBSET Texts] : Right(f, Cardinality(Parts))
  <2>1. Cardinality(Parts) \in Nat
    BY PartsAreFinite
  <2> HIDE DEF Right
  <2> QED
    BY <1>4, <2>1
<1>6. \A w \in Parts \cup Texts : f[w] = LeftBy(f, w)
  BY <1>1, <1>5
<1> QED
  BY <1>6

LEMMA RedactedIs ==
    ASSUME Held, Unfolds
    PROVE  \E texts : /\ texts = [w \in Parts \cup Texts |-> LeftBy(texts, w)]
                      /\ \A v \in Parts \cup Texts : Redacted(v) = texts[v]
<1>1. PICK rank : Ranked(rank)
  BY Zenon DEF Unfolds, Rankings, Ranked
<1> DEFINE Rule(f) == [w \in Parts \cup Texts |-> LeftBy(f, w)]
           texts == CHOOSE f : f = Rule(f)
<1>2. texts = Rule(texts)
  <2>1. \E f : f = Rule(f)
    BY <1>1, TextsExist
  <2> HIDE DEF Rule
  <2> QED
    BY <2>1
<1>3. \A v \in Parts \cup Texts : Redacted(v) = texts[v]
  BY DEF Redacted, LeftBy
<1> HIDE DEF texts
<1> QED
  BY <1>2, <1>3

\* The ways from v down to the text t on which no key is sensitive.
OpenWay(v, t, s) ==
    /\ s \in Seq(PartEntries) /\ s # <<>>
    /\ s[1] \in OpenEntries(v)
    /\ s[Len(s)].value = t
    /\ \A i \in 1..(Len(s) - 1) : s[i].value \in Parts /\ s[i + 1] \in OpenEntries(s[i].value)

OpenTexts(v, names) == { t \in Texts : \E s : OpenWay(v, t, s) /\ s[1].key \in names }

\* A way is an entry that is a text, or an entry and a way from what it is.
LEMMA WayBegins ==
    ASSUME NEW v, NEW t \in Texts, NEW s, OpenWay(v, t, s), Len(s) # 1
    PROVE  s[1] \in OpenEntries(v) /\ s[1].value \in Parts /\ OpenWay(s[1].value, t, Tail(s)) /\ Len(Tail(s)) = Len(s) - 1
<1>1. Len(s) \in Nat /\ Len(s) > 1 /\ s \in Seq(PartEntries) /\ s # <<>>
  <2>1. s \in Seq(PartEntries) /\ s # <<>>
    BY DEF OpenWay
  <2>2. Len(s) \in Nat /\ Len(s) # 0
    BY <2>1
  <2>3. \A n \in Nat : n # 0 /\ n # 1 => n > 1
    OBVIOUS
  <2> QED
    BY <2>1, <2>2, <2>3
<1>2. 1 \in 1..(Len(s) - 1)
  BY <1>1
<1>3. s[1] \in OpenEntries(v) /\ s[1].value \in Parts /\ s[2] \in OpenEntries(s[1].value)
  BY <1>2 DEF OpenWay
<1> DEFINE r == Tail(s)
<1>4. r \in Seq(PartEntries) /\ Len(r) = Len(s) - 1 /\ \A i \in 1..Len(r) : r[i] = s[i + 1]
  BY <1>1, HeadTailProperties
<1> HIDE DEF r
<1>5. r # <<>> /\ r[1] = s[2] /\ r[Len(r)] = s[Len(s)]
  BY <1>1, <1>4
<1>6. ASSUME NEW i \in 1..(Len(r) - 1) PROVE r[i].value \in Parts /\ r[i + 1] \in OpenEntries(r[i].value)
  <2>1. i + 1 \in 1..(Len(s) - 1) /\ r[i] = s[i + 1] /\ r[i + 1] = s[(i + 1) + 1]
    BY <1>1, <1>4
  <2> QED
    BY <2>1 DEF OpenWay
<1>7. s[Len(s)].value = t
  BY DEF OpenWay
<1>8. OpenWay(s[1].value, t, r)
  BY <1>3, <1>4, <1>5, <1>6, <1>7 DEF OpenWay
<1> QED
  BY <1>3, <1>4, <1>8 DEF r

LEMMA WayGoesOn ==
    ASSUME Held, NEW v \in Parts, NEW t, NEW e \in OpenEntries(v), e.value \in Parts, NEW r, OpenWay(e.value, t, r)
    PROVE  OpenWay(v, t, <<e>> \o r)
<1> DEFINE s == <<e>> \o r
<1>1. e \in PartEntries
  BY EntriesType
<1>2. r \in Seq(PartEntries) /\ Len(r) \in Nat \ {0} /\ r[1] \in OpenEntries(e.value) /\ r[Len(r)].value = t
  BY DEF OpenWay
<1>3. s \in Seq(PartEntries) /\ Len(s) = Len(r) + 1 /\ s[1] = e /\ \A i \in 1..Len(r) : s[i + 1] = r[i]
  BY <1>1, <1>2
<1> HIDE DEF s
<1>4. s # <<>> /\ s[Len(s)] = r[Len(r)]
  BY <1>2, <1>3
<1>5. ASSUME NEW i \in 1..(Len(s) - 1) PROVE s[i].value \in Parts /\ s[i + 1] \in OpenEntries(s[i].value)
  <2>1. CASE i = 1
    BY <1>2, <1>3, <2>1
  <2>2. CASE i # 1
    <3>1. i - 1 \in 1..(Len(r) - 1) /\ (i - 1) + 1 = i /\ i - 1 \in 1..Len(r) /\ i \in 1..Len(r)
      BY <1>2, <1>3, <2>2
    <3>2. s[i] = r[i - 1] /\ s[i + 1] = r[i]
      BY <1>3, <3>1
    <3>3. r[i - 1].value \in Parts /\ r[i] \in OpenEntries(r[i - 1].value)
      BY <3>1 DEF OpenWay
    <3> QED
      BY <3>2, <3>3
  <2> QED
    BY <2>1, <2>2
<1>6. OpenWay(v, t, s)
  BY <1>2, <1>3, <1>4, <1>5 DEF OpenWay
<1> QED
  BY <1>6 DEF s

\* What is open in a part is what is open in its open entries.
LEMMA OpenTextsIs ==
    ASSUME Held, NEW v \in Parts, NEW names
    PROVE  OpenTexts(v, names) =
             UNION { IF e.value \in Texts THEN {e.value} ELSE OpenTexts(e.value, Names) :
                     e \in { d \in OpenEntries(v) : d.key \in names } }
<1> DEFINE OpenIn(e) == IF e.value \in Texts THEN {e.value} ELSE OpenTexts(e.value, Names)
           entries == { d \in OpenEntries(v) : d.key \in names }
<1>0. \A e \in OpenEntries(v) : e \in PartEntries /\ e.value \in Parts \cup Texts
  BY EntriesType DEF PartEntries
<1>1. ASSUME NEW t \in OpenTexts(v, names) PROVE \E e \in entries : t \in OpenIn(e)
  <2>1. PICK s : OpenWay(v, t, s) /\ s[1].key \in names
    BY DEF OpenTexts
  <2>2. t \in Texts /\ s[1] \in entries
    BY <2>1 DEF OpenTexts, OpenWay
  <2>3. CASE Len(s) = 1
    <3>1. s[1].value = t
      BY <2>1, <2>3 DEF OpenWay
    <3> QED
      BY <2>2, <3>1
  <2>4. CASE Len(s) # 1
    <3>1. s[1].value \in Parts /\ OpenWay(s[1].value, t, Tail(s))
      BY <2>1, <2>2, <2>4, WayBegins
    <3>2. Tail(s)[1].key \in Names
      <4>1. Tail(s)[1] \in OpenEntries(s[1].value)
        BY <3>1 DEF OpenWay
      <4> QED
        BY <3>1, <4>1, EntriesType DEF PartEntries
    <3>3. t \in OpenTexts(s[1].value, Names) /\ s[1].value \notin Texts
      BY <2>2, <3>1, <3>2, AccessAssumption DEF OpenTexts
    <3> QED
      BY <2>2, <3>3
  <2> QED
    BY <2>3, <2>4
<1>2. ASSUME NEW e \in entries, NEW t \in OpenIn(e) PROVE t \in OpenTexts(v, names)
  <2>1. CASE e.value \in Texts
    <3>1. t = e.value /\ t \in Texts
      BY <2>1
    <3>2. <<e>> \in Seq(PartEntries) /\ Len(<<e>>) = 1 /\ <<e>>[1] = e
      BY <1>0
    <3>3. OpenWay(v, t, <<e>>)
      BY <3>1, <3>2 DEF OpenWay
    <3> QED
      BY <3>1, <3>2, <3>3 DEF OpenTexts
  <2>2. CASE e.value \notin Texts
    <3>1. e.value \in Parts /\ t \in OpenTexts(e.value, Names) /\ e \in PartEntries
      BY <1>0, <2>2
    <3>2. PICK r : OpenWay(e.value, t, r) /\ t \in Texts
      BY <3>1 DEF OpenTexts
    <3>3. OpenWay(v, t, <<e>> \o r)
      BY <3>1, <3>2, WayGoesOn
    <3>4. (<<e>> \o r)[1] = e
      BY <3>1, <3>2 DEF OpenWay
    <3> QED
      BY <3>2, <3>3, <3>4 DEF OpenTexts
  <2> QED
    BY <2>1, <2>2
<1> HIDE DEF OpenIn, entries
<1>3. OpenTexts(v, names) = UNION { OpenIn(e) : e \in entries }
  BY <1>1, <1>2
<1> QED
  BY <1>3 DEF OpenIn, entries

\* A way is not longer than the rank of the part it starts from.
LEMMA WaysAreShort ==
    ASSUME Held, NEW rank, Ranked(rank), NEW v \in Parts, NEW t \in Texts, NEW s, OpenWay(v, t, s)
    PROVE  Len(s) <= rank[v]
<1> DEFINE S == { k \in Nat : \A w \in Parts : \A r : OpenWay(w, t, r) /\ rank[w] <= k => Len(r) <= rank[w] }
<1>1. \A w \in Parts : rank[w] \in Nat /\ 1 <= rank[w]
  BY PartsAreFinite DEF Ranked
<1>2. 0 \in S
  BY <1>1
<1>3. ASSUME NEW k \in Nat, k \in S PROVE k + 1 \in S
  <2> SUFFICES ASSUME NEW w \in Parts, NEW r, OpenWay(w, t, r), rank[w] <= k + 1 PROVE Len(r) <= rank[w]
    OBVIOUS
  <2>1. CASE Len(r) = 1
    BY <1>1, <2>1
  <2>2. CASE Len(r) # 1
    <3>1. r[1] \in OpenEntries(w) /\ r[1].value \in Parts /\ OpenWay(r[1].value, t, Tail(r)) /\ Len(Tail(r)) = Len(r) - 1
      BY <2>2, WayBegins
    <3>2. rank[r[1].value] < rank[w]
      BY <3>1, EntriesType DEF Ranked
    <3>3. rank[r[1].value] <= k
      BY <1>1, <3>1, <3>2
    <3>4. Len(Tail(r)) <= rank[r[1].value]
      BY <1>3, <3>1, <3>3
    <3>5. Len(r) \in Nat
      BY DEF OpenWay
    <3> QED
      BY <1>1, <3>1, <3>2, <3>4, <3>5
  <2> QED
    BY <2>1, <2>2
<1>4. \A k \in Nat : k \in S
  <2> HIDE DEF S
  <2> QED
    BY <1>2, <1>3, SetInduction
<1>5. rank[v] \in S /\ rank[v] <= rank[v]
  <2> HIDE DEF S
  <2> QED
    BY <1>1, <1>4
<1> QED
  BY <1>5

\* What the redaction leaves of a part is what is open in it.
LEMMA RedactedIsOpen ==
    ASSUME Held, Unfolds, NEW v \in Parts
    PROVE  Redacted(v) = OpenTexts(v, Names)
<1>1. PICK rank : Ranked(rank)
  BY Zenon DEF Unfolds, Rankings, Ranked
<1>2. PICK texts : /\ texts = [w \in Parts \cup Texts |-> LeftBy(texts, w)]
                   /\ \A w \in Parts \cup Texts : Redacted(w) = texts[w]
  BY RedactedIs
<1>3. \A w \in Parts \cup Texts : texts[w] = LeftBy(texts, w)
  BY <1>2
<1> DEFINE S == { k \in Nat : \A w \in Parts : rank[w] <= k => texts[w] = OpenTexts(w, Names) }
<1>4. \A w \in Parts : rank[w] \in Nat /\ 1 <= rank[w] /\ w \notin Texts
  BY <1>1, PartsAreFinite, AccessAssumption DEF Ranked
<1>5. 0 \in S
  BY <1>4
<1>6. ASSUME NEW k \in Nat, k \in S PROVE k + 1 \in S
  <2> SUFFICES ASSUME NEW w \in Parts, rank[w] <= k + 1 PROVE texts[w] = OpenTexts(w, Names)
    OBVIOUS
  <2>1. ASSUME NEW e \in OpenEntries(w)
        PROVE  texts[e.value] = IF e.value \in Texts THEN {e.value} ELSE OpenTexts(e.value, Names)
    <3>1. e \in EntriesOf(w) /\ e.value \in Parts \cup Texts
      BY EntriesType DEF PartEntries
    <3>2. CASE e.value \in Texts
      BY <1>3, <3>2 DEF LeftBy
    <3>3. CASE e.value \in Parts
      <4>1. rank[e.value] < rank[w]
        BY <1>1, <3>1, <3>3 DEF Ranked
      <4>2. rank[e.value] <= k
        BY <1>4, <3>3, <4>1
      <4>3. texts[e.value] = OpenTexts(e.value, Names)
        BY <1>6, <3>3, <4>2
      <4> QED
        BY <1>4, <3>3, <4>3
    <3> QED
      BY <3>1, <3>2, <3>3
  <2>2. texts[w] = UNION { texts[e.value] : e \in OpenEntries(w) }
    <3>1. texts[w] = LeftBy(texts, w) /\ w \notin Texts
      BY <1>3, <1>4
    <3> QED
      BY <3>1 DEF LeftBy
  <2>3. OpenTexts(w, Names) = UNION { IF e.value \in Texts THEN {e.value} ELSE OpenTexts(e.value, Names) : e \in OpenEntries(w) }
    <3>1. { d \in OpenEntries(w) : d.key \in Names } = OpenEntries(w)
      BY EntriesType DEF PartEntries
    <3> QED
      BY <3>1, OpenTextsIs
  <2> QED
    BY <2>1, <2>2, <2>3
<1>7. \A k \in Nat : k \in S
  <2> HIDE DEF S
  <2> QED
    BY <1>5, <1>6, SetInduction
<1>8. rank[v] \in S /\ rank[v] <= rank[v]
  <2> HIDE DEF S
  <2> QED
    BY <1>4, <1>7
<1> QED
  BY <1>2, <1>8

AsEntryWay(s, t) ==
    /\ s[Len(s)].value = t
    /\ s[1].key \in StageNames[question.role]
    /\ \A i \in DOMAIN s : s[i].key \notin SensitiveNames

LEMMA EntryWayIsOpen ==
    ASSUME Held, NEW v \in Parts, NEW t \in Texts, NEW s \in EntryWays(v), AsEntryWay(s, t)
    PROVE  OpenWay(v, t, s)
<1> DEFINE E == UNION { EntriesOf(p) : p \in Parts }
<1>1. E \subseteq PartEntries
  BY EntriesType
<1>2. PICK n \in 1..Cardinality(Parts) : s \in [1..n -> E]
  BY DEF EntryWays
<1>3. n \in Nat \ {0}
  BY <1>2, PartsAreFinite
<1> HIDE DEF E
<1>4. s \in Seq(PartEntries) /\ Len(s) = n /\ DOMAIN s = 1..n /\ s # <<>>
  <2>1. s \in [1..n -> PartEntries]
    BY <1>1, <1>2
  <2> QED
    BY <1>3, <2>1, LenProperties
<1>5. s[1] \in EntriesOf(v) /\ \A i \in 1..n : i < n => s[i].value \in Parts /\ s[i + 1] \in EntriesOf(s[i].value)
  BY <1>4 DEF EntryWays
<1>6. \A i \in 1..n : s[i].key \notin SensitiveNames
  BY <1>4 DEF AsEntryWay
<1>7. s[1] \in OpenEntries(v)
  BY <1>3, <1>5, <1>6 DEF OpenEntries
<1>8. ASSUME NEW i \in 1..(Len(s) - 1) PROVE s[i].value \in Parts /\ s[i + 1] \in OpenEntries(s[i].value)
  <2>1. i \in 1..n /\ i < n /\ i + 1 \in 1..n
    BY <1>3, <1>4
  <2> QED
    BY <1>5, <1>6, <2>1 DEF OpenEntries
<1> QED
  BY <1>4, <1>7, <1>8 DEF OpenWay, AsEntryWay

LEMMA OpenIsEntryWay ==
    ASSUME Held, Unfolds, NEW v \in Parts, NEW t \in Texts, NEW s, OpenWay(v, t, s)
    PROVE  /\ s \in EntryWays(v)
           /\ \A i \in DOMAIN s : s[i].key \notin SensitiveNames
<1>1. PICK rank : Ranked(rank)
  BY Zenon DEF Unfolds, Rankings, Ranked
<1>2. Len(s) <= rank[v] /\ rank[v] \in 1..Cardinality(Parts)
  BY <1>1, WaysAreShort DEF Ranked
<1> DEFINE n == Len(s)
           E == UNION { EntriesOf(p) : p \in Parts }
<1>3. s \in Seq(PartEntries) /\ s # <<>> /\ n \in Nat /\ n >= 1 /\ DOMAIN s = 1..n
  <2>1. s \in Seq(PartEntries) /\ s # <<>>
    BY DEF OpenWay
  <2> QED
    BY <2>1
<1>4. n \in 1..Cardinality(Parts)
  BY <1>2, <1>3, PartsAreFinite
<1> HIDE DEF n
<1>5. ASSUME NEW i \in 1..n PROVE \E p \in Parts : s[i] \in OpenEntries(p)
  <2>1. CASE i = 1
    BY <2>1 DEF OpenWay
  <2>2. CASE i # 1
    <3>1. i - 1 \in 1..(Len(s) - 1) /\ (i - 1) + 1 = i
      BY <1>3, <2>2 DEF n
    <3>2. s[i - 1].value \in Parts /\ s[i] \in OpenEntries(s[i - 1].value)
      BY <3>1 DEF OpenWay
    <3> QED
      BY <3>2
  <2> QED
    BY <2>1, <2>2
<1>6. \A i \in 1..n : s[i] \in E /\ s[i].key \notin SensitiveNames
  BY <1>5, EntriesType DEF OpenEntries
<1>7. s \in [1..n -> E]
  <2>1. s \in [1..n -> PartEntries]
    BY <1>3 DEF n
  <2> HIDE DEF E
  <2> QED
    BY <1>6, <2>1
<1>8. s[1] \in EntriesOf(v)
  BY DEF OpenWay, OpenEntries
<1>9. ASSUME NEW i \in 1..n
      PROVE  IF i < Len(s) THEN s[i].value \in Parts /\ s[i + 1] \in EntriesOf(s[i].value) ELSE s[i].value \in Texts
  <2>1. CASE i < Len(s)
    <3>1. i \in 1..(Len(s) - 1)
      BY <1>3, <2>1 DEF n
    <3>2. s[i].value \in Parts /\ s[i + 1] \in OpenEntries(s[i].value)
      BY <3>1 DEF OpenWay
    <3> QED
      BY <2>1, <3>2, EntriesType
  <2>2. CASE ~(i < Len(s))
    <3>1. i = Len(s)
      <4>1. n \in Nat /\ i \in 1..n /\ ~(i < n)
        BY <1>3, <2>2 DEF n
      <4>2. i = n
        BY <4>1
      <4> QED
        BY <4>2 DEF n
    <3>2. s[Len(s)].value = t
      BY DEF OpenWay
    <3>3. s[i].value \in Texts
      BY <3>1, <3>2
    <3> QED
      BY <2>2, <3>3
  <2> QED
    BY <2>1, <2>2
<1>10. s \in UNION { [1..k -> E] : k \in 1..Cardinality(Parts) }
  BY <1>4, <1>7
<1>11. s \in EntryWays(v)
  BY <1>3, <1>8, <1>9, <1>10 DEF EntryWays
<1> QED
  BY <1>3, <1>6, <1>11

\* What an agent is shown is what is open to its stage.
LEMMA StageShowsOpen ==
    ASSUME Held, Unfolds, NEW q, q.value \in Parts
    PROVE  StageContext(q) = OpenTexts(q.value, StageNames[q.role])
<1> DEFINE names == StageNames[q.role]
           entries == { d \in OpenEntries(q.value) : d.key \in names }
           Part(e) == IF e.value \in Texts THEN {e.value} ELSE OpenTexts(e.value, Names)
<1>1. ASSUME NEW e \in entries PROVE Redacted(e.value) = Part(e)
  <2>1. e.value \in Parts \cup Texts
    BY EntriesType DEF PartEntries
  <2>2. CASE e.value \in Texts
    <3>1. PICK texts : /\ texts = [w \in Parts \cup Texts |-> LeftBy(texts, w)]
                       /\ \A w \in Parts \cup Texts : Redacted(w) = texts[w]
      BY RedactedIs
    <3>2. Redacted(e.value) = LeftBy(texts, e.value)
      BY <2>1, <3>1
    <3> QED
      BY <2>2, <3>2 DEF LeftBy
  <2>3. CASE e.value \notin Texts
    BY <2>1, <2>3, RedactedIsOpen
  <2> QED
    BY <2>2, <2>3
<1>2. OpenTexts(q.value, names) = UNION { Part(e) : e \in entries }
  <2> HIDE DEF names
  <2> QED
    BY OpenTextsIs
<1>3. StageContext(q) = UNION { Redacted(e.value) : e \in entries }
  BY DEF StageContext
<1> HIDE DEF entries, names, Part
<1>4. UNION { Redacted(e.value) : e \in entries } = UNION { Part(e) : e \in entries }
  BY <1>1
<1> QED
  BY <1>2, <1>3, <1>4 DEF names

LEMMA EntryTextsAreOpen ==
    ASSUME Held, Unfolds, question.value \in Parts
    PROVE  { t \in Texts : \E s \in EntryWays(question.value) :
                    /\ s[Len(s)].value = t
                    /\ s[1].key \in StageNames[question.role]
                    /\ \A i \in DOMAIN s : s[i].key \notin SensitiveNames }
           = OpenTexts(question.value, StageNames[question.role])
<1> DEFINE v == question.value
           names == StageNames[question.role]
<1>1. ASSUME NEW t \in Texts
      PROVE  (\E s \in EntryWays(v) : AsEntryWay(s, t)) <=> (\E s : OpenWay(v, t, s) /\ s[1].key \in names)
  <2>1. ASSUME NEW s \in EntryWays(v), AsEntryWay(s, t) PROVE OpenWay(v, t, s) /\ s[1].key \in names
    BY <2>1, EntryWayIsOpen DEF AsEntryWay
  <2>2. ASSUME NEW s, OpenWay(v, t, s), s[1].key \in names PROVE s \in EntryWays(v) /\ AsEntryWay(s, t)
    <3>1. s[Len(s)].value = t
      BY <2>2 DEF OpenWay
    <3> QED
      BY <2>2, <3>1, OpenIsEntryWay DEF AsEntryWay
  <2> QED
    BY <2>1, <2>2
<1>2. \A t \in Texts : (\E s \in EntryWays(v) : AsEntryWay(s, t)) <=>
        (\E s \in EntryWays(v) :
                    /\ s[Len(s)].value = t
                    /\ s[1].key \in names
                    /\ \A i \in DOMAIN s : s[i].key \notin SensitiveNames)
  BY DEF AsEntryWay
<1> HIDE DEF v, names
<1>3. OpenTexts(v, names) = { t \in Texts : \E s : OpenWay(v, t, s) /\ s[1].key \in names }
  BY DEF OpenTexts
<1> QED
  BY <1>1, <1>2, <1>3 DEF v, names

-----------------------------------------------------------------------------
(* The permissions.                                                        *)

AccessInv ==
    /\ question \in Questions
    /\ Held
    /\ Unfolds
    /\ permitted \in {"open", "yes", "no"}
    /\ permitted = "yes" => Permits(question)
    /\ shown \subseteq Texts
    /\ (permitted = "yes" /\ question.kind = "stage") =>
         shown = OpenTexts(question.value, StageNames[question.role])

LEMMA StageParts ==
    ASSUME NEW q \in Questions, q.kind = "stage"
    PROVE  q.value \in Parts
BY DEF Questions

LEMMA AccessInitInv == Init => AccessInv
BY DEF Init, AccessInit, AccessInv, Held

LEMMA AccessStepInv == AccessInv /\ [Next]_vars => AccessInv'
<1> SUFFICES ASSUME AccessInv, [Next]_vars PROVE AccessInv'
  OBVIOUS
<1>1. UNCHANGED access \/ AccessNext
  BY DEF Next, vars, CommandStep, GuardStep, LoaderStep, MergerStep, CheckerStep,
         KnowledgeStep, ProbeStep, AccessStep, RegistriesStep
<1>2. UNCHANGED <<question, held>>
  BY <1>1 DEF access, AccessNext, Ask
<1>3. Held' /\ Unfolds'
  BY <1>2 DEF AccessInv, Held, Unfolds, Rankings, EntriesOf
<1>4. OpenTexts(question.value, StageNames[question.role])' = OpenTexts(question.value, StageNames[question.role])
  BY <1>2 DEF OpenTexts, OpenWay, OpenEntries, EntriesOf
<1>5. CASE UNCHANGED access
  BY <1>2, <1>3, <1>4, <1>5 DEF access, AccessInv
<1>6. CASE AccessNext
  <2>1. permitted' = IF Permits(question) THEN "yes" ELSE "no"
    BY <1>6 DEF AccessNext, Ask
  <2>2. shown' = IF question.kind = "stage" /\ StageKnown(question) THEN StageContext(question) ELSE {}
    BY <1>6 DEF AccessNext, Ask
  <2>3. question.kind = "stage" => StageContext(question) = OpenTexts(question.value, StageNames[question.role])
    BY StageParts, StageShowsOpen DEF AccessInv
  <2>4. OpenTexts(question.value, StageNames[question.role]) \subseteq Texts
    BY DEF OpenTexts
  <2>5. question.kind = "stage" /\ Permits(question) => StageKnown(question)
    BY DEF Permits
  <2>6. permitted' = "yes" => Permits(question')
    BY <1>2, <2>1
  <2>7. shown' \subseteq Texts
    BY <2>2, <2>3, <2>4
  <2>8. (permitted' = "yes" /\ question.kind = "stage") => shown' = OpenTexts(question.value, StageNames[question.role])
    BY <2>1, <2>2, <2>3, <2>5
  <2> QED
    BY <1>2, <1>3, <1>4, <2>1, <2>6, <2>7, <2>8 DEF AccessInv
<1> QED
  BY <1>1, <1>5, <1>6

LEMMA AccessAlways == Spec => []AccessInv
BY AccessInitInv, AccessStepInv, PTL DEF Spec

\* For all values, however nested, and all sensitive keys: an agent is shown
\* just the texts that some way leads to on which no key is sensitive, from a
\* key that its stage may see.
THEOREM ShowingIsExact == Spec => []ShownIsOpen
<1>1. ASSUME AccessInv PROVE ShownIsOpen
  <2> SUFFICES ASSUME permitted = "yes", question.kind = "stage" PROVE ShownIsOpen
    BY DEF ShownIsOpen
  <2>1. question.value \in Parts
    BY <1>1, StageParts DEF AccessInv
  <2>2. shown = OpenTexts(question.value, StageNames[question.role])
    BY <1>1 DEF AccessInv
  <2> QED
    BY <1>1, <2>1, <2>2, EntryTextsAreOpen DEF AccessInv, ShownIsOpen
<1>2. AccessInv => ShownIsOpen
  BY <1>1
<1> QED
  BY <1>2, AccessAlways, PTL

\* For all roles, namespaces, services and operations: asking for less, or
\* being allowed more, never turns a permission into a refusal.
THEOREM MoreIsNeverLess == Spec => []PermissionsAreMonotone
<1>1. ASSUME AccessInv, permitted = "yes" PROVE PermissionsAreMonotone
  <2> DEFINE q == question
  <2>0. Permits(q) /\ q \in Questions
    BY <1>1 DEF AccessInv
  <2>1. CASE q.kind = "authorize"
    <3>1. q \in [kind : {"authorize"}, identified : BOOLEAN, roles : SUBSET Roles,
                 namespaces : SUBSET Namespaces, action : Actions, resource : Namespaces]
      BY <2>0, <2>1 DEF Questions
    <3>2. Authorized(q)
      BY <2>0, <2>1 DEF Permits
    <3>3. ASSUME NEW more \in SUBSET (Roles \cap DOMAIN RoleActions), NEW wider \in SUBSET Namespaces
          PROVE  Permits([q EXCEPT !.roles = @ \cup more, !.namespaces = @ \cup wider])
      <4> DEFINE r == [q EXCEPT !.roles = @ \cup more, !.namespaces = @ \cup wider]
      <4>1. /\ r.kind = "authorize" /\ r.identified = q.identified /\ r.action = q.action
            /\ r.resource = q.resource /\ r.roles = q.roles \cup more
            /\ r.namespaces = q.namespaces \cup wider
        BY <2>1, <3>1
      <4> HIDE DEF r
      <4>2. Authorized(r)
        BY <3>2, <4>1 DEF Authorized
      <4> QED
        BY <4>1, <4>2 DEF Permits, r
    <3>4. PICK role \in q.roles : q.action \in RoleActions[role]
      BY <3>2 DEF Authorized
    <3>5. PICK namespace \in q.namespaces : namespace \in {q.resource, "*"}
      BY <3>2 DEF Authorized
    <3>6. Permits([q EXCEPT !.roles = {role}, !.namespaces = {namespace}])
      <4> DEFINE r == [q EXCEPT !.roles = {role}, !.namespaces = {namespace}]
      <4>1. /\ r.kind = "authorize" /\ r.identified = q.identified /\ r.action = q.action
            /\ r.resource = q.resource /\ r.roles = {role} /\ r.namespaces = {namespace}
        BY <2>1, <3>1
      <4> HIDE DEF r
      <4>2. Authorized(r)
        BY <3>2, <3>4, <3>5, <4>1 DEF Authorized
      <4> QED
        BY <4>1, <4>2 DEF Permits, r
    <3> QED
      BY <2>1, <3>3, <3>6 DEF PermissionsAreMonotone
  <2>2. CASE q.kind = "egress"
    <3>1. q \in [kind : {"egress"}, service : Services, class : DOMAIN Classes,
                 data : Delicate \cup {"other"}, approved : BOOLEAN, internal : BOOLEAN]
      BY <2>0, <2>2 DEF Questions
    <3>2. EgressAllowed(q)
      BY <2>0, <2>2 DEF Permits
    <3>3. ASSUME NEW class \in 1..q.class, NEW approved \in {q.approved, TRUE},
                 NEW internal \in {q.internal, TRUE}
          PROVE  Permits([q EXCEPT !.class = class, !.approved = approved, !.internal = internal])
      <4> DEFINE r == [q EXCEPT !.class = class, !.approved = approved, !.internal = internal]
      <4>1. /\ r.kind = "egress" /\ r.service = q.service /\ r.data = q.data
            /\ r.class = class /\ r.approved = approved /\ r.internal = internal
        BY <2>2, <3>1
      <4> HIDE DEF r
      <4>2. q.class \in {1, 2, 3, 4} /\ q.class \in {1, 2}
        BY <3>1, <3>2 DEF EgressAllowed, Classes
      <4>3. class = 1 \/ (class = 2 /\ q.class = 2)
        BY <4>2
      <4>4. (q.approved => approved) /\ (q.internal => internal)
        OBVIOUS
      <4>5. EgressAllowed(r)
        BY <3>2, <4>1, <4>3, <4>4 DEF EgressAllowed, Classes
      <4> QED
        BY <4>1, <4>5 DEF Permits, r
    <3> QED
      BY <2>2, <3>3 DEF PermissionsAreMonotone
  <2>3. CASE q.kind = "prepare"
    <3>1. q \in [kind : {"prepare"}, scoped : BOOLEAN, operations : SUBSET Operations]
      BY <2>0, <2>3 DEF Questions
    <3>2. PreparationAllowed(q)
      BY <2>0, <2>3 DEF Permits
    <3>3. ASSUME NEW fewer \in SUBSET q.operations
          PROVE  Permits([q EXCEPT !.operations = fewer])
      <4> DEFINE r == [q EXCEPT !.operations = fewer]
      <4>1. r.kind = "prepare" /\ r.scoped = q.scoped /\ r.operations = fewer
        BY <2>3, <3>1
      <4> HIDE DEF r
      <4>2. PreparationAllowed(r)
        BY <3>2, <4>1 DEF PreparationAllowed
      <4> QED
        BY <4>1, <4>2 DEF Permits, r
    <3> QED
      BY <2>3, <3>3 DEF PermissionsAreMonotone
  <2>4. CASE q.kind = "stage"
    BY <2>4 DEF PermissionsAreMonotone
  <2> QED
    BY <2>0, <2>1, <2>2, <2>3, <2>4 DEF Questions
<1>2. AccessInv => PermissionsAreMonotone
  BY <1>1 DEF PermissionsAreMonotone
<1> QED
  BY <1>2, AccessAlways, PTL
=============================================================================
