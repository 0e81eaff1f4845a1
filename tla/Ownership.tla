------------------------------ MODULE Ownership ------------------------------
(***************************************************************************)
(* OwnershipResolver.merge (compiler/ownership.py): segments of values,    *)
(* each of an owner, are merged key by key; a key may come again only with *)
(* an equal value.                                                         *)
(*                                                                         *)
(* Equal is Python's ==, which holds of values that are written            *)
(* differently, as 1, 1.0 and True; a NaN, which is not equal to itself,   *)
(* is left out.                                                            *)
(***************************************************************************)
EXTENDS Naturals, Sequences

CONSTANTS
    Keys,
    Literals,       \* values as they are written
    Equal,          \* pairs of literals that are equal
    Owners,         \* OwnershipResolver.OWNERS
    Strangers       \* other names

ASSUME OwnershipAssumption ==
    /\ Owners \cap Strangers = {}
    /\ Equal \subseteq Literals \X Literals
    /\ \A v \in Literals : <<v, v>> \in Equal
    /\ \A v, w \in Literals : <<v, w>> \in Equal => <<w, v>> \in Equal
    /\ \A u, v, w \in Literals : <<u, v>> \in Equal /\ <<v, w>> \in Equal => <<u, w>> \in Equal

VARIABLES
    segments,    \* the argument of merge
    merged,      \* the segments that have been merged
    result,      \* key to value
    owners,      \* key to owner
    outcome      \* "none" while merge runs

merger == <<segments, merged, result, owners, outcome>>

PartialMaps(S, T) == UNION { [D -> T] : D \in SUBSET S }

Segments == [owner : Owners \cup Strangers, values : PartialMaps(Keys, Literals)]

MergerInit ==
    /\ merged = 0
    /\ result = <<>>
    /\ owners = <<>>
    /\ outcome = "none"

Segment == segments[merged + 1]

\* A merge that wants values to be written alike.
ConflictsLiterally(k) ==
    k \in DOMAIN Segment.values \cap DOMAIN result /\ result[k] # Segment.values[k]

Conflicts(k) ==
    /\ k \in DOMAIN Segment.values \cap DOMAIN result
    /\ <<result[k], Segment.values[k]>> \notin Equal

Overlaid(f, g) == [k \in DOMAIN f \cup DOMAIN g |-> IF k \in DOMAIN g THEN g[k] ELSE f[k]]

\* Owners that are entered when their key comes first.
OwnersOfFirst == Overlaid([k \in DOMAIN Segment.values |-> Segment.owner], owners)

\* Owners that are kept for one segment only.
OwnersOfLast == [k \in DOMAIN Segment.values |-> Segment.owner]

OwnersAfter == Overlaid(owners, [k \in DOMAIN Segment.values |-> Segment.owner])

MergeSegment ==
    /\ outcome = "none"
    /\ merged < Len(segments)
    /\ Segment.owner \in Owners
    /\ \A k \in Keys : ~ Conflicts(k)
    /\ result' = Overlaid(result, Segment.values)
    /\ owners' = OwnersAfter
    /\ merged' = merged + 1
    /\ UNCHANGED <<segments, outcome>>

\* What merge has put together is lost when it raises.
RefuseSegment ==
    /\ outcome = "none"
    /\ merged < Len(segments)
    /\ \/ Segment.owner \in Strangers /\ outcome' = "unknown_owner"
       \/ Segment.owner \in Owners /\ (\E k \in Keys : Conflicts(k)) /\ outcome' = "conflict"
    /\ UNCHANGED <<segments, merged, result, owners>>

Return ==
    /\ outcome = "none"
    /\ merged = Len(segments)
    /\ outcome' = "merged"
    /\ UNCHANGED <<segments, merged, result, owners>>

MergerNext == MergeSegment \/ RefuseSegment \/ Return

-----------------------------------------------------------------------------
(* Properties.                                                             *)

MergerTypeOK ==
    /\ segments \in Seq(Segments)
    /\ merged \in 0..Len(segments)
    /\ result \in PartialMaps(Keys, Literals)
    /\ owners \in [DOMAIN result -> Owners]
    /\ outcome \in {"none", "merged", "conflict", "unknown_owner"}

\* The value that segment i gives to key k is v.
Gives(i, k, v) == k \in DOMAIN segments[i].values /\ segments[i].values[k] = v

\* What is merged has every key of every segment, no two of which disagree,
\* and the owner that is entered for a key is one that gave it the very value
\* that is entered with it, as it is written (ownership.py:15-22).
MergedIsAttributed ==
    outcome = "merged" =>
        /\ \A i \in DOMAIN segments : \A k \in DOMAIN segments[i].values :
             k \in DOMAIN result /\ <<segments[i].values[k], result[k]>> \in Equal
        /\ \A k \in DOMAIN result : \E i \in DOMAIN segments :
             segments[i].owner = owners[k] /\ Gives(i, k, result[k])

Disagree(i, j) ==
    \E k \in DOMAIN segments[i].values \cap DOMAIN segments[j].values :
        <<segments[i].values[k], segments[j].values[k]>> \notin Equal

\* Whether merge refuses does not depend on the order of the segments: it
\* does just when two of them disagree or one is a stranger's, and a refusal
\* names a cause that is there (ownership.py:15-19).
RefusalsAreOrderFree ==
    /\ outcome = "merged" =>
         /\ \A i \in DOMAIN segments : segments[i].owner \in Owners
         /\ \A i, j \in DOMAIN segments : ~ Disagree(i, j)
    /\ outcome = "conflict" => \E i, j \in DOMAIN segments : Disagree(i, j)
    /\ outcome = "unknown_owner" =>
         \E i \in DOMAIN segments : segments[i].owner \in Strangers
=============================================================================
