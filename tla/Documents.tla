------------------------------ MODULE Documents ------------------------------
(***************************************************************************)
(* load_document and _check_depth (schema_registry.py): a policy, schema   *)
(* or contract file is measured, read and parsed, and the value is walked  *)
(* to refuse what is nested too deeply, contains itself, or has a mapping  *)
(* key that is not a string.                                               *)
(*                                                                         *)
(* YAML aliases make the value a graph: a container may occur in several   *)
(* places, and in itself.  The nested calls of _check_depth on containers  *)
(* are the sequence calls, the innermost last; its depth is its position   *)
(* minus one, and that of the values in it Len(calls).                     *)
(***************************************************************************)
EXTENDS Naturals, Sequences

CONSTANTS
    Containers,   \* mappings and lists of the document
    Scalar,       \* any other value
    MaxDepth      \* MAX_DOCUMENT_DEPTH

ASSUME DocumentAssumption == Scalar \notin Containers /\ MaxDepth \in Nat

VARIABLES
    file,     \* what is wrong with the file
    root,     \* the value it parses to
    items,    \* per container the values in it, each with whether its key may stay
    stage,    \* how far load_document is, or how it ended
    calls,    \* calls in progress: the container and its next item
    active    \* the set of containers that _check_depth passes along

loader == <<file, root, items, stage, calls, active>>

Values  == Containers \cup {Scalar}
Entries == [value : Values, string : BOOLEAN]   \* lists have no keys: TRUE
Calls   == [container : Containers, next : Nat \ {0}]

Defects  == {"too_large", "unsupported_type", "not_utf8", "not_parsed"}
Refusals == Defects \cup {"too_deep", "cyclic", "invalid_key"}

LoaderInit ==
    /\ stage = "unread"
    /\ calls = <<>>
    /\ active = {}

Refuse(reason) == stage' = reason /\ UNCHANGED <<file, root, items, calls, active>>

-----------------------------------------------------------------------------
(* load_document.                                                          *)

Measure ==
    /\ stage = "unread"
    /\ stage' = IF "too_large" \in file THEN "too_large" ELSE "measured"
    /\ UNCHANGED <<file, root, items, calls, active>>

\* Whoever else writes the file may do so after it has been measured.
Replace ==
    /\ stage = "measured"
    /\ file' \in SUBSET Defects
    /\ UNCHANGED <<root, items, stage, calls, active>>

RefuseFile ==
    /\ stage = "measured"
    /\ \/ "unsupported_type" \in file /\ Refuse("unsupported_type")
       \/ file \cap {"unsupported_type", "not_utf8"} = {"not_utf8"} /\ Refuse("not_utf8")
       \/ file \ {"too_large"} = {"not_parsed"} /\ Refuse("not_parsed")

\* The first call of _check_depth, which refuses nothing.
Parse ==
    /\ stage = "measured"
    /\ file \subseteq {"too_large"}
    /\ IF root = Scalar
       THEN stage' = "loaded" /\ UNCHANGED <<calls, active>>
       ELSE /\ stage' = "walking"
            /\ calls' = <<[container |-> root, next |-> 1]>>
            /\ active' = {root}
    /\ UNCHANGED <<file, root, items>>

-----------------------------------------------------------------------------
(* _check_depth.                                                           *)

Top == calls[Len(calls)]

AtItem == stage = "walking" /\ Top.next <= Len(items[Top.container])

Item == items[Top.container][Top.next]

Advanced == [calls EXCEPT ![Len(calls)].next = @ + 1]

\* A limit that only containers meet.
TooDeepContainers(v) == v \in Containers /\ Len(calls) > MaxDepth

TooDeep(v) == Len(calls) > MaxDepth

Cyclic(v) == v \in active

RefuseItem ==
    /\ AtItem
    /\ \/ ~ Item.string /\ Refuse("invalid_key")
       \/ Item.string /\ TooDeep(Item.value) /\ Refuse("too_deep")
       \/ Item.string /\ ~ TooDeep(Item.value) /\ Cyclic(Item.value) /\ Refuse("cyclic")

Admissible == AtItem /\ Item.string /\ ~ TooDeep(Item.value) /\ ~ Cyclic(Item.value)

Pass ==
    /\ Admissible
    /\ Item.value = Scalar
    /\ calls' = Advanced
    /\ UNCHANGED <<file, root, items, stage, active>>

Enter ==
    /\ Admissible
    /\ Item.value \in Containers
    /\ calls' = Append(Advanced, [container |-> Item.value, next |-> 1])
    /\ active' = active \cup {Item.value}
    /\ UNCHANGED <<file, root, items, stage>>

\* A walk that remembers every container it has met.
ActiveForever == active

ActiveAfter == active \ {Top.container}

Leave ==
    /\ stage = "walking"
    /\ Top.next = Len(items[Top.container]) + 1
    /\ calls' = SubSeq(calls, 1, Len(calls) - 1)
    /\ active' = ActiveAfter
    /\ stage' = IF Len(calls) = 1 THEN "loaded" ELSE "walking"
    /\ UNCHANGED <<file, root, items>>

LoaderNext ==
    \/ Measure \/ Replace \/ RefuseFile \/ Parse
    \/ RefuseItem \/ Pass \/ Enter \/ Leave

-----------------------------------------------------------------------------
(* Properties.                                                             *)

LoaderTypeOK ==
    /\ file \subseteq Defects
    /\ root \in Values
    /\ items \in [Containers -> Seq(Entries)]
    /\ stage \in {"unread", "measured", "walking", "loaded"} \cup Refusals
    /\ calls \in Seq(Calls)
    /\ active \subseteq Containers

\* w is one of the values in v.
Holds(v, w) == v \in Containers /\ \E n \in DOMAIN items[v] : items[v][n].value = w

\* The ways from v down into the document, to one step below the limit.
Ways(v) == { s \in UNION { [1..n -> Values] : n \in 1..(MaxDepth + 2) } :
                s[1] = v /\ \A i \in DOMAIN s : i > 1 => Holds(s[i - 1], s[i]) }

HasBadKey(v) == v \in Containers /\ \E n \in DOMAIN items[v] : ~ items[v][n].string

\* A document that is loaded has no value below the depth limit, so it does
\* not contain itself, and has string keys throughout, wherever its aliases
\* lead (schema_registry.py:41-59).
LoadedIsSound ==
    stage = "loaded" =>
        \A s \in Ways(root) : Len(s) <= MaxDepth + 1 /\ ~ HasBadKey(s[Len(s)])

\* Each refusal of a value has its cause in it: a way down that is too long,
\* that meets a container twice, or that ends at a key which is no string.
\* So a container that occurs in several places is not taken for one that
\* contains itself.
RefusalsAreRight ==
    /\ stage = "too_deep" => \E s \in Ways(root) : Len(s) = MaxDepth + 2
    /\ stage = "cyclic" =>
         \E s \in Ways(root) : \E i, j \in DOMAIN s : i # j /\ s[i] = s[j]
    /\ stage = "invalid_key" => \E s \in Ways(root) : HasBadKey(s[Len(s)])

\* While the value is walked, active holds just the containers of the calls
\* in progress, which are nested in one another and all different, and no
\* more than the limit allows: so the recursion is bounded.
CallsAreNested ==
    stage = "walking" =>
        /\ active = { calls[i].container : i \in DOMAIN calls }
        /\ \A i, j \in DOMAIN calls : calls[i].container = calls[j].container => i = j
        /\ \A i \in DOMAIN calls : i < Len(calls) =>
             /\ calls[i].next > 1
             /\ items[calls[i].container][calls[i].next - 1].value = calls[i + 1].container
        /\ Len(calls) \in 1..(MaxDepth + 1)
=============================================================================
