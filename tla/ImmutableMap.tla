---------------------------- MODULE ImmutableMap ----------------------------
(***************************************************************************)
(* What ImmutableArtifactStore promises to its callers: an artifact appears*)
(* whole, in one step, and then stays; a reference to it is handed out     *)
(* only for an artifact that is there.  ToolGateway relies on no more: its *)
(* variable store is this map.                                             *)
(***************************************************************************)
CONSTANT Artifacts   \* artifact id, version and digest; the digest fixes the value

VARIABLES
    stored,    \* artifacts that readers find
    handedOut  \* artifacts for which a put has returned a reference

Init == stored = {} /\ handedOut = {}

Appear(a) ==
    /\ a \notin stored
    /\ stored' = stored \cup {a}
    /\ UNCHANGED handedOut

HandOut(a) ==
    /\ a \in stored
    /\ handedOut' = handedOut \cup {a}
    /\ UNCHANGED stored

Next == \E a \in Artifacts : Appear(a) \/ HandOut(a)

Spec == Init /\ [][Next]_<<stored, handedOut>>
=============================================================================
