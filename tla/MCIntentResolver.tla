-------------------------- MODULE MCIntentResolver --------------------------
(* An instance of IntentResolver for TLC. *)
EXTENDS IntentResolver

CONSTANTS government, emergency, theme, hazard, predict, qgis, indicator, facility, situation

\* The scenes share a field; each has tasks of its own.
MCProfiles ==
    [s \in Scenes |->
        IF s = government
        THEN [required |-> {theme}, unsupported |-> {}, tasks |-> <<indicator, facility>>]
        ELSE [required |-> {theme, hazard}, unsupported |-> {predict}, tasks |-> <<situation>>]]

\* No task, a known one, one of either scene, and a repeated one.
MCTasks ==
    {<<>>, <<indicator>>, <<situation>>, <<facility, situation>>, <<situation, situation>>}

MCRequests ==
    [matches : SUBSET Scenes, scene : Scenes \cup {Unknown, None},
     fields : SUBSET Fields, actions : SUBSET Actions, required : SUBSET Capabilities,
     available : SUBSET Capabilities, tasks : MCTasks]

MCInit ==
    /\ request \in MCRequests
    /\ intent = None
    /\ answered = <<>>
    /\ dispatched = FALSE

MCSpec == MCInit /\ [][Next]_vars
=============================================================================
