------------------------------- MODULE Access -------------------------------
(***************************************************************************)
(* What is decided by tables alone: authorize (security/authorization.py), *)
(* the egress of data and the redaction of logs (security/sensitive.py),   *)
(* the operations of a preparation (workflow/data_preparation.py) and what *)
(* a role of an agent is shown (stage_context, workflow/agent_runtime.py). *)
(* One question is put and answered; nothing is kept.                      *)
(***************************************************************************)
EXTENDS Naturals, Sequences, FiniteSets

CONSTANTS
    Roles,               \* roles that a subject may have, known or not
    Namespaces,          \* with "*" and the empty one among them
    Services, ApprovedServices,
    Operations, AllowedOperations, ForbiddenOperations,
    Parts,               \* mappings and lists in a value
    Texts,               \* values that are neither
    Names,               \* keys of mappings; "item" stands for a place in a list
    SensitiveNames       \* keys that contain a sensitive fragment

ASSUME AccessAssumption ==
    /\ IsFiniteSet(Parts) /\ Parts \cap Texts = {}
    /\ SensitiveNames \subseteq Names \ {"item"}

VARIABLES
    question,   \* what is asked
    held,       \* per part, its entries
    permitted,  \* the answer: no exception
    shown       \* the texts that stage_context returns

access == <<question, held, permitted, shown>>

Actions == {"read", "create_template", "validate", "approve_brief", "approve_freeze",
            "approve_delivery", "publish_template", "generate_map", "deliver", "manage_policy"}

RoleActions ==   \* _ROLE_ACTIONS
    [viewer    |-> {"read"},
     author    |-> {"read", "create_template", "validate", "generate_map"},
     reviewer  |-> {"read", "validate", "approve_brief", "approve_freeze"},
     publisher |-> {"read", "publish_template", "approve_delivery", "deliver"},
     operator  |-> {"read", "validate", "generate_map", "deliver"},
     admin     |-> Actions]

Classes == <<"public", "internal", "confidential", "restricted">>

Delicate == {"leadership_itinerary", "emergency_location"}

StageNames ==    \* allowed, in stage_context
    [planner  |-> {"intent", "brief", "templates", "evidence", "data_summary"},
     composer |-> {"plan", "prepared_data", "templates", "validation"}]

\* identified: neither id is empty; class is a place in Classes; internal:
\* the policy lets internal data out; scoped: require_project_scope passes.
Questions ==
    [kind : {"authorize"}, identified : BOOLEAN, roles : SUBSET Roles,
     namespaces : SUBSET Namespaces, action : Actions, resource : Namespaces]
    \cup [kind : {"egress"}, service : Services, class : DOMAIN Classes,
          data : Delicate \cup {"other"}, approved : BOOLEAN, internal : BOOLEAN]
    \cup [kind : {"prepare"}, scoped : BOOLEAN, operations : SUBSET Operations]
    \cup [kind : {"stage"}, role : DOMAIN StageNames \cup {"other"}, value : Parts]

PartEntries == [key : Names, value : Parts \cup Texts]

-----------------------------------------------------------------------------
(* The decisions.                                                          *)

\* A check that asks every role for the action.
AuthorizedByAll(q) ==
    /\ q.identified
    /\ q.roles # {} /\ q.roles \subseteq DOMAIN RoleActions
    /\ q.resource # "" /\ {q.resource, "*"} \cap q.namespaces # {}
    /\ \A role \in q.roles : q.action \in RoleActions[role]

Authorized(q) ==
    /\ q.identified
    /\ q.roles # {} /\ q.roles \subseteq DOMAIN RoleActions
    /\ q.resource # "" /\ {q.resource, "*"} \cap q.namespaces # {}
    /\ \E role \in q.roles : q.action \in RoleActions[role]

EgressAllowed(q) ==
    /\ q.service \in ApprovedServices
    /\ Classes[q.class] \notin {"confidential", "restricted"}
    /\ q.data \in Delicate => q.approved
    /\ Classes[q.class] = "internal" => q.internal /\ q.approved

PreparationAllowed(q) ==
    /\ q.scoped
    /\ q.operations \cap ForbiddenOperations = {}
    /\ q.operations \subseteq AllowedOperations

StageKnown(q) == q.role \in DOMAIN StageNames

Permits(q) ==
    CASE q.kind = "authorize" -> Authorized(q)
      [] q.kind = "egress"    -> EgressAllowed(q)
      [] q.kind = "prepare"   -> PreparationAllowed(q)
      [] q.kind = "stage"     -> StageKnown(q)

EntriesOf(v) == { held[v][i] : i \in DOMAIN held[v] }

OpenEntries(v) == { e \in EntriesOf(v) : e.key \notin SensitiveNames }

\* The ways to number the parts such that every part has a higher number
\* than those in it; no part contains itself, at any depth, if there is one.
Rankings ==
    { rank \in [Parts -> 1..Cardinality(Parts)] :
        \A p \in Parts : \A e \in EntriesOf(p) : e.value \in Parts => rank[e.value] < rank[p] }

Unfolds == Rankings # {}

\* A redaction that does not look into what is in a list.
RedactedOutsideLists(v) ==
    LET texts[w \in Parts \cup Texts] ==
          IF w \in Texts THEN {w}
          ELSE UNION { IF e.key = "item" /\ e.value \in Parts
                       THEN { f.value : f \in EntriesOf(e.value) } \cap Texts
                       ELSE texts[e.value] : e \in OpenEntries(w) }
    IN  texts[v]

\* redact_for_log: the texts that it leaves in v.
Redacted(v) ==
    LET texts[w \in Parts \cup Texts] ==
          IF w \in Texts THEN {w} ELSE UNION { texts[e.value] : e \in OpenEntries(w) }
    IN  texts[v]

StageContext(q) ==
    UNION { Redacted(e.value) : e \in { d \in OpenEntries(q.value) : d.key \in StageNames[q.role] } }

Ask ==
    /\ permitted = "open"
    /\ permitted' = IF Permits(question) THEN "yes" ELSE "no"
    /\ shown' = IF question.kind = "stage" /\ StageKnown(question) THEN StageContext(question) ELSE {}
    /\ UNCHANGED <<question, held>>

AccessInit == Unfolds /\ permitted = "open" /\ shown = {}

AccessNext == Ask

-----------------------------------------------------------------------------
(* Properties.                                                             *)

AccessTypeOK ==
    /\ question \in Questions
    /\ held \in [Parts -> Seq(PartEntries)]
    /\ permitted \in {"open", "yes", "no"}
    /\ shown \subseteq Texts

\* What is permitted stays so for whoever asks for less or may do more: with
\* more known roles and namespaces, data of a lower class, an approval, fewer
\* operations.  And nobody is granted by a combination of roles what none of
\* them is granted alone (authorization.py:55-68, sensitive.py:22-42,
\* data_preparation.py:25-27).
PermissionsAreMonotone ==
    LET q == question IN
    permitted = "yes" =>
      CASE q.kind = "authorize" ->
             /\ \A more \in SUBSET (Roles \cap DOMAIN RoleActions), wider \in SUBSET Namespaces :
                  Permits([q EXCEPT !.roles = @ \cup more, !.namespaces = @ \cup wider])
             /\ \E role \in q.roles, namespace \in q.namespaces :
                  Permits([q EXCEPT !.roles = {role}, !.namespaces = {namespace}])
        [] q.kind = "egress" ->
             \A class \in 1..q.class, approved \in {q.approved, TRUE}, internal \in {q.internal, TRUE} :
               Permits([q EXCEPT !.class = class, !.approved = approved, !.internal = internal])
        [] q.kind = "prepare" ->
             \A fewer \in SUBSET q.operations : Permits([q EXCEPT !.operations = fewer])
        [] q.kind = "stage" -> TRUE

\* The ways from v down to a text: the entries that are passed.
EntryWays(v) ==
    { s \in UNION { [1..n -> UNION { EntriesOf(p) : p \in Parts }] : n \in 1..Cardinality(Parts) } :
        /\ s[1] \in EntriesOf(v)
        /\ \A i \in DOMAIN s : IF i < Len(s) THEN s[i].value \in Parts /\ s[i + 1] \in EntriesOf(s[i].value)
                               ELSE s[i].value \in Texts }

\* An agent is shown just those texts that some way leads to on which no key
\* is sensitive, starting from a key that its stage may see: so neither a key
\* of another stage nor anything under a sensitive key at any depth, in lists
\* or mappings, and nothing else is kept from it (agent_runtime.py:49-53,
\* sensitive.py:54-64).
ShownIsOpen ==
    (permitted = "yes" /\ question.kind = "stage") =>
        shown = { t \in Texts : \E s \in EntryWays(question.value) :
                    /\ s[Len(s)].value = t
                    /\ s[1].key \in StageNames[question.role]
                    /\ \A i \in DOMAIN s : s[i].key \notin SensitiveNames }
=============================================================================
