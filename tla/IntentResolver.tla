--------------------------- MODULE IntentResolver ---------------------------
(***************************************************************************)
(* IntentResolver.resolve and TaskDispatcher.dispatch (workflow/intent.py):*)
(* a request is read as one of the business scenes, with what it still     *)
(* lacks, and its tasks are dispatched when it lacks nothing.              *)
(*                                                                         *)
(* The text of a request counts only by the scenes whose terms occur in    *)
(* it.  The caller, who is not part of the program, answers what it is     *)
(* asked for and resolves again.                                           *)
(***************************************************************************)
EXTENDS Sequences, FiniteSets, Naturals, Functions

CONSTANTS
    Scenes,        \* business scenes of the profiles
    Default,       \* "government_thematic", the scene of a request without one
    Profiles,      \* per scene: required fields, unsupported actions, task ids
    Fields,        \* names of information
    Actions,       \* actions that callers request
    Capabilities,
    Tasks,
    Unknown,       \* a scene that no profile describes
    None

ASSUME ProfilesAssumption ==
    /\ IsFiniteSet(Scenes) /\ Default \in Scenes
    /\ Unknown \notin Scenes /\ None \notin Scenes /\ Unknown # None
    /\ DOMAIN Profiles = Scenes
    /\ \A s \in Scenes :
         /\ Profiles[s].required \subseteq Fields
         /\ Profiles[s].unsupported \subseteq Actions
         /\ Profiles[s].tasks \in Seq(Tasks) /\ Profiles[s].tasks # <<>>

VARIABLES
    request,      \* what the caller has said so far
    intent,       \* what resolve made of it, or None
    answered,     \* history: for each round, what was asked for and answered
    dispatched    \* whether the tasks of intent have been dispatched

vars == <<request, intent, answered, dispatched>>

\* What resolve reads of a request: scenes its text matches, the scene it
\* names, the fields that have a value, the actions it asks for, the
\* capabilities it requires and those available, the tasks it names.
Requests == [matches : SUBSET Scenes, scene : Scenes \cup {Unknown, None},
             fields : SUBSET Fields, actions : SUBSET Actions,
             required : SUBSET Capabilities, available : SUBSET Capabilities,
             tasks : Seq(Tasks)]

\* Items of missing_items, by kind.
Item(kind, name) == [kind |-> kind, name |-> name]
SupportedScene   == Item("scene", "supported_business_scene")
AnyScene         == Item("scene", "business_scene")
OneScene         == Item("scene", "business_scene_confirmation")

Result(scene, tasks, status, readiness, missing) ==
    [scene |-> scene, status |-> status, readiness |-> readiness, missing |-> missing,
     tasks |-> IF tasks = <<>> THEN <<Profiles[scene].tasks[1]>> ELSE tasks]

Refused(scene, status, missing) ==
    Result(scene, <<>>, status, "missing_information", missing)

-----------------------------------------------------------------------------
(* resolve.                                                                *)

\* A scene that is named overrides those that the text matches, unless the
\* text matches others only.
Contested(q) == q.scene \in Scenes /\ q.matches # {} /\ q.scene \notin q.matches

\* The scenes of a request when only its text counts.
CandidatesOfText(q) == q.matches

Candidates(q) == IF q.scene \in Scenes THEN {q.scene} ELSE q.matches

Settled(q) == q.scene # Unknown /\ ~ Contested(q) /\ Cardinality(Candidates(q)) = 1

Scene(q) == CHOOSE s \in Candidates(q) : TRUE

\* The results for a request that is of no single scene.
UnsettledResults(q) ==
    CASE q.scene = Unknown   -> {Refused(Default, "unsupported", {SupportedScene})}
      [] Contested(q)        -> {Refused(q.scene, "ambiguous", {OneScene})}
      [] q.scene # Unknown /\ Candidates(q) = {} -> {Refused(Default, "unsupported", {AnyScene})}
      [] OTHER               -> {Refused(s, "ambiguous", {OneScene}) : s \in q.matches}

UnsupportedActions(q) ==
    { Item("action", a) : a \in Profiles[Scene(q)].unsupported \cap q.actions }

MissingFields(q) == { Item("field", f) : f \in Profiles[Scene(q)].required \ q.fields }

MissingCapabilities(q) == { Item("capability", c) : c \in q.required \ q.available }

UnknownTasks(q) == { Item("task", t) : t \in Range(q.tasks) \ Range(Profiles[Scene(q)].tasks) }

\* The order of the checks when capabilities are asked for only after
\* everything else has been answered.
MissingOneKind(q) ==
    IF MissingFields(q) # {} THEN MissingFields(q) ELSE MissingCapabilities(q)

\* Capabilities are reported with the information that is missing.
Missing(q) == MissingFields(q) \cup MissingCapabilities(q)

Readiness(q) ==
    IF MissingCapabilities(q) # {} THEN "missing_capability"
    ELSE IF Missing(q) # {} THEN "missing_information" ELSE "ready"

SettledResult(q) ==
    IF UnsupportedActions(q) # {}
    THEN Refused(Scene(q), "unsupported", UnsupportedActions(q))
    ELSE IF UnknownTasks(q) # {}
    THEN Refused(Scene(q), "unsupported", UnknownTasks(q))
    ELSE Result(Scene(q), q.tasks, "resolved", Readiness(q), Missing(q))

Results(q) == IF Settled(q) THEN {SettledResult(q)} ELSE UnsettledResults(q)

\* The map-intent schema refuses a list of tasks with a repetition: then
\* resolve raises.
Valid(result) == \A i, j \in DOMAIN result.tasks : result.tasks[i] = result.tasks[j] => i = j

Resolve ==
    /\ intent = None
    /\ \E result \in Results(request) : Valid(result) /\ intent' = result
    /\ UNCHANGED <<request, answered, dispatched>>

-----------------------------------------------------------------------------
(* dispatch, and the caller.                                               *)

\* A dispatcher that looks at the scene only.
MayDispatchResolved(i) == i.status = "resolved"

MayDispatch(i) == i.status = "resolved" /\ i.readiness = "ready"

Dispatch ==
    /\ intent # None
    /\ MayDispatch(intent)
    /\ dispatched' = TRUE
    /\ UNCHANGED <<request, intent, answered>>

\* Answers to a question about the scene: the caller names one, which is one
\* that its text matches when it is asked to confirm, or else writes a text
\* that matches the scene it names.
SceneAnswers(q, items) ==
    IF OneScene \in items
    THEN { [q EXCEPT !.scene = s] : s \in q.matches }
         \cup { [q EXCEPT !.scene = s, !.matches = {s}] : s \in Scenes }
    ELSE IF items \cap {SupportedScene, AnyScene} # {}
    THEN { [q EXCEPT !.scene = s] : s \in Scenes }
    ELSE {q}

\* Some of the tasks that were named, without those that were refused.
TasksLeft(q, items) ==
    LET left == { t \in Range(q.tasks) : Item("task", t) \notin items }
    IN  UNION { [1..n -> left] : n \in 0..Len(q.tasks) }

\* The other questions are answered by giving the information, installing the
\* capability, and giving up the action or the task.
Supplied(q, items) ==
    { [q EXCEPT !.fields = @ \cup { f \in Fields : Item("field", f) \in items },
                !.available = @ \cup { c \in Capabilities : Item("capability", c) \in items },
                !.actions = { a \in @ : Item("action", a) \notin items },
                !.tasks = tasks] : tasks \in TasksLeft(q, items) }

Answer ==
    /\ intent # None
    /\ intent.missing # {}
    /\ \E q \in SceneAnswers(request, intent.missing) : request' \in Supplied(q, intent.missing)
    /\ intent' = None
    /\ answered' = Append(answered, intent.missing)
    /\ UNCHANGED dispatched

Next == Resolve \/ Dispatch \/ Answer

Init ==
    /\ request \in Requests
    /\ intent = None
    /\ answered = <<>>
    /\ dispatched = FALSE

Spec == Init /\ [][Next]_vars

-----------------------------------------------------------------------------
(* Properties.                                                             *)

Items ==
    {SupportedScene, AnyScene, OneScene}
    \cup { Item("field", f) : f \in Fields } \cup { Item("capability", c) : c \in Capabilities }
    \cup { Item("action", a) : a \in Actions } \cup { Item("task", t) : t \in Tasks }

Intents == [scene : Scenes, tasks : Seq(Tasks), missing : SUBSET Items,
            status : {"resolved", "ambiguous", "unsupported"},
            readiness : {"ready", "missing_information", "missing_capability"}]

TypeOK ==
    /\ request \in Requests
    /\ intent \in Intents \cup {None}
    /\ answered \in Seq(SUBSET Items)
    /\ dispatched \in BOOLEAN

\* An intent is ready just when nothing is missing, so a caller that is
\* refused is always told what to do about it (intent.py:48-57).
RefusalsHaveReasons ==
    intent # None => (intent.readiness = "ready" <=> intent.missing = {})

\* What the caller has answered is not asked for again: no clarification goes
\* round in circles, whatever the request began with.
NeverAskedTwice ==
    intent # None => \A i \in DOMAIN answered : answered[i] \cap intent.missing = {}

\* Five rounds of questions settle every request: an unknown scene, a scene
\* that the text contradicts, actions, tasks, and then information and
\* capabilities together.
FewRounds == Len(answered) <= 5

\* Tasks are dispatched only for a request that names or matches their scene,
\* has all the information and the capabilities the scene requires, and asks
\* for nothing the scene does not support.
DispatchedIsComplete ==
    dispatched =>
        /\ request.scene = intent.scene \/ request.matches = {intent.scene}
        /\ Profiles[intent.scene].required \subseteq request.fields
        /\ Profiles[intent.scene].unsupported \cap request.actions = {}
        /\ request.required \subseteq request.available
        /\ Range(intent.tasks) \subseteq Range(Profiles[intent.scene].tasks)
=============================================================================
