---------------------------- MODULE IntentProofs ----------------------------
(***************************************************************************)
(* Proofs about IntentResolver.                                            *)
(*                                                                         *)
(* A request is at one of six stages, by what resolve asks of it: a scene, *)
(* one scene, to give up actions, to give up tasks, information and        *)
(* capabilities, nothing.  Whoever answers moves it to a later stage and   *)
(* undoes no earlier answer; so no question comes twice and there are at   *)
(* most five.                                                              *)
(***************************************************************************)
EXTENDS IntentResolver, FiniteSetTheorems, TLAPS

Stage(q) ==
    IF q.scene = Unknown \/ Candidates(q) = {} THEN 1
    ELSE IF ~ Settled(q) THEN 2
    ELSE IF UnsupportedActions(q) # {} THEN 3
    ELSE IF UnknownTasks(q) # {} THEN 4
    ELSE IF Missing(q) # {} THEN 5 ELSE 6

\* What a request is like once its caller has answered an item.
DoneWith(q, item) ==
    /\ item \in {SupportedScene, AnyScene} => q.scene \in Scenes
    /\ item = OneScene => q.scene \in Scenes /\ q.scene \in q.matches
    /\ \A f \in Fields : item = Item("field", f) => f \in q.fields
    /\ \A c \in Capabilities : item = Item("capability", c) => c \in q.available
    /\ \A a \in Actions : item = Item("action", a) => a \notin q.actions
    /\ \A t \in Tasks : item = Item("task", t) => t \notin Range(q.tasks)

IntentInv ==
    /\ request \in Requests
    /\ intent # None => intent \in Results(request)
    /\ answered \in Seq(SUBSET Items)
    /\ \A i \in DOMAIN answered : \A item \in answered[i] : DoneWith(request, item)
    /\ Len(answered) < Stage(request)
    /\ dispatched \in BOOLEAN
    /\ dispatched => intent # None /\ MayDispatch(intent)

-----------------------------------------------------------------------------
(* What resolve makes of a request.                                        *)

LEMMA ElementOf ==
    ASSUME NEW S, NEW s \in Seq(S), NEW n \in DOMAIN s
    PROVE  s[n] \in S
OBVIOUS

LEMMA RangeOfTasks ==
    ASSUME NEW s \in Seq(Tasks)
    PROVE  Range(s) \subseteq Tasks
BY ElementOf DEF Range

LEMMA RequestParts ==
    ASSUME NEW q \in Requests
    PROVE  /\ q.matches \in SUBSET Scenes /\ q.scene \in Scenes \cup {Unknown, None}
           /\ q.fields \subseteq Fields /\ q.actions \subseteq Actions
           /\ q.required \subseteq Capabilities /\ q.available \subseteq Capabilities
           /\ q.tasks \in Seq(Tasks)
BY DEF Requests

\* A request is settled just when it has one candidate that nothing speaks
\* against.
LEMMA SettledFacts ==
    ASSUME NEW q \in Requests
    PROVE  /\ Settled(q) => Scene(q) \in Scenes /\ Candidates(q) = {Scene(q)}
           /\ q.scene \in Scenes /\ q.scene \in q.matches => Settled(q)
           /\ Settled(q) => q.scene # Unknown /\ Candidates(q) # {}
<1>1. Candidates(q) \in SUBSET Scenes /\ IsFiniteSet(Scenes)
  BY RequestParts, ProfilesAssumption DEF Candidates
<1>2. IsFiniteSet(Candidates(q))
  BY <1>1, FS_Subset
<1>3. ASSUME Settled(q)
      PROVE  Scene(q) \in Scenes /\ Candidates(q) = {Scene(q)} /\ q.scene # Unknown
  <2>1. PICK s : Candidates(q) = {s}
    BY <1>2, <1>3, FS_Singleton DEF Settled
  <2>2. Scene(q) = s
    BY <2>1 DEF Scene
  <2> QED
    BY <1>1, <1>3, <2>1, <2>2 DEF Settled
<1>4. ASSUME q.scene \in Scenes, q.scene \in q.matches PROVE Settled(q)
  <2>1. Candidates(q) = {q.scene} /\ ~ Contested(q) /\ q.scene # Unknown
    BY <1>4, ProfilesAssumption DEF Candidates, Contested
  <2> QED
    BY <2>1, FS_Singleton DEF Settled
<1> QED
  BY <1>3, <1>4

LEMMA MissingFacts ==
    ASSUME NEW q \in Requests, Settled(q)
    PROVE  /\ UnsupportedActions(q) \subseteq { Item("action", a) : a \in Actions }
           /\ UnknownTasks(q) \subseteq { Item("task", t) : t \in Tasks }
           /\ Missing(q) \subseteq { Item("field", f) : f \in Fields }
                                     \cup { Item("capability", c) : c \in Capabilities }
           /\ Readiness(q) = "ready" <=> Missing(q) = {}
           /\ Readiness(q) \in {"ready", "missing_information", "missing_capability"}
<1>1. Scene(q) \in Scenes
  BY SettledFacts
<1>2. /\ UnsupportedActions(q) \subseteq { Item("action", a) : a \in Actions }
      /\ UnknownTasks(q) \subseteq { Item("task", t) : t \in Tasks }
  BY RequestParts, RangeOfTasks DEF UnsupportedActions, UnknownTasks
<1>3. MissingFields(q) \subseteq { Item("field", f) : f \in Fields }
  BY <1>1, ProfilesAssumption DEF MissingFields
<1>4. MissingCapabilities(q) \subseteq { Item("capability", c) : c \in Capabilities }
  BY RequestParts DEF MissingCapabilities
<1> QED
  BY <1>2, <1>3, <1>4 DEF Missing, Readiness

\* What is asked for, by stage.
LEMMA AskedByStage ==
    ASSUME NEW q \in Requests, NEW x \in Results(q)
    PROVE  /\ Stage(q) = 1 => x.missing \in {{SupportedScene}, {AnyScene}} /\ q.scene \notin Scenes
           /\ Stage(q) = 2 => x.missing = {OneScene} /\ ~ Settled(q)
           /\ Stage(q) = 3 => x.missing = UnsupportedActions(q) /\ Settled(q)
           /\ Stage(q) = 4 => x.missing = UnknownTasks(q) /\ Settled(q)
           /\ Stage(q) = 5 => x.missing = Missing(q) /\ Settled(q)
           /\ Stage(q) = 6 => x.missing = {} /\ Settled(q)
           /\ Stage(q) \in 1..6
<1>1. \A s, t, u, v, w : Result(s, t, u, v, w).missing = w
  BY DEF Result
<1>2. CASE ~ Settled(q)
  <2>1. x \in UnsettledResults(q)
    BY <1>2 DEF Results
  <2>2. CASE q.scene = Unknown
    <3>1. x = Refused(Default, "unsupported", {SupportedScene})
      BY <2>1, <2>2, ProfilesAssumption DEF UnsettledResults, Contested
    <3>2. x.missing = {SupportedScene}
      BY <1>1, <3>1 DEF Refused
    <3>3. Stage(q) = 1 /\ q.scene \notin Scenes
      BY <2>2, ProfilesAssumption DEF Stage
    <3> QED
      BY <3>2, <3>3
  <2>3. CASE q.scene # Unknown /\ Candidates(q) = {}
    <3>1. q.scene \notin Scenes /\ ~ Contested(q)
      BY <2>3 DEF Candidates, Contested
    <3>2. x = Refused(Default, "unsupported", {AnyScene})
      BY <2>1, <2>3, <3>1 DEF UnsettledResults
    <3>3. x.missing = {AnyScene}
      BY <1>1, <3>2 DEF Refused
    <3>4. Stage(q) = 1
      BY <2>3 DEF Stage
    <3> QED
      BY <3>1, <3>3, <3>4
  <2>4. CASE q.scene # Unknown /\ Candidates(q) # {}
    <3>1. x.missing = {OneScene}
      BY <1>1, <2>1, <2>4 DEF UnsettledResults, Refused
    <3> QED
      BY <1>2, <2>4, <3>1 DEF Stage
  <2> QED
    BY <2>2, <2>3, <2>4
<1>3. CASE Settled(q)
  <2>1. x = SettledResult(q) /\ q.scene # Unknown /\ Candidates(q) # {}
    BY <1>3, SettledFacts DEF Results
  <2> QED
    BY <1>1, <1>3, <2>1 DEF SettledResult, Refused, Stage, Missing, Readiness
<1> QED
  BY <1>2, <1>3

LEMMA ResultFacts ==
    ASSUME NEW q \in Requests, NEW x \in Results(q)
    PROVE  /\ x \in Intents
           /\ x.readiness = "ready" <=> x.missing = {}
           /\ x.status = "resolved" =>
                /\ Settled(q) /\ UnsupportedActions(q) = {} /\ UnknownTasks(q) = {}
                /\ x = Result(Scene(q), q.tasks, "resolved", Readiness(q), Missing(q))
<1>1. ASSUME NEW s \in Scenes, NEW t \in Seq(Tasks), NEW u \in {"resolved", "ambiguous", "unsupported"},
             NEW v \in {"ready", "missing_information", "missing_capability"}, NEW w \in SUBSET Items
      PROVE  Result(s, t, u, v, w) \in Intents
  <2>1. Profiles[s].tasks \in Seq(Tasks) /\ Profiles[s].tasks # <<>>
    BY ProfilesAssumption
  <2>2. Profiles[s].tasks[1] \in Tasks
    BY <2>1
  <2>3. (IF t = <<>> THEN <<Profiles[s].tasks[1]>> ELSE t) \in Seq(Tasks)
    BY <2>2
  <2> QED
    BY <2>3 DEF Result, Intents
<1>2. <<>> \in Seq(Tasks)
  OBVIOUS
<1>3. ASSUME NEW s \in Scenes, NEW u \in {"ambiguous", "unsupported"}, NEW w \in SUBSET Items, w # {},
             x = Refused(s, u, w)
      PROVE  x \in Intents /\ x.readiness = "missing_information" /\ x.missing # {} /\ x.status # "resolved"
  <2>1. x \in Intents
    BY <1>1, <1>2, <1>3 DEF Refused
  <2> QED
    BY <1>3, <2>1 DEF Refused, Result
<1>4. CASE ~ Settled(q)
  <2>1. {SupportedScene} \subseteq Items /\ {AnyScene} \subseteq Items /\ {OneScene} \subseteq Items
    BY DEF Items
  <2>2. \E s \in Scenes, u \in {"ambiguous", "unsupported"}, w \in SUBSET Items :
          w # {} /\ x = Refused(s, u, w)
    <3>1. x \in UnsettledResults(q) /\ Default \in Scenes
      BY <1>4, ProfilesAssumption DEF Results
    <3>2. CASE q.scene = Unknown
      <4>1. x = Refused(Default, "unsupported", {SupportedScene})
        BY <3>1, <3>2, ProfilesAssumption DEF UnsettledResults, Contested
      <4> QED
        BY <2>1, <3>1, <4>1
    <3>3. CASE q.scene # Unknown /\ Contested(q)
      BY <2>1, <3>1, <3>3 DEF UnsettledResults, Contested
    <3>4. CASE q.scene # Unknown /\ ~ Contested(q) /\ Candidates(q) = {}
      BY <2>1, <3>1, <3>4 DEF UnsettledResults
    <3>5. CASE q.scene # Unknown /\ ~ Contested(q) /\ Candidates(q) # {}
      <4>1. PICK s \in q.matches : x = Refused(s, "ambiguous", {OneScene})
        BY <3>1, <3>5 DEF UnsettledResults
      <4> QED
        BY <2>1, <4>1, RequestParts
    <3> QED
      BY <3>2, <3>3, <3>4, <3>5
  <2> QED
    BY <1>3, <2>2
<1>5. CASE Settled(q)
  <2>1. x = SettledResult(q) /\ Scene(q) \in Scenes
    BY <1>5, SettledFacts DEF Results
  <2>2. /\ UnsupportedActions(q) \subseteq Items /\ UnknownTasks(q) \subseteq Items
        /\ Missing(q) \subseteq Items
    BY <1>5, MissingFacts DEF Items
  <2>3. CASE UnsupportedActions(q) # {}
    BY <1>3, <2>1, <2>2, <2>3 DEF SettledResult
  <2>4. CASE UnsupportedActions(q) = {} /\ UnknownTasks(q) # {}
    BY <1>3, <2>1, <2>2, <2>4 DEF SettledResult
  <2>5. CASE UnsupportedActions(q) = {} /\ UnknownTasks(q) = {}
    <3>1. x = Result(Scene(q), q.tasks, "resolved", Readiness(q), Missing(q))
      BY <2>1, <2>5 DEF SettledResult
    <3>2. x \in Intents
      BY <1>1, <1>5, <2>1, <2>2, <3>1, MissingFacts, RequestParts
    <3>3. x.readiness = Readiness(q) /\ x.missing = Missing(q)
      BY <3>1 DEF Result
    <3> QED
      BY <1>5, <2>5, <3>1, <3>2, <3>3, MissingFacts
  <2> QED
    BY <2>3, <2>4, <2>5
<1> QED
  BY <1>4, <1>5

-----------------------------------------------------------------------------
(* What an answer makes of a request.                                      *)

\* What has been answered is not asked for.
LEMMA DoneIsNotAsked ==
    ASSUME NEW q \in Requests, NEW x \in Results(q), NEW item \in x.missing
    PROVE  ~ DoneWith(q, item)
<1>1. CASE Stage(q) = 1
  BY <1>1, AskedByStage DEF DoneWith
<1>2. CASE Stage(q) = 2
  BY <1>2, AskedByStage, SettledFacts DEF DoneWith
<1>3. CASE Stage(q) = 3
  BY <1>3, AskedByStage, RequestParts DEF DoneWith, UnsupportedActions
<1>4. CASE Stage(q) = 4
  BY <1>4, AskedByStage, RequestParts, RangeOfTasks DEF DoneWith, UnknownTasks
<1>5. CASE Stage(q) = 5
  <2>1. item \in Missing(q) /\ Scene(q) \in Scenes
    BY <1>5, AskedByStage, SettledFacts
  <2>2. CASE item \in MissingFields(q)
    BY <2>1, <2>2, ProfilesAssumption DEF DoneWith, MissingFields
  <2>3. CASE item \in MissingCapabilities(q)
    BY <2>3, RequestParts DEF DoneWith, MissingCapabilities
  <2> QED
    BY <2>1, <2>2, <2>3 DEF Missing
<1> QED
  BY <1>1, <1>2, <1>3, <1>4, <1>5, AskedByStage

\* The parts of a request after an answer.
LEMMA AnswerParts ==
    ASSUME NEW q \in Requests, NEW items \in SUBSET Items,
           NEW p \in SceneAnswers(q, items), NEW r \in Supplied(p, items)
    PROVE  /\ r \in Requests /\ r.scene = p.scene /\ r.matches = p.matches /\ r.required = q.required
           /\ r.fields = q.fields \cup { f \in Fields : Item("field", f) \in items }
           /\ r.available = q.available \cup { c \in Capabilities : Item("capability", c) \in items }
           /\ r.actions = { a \in q.actions : Item("action", a) \notin items }
           /\ Range(r.tasks) \subseteq { t \in Range(q.tasks) : Item("task", t) \notin items }
           /\ OneScene \in items => r.scene \in Scenes /\ r.scene \in r.matches
           /\ items \cap {SupportedScene, AnyScene} # {} => r.scene \in Scenes
           /\ items \cap {OneScene, SupportedScene, AnyScene} = {} =>
                r.scene = q.scene /\ r.matches = q.matches
           /\ q.scene \in Scenes => r.scene \in Scenes
<1>1. /\ p \in Requests
      /\ p.fields = q.fields /\ p.available = q.available /\ p.required = q.required
      /\ p.actions = q.actions /\ p.tasks = q.tasks
      /\ OneScene \in items => p.scene \in Scenes /\ p.scene \in p.matches
      /\ items \cap {SupportedScene, AnyScene} # {} => p.scene \in Scenes
      /\ items \cap {OneScene, SupportedScene, AnyScene} = {} => p = q
      /\ q.scene \in Scenes => p.scene \in Scenes
  <2>1. CASE OneScene \in items
    <3>1. CASE \E s \in q.matches : p = [q EXCEPT !.scene = s]
      <4>1. PICK s \in q.matches : p = [q EXCEPT !.scene = s]
        BY <3>1
      <4> QED
        BY <2>1, <4>1 DEF Requests
    <3>2. CASE \E s \in Scenes : p = [q EXCEPT !.scene = s, !.matches = {s}]
      <4>1. PICK s \in Scenes : p = [q EXCEPT !.scene = s, !.matches = {s}]
        BY <3>2
      <4> QED
        BY <2>1, <4>1 DEF Requests
    <3> QED
      BY <2>1, <3>1, <3>2 DEF SceneAnswers
  <2>2. CASE OneScene \notin items /\ items \cap {SupportedScene, AnyScene} # {}
    <3>1. PICK s \in Scenes : p = [q EXCEPT !.scene = s]
      BY <2>2 DEF SceneAnswers
    <3> QED
      BY <2>2, <3>1 DEF Requests
  <2>3. CASE OneScene \notin items /\ items \cap {SupportedScene, AnyScene} = {}
    BY <2>3 DEF SceneAnswers
  <2> QED
    BY <2>1, <2>2, <2>3
<1>2. PICK tasks \in TasksLeft(p, items) :
        r = [p EXCEPT !.fields = @ \cup { f \in Fields : Item("field", f) \in items },
                      !.available = @ \cup { c \in Capabilities : Item("capability", c) \in items },
                      !.actions = { a \in @ : Item("action", a) \notin items },
                      !.tasks = tasks]
  BY DEF Supplied
<1>3. tasks \in Seq(Tasks) /\ Range(tasks) \subseteq { t \in Range(q.tasks) : Item("task", t) \notin items }
  <2> DEFINE left == { t \in Range(q.tasks) : Item("task", t) \notin items }
  <2>1. PICK n \in 0..Len(q.tasks) : tasks \in [1..n -> left]
    BY <1>1, <1>2 DEF TasksLeft
  <2>2. left \subseteq Tasks /\ n \in Nat
    BY <2>1, RequestParts, RangeOfTasks
  <2> HIDE DEF left
  <2>3. tasks \in Seq(left)
    BY <2>1, <2>2
  <2>4. Range(tasks) \subseteq left
    BY <2>1 DEF Range
  <2> QED
    BY <2>2, <2>3, <2>4 DEF left
<1>4. /\ r.scene = p.scene /\ r.matches = p.matches /\ r.required = p.required
      /\ r.fields = p.fields \cup { f \in Fields : Item("field", f) \in items }
      /\ r.available = p.available \cup { c \in Capabilities : Item("capability", c) \in items }
      /\ r.actions = { a \in p.actions : Item("action", a) \notin items }
      /\ r.tasks = tasks
  BY <1>1, <1>2 DEF Requests
<1>5. r \in Requests
  BY <1>1, <1>2, <1>3 DEF Requests
<1> QED
  BY <1>1, <1>3, <1>4, <1>5

\* An answer settles what was asked, and undoes nothing.
LEMMA AnswerSettles ==
    ASSUME NEW q \in Requests, NEW x \in Results(q), x.missing # {},
           NEW p \in SceneAnswers(q, x.missing), NEW r \in Supplied(p, x.missing)
    PROVE  /\ r \in Requests
           /\ \A item \in x.missing : DoneWith(r, item)
           /\ \A item \in Items : DoneWith(q, item) => DoneWith(r, item)
           /\ Stage(q) \in 1..5 /\ Stage(r) \in 1..6 /\ Stage(q) < Stage(r)
<1> DEFINE items == x.missing
<1>1. items \in SUBSET Items
  BY ResultFacts DEF Intents
<1>2. /\ r \in Requests /\ r.required = q.required
      /\ r.fields = q.fields \cup { f \in Fields : Item("field", f) \in items }
      /\ r.available = q.available \cup { c \in Capabilities : Item("capability", c) \in items }
      /\ r.actions = { a \in q.actions : Item("action", a) \notin items }
      /\ Range(r.tasks) \subseteq { t \in Range(q.tasks) : Item("task", t) \notin items }
      /\ OneScene \in items => r.scene \in Scenes /\ r.scene \in r.matches
      /\ items \cap {SupportedScene, AnyScene} # {} => r.scene \in Scenes
      /\ items \cap {OneScene, SupportedScene, AnyScene} = {} =>
           r.scene = q.scene /\ r.matches = q.matches
      /\ q.scene \in Scenes => r.scene \in Scenes
  BY <1>1, AnswerParts
<1>3. \A item \in items : DoneWith(r, item)
  BY <1>2 DEF DoneWith
<1>4. Stage(q) \in 1..5 /\ Stage(r) \in 1..6
  <2>1. Stage(q) \in 1..6 /\ Stage(q) # 6
    BY AskedByStage
  <2>2. Stage(r) \in 1..6
    BY DEF Stage
  <2> QED
    BY <2>1, <2>2
<1>5. Stage(q) \in {3, 4, 5} =>
        /\ Settled(q) /\ items \cap {OneScene, SupportedScene, AnyScene} = {}
        /\ r.scene = q.scene /\ r.matches = q.matches
  <2>1. ASSUME Stage(q) \in {3, 4, 5} PROVE Settled(q) /\ items \cap {OneScene, SupportedScene, AnyScene} = {}
    <3>1. Settled(q) /\ items \in {UnsupportedActions(q), UnknownTasks(q), Missing(q)}
      BY <2>1, AskedByStage
    <3>2. \A item \in items : item.kind # "scene"
      BY <3>1, MissingFacts DEF Item
    <3> QED
      BY <3>1, <3>2 DEF Item, OneScene, SupportedScene, AnyScene
  <2> QED
    BY <1>2, <2>1
<1>6. \A item \in Items : DoneWith(q, item) => DoneWith(r, item)
  <2> SUFFICES ASSUME NEW item \in Items, DoneWith(q, item) PROVE DoneWith(r, item)
    OBVIOUS
  <2>1. item = OneScene => r.scene \in Scenes /\ r.scene \in r.matches
    <3>1. item = OneScene => Stage(q) \notin {1, 2}
      BY AskedByStage, SettledFacts DEF DoneWith
    <3> QED
      BY <1>4, <1>5, <3>1 DEF DoneWith
  <2>2. item \in {SupportedScene, AnyScene} => r.scene \in Scenes
    BY <1>2 DEF DoneWith
  <2>3. /\ \A f \in Fields : item = Item("field", f) => f \in r.fields
        /\ \A c \in Capabilities : item = Item("capability", c) => c \in r.available
        /\ \A a \in Actions : item = Item("action", a) => a \notin r.actions
        /\ \A t \in Tasks : item = Item("task", t) => t \notin Range(r.tasks)
    BY <1>2 DEF DoneWith
  <2> QED
    BY <2>1, <2>2, <2>3 DEF DoneWith
<1>7. CASE Stage(q) = 1
  <2>1. r.scene \in Scenes
    BY <1>2, <1>7, AskedByStage
  <2>2. r.scene # Unknown /\ Candidates(r) # {}
    BY <2>1, ProfilesAssumption DEF Candidates
  <2>3. Stage(r) > 1
    BY <2>2 DEF Stage
  <2> QED
    BY <1>2, <1>3, <1>4, <1>6, <1>7, <2>3
<1>8. CASE Stage(q) = 2
  <2>1. Settled(r)
    BY <1>2, <1>8, AskedByStage, SettledFacts
  <2>2. Stage(r) > 2
    BY <1>2, <2>1, SettledFacts DEF Stage
  <2> QED
    BY <1>2, <1>3, <1>4, <1>6, <1>8, <2>2
<1>9. CASE Stage(q) \in {3, 4, 5}
  <2>1. /\ Settled(r) /\ Settled(q) /\ Scene(r) = Scene(q)
    BY <1>5, <1>9 DEF Settled, Contested, Candidates, Scene
  <2>2. r.scene # Unknown /\ Candidates(r) # {}
    BY <1>2, <2>1, SettledFacts
  <2>3. Stage(q) = 3 => UnsupportedActions(r) = {}
    BY <1>2, <2>1, AskedByStage DEF UnsupportedActions
  <2>4. Stage(q) \in {4, 5} => UnsupportedActions(r) = {}
    <3>1. Stage(q) \in {4, 5} => UnsupportedActions(q) = {}
      BY DEF Stage
    <3> QED
      BY <1>2, <2>1, <3>1 DEF UnsupportedActions
  <2>5. Stage(q) = 4 => UnknownTasks(r) = {}
    BY <1>2, <2>1, AskedByStage DEF UnknownTasks
  <2>6. Stage(q) = 5 => UnknownTasks(r) = {}
    <3>1. Stage(q) = 5 => UnknownTasks(q) = {}
      BY DEF Stage
    <3> QED
      BY <1>2, <2>1, <3>1 DEF UnknownTasks
  <2>7. Stage(q) = 5 => Missing(r) = {}
    <3> SUFFICES ASSUME Stage(q) = 5 PROVE MissingFields(r) = {} /\ MissingCapabilities(r) = {}
      BY DEF Missing
    <3>1. items = MissingFields(q) \cup MissingCapabilities(q) /\ Scene(q) \in Scenes
      BY <2>1, AskedByStage, SettledFacts DEF Missing
    <3>2. \A f \in Profiles[Scene(q)].required : f \in Fields /\ (f \notin q.fields => Item("field", f) \in items)
      BY <3>1, ProfilesAssumption DEF MissingFields
    <3>3. \A c \in q.required : c \in Capabilities /\ (c \notin q.available => Item("capability", c) \in items)
      BY <3>1, RequestParts DEF MissingCapabilities
    <3> QED
      BY <1>2, <2>1, <3>2, <3>3 DEF MissingFields, MissingCapabilities
  <2>8. Stage(q) < Stage(r)
    BY <1>9, <2>1, <2>2, <2>3, <2>4, <2>5, <2>6, <2>7 DEF Stage
  <2> QED
    BY <1>2, <1>3, <1>4, <1>6, <2>8
<1> QED
  BY <1>4, <1>7, <1>8, <1>9

-----------------------------------------------------------------------------
(* The invariant.                                                          *)

LEMMA InitInv == Init => IntentInv
<1> SUFFICES ASSUME Init PROVE IntentInv
  OBVIOUS
<1>1. Stage(request) \in 1..6
  BY DEF Stage
<1>2. answered = <<>> /\ Len(answered) = 0 /\ DOMAIN answered = {} /\ answered \in Seq(SUBSET Items)
  BY DEF Init
<1>3. Len(answered) < Stage(request)
  BY <1>1, <1>2
<1>4. request \in Requests /\ intent = None /\ dispatched = FALSE
  BY DEF Init
<1> QED
  BY <1>2, <1>3, <1>4 DEF IntentInv

LEMMA StepInv == IntentInv /\ [Next]_vars => IntentInv'
<1> SUFFICES ASSUME IntentInv, [Next]_vars PROVE IntentInv'
  OBVIOUS
<1>1. CASE Resolve
  <2>1. /\ intent' \in Results(request) /\ UNCHANGED <<request, answered, dispatched>> /\ intent = None
    BY <1>1 DEF Resolve
  <2>2. dispatched = FALSE
    BY <2>1 DEF IntentInv
  <2>3. intent' \in Results(request')
    BY <2>1
  <2>4. Stage(request') = Stage(request) /\ \A item : DoneWith(request', item) <=> DoneWith(request, item)
    BY <2>1
  <2> QED
    BY <2>1, <2>2, <2>3, <2>4 DEF IntentInv
<1>2. CASE Dispatch
  <2>1. dispatched' = TRUE /\ UNCHANGED <<request, intent, answered>> /\ intent # None /\ MayDispatch(intent)
    BY <1>2 DEF Dispatch
  <2>2. /\ Stage(request') = Stage(request) /\ Results(request') = Results(request)
        /\ \A item : DoneWith(request', item) <=> DoneWith(request, item)
    BY <2>1
  <2> QED
    BY <2>1, <2>2 DEF IntentInv, MayDispatch
<1>3. CASE Answer
  <2>1. PICK p \in SceneAnswers(request, intent.missing) : request' \in Supplied(p, intent.missing)
    BY <1>3 DEF Answer
  <2>2. /\ intent \in Results(request) /\ intent.missing # {} /\ intent' = None
        /\ answered' = Append(answered, intent.missing) /\ dispatched' = dispatched
    BY <1>3 DEF Answer, IntentInv
  <2>3. /\ request' \in Requests
        /\ \A item \in intent.missing : DoneWith(request', item)
        /\ \A item \in Items : DoneWith(request, item) => DoneWith(request', item)
        /\ Stage(request) \in 1..5 /\ Stage(request') \in 1..6 /\ Stage(request) < Stage(request')
    BY <2>1, <2>2, AnswerSettles DEF IntentInv
  <2>4. intent.missing \in SUBSET Items /\ (intent.readiness = "ready" <=> intent.missing = {})
    BY <2>2, ResultFacts DEF IntentInv, Intents
  <2>5. dispatched' = FALSE
    BY <2>2, <2>4 DEF IntentInv, MayDispatch
  <2>6. /\ answered' \in Seq(SUBSET Items) /\ Len(answered') = Len(answered) + 1
        /\ \A i \in DOMAIN answered' :
             answered'[i] = intent.missing \/ (i \in DOMAIN answered /\ answered'[i] = answered[i])
        /\ \A i \in DOMAIN answered : answered[i] \in SUBSET Items
        /\ Len(answered) \in Nat
    BY <2>2, <2>4 DEF IntentInv
  <2>7. \A i \in DOMAIN answered' : \A item \in answered'[i] : DoneWith(request', item)
    BY <2>3, <2>6 DEF IntentInv
  <2>8. Len(answered') < Stage(request')
    <3>1. Len(answered) < Stage(request)
      BY DEF IntentInv
    <3> QED
      BY <2>3, <2>6, <3>1
  <2> QED
    BY <2>2, <2>3, <2>5, <2>6, <2>7, <2>8 DEF IntentInv
<1>4. CASE UNCHANGED vars
  <2>1. /\ UNCHANGED <<request, intent, answered, dispatched>>
    BY <1>4 DEF vars
  <2>2. /\ Stage(request') = Stage(request) /\ Results(request') = Results(request)
        /\ \A item : DoneWith(request', item) <=> DoneWith(request, item)
    BY <2>1
  <2> QED
    BY <2>1, <2>2 DEF IntentInv, MayDispatch
<1> QED
  BY <1>1, <1>2, <1>3, <1>4 DEF Next

-----------------------------------------------------------------------------
(* The theorems.                                                           *)

\* For all profiles, requests and answers, every value has its type.
THEOREM IntentTypes == Spec => []TypeOK
<1>1. IntentInv => TypeOK
  BY ResultFacts DEF IntentInv, TypeOK
<1> QED
  BY <1>1, InitInv, StepInv, PTL DEF Spec

\* A result says that it is ready just when it lacks nothing.
THEOREM RefusalsTellWhy == Spec => []RefusalsHaveReasons
<1>1. IntentInv => RefusalsHaveReasons
  BY ResultFacts DEF IntentInv, RefusalsHaveReasons
<1> QED
  BY <1>1, InitInv, StepInv, PTL DEF Spec

\* No question comes twice, however many scenes, fields and tasks there are.
THEOREM QuestionsDoNotReturn == Spec => []NeverAskedTwice
<1>1. IntentInv => NeverAskedTwice
  BY DoneIsNotAsked DEF IntentInv, NeverAskedTwice
<1> QED
  BY <1>1, InitInv, StepInv, PTL DEF Spec

\* Five rounds are enough for every request.
THEOREM ClarificationEnds == Spec => []FewRounds
<1>1. ASSUME IntentInv PROVE FewRounds
  <2>1. Stage(request) \in 1..6
    BY DEF Stage
  <2>2. Len(answered) \in Nat /\ Len(answered) < Stage(request)
    BY <1>1 DEF IntentInv
  <2> QED
    BY <2>1, <2>2 DEF FewRounds
<1> QED
  BY <1>1, InitInv, StepInv, PTL DEF Spec

\* Whatever is dispatched is a complete and supported request of its scene.
THEOREM DispatchIsComplete == Spec => []DispatchedIsComplete
<1>1. ASSUME IntentInv, dispatched PROVE DispatchedIsComplete
  <2>1. /\ request \in Requests /\ intent \in Results(request)
        /\ intent.status = "resolved" /\ intent.readiness = "ready"
    BY <1>1 DEF IntentInv, MayDispatch
  <2>2. /\ Settled(request) /\ UnsupportedActions(request) = {} /\ UnknownTasks(request) = {}
        /\ intent = Result(Scene(request), request.tasks, "resolved", Readiness(request), Missing(request))
        /\ intent.missing = {}
    BY <2>1, ResultFacts
  <2> DEFINE s == Scene(request)
  <2>3. s \in Scenes /\ Candidates(request) = {s}
    BY <2>1, <2>2, SettledFacts
  <2>4. intent.scene = s /\ Missing(request) = {}
    BY <2>2 DEF Result
  <2>5. request.scene = s \/ request.matches = {s}
    BY <2>3 DEF Candidates
  <2>6. Profiles[s].required \subseteq request.fields /\ request.required \subseteq request.available
    BY <2>4 DEF Missing, MissingFields, MissingCapabilities
  <2>7. Profiles[s].unsupported \cap request.actions = {}
    BY <2>2 DEF UnsupportedActions
  <2>8. Range(request.tasks) \subseteq Range(Profiles[s].tasks)
    BY <2>2 DEF UnknownTasks
  <2>9. Range(intent.tasks) \subseteq Range(Profiles[s].tasks)
    <3>1. CASE request.tasks # <<>>
      BY <2>2, <2>8, <3>1 DEF Result
    <3>2. CASE request.tasks = <<>>
      <4>1. intent.tasks = <<Profiles[s].tasks[1]>>
        BY <2>2, <3>2 DEF Result
      <4>2. Profiles[s].tasks \in Seq(Tasks) /\ Profiles[s].tasks # <<>>
        BY <2>3, ProfilesAssumption
      <4>3. 1 \in DOMAIN Profiles[s].tasks
        BY <4>2
      <4>4. Range(<<Profiles[s].tasks[1]>>) = {Profiles[s].tasks[1]}
        BY DEF Range
      <4> QED
        BY <4>1, <4>3, <4>4 DEF Range
    <3> QED
      BY <3>1, <3>2
  <2> QED
    BY <2>4, <2>5, <2>6, <2>7, <2>9 DEF DispatchedIsComplete
<1>2. IntentInv => DispatchedIsComplete
  BY <1>1 DEF DispatchedIsComplete
<1> QED
  BY <1>2, InitInv, StepInv, PTL DEF Spec
=============================================================================
