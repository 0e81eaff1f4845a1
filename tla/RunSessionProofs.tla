-------------------------- MODULE RunSessionProofs --------------------------
(***************************************************************************)
(* Proofs about RunSession: a budget bounds what is done with it, whatever *)
(* the nesting of tools and the order of refusals.                         *)
(*                                                                         *)
(* That at most Limit handlers are started is not inductive: the code      *)
(* bounds the counter, and the counter runs ahead of what is done, because *)
(* a refused charge counts.  The strengthening Covered says that whatever  *)
(* was done has been counted; a charge that is admitted leaves the counter *)
(* within its limit, so what was done is within it too.                    *)
(*                                                                         *)
(* Likewise for the time: a handler starts without a look at the clock, so *)
(* DeadlineInv counts the call that has been charged but not started.      *)
(***************************************************************************)
EXTENDS RunSession, TLAPS

\* Handlers of a context that will start without another look at the clock.
Pending(x) ==
    IF stack # <<>> /\ Running.phase = "charged" /\ Running.context = x THEN 1 ELSE 0

Covered ==
    \A x \in Contexts :
        /\ started[x] + Pending(x) <= used[x]["tool_calls"]
        /\ accepted[x].calls <= used[x]["model_calls"]
        /\ accepted[x].cost <= used[x]["cost_units"]
        /\ accepted[x].bytes <= used[x]["context_bytes"]
        /\ repairs[x] <= used[x]["revisions"]

\* Every call that was admitted was within the limit, started or not.
CallsInv == \A x \in Contexts : started[x] + Pending(x) <= Limit["tool_calls"]

\* A call that has been charged and has not started is the last one.
LastIsCharged == \A i \in DOMAIN stack : stack[i].phase = "charged" => i = Len(stack)

\* In time, none has started late; after it, the one that was charged in time
\* has, or may yet, and no other.
DeadlineInv ==
    \A x \in Contexts :
        IF clock <= MaxElapsed THEN late[x] = 0 ELSE late[x] + Pending(x) <= 1

IInv ==
    /\ TypeOK
    /\ Covered
    /\ CallsInv
    /\ AcceptedWithinBudget
    /\ LastIsCharged
    /\ DeadlineInv
    /\ ResultsArePinned

-----------------------------------------------------------------------------
(* Lemmas.                                                                 *)

\* What submit does to the counters: none goes down, and when all three
\* charges are admitted each of them has been made and is within its limit.
LEMMA SubmitCharges ==
    ASSUME TypeOK, NEW x \in Contexts, NEW s \in Candidates
    PROVE  /\ Charges(x, s).counters \in [Resources -> Nat]
           /\ \A r \in Resources : Charges(x, s).counters[r] >= used[x][r]
           /\ Charges(x, s).admitted =>
                /\ s.cost >= 0
                /\ Charges(x, s).counters["model_calls"] = used[x]["model_calls"] + 1
                /\ Charges(x, s).counters["cost_units"] = used[x]["cost_units"] + s.cost
                /\ Charges(x, s).counters["context_bytes"] = used[x]["context_bytes"] + s.bytes
                /\ Charges(x, s).counters["model_calls"] <= Limit["model_calls"]
                /\ Charges(x, s).counters["cost_units"] <= Limit["cost_units"]
                /\ Charges(x, s).counters["context_bytes"] <= Limit["context_bytes"]
<1>1. used[x] \in [Resources -> Nat]
  BY DEF TypeOK, GatewayTypeOK
<1>2. s.cost \in Int /\ s.bytes \in Nat
  BY CandidatesAssumption DEF SubmissionType
<1>3. Limit \in [Resources -> Nat]
  BY ContextAssumption
<1>4. {"model_calls", "cost_units", "context_bytes"} \subseteq Resources
  BY DEF Resources
<1> DEFINE model == Exceeded(x, "model_calls", 1)
           cost == s.cost < 0 \/ Exceeded(x, "cost_units", s.cost)
           costs == IF model \/ s.cost < 0 THEN used[x]["cost_units"]
                    ELSE Counted(x, "cost_units", s.cost)
           bytes == IF model \/ cost THEN used[x]["context_bytes"]
                    ELSE Counted(x, "context_bytes", s.bytes)
           counted == [used[x] EXCEPT !["model_calls"] = Counted(x, "model_calls", 1),
                                      !["cost_units"] = costs,
                                      !["context_bytes"] = bytes]
<1>5. /\ Charges(x, s).counters = counted
      /\ Charges(x, s).admitted =
           (~ model /\ ~ cost /\ ~ Exceeded(x, "context_bytes", s.bytes))
  BY DEF Charges
<1>6. \A r \in Resources : used[x][r] \in Nat /\ Limit[r] \in Nat
  BY <1>1, <1>3
<1>7. /\ Counted(x, "model_calls", 1) \in Nat
      /\ Counted(x, "model_calls", 1) = used[x]["model_calls"] + 1
      /\ costs \in Nat /\ costs >= used[x]["cost_units"]
      /\ bytes \in Nat /\ bytes >= used[x]["context_bytes"]
  BY <1>2, <1>4, <1>6 DEF Counted
<1>8. /\ counted \in [Resources -> Nat]
      /\ counted["model_calls"] = Counted(x, "model_calls", 1)
      /\ counted["cost_units"] = costs
      /\ counted["context_bytes"] = bytes
      /\ \A r \in Resources \ {"model_calls", "cost_units", "context_bytes"} :
           counted[r] = used[x][r]
  <2> HIDE DEF costs, bytes
  <2> QED BY <1>1, <1>4, <1>7
<1>9. \A r \in Resources : counted[r] >= used[x][r]
  <2> HIDE DEF counted, costs, bytes
  <2> QED BY <1>4, <1>6, <1>7, <1>8
<1>10. ASSUME ~ model, ~ cost, ~ Exceeded(x, "context_bytes", s.bytes)
       PROVE  /\ s.cost >= 0
              /\ counted["model_calls"] = used[x]["model_calls"] + 1
              /\ counted["cost_units"] = used[x]["cost_units"] + s.cost
              /\ counted["context_bytes"] = used[x]["context_bytes"] + s.bytes
              /\ counted["model_calls"] <= Limit["model_calls"]
              /\ counted["cost_units"] <= Limit["cost_units"]
              /\ counted["context_bytes"] <= Limit["context_bytes"]
  <2>1. costs = used[x]["cost_units"] + s.cost /\ bytes = used[x]["context_bytes"] + s.bytes
        /\ s.cost >= 0
    BY <1>2, <1>10 DEF Counted
  <2>2. /\ used[x]["model_calls"] + 1 <= Limit["model_calls"]
        /\ used[x]["cost_units"] + s.cost <= Limit["cost_units"]
        /\ used[x]["context_bytes"] + s.bytes <= Limit["context_bytes"]
    BY <1>2, <1>4, <1>6, <1>10 DEF Exceeded, Counted
  <2> HIDE DEF counted, costs, bytes
  <2> QED BY <1>7, <1>8, <2>1, <2>2
<1> HIDE DEF counted, model, cost
<1> QED
  BY <1>5, <1>8, <1>9, <1>10

\* A single charge: it moves one counter of one context, upwards.
LEMMA ChargeFacts ==
    ASSUME TypeOK, NEW x \in Contexts, NEW r \in Resources, Charge(x, r, 1)
    PROVE  /\ used' \in [Contexts -> [Resources -> Nat]]
           /\ used'[x][r] = used[x][r] + 1
           /\ \A y \in Contexts, q \in Resources : used'[y][q] >= used[y][q]
<1>1. used \in [Contexts -> [Resources -> Nat]]
  BY DEF TypeOK, GatewayTypeOK
<1>2. used' = [used EXCEPT ![x][r] = used[x][r] + 1]
  BY DEF Charge, Counted
<1>3. \A y \in Contexts, q \in Resources :
        used'[y][q] = IF y = x /\ q = r THEN used[y][q] + 1 ELSE used[y][q]
  BY <1>1, <1>2
<1>4. \A y \in Contexts, q \in Resources : used[y][q] \in Nat
  BY <1>1
<1>5. used' \in [Contexts -> [Resources -> Nat]]
  BY <1>1, <1>2, <1>4
<1> QED
  BY <1>3, <1>4, <1>5

\* What was done stays covered by counters that only go up.
LEMMA StillCovered ==
    ASSUME TypeOK, Covered, used' \in [Contexts -> [Resources -> Nat]],
           NEW x \in Contexts,
           \A r \in Resources : used'[x][r] >= used[x][r],
           Pending(x)' = 0 \/ Pending(x)' = Pending(x)
    PROVE  /\ started[x] + Pending(x)' <= used'[x]["tool_calls"]
           /\ accepted[x].calls <= used'[x]["model_calls"]
           /\ accepted[x].cost <= used'[x]["cost_units"]
           /\ accepted[x].bytes <= used'[x]["context_bytes"]
           /\ repairs[x] <= used'[x]["revisions"]
<1>1. \A r \in Resources : used[x][r] \in Nat /\ used'[x][r] \in Nat
  BY DEF TypeOK, GatewayTypeOK
<1>2. {"tool_calls", "model_calls", "cost_units", "context_bytes", "revisions"} \subseteq Resources
  BY DEF Resources
<1>3. /\ started[x] \in Nat /\ repairs[x] \in Nat
      /\ accepted[x].calls \in Nat /\ accepted[x].cost \in Int /\ accepted[x].bytes \in Nat
  BY DEF TypeOK, GatewayTypeOK
<1>4. Pending(x) \in {0, 1}
  BY DEF Pending
<1> QED
  BY <1>1, <1>2, <1>3, <1>4 DEF Covered

\* The frame on top of the stack, and the stack without it.
LEMMA PopFacts ==
    ASSUME TypeOK, stack # <<>>
    PROVE  /\ Running \in Frames
           /\ Len(stack) \in DOMAIN stack
           /\ SubSeq(stack, 1, Len(stack) - 1) \in Seq(Frames)
           /\ \A i \in DOMAIN SubSeq(stack, 1, Len(stack) - 1) :
                i \in DOMAIN stack /\ i < Len(stack) /\ SubSeq(stack, 1, Len(stack) - 1)[i] = stack[i]
<1>1. stack \in Seq(Frames) /\ Len(stack) \in Nat \ {0}
  BY DEF TypeOK, GatewayTypeOK
<1> QED
  BY <1>1 DEF Running

\* A stack that has lost its last call has no call charged.
LEMMA PopIsRunning ==
    ASSUME TypeOK, LastIsCharged, stack # <<>>, Pop
    PROVE  LastIsCharged' /\ \A x \in Contexts : Pending(x)' = 0
<1>1. \A i \in DOMAIN stack' : stack'[i].phase # "charged"
  BY PopFacts DEF LastIsCharged, Pop, TypeOK, GatewayTypeOK
<1>2. stack' # <<>> => Len(stack') \in DOMAIN stack'
  BY PopFacts DEF Pop
<1> QED
  BY <1>1, <1>2 DEF LastIsCharged, Pending, Running

\* Who only calls, returns or waits starts no handler late.
LEMMA DeadlineKept ==
    ASSUME TypeOK, DeadlineInv, UNCHANGED <<clock, late>>,
           \A x \in Contexts : Pending(x)' = 0 \/ Pending(x)' = Pending(x)
    PROVE  DeadlineInv'
<1>1. \A x \in Contexts : late[x] \in Nat /\ Pending(x) \in {0, 1}
  BY DEF TypeOK, GatewayTypeOK, Pending
<1> QED
  BY <1>1 DEF DeadlineInv

-----------------------------------------------------------------------------
(* The invariant holds initially and is preserved.                         *)

LEMMA InitIInv == Init => IInv
<1> SUFFICES ASSUME Init PROVE IInv
  OBVIOUS
<1> USE DEF Init, ContextInit, GatewayInit, AgentInit
<1>1. TypeOK
  BY ContextAssumption DEF TypeOK, GatewayTypeOK
<1>2. Covered /\ CallsInv /\ AcceptedWithinBudget
  BY ContextAssumption DEF Covered, CallsInv, AcceptedWithinBudget, Resources, Pending
<1>3. LastIsCharged /\ DeadlineInv /\ ResultsArePinned
  BY ContextAssumption DEF LastIsCharged, DeadlineInv, ResultsArePinned
<1> QED
  BY <1>1, <1>2, <1>3 DEF IInv

\* Registering a handler touches nothing that the invariant speaks of.
LEMMA RegisterIInv ==
    ASSUME IInv, NEW c \in Capabilities, NEW handler \in Handlers,
           Register(c, handler), UNCHANGED agents
    PROVE  IInv'
BY DEF IInv, TypeOK, GatewayTypeOK, Covered, CallsInv, AcceptedWithinBudget,
       LastIsCharged, DeadlineInv, Pending, Running, ResultsArePinned, Register, agents

\* What a call that is charged does to the stack.
LEMMA PushFacts ==
    ASSUME TypeOK, NEW frame \in Frames, LastIsCharged, OutsideGateway,
           stack' = Append(stack, frame)
    PROVE  /\ stack' \in Seq(Frames) /\ LastIsCharged'
           /\ stack' # <<>> /\ stack'[Len(stack')] = frame
           /\ \A y \in Contexts : Pending(y) = 0
<1>1. stack \in Seq(Frames)
  BY DEF TypeOK, GatewayTypeOK
<1>2. /\ stack' \in Seq(Frames) /\ Len(stack') = Len(stack) + 1
      /\ stack' # <<>> /\ stack'[Len(stack')] = frame
      /\ \A i \in DOMAIN stack' : i # Len(stack') => i \in DOMAIN stack /\ stack'[i] = stack[i]
  BY <1>1
<1>3. \A i \in DOMAIN stack : stack[i].phase # "charged"
  BY <1>1 DEF LastIsCharged, OutsideGateway, Running
<1>4. \A y \in Contexts : Pending(y) = 0
  BY DEF Pending, OutsideGateway
<1> QED
  BY <1>2, <1>3, <1>4 DEF LastIsCharged

\* A call is counted whether it is admitted or not; it is admitted only while
\* there is time.
LEMMA InvokeIInv ==
    ASSUME IInv, NEW x \in Contexts, NEW c \in Capabilities,
           Invoke(x, c), UNCHANGED agents
    PROVE  IInv'
<1> DEFINE frame == [context |-> x, capability |-> c, phase |-> "charged"]
<1>t. TypeOK
  BY DEF IInv
<1>1. used' \in [Contexts -> [Resources -> Nat]]
      /\ \A y \in Contexts, r \in Resources : used'[y][r] >= used[y][r]
  BY <1>t, ChargeFacts DEF Invoke, Resources
<1>u. used'[x]["tool_calls"] = used[x]["tool_calls"] + 1
  BY <1>t, ChargeFacts DEF Invoke, Resources
<1>2. UNCHANGED <<clock, handlers, store, started, late, results, accepted, repairs>>
  BY DEF Invoke, agents
<1>3. AcceptedWithinBudget' /\ ResultsArePinned'
  BY <1>2 DEF IInv, AcceptedWithinBudget, ResultsArePinned
<1>4. \A y \in Contexts : started[y] \in Nat /\ used[y]["tool_calls"] \in Nat
  BY <1>t DEF TypeOK, GatewayTypeOK, Resources
<1>5. CASE Exceeded(x, "tool_calls", 1)
  <2>1. stack' = stack
    BY <1>5 DEF Invoke
  <2>2. \A y \in Contexts : Pending(y)' = Pending(y)
    BY <2>1 DEF Pending, Running
  <2>3. Covered'
    BY <1>1, <1>2, <1>t, <2>2, StillCovered DEF IInv, Covered
  <2>4. CallsInv' /\ DeadlineInv'
    BY <1>2, <1>t, <2>2, DeadlineKept DEF IInv, CallsInv
  <2> QED
    BY <1>1, <1>2, <1>3, <2>1, <2>3, <2>4 DEF IInv, TypeOK, GatewayTypeOK, LastIsCharged
<1>6. CASE ~ Exceeded(x, "tool_calls", 1)
  <2>1. stack' = Append(stack, frame) /\ OutsideGateway
    BY <1>6 DEF Invoke, Caller
  <2>2. /\ stack' \in Seq(Frames) /\ LastIsCharged'
        /\ \A y \in Contexts : Pending(y) = 0
        /\ \A y \in Contexts : Pending(y)' = IF y = x THEN 1 ELSE 0
    <3>1. frame \in Frames /\ frame.context = x /\ frame.phase = "charged"
      BY DEF Frames
    <3> HIDE DEF frame
    <3>2. /\ stack' \in Seq(Frames) /\ LastIsCharged'
          /\ stack' # <<>> /\ stack'[Len(stack')] = frame
          /\ \A y \in Contexts : Pending(y) = 0
      BY <1>t, <2>1, <3>1, PushFacts DEF IInv
    <3>3. \A y \in Contexts : Pending(y)' = IF y = x THEN 1 ELSE 0
      BY <3>1, <3>2 DEF Pending, Running
    <3> QED
      BY <3>2, <3>3
  <2>3. /\ clock \in Nat /\ clock <= MaxElapsed
        /\ used[x]["tool_calls"] + 1 <= Limit["tool_calls"]
    BY <1>t, <1>4, <1>6, ContextAssumption DEF Exceeded, Counted, TypeOK, GatewayTypeOK, Resources
  <2>4. DeadlineInv'
    BY <1>2, <2>3 DEF IInv, DeadlineInv
  <2>5. started[x] + 1 <= used'[x]["tool_calls"] /\ started[x] + 1 <= Limit["tool_calls"]
    <3>1. Limit["tool_calls"] \in Nat /\ started[x] <= used[x]["tool_calls"]
      <4>1. Pending(x) = 0 /\ started[x] + Pending(x) <= used[x]["tool_calls"]
        BY <2>2 DEF IInv, Covered
      <4> QED
        BY <1>4, <4>1, ContextAssumption DEF Resources
    <3>2. started[x] \in Nat /\ used[x]["tool_calls"] \in Nat
      BY <1>4
    <3> QED
      BY <1>u, <2>3, <3>1, <3>2
  <2>6. CallsInv'
    BY <1>2, <1>4, <2>2, <2>5 DEF IInv, CallsInv
  <2>7. Covered'
    <3>1. \A y \in Contexts \ {x} : Pending(y)' = 0
      BY <2>2
    <3>2. /\ accepted[x].calls <= used'[x]["model_calls"]
          /\ accepted[x].cost <= used'[x]["cost_units"]
          /\ accepted[x].bytes <= used'[x]["context_bytes"]
          /\ repairs[x] <= used'[x]["revisions"]
      <4>1. \A r \in Resources : used[x][r] \in Nat /\ used'[x][r] \in Nat
        BY <1>1, <1>t DEF TypeOK, GatewayTypeOK
      <4>2. /\ repairs[x] \in Nat /\ accepted[x].calls \in Nat
            /\ accepted[x].cost \in Int /\ accepted[x].bytes \in Nat
        BY <1>t DEF TypeOK
      <4> QED
        BY <1>1, <4>1, <4>2 DEF IInv, Covered, Resources
    <3> QED
      BY <1>1, <1>2, <1>t, <2>2, <2>5, <3>1, <3>2, StillCovered DEF IInv, Covered
  <2> QED
    BY <1>1, <1>2, <1>3, <2>2, <2>4, <2>6, <2>7 DEF IInv, TypeOK, GatewayTypeOK
<1> QED
  BY <1>5, <1>6

\* A handler that starts was admitted before: of the calls that were admitted
\* one more has started, and one less is to start.
LEMMA StartIInv ==
    ASSUME IInv, NEW conforms \in BOOLEAN, Start(conforms), UNCHANGED agents
    PROVE  IInv'
<1> DEFINE starts == handlers[Running.capability].input => conforms
<1>t. TypeOK
  BY DEF IInv
<1>1. /\ stack # <<>> /\ Running.phase = "charged"
      /\ UNCHANGED <<used, clock, handlers, store, results, accepted, repairs>>
  BY DEF Start, agents
<1>2. Running \in Frames /\ Running.context \in Contexts
  BY <1>1, <1>t, PopFacts DEF Frames
<1>3. \A y \in Contexts : /\ started[y] \in Nat /\ late[y] \in Nat
                          /\ Pending(y) = IF y = Running.context THEN 1 ELSE 0
  BY <1>1, <1>t DEF TypeOK, GatewayTypeOK, Pending
<1>4. AcceptedWithinBudget' /\ ResultsArePinned'
  BY <1>1 DEF IInv, AcceptedWithinBudget, ResultsArePinned
<1>5. CASE ~ starts
  <2>1. Pop /\ UNCHANGED <<started, late>>
    BY <1>5 DEF Start
  <2>2. stack' \in Seq(Frames) /\ LastIsCharged' /\ \A y \in Contexts : Pending(y)' = 0
    BY <1>1, <1>t, <2>1, PopIsRunning, PopFacts DEF IInv, Pop
  <2>3. Covered' /\ CallsInv' /\ DeadlineInv'
    <3>1. \A y \in Contexts : used[y]["tool_calls"] \in Nat /\ Limit["tool_calls"] \in Nat
      BY <1>t, ContextAssumption DEF TypeOK, GatewayTypeOK, Resources
    <3> QED
      BY <1>1, <1>3, <1>t, <2>1, <2>2, <3>1, DeadlineKept DEF IInv, Covered, CallsInv
  <2> QED
    BY <1>1, <1>4, <1>t, <2>1, <2>2, <2>3 DEF IInv, TypeOK, GatewayTypeOK
<1>6. CASE starts
  <2> DEFINE x == Running.context
  <2>1. /\ stack' = [stack EXCEPT ![Len(stack)].phase = "running"]
        /\ started' = [started EXCEPT ![x] = @ + 1]
        /\ late' = IF clock > MaxElapsed THEN [late EXCEPT ![x] = @ + 1] ELSE late
    BY <1>6 DEF Start
  <2>2. /\ stack \in Seq(Frames) /\ Len(stack) \in DOMAIN stack
        /\ started \in [Contexts -> Nat] /\ late \in [Contexts -> Nat]
    BY <1>1, <1>t, PopFacts DEF TypeOK, GatewayTypeOK
  <2>3. /\ stack' \in Seq(Frames) /\ Len(stack') = Len(stack) /\ DOMAIN stack' = DOMAIN stack
        /\ stack'[Len(stack)].phase = "running"
        /\ \A i \in DOMAIN stack : i # Len(stack) => stack'[i] = stack[i]
    <3> DEFINE frame == [stack[Len(stack)] EXCEPT !.phase = "running"]
    <3>1. stack[Len(stack)] \in Frames
      BY <2>2
    <3>2. frame \in Frames /\ frame.phase = "running"
      BY <3>1 DEF Frames
    <3>3. stack' = [stack EXCEPT ![Len(stack)] = frame]
      BY <2>1
    <3> HIDE DEF frame
    <3> QED
      BY <2>2, <3>2, <3>3
  <2>4. LastIsCharged' /\ \A y \in Contexts : Pending(y)' = 0
    BY <2>2, <2>3 DEF IInv, LastIsCharged, Pending, Running
  <2> HIDE DEF x
  <2>5. /\ started' \in [Contexts -> Nat] /\ late' \in [Contexts -> Nat]
        /\ \A y \in Contexts : started'[y] = started[y] + Pending(y)
        /\ \A y \in Contexts : late'[y] = IF clock > MaxElapsed THEN late[y] + Pending(y) ELSE late[y]
    <3>1. x \in Contexts /\ \A y \in Contexts : Pending(y) = IF y = x THEN 1 ELSE 0
      BY <1>2, <1>3 DEF x
    <3> QED
      BY <1>3, <2>1, <2>2, <3>1
  <2>6. Covered' /\ CallsInv'
    <3>1. \A y \in Contexts : started'[y] + Pending(y)' = started[y] + Pending(y)
      BY <1>3, <2>4, <2>5
    <3> QED
      BY <1>1, <3>1 DEF IInv, Covered, CallsInv
  <2>7. DeadlineInv'
    <3>1. clock \in Nat /\ MaxElapsed \in Nat
      BY <1>t, ContextAssumption DEF TypeOK, GatewayTypeOK
    <3> QED
      BY <1>1, <1>3, <2>4, <2>5, <3>1 DEF IInv, DeadlineInv
  <2> QED
    BY <1>1, <1>4, <1>t, <2>3, <2>4, <2>5, <2>6, <2>7 DEF IInv, TypeOK, GatewayTypeOK
<1> QED
  BY <1>5, <1>6

\* A handler returns or raises: the stack shrinks and only Finish reports.
LEMMA ReturnIInv ==
    ASSUME IInv, stack # <<>>, Pop,
           UNCHANGED <<used, clock, handlers, started, late, agents>>,
           store' \subseteq Artifacts, results' \subseteq Results, store \subseteq store',
           \A r \in results' \ results :
                /\ r.artifact \in store'
                /\ r.artifact.output = r.output
                /\ r.artifact.capability = r.capability
    PROVE  IInv'
<1>t. TypeOK
  BY DEF IInv
<1>1. TypeOK'
  BY <1>t, PopFacts DEF TypeOK, GatewayTypeOK, Pop, agents
<1>2. LastIsCharged' /\ DeadlineInv'
  BY <1>t, PopIsRunning, DeadlineKept DEF IInv
<1>3. ResultsArePinned'
  BY DEF IInv, ResultsArePinned
<1>4. Covered' /\ CallsInv'
  <2>1. \A y \in Contexts : /\ started[y] \in Nat /\ used[y]["tool_calls"] \in Nat
                            /\ Pending(y) \in {0, 1} /\ Pending(y)' = 0
    BY <1>t, PopIsRunning DEF IInv, TypeOK, GatewayTypeOK, Resources, Pending
  <2>2. Limit["tool_calls"] \in Nat
    BY ContextAssumption DEF Resources
  <2> QED
    BY <2>1, <2>2 DEF IInv, Covered, CallsInv, agents
<1> QED
  BY <1>1, <1>2, <1>3, <1>4 DEF IInv, AcceptedWithinBudget, agents

LEMMA FinishIInv ==
    ASSUME IInv, NEW output \in Outputs \cup {Untyped}, NEW reportable \in BOOLEAN,
           Finish(output, reportable), UNCHANGED agents
    PROVE  IInv'
<1>t. TypeOK /\ stack # <<>> /\ Pop /\ UNCHANGED <<used, clock, handlers, started, late, agents>>
  BY DEF IInv, Finish
<1>1. Running \in Frames
  BY <1>t, PopFacts
<1>2. CASE output # Untyped /\ (handlers[Running.capability].output => output \notin Misfits)
  <2>1. /\ store' = store \cup {Pinned(Running, output)}
        /\ results' \subseteq results \cup {ResultOf(Running, output)}
        /\ output \in Outputs
    BY <1>2 DEF Finish
  <2>2. Pinned(Running, output) \in Artifacts /\ ResultOf(Running, output) \in Results
    BY <1>t, <1>1, <2>1 DEF Pinned, Artifacts, ResultOf, Results, Frames, TypeOK, GatewayTypeOK
  <2>3. \A r \in results' \ results :
          /\ r.artifact \in store'
          /\ r.artifact.output = r.output
          /\ r.artifact.capability = r.capability
    BY <2>1 DEF ResultOf, Pinned
  <2>4. results' \subseteq Results /\ store' \subseteq Artifacts
    BY <1>t, <2>1, <2>2 DEF TypeOK, GatewayTypeOK
  <2> QED
    BY <1>t, <2>1, <2>3, <2>4, ReturnIInv
<1>3. CASE ~ (output # Untyped /\ (handlers[Running.capability].output => output \notin Misfits))
  <2>1. UNCHANGED <<store, results>>
    BY <1>3 DEF Finish
  <2> QED
    BY <1>t, <2>1, ReturnIInv DEF TypeOK, GatewayTypeOK
<1> QED
  BY <1>2, <1>3

LEMMA SubmitIInv ==
    ASSUME IInv, NEW x \in Contexts, NEW s \in Candidates, Submit(x, s), UNCHANGED gateway
    PROVE  IInv'
<1>t. TypeOK
  BY DEF IInv
<1>1. /\ used' = [used EXCEPT ![x] = Charges(x, s).counters]
      /\ accepted' = IF Charges(x, s).admitted /\ s.valid
                     THEN [accepted EXCEPT ![x] =
                             [calls |-> @.calls + 1, cost |-> @.cost + s.cost,
                              bytes |-> @.bytes + s.bytes]]
                     ELSE accepted
      /\ UNCHANGED <<handlers, stack, store, started, late, results, clock, repairs>>
  BY DEF Submit, gateway
<1>2. used' \in [Contexts -> [Resources -> Nat]]
      /\ \A y \in Contexts, r \in Resources : used'[y][r] >= used[y][r]
  <2>1. used \in [Contexts -> [Resources -> Nat]]
    BY <1>t DEF TypeOK, GatewayTypeOK
  <2>2. /\ Charges(x, s).counters \in [Resources -> Nat]
        /\ \A r \in Resources : Charges(x, s).counters[r] >= used[x][r]
    BY <1>t, SubmitCharges
  <2>3. \A y \in Contexts : used'[y] = IF y = x THEN Charges(x, s).counters ELSE used[y]
    BY <1>1, <2>1
  <2>4. used' \in [Contexts -> [Resources -> Nat]]
    BY <1>1, <2>1, <2>2
  <2>5. \A y \in Contexts, r \in Resources : used[y][r] \in Nat /\ used[y][r] >= used[y][r]
    BY <2>1
  <2> QED
    BY <2>2, <2>3, <2>4, <2>5
<1>3. s.cost \in Int /\ s.bytes \in Nat
  BY CandidatesAssumption DEF SubmissionType
<1>4. accepted' \in [Contexts -> [calls : Nat, cost : Int, bytes : Nat]]
  BY <1>t, <1>1, <1>3 DEF TypeOK
<1>5. TypeOK'
  BY <1>t, <1>1, <1>2, <1>4 DEF TypeOK, GatewayTypeOK
<1>6. LastIsCharged' /\ DeadlineInv' /\ ResultsArePinned' /\ CallsInv'
  BY <1>1 DEF IInv, LastIsCharged, DeadlineInv, Pending, Running, ResultsArePinned,
     CallsInv
<1>p. \A y \in Contexts : Pending(y)' = Pending(y)
  BY <1>1 DEF Pending, Running
<1>7. CASE ~ (Charges(x, s).admitted /\ s.valid)
  <2>1. UNCHANGED <<accepted, repairs, started>>
    BY <1>1, <1>7
  <2>2. Covered'
    BY <1>2, <1>p, <1>t, <2>1, StillCovered DEF IInv, Covered
  <2> QED
    BY <1>5, <1>6, <2>1, <2>2 DEF IInv, AcceptedWithinBudget
<1>8. CASE Charges(x, s).admitted /\ s.valid
  <2>1. accepted' = [accepted EXCEPT ![x] =
                       [calls |-> @.calls + 1, cost |-> @.cost + s.cost,
                        bytes |-> @.bytes + s.bytes]]
    BY <1>1, <1>8
  <2>2. /\ used'[x]["model_calls"] = used[x]["model_calls"] + 1
        /\ used'[x]["cost_units"] = used[x]["cost_units"] + s.cost
        /\ used'[x]["context_bytes"] = used[x]["context_bytes"] + s.bytes
        /\ used'[x]["model_calls"] <= Limit["model_calls"]
        /\ used'[x]["cost_units"] <= Limit["cost_units"]
        /\ used'[x]["context_bytes"] <= Limit["context_bytes"]
    BY <1>t, <1>1, <1>8, SubmitCharges DEF TypeOK, GatewayTypeOK
  <2>3. Covered'
    <3>1. /\ \A y \in Contexts \ {x} : accepted'[y] = accepted[y]
          /\ accepted'[x].calls = accepted[x].calls + 1
          /\ accepted'[x].cost = accepted[x].cost + s.cost
          /\ accepted'[x].bytes = accepted[x].bytes + s.bytes
      BY <1>t, <2>1 DEF TypeOK
    <3>2. /\ accepted[x].calls \in Nat /\ accepted[x].cost \in Int /\ accepted[x].bytes \in Nat
          /\ used[x]["model_calls"] \in Nat /\ used[x]["cost_units"] \in Nat
          /\ used[x]["context_bytes"] \in Nat
      BY <1>t DEF TypeOK, GatewayTypeOK, Resources
    <3>3. /\ accepted'[x].calls <= used'[x]["model_calls"]
          /\ accepted'[x].cost <= used'[x]["cost_units"]
          /\ accepted'[x].bytes <= used'[x]["context_bytes"]
      BY <1>3, <2>2, <3>1, <3>2 DEF IInv, Covered
    <3> QED
      BY <1>1, <1>2, <1>p, <1>t, <3>1, <3>3, StillCovered DEF IInv, Covered
  <2>4. AcceptedWithinBudget'
    <3>1. \A r \in Resources : used'[x][r] \in Nat /\ Limit[r] \in Nat
      BY <1>2, ContextAssumption
    <3>2. /\ accepted'[x].calls <= Limit["model_calls"]
          /\ accepted'[x].cost <= Limit["cost_units"]
          /\ accepted'[x].bytes <= Limit["context_bytes"]
      BY <1>4, <2>2, <2>3, <3>1 DEF Covered, Resources
    <3> QED
      BY <1>1, <1>t, <2>1, <3>2 DEF IInv, AcceptedWithinBudget, TypeOK
  <2> QED
    BY <1>5, <1>6, <2>3, <2>4 DEF IInv
<1> QED
  BY <1>7, <1>8

LEMMA RepairIInv ==
    ASSUME IInv, NEW x \in Contexts, Repair(x), UNCHANGED gateway
    PROVE  IInv'
<1>t. TypeOK
  BY DEF IInv
<1>1. UNCHANGED <<handlers, stack, store, started, late, results, clock, accepted>>
  BY DEF Repair, gateway
<1>2. used' \in [Contexts -> [Resources -> Nat]]
      /\ used'[x]["revisions"] = used[x]["revisions"] + 1
      /\ \A y \in Contexts, r \in Resources : used'[y][r] >= used[y][r]
  BY <1>t, ChargeFacts DEF Repair, Resources
<1>3. repairs' \in [Contexts -> Nat]
  BY <1>t DEF TypeOK, Repair
<1>4. TypeOK'
  BY <1>t, <1>1, <1>2, <1>3 DEF TypeOK, GatewayTypeOK
<1>5. CallsInv' /\ LastIsCharged' /\ DeadlineInv' /\ ResultsArePinned'
  BY <1>1 DEF IInv, LastIsCharged, DeadlineInv, Pending, Running, ResultsArePinned,
     CallsInv
<1>p. \A y \in Contexts : Pending(y)' = Pending(y)
  BY <1>1 DEF Pending, Running
<1>6. CASE Exceeded(x, "revisions", 1)
  <2>1. repairs' = repairs
    BY <1>6 DEF Repair
  <2>2. Covered'
    BY <1>1, <1>2, <1>p, <1>t, <2>1, StillCovered DEF IInv, Covered
  <2> QED
    BY <1>1, <1>4, <1>5, <2>1, <2>2 DEF IInv, AcceptedWithinBudget
<1>7. CASE ~ Exceeded(x, "revisions", 1)
  <2>1. repairs' = [repairs EXCEPT ![x] = @ + 1]
    BY <1>7 DEF Repair
  <2>2. used[x]["revisions"] \in Nat /\ Limit["revisions"] \in Nat /\ repairs[x] \in Nat
    BY <1>t, ContextAssumption DEF TypeOK, GatewayTypeOK, Resources
  <2>3. repairs'[x] = repairs[x] + 1 /\ \A y \in Contexts \ {x} : repairs'[y] = repairs[y]
    BY <1>t, <2>1 DEF TypeOK
  <2>4. repairs'[x] <= used'[x]["revisions"]
    BY <1>2, <2>2, <2>3 DEF IInv, Covered
  <2>7. Covered'
    BY <1>1, <1>2, <1>p, <1>t, <2>3, <2>4, StillCovered DEF IInv, Covered
  <2>5. repairs'[x] <= Limit["revisions"]
    <3>1. used[x]["revisions"] + 1 <= Limit["revisions"]
      BY <1>7, <2>2 DEF Exceeded, Counted
    <3> QED
      BY <2>2, <2>3, <3>1 DEF IInv, Covered
  <2>6. AcceptedWithinBudget'
    BY <1>1, <2>3, <2>5 DEF IInv, AcceptedWithinBudget
  <2> QED
    BY <1>4, <1>5, <2>7, <2>6 DEF IInv
<1> QED
  BY <1>6, <1>7

LEMMA StepIInv == IInv /\ [Next]_vars => IInv'
<1> SUFFICES ASSUME IInv, [Next]_vars PROVE IInv'
  OBVIOUS
<1>1. CASE GatewayNext /\ UNCHANGED agents
  <2>1. ASSUME NEW c \in Capabilities, NEW handler \in Handlers,
               Register(c, handler) \/ Bind(c, handler)
        PROVE  IInv'
    BY <1>1, <2>1, RegisterIInv DEF Bind
  <2>2. ASSUME NEW x \in Contexts, NEW c \in Capabilities, Invoke(x, c)
        PROVE  IInv'
    BY <1>1, <2>2, InvokeIInv
  <2>6. ASSUME NEW conforms \in BOOLEAN, Start(conforms)
        PROVE  IInv'
    BY <1>1, <2>6, StartIInv
  <2>3. ASSUME NEW output \in Outputs \cup {Untyped}, NEW reportable \in BOOLEAN,
               Finish(output, reportable)
        PROVE  IInv'
    BY <1>1, <2>3, FinishIInv
  <2>4. CASE Fail
    <3>1. stack # <<>> /\ Pop /\ UNCHANGED <<used, clock, handlers, store, started, late, results>>
      BY <2>4 DEF Fail
    <3> QED
      BY <1>1, <3>1, ReturnIInv DEF IInv, TypeOK, GatewayTypeOK
  <2>5. CASE Tick /\ UNCHANGED gateway
    <3>1. /\ used' = used /\ clock' = clock + 1 /\ clock \in Nat /\ MaxElapsed \in Nat
          /\ clock' \in 0..MaxClock
      BY <2>5, ContextAssumption DEF Tick, IInv, TypeOK, GatewayTypeOK
    <3>2. \A x \in Contexts : /\ late[x] \in Nat /\ late'[x] = late[x]
                              /\ Pending(x)' = Pending(x) /\ Pending(x) \in {0, 1}
      BY <2>5 DEF gateway, IInv, TypeOK, GatewayTypeOK, Pending, Running
    <3>3. DeadlineInv'
      BY <3>1, <3>2 DEF IInv, DeadlineInv
    <3>4. Covered' /\ CallsInv'
      BY <1>1, <2>5, <3>1, <3>2 DEF gateway, agents, IInv, Covered, CallsInv
    <3> QED
      BY <1>1, <2>5, <3>1, <3>3, <3>4 DEF gateway, agents, IInv, TypeOK, GatewayTypeOK,
         AcceptedWithinBudget, LastIsCharged, ResultsArePinned
  <2> QED
    BY <1>1, <2>1, <2>2, <2>3, <2>4, <2>5, <2>6 DEF GatewayNext
<1>2. CASE AgentNext /\ OutsideGateway /\ UNCHANGED gateway
  BY <1>2, SubmitIInv, RepairIInv DEF AgentNext
<1>3. CASE UNCHANGED vars
  BY <1>3 DEF vars, gateway, agents, IInv, TypeOK, GatewayTypeOK, Covered,
     CallsInv, AcceptedWithinBudget, LastIsCharged, DeadlineInv, Pending, Running, ResultsArePinned
<1> QED
  BY <1>1, <1>2, <1>3 DEF Next

-----------------------------------------------------------------------------
(* The results.                                                            *)

\* Whatever the nesting, the refusals and the agents' estimates, what is done
\* with a context stays within the limits of its budget.
THEOREM BudgetHolds ==
    Spec => [](TypeOK /\ CallsWithinBudget /\ AcceptedWithinBudget)
<1>1. IInv => TypeOK /\ CallsWithinBudget /\ AcceptedWithinBudget
  <2> SUFFICES ASSUME IInv, NEW x \in Contexts PROVE started[x] <= Limit["tool_calls"]
    BY DEF IInv, CallsWithinBudget
  <2>1. started[x] \in Nat /\ Limit["tool_calls"] \in Nat /\ Pending(x) \in {0, 1}
    BY ContextAssumption DEF IInv, TypeOK, GatewayTypeOK, Resources, Pending
  <2> QED
    BY <2>1 DEF IInv, CallsInv
<1> QED
  BY <1>1, InitIInv, StepIInv, PTL DEF Spec

\* A result points at a stored artifact of its own capability and output.
THEOREM ResultsStayPinned == Spec => []ResultsArePinned
<1>1. IInv => ResultsArePinned
  BY DEF IInv
<1> QED
  BY <1>1, InitIInv, StepIInv, PTL DEF Spec

\* No step lowers a counter, so a context that is out of budget stays so.
THEOREM NeverRefunded == Spec => BudgetNeverRefunded
<1>1. IInv /\ [Next]_vars =>
        [\A x \in Contexts, r \in Resources : used'[x][r] >= used[x][r]]_used
  <2> SUFFICES ASSUME IInv, [Next]_vars, used' # used,
                      NEW x \in Contexts, NEW r \in Resources
               PROVE  used'[x][r] >= used[x][r]
    OBVIOUS
  <2>t. TypeOK
    BY DEF IInv
  <2>1. \A y \in Contexts, q \in Resources :
          Charge(y, q, 1) => used'[x][r] >= used[x][r]
    BY <2>t, ChargeFacts
  <2>2. ASSUME NEW y \in Contexts, NEW s \in Candidates, Submit(y, s)
        PROVE  used'[x][r] >= used[x][r]
    <3>1. used \in [Contexts -> [Resources -> Nat]]
      BY <2>t DEF TypeOK, GatewayTypeOK
    <3>2. used'[x] = IF x = y THEN Charges(y, s).counters ELSE used[x]
      BY <2>2, <3>1 DEF Submit
    <3>3. Charges(y, s).counters[r] >= used[y][r]
      BY <2>t, SubmitCharges
    <3> QED
      BY <3>1, <3>2, <3>3
  <2>3. CASE GatewayNext
    <3>1. ASSUME NEW y \in Contexts, NEW c \in Capabilities, Invoke(y, c)
          PROVE  used'[x][r] >= used[x][r]
      BY <2>1, <3>1 DEF Invoke, Resources
    <3>2. \A c \in Capabilities, handler \in Handlers :
            Register(c, handler) \/ Bind(c, handler) => used' = used
      BY DEF Register, Bind
    <3>3. \A output, reportable : Finish(output, reportable) => used' = used
      BY DEF Finish
    <3>4. Fail \/ Tick \/ (\E conforms \in BOOLEAN : Start(conforms)) => used' = used
      BY DEF Fail, Tick, Start
    <3> QED
      BY <2>3, <3>1, <3>2, <3>3, <3>4 DEF GatewayNext
  <2>4. CASE AgentNext
    BY <2>1, <2>2, <2>4 DEF AgentNext, Repair, Resources
  <2> QED
    BY <2>3, <2>4 DEF Next, vars
<1> QED
  BY <1>1, InitIInv, StepIInv, PTL DEF Spec, BudgetNeverRefunded

\* A handler that has been registered is never replaced.
THEOREM HandlersStay == Spec => HandlersAreFixed
<1>1. IInv /\ [Next]_vars =>
        [\A c \in Capabilities : handlers[c] # NoHandler => handlers'[c] = handlers[c]]_handlers
  <2> SUFFICES ASSUME IInv, [Next]_vars, handlers' # handlers,
                      NEW c \in Capabilities, handlers[c] # NoHandler
               PROVE  handlers'[c] = handlers[c]
    OBVIOUS
  <2>1. handlers \in [Capabilities -> Handlers \cup {NoHandler}]
    BY DEF IInv, TypeOK, GatewayTypeOK
  <2>2. \E d \in Capabilities, handler \in Handlers : Register(d, handler)
    <3>1. ~ UNCHANGED gateway
      BY DEF gateway
    <3>2. GatewayNext
      BY <3>1 DEF Next, vars
    <3>3. \A x, d, conforms : Invoke(x, d) \/ Start(conforms) => handlers' = handlers
      BY DEF Invoke, Start
    <3>4. \A output, reportable : Finish(output, reportable) => handlers' = handlers
      BY DEF Finish
    <3> QED
      BY <3>1, <3>2, <3>3, <3>4 DEF GatewayNext, Bind, Fail
  <2> QED
    BY <2>1, <2>2 DEF Register, MayRegister
<1> QED
  BY <1>1, InitIInv, StepIInv, PTL DEF Spec, HandlersAreFixed

\* Once its time is over, no more than one handler is started for a context,
\* however calls nest and however long the check of an input takes.
THEOREM DeadlineStopsHandlers == Spec => []OneStartAfterDeadline
<1>1. IInv => OneStartAfterDeadline
  <2> SUFFICES ASSUME IInv, NEW x \in Contexts PROVE late[x] <= 1
    BY DEF OneStartAfterDeadline
  <2>1. late[x] \in Nat /\ Pending(x) \in {0, 1}
    BY DEF IInv, TypeOK, GatewayTypeOK, Pending
  <2> QED
    BY <2>1 DEF IInv, DeadlineInv
<1> QED
  BY <1>1, InitIInv, StepIInv, PTL DEF Spec
=============================================================================
