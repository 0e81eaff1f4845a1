---------------------------- MODULE ToolGateway ----------------------------
(***************************************************************************)
(* ToolGateway (adapters/tool_gateway.py) and McpAdapter (adapters/mcp.py):*)
(* capabilities are bound by the policy file, get a handler by register,   *)
(* and run by invoke, which pins what the handler returns in the immutable *)
(* artifact store.                                                         *)
(*                                                                         *)
(* A handler is given the execution context, so it may itself invoke       *)
(* capabilities: the calls in progress form a stack, and the handler on    *)
(* top of it runs.  The gateway has one thread.                            *)
(***************************************************************************)
EXTENDS ExecutionContext, Sequences, FiniteSets

CONSTANTS
    Capabilities,   \* capability ids that callers name
    Bindings,       \* those bound by the policy file
    Discovered,     \* those the MCP server offers
    Outputs,        \* dictionaries that handlers return
    Misfits,        \* those that the output schema refuses
    Untyped,        \* a return value that is no dictionary
    NoHandler

ASSUME GatewayAssumption ==
    /\ Bindings \subseteq Capabilities
    /\ Discovered \subseteq Capabilities
    /\ Misfits \subseteq Outputs
    /\ Untyped \notin Outputs
    /\ Authorized \in [Contexts -> SUBSET Capabilities]

\* Whether the handler was registered with an input and an output schema.
Handlers == [input : BOOLEAN, output : BOOLEAN]

ASSUME NoHandlerAssumption == NoHandler \notin Handlers

VARIABLES
    handlers,   \* [Capabilities -> Handlers \cup {NoHandler}]
    stack,      \* invocations in progress, the last one running
    store,      \* pinned artifacts, by capability and digest of the output
    started,    \* history: handlers started for each context
    late,       \* history: those of them started after its time was over
    results     \* history: tool results returned

gateway == <<handlers, stack, store, started, late, results>>

\* A call is charged before its handler runs.
Frames    == [context : Contexts, capability : Capabilities, phase : {"charged", "running"}]
Artifacts == [capability : Capabilities, output : Outputs]
Results   == [context : Contexts, capability : Capabilities, output : Outputs,
              artifact : Artifacts]

GatewayInit ==
    /\ handlers = [c \in Capabilities |-> NoHandler]
    /\ stack = <<>>
    /\ store = {}
    /\ started = [x \in Contexts |-> 0]
    /\ late = [x \in Contexts |-> 0]
    /\ results = {}

Running == stack[Len(stack)]

\* What runs is the program outside of every call, or the handler on top; and
\* not the gateway itself.
OutsideGateway == stack # <<>> => Running.phase = "running"

\* A call comes from outside, or from the handler that runs, with the context
\* it was given.
Caller(x) == OutsideGateway /\ (stack # <<>> => Running.context = x)

\* register: CAPABILITY_UNREGISTERED, CAPABILITY_HANDLER_DUPLICATE.
MayRegister(c) == c \in Bindings /\ handlers[c] = NoHandler

\* Capabilities without an MCP server are registered by the program itself,
\* the others by McpAdapter.bind, which asks for their discovery.
Register(c, handler) ==
    /\ OutsideGateway
    /\ MayRegister(c)
    /\ handlers' = [handlers EXCEPT ![c] = handler]
    /\ UNCHANGED <<used, clock, stack, store, started, late, results>>

Bind(c, handler) == c \in Discovered /\ Register(c, handler)

\* The checks of invoke before the budget; a call that fails one of them
\* raises and changes nothing.
MayInvoke(x, c) ==
    /\ c \in Bindings
    /\ x \in InScope
    /\ c \in Authorized[x]
    /\ handlers[c] # NoHandler

\* invoke up to the budget, whose charge looks at the clock.
Invoke(x, c) ==
    /\ Caller(x)
    /\ MayInvoke(x, c)
    /\ Charge(x, "tool_calls", 1)
    /\ stack' = IF Exceeded(x, "tool_calls", 1) THEN stack
                ELSE Append(stack, [context |-> x, capability |-> c, phase |-> "charged"])
    /\ UNCHANGED <<clock, handlers, store, started, late, results>>

Pop == stack' = SubSeq(stack, 1, Len(stack) - 1)

\* The rest of invoke up to the handler: the input meets its schema or the call
\* raises.  Meanwhile time passes, and nobody looks at the clock again.
Start(conforms) ==
    /\ stack # <<>>
    /\ Running.phase = "charged"
    /\ IF handlers[Running.capability].input => conforms
       THEN /\ stack' = [stack EXCEPT ![Len(stack)].phase = "running"]
            /\ started' = [started EXCEPT ![Running.context] = @ + 1]
            /\ late' = IF clock > MaxElapsed
                       THEN [late EXCEPT ![Running.context] = @ + 1] ELSE late
       ELSE /\ Pop
            /\ UNCHANGED <<started, late>>
    /\ UNCHANGED <<used, clock, handlers, store, results>>

\* The output is pinned for the capability that the session called first.
PinnedForCaller(frame, output) == [capability |-> stack[1].capability, output |-> output]

\* The output is pinned, for the capability that returned it.
Pinned(frame, output) == [capability |-> frame.capability, output |-> output]

ResultOf(frame, output) ==
    [context |-> frame.context, capability |-> frame.capability,
     output |-> output, artifact |-> Pinned(frame, output)]

\* The handler returns: an output that is no dictionary, or that its schema
\* refuses, raises; any other is stored, and then reported unless the record
\* of the result does not meet its own schema.
Finish(output, reportable) ==
    /\ stack # <<>>
    /\ Running.phase = "running"
    /\ Pop
    /\ IF /\ output # Untyped
          /\ handlers[Running.capability].output => output \notin Misfits
       THEN /\ store' = store \cup {Pinned(Running, output)}
            /\ results' = IF reportable
                          THEN results \cup {ResultOf(Running, output)}
                          ELSE results
       ELSE UNCHANGED <<store, results>>
    /\ UNCHANGED <<used, clock, handlers, started, late>>

\* The handler raises, or a call it made does and it lets that pass, or the
\* artifact cannot be written.
Fail ==
    /\ stack # <<>>
    /\ Running.phase = "running"
    /\ Pop
    /\ UNCHANGED <<used, clock, handlers, store, started, late, results>>

GatewayNext ==
    \/ \E c \in Capabilities, handler \in Handlers :
         Register(c, handler) \/ Bind(c, handler)
    \/ \E x \in Contexts, c \in Capabilities : Invoke(x, c)
    \/ \E conforms \in BOOLEAN : Start(conforms)
    \/ \E output \in Outputs \cup {Untyped}, reportable \in BOOLEAN :
         Finish(output, reportable)
    \/ Fail
    \/ Tick /\ UNCHANGED gateway

-----------------------------------------------------------------------------
(* Properties.                                                             *)

GatewayTypeOK ==
    /\ used \in [Contexts -> [Resources -> Nat]]
    /\ clock \in 0..MaxClock
    /\ handlers \in [Capabilities -> Handlers \cup {NoHandler}]
    /\ stack \in Seq(Frames)
    /\ store \subseteq Artifacts
    /\ started \in [Contexts -> Nat]
    /\ late \in [Contexts -> Nat]
    /\ results \subseteq Results

\* However deep handlers invoke one another, and however many calls fail in
\* between, no more handlers are started for a context than its budget has
\* tool calls.
CallsWithinBudget == \A x \in Contexts : started[x] <= Limit["tool_calls"]

\* Once the time of a context is over, at most one more handler is started for
\* it: the one whose charge was admitted in time.  Calls that the handlers in
\* progress make, and calls that come after them, are all refused.
OneStartAfterDeadline == \A x \in Contexts : late[x] <= 1

\* A returned result points at an artifact that is in the store, and that
\* holds the very output of the very capability, also when handlers nest.
ResultsArePinned ==
    \A r \in results :
        /\ r.artifact \in store
        /\ r.artifact.output = r.output
        /\ r.artifact.capability = r.capability

\* A capability keeps the handler that was registered for it first, with the
\* schemas its outputs are checked against, while it runs and ever after.
HandlersAreFixed ==
    [][\A c \in Capabilities : handlers[c] # NoHandler => handlers'[c] = handlers[c]]_handlers
=============================================================================
