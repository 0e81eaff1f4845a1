----------------------------- MODULE RunSession -----------------------------
(***************************************************************************)
(* The runs that share one tool gateway, with the agents that submit their *)
(* candidates to the same contexts: each context has one budget, which its *)
(* tools, the tools those invoke, and its agents all draw on.              *)
(***************************************************************************)
EXTENDS ToolGateway, AgentRuntime

vars == <<used, clock, gateway, agents>>

Init == ContextInit /\ GatewayInit /\ AgentInit

Next ==
    \/ GatewayNext /\ UNCHANGED agents
    \/ AgentNext /\ OutsideGateway /\ UNCHANGED gateway

Spec == Init /\ [][Next]_vars

TypeOK ==
    /\ GatewayTypeOK
    /\ accepted \in [Contexts -> [calls : Nat, cost : Int, bytes : Nat]]
    /\ repairs \in [Contexts -> Nat]
=============================================================================
