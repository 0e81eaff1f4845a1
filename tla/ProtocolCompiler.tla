-------------------------- MODULE ProtocolCompiler --------------------------
(***************************************************************************)
(* ProtocolCompiler.compile (compiler/protocol.py): the contracts that     *)
(* were supplied are validated one by one, the roots' dependencies are     *)
(* ordered, and a snapshot of the ordered contracts is taken.              *)
(*                                                                         *)
(* The digest of a contract stands for its contents.  compile is one       *)
(* thread and keeps nothing between two calls.  The dependency graph comes *)
(* with the request: nothing ties it to what the contracts say.            *)
(***************************************************************************)
EXTENDS DependencyResolver

CONSTANTS
    Contents,   \* contents of contracts
    Invalid     \* those that their schema refuses

ASSUME ContentsAssumption == Invalid \subseteq Contents

VARIABLES
    contracts,   \* the request's list of contracts
    taken,       \* how many of them are in by_id
    by_id,
    stage,       \* where compile is, or how it ended
    snapshot     \* what compile returns, by contract

compiler == <<contracts, taken, by_id, stage, snapshot>>
vars == <<resolver, compiler>>

Contracts == [id : Nodes, content : Contents]
Refusals  == {"duplicate", "invalid", "cycle", "unpinned", "not supplied"}

Nothing == [n \in {} |-> n]

CompilerInit ==
    /\ ResolverInit
    /\ taken = 0
    /\ by_id = Nothing
    /\ stage = "contracts"
    /\ snapshot = Nothing

Refuse(why) ==
    /\ stage' = why
    /\ UNCHANGED <<resolver, contracts, taken, by_id, snapshot>>

\* The loop over the contracts, those included that no root needs.
Current == contracts[taken + 1]

\* A later contract takes the place of an earlier one.
MayReplace == Current.content \notin Invalid

MayTake == Current.id \notin DOMAIN by_id /\ Current.content \notin Invalid

Take ==
    /\ stage = "contracts"
    /\ taken < Len(contracts)
    /\ MayTake
    /\ taken' = taken + 1
    /\ by_id' = [n \in DOMAIN by_id \cup {Current.id} |->
                   IF n = Current.id THEN Current.content ELSE by_id[n]]
    /\ UNCHANGED <<resolver, contracts, stage, snapshot>>

RefuseContract ==
    /\ stage = "contracts"
    /\ taken < Len(contracts)
    /\ \/ Current.id \in DOMAIN by_id /\ Refuse("duplicate")
       \/ Current.id \notin DOMAIN by_id /\ Current.content \in Invalid /\ Refuse("invalid")

StartWalk ==
    /\ stage = "contracts"
    /\ taken = Len(contracts)
    /\ stage' = "walk"
    /\ UNCHANGED <<resolver, contracts, taken, by_id, snapshot>>

Walk ==
    /\ stage = "walk"
    /\ ResolverNext
    /\ UNCHANGED compiler

\* The resolver's exception is the compiler's.
StopWalk ==
    /\ stage = "walk"
    /\ verdict \in {"cycle", "unpinned"}
    /\ Refuse(verdict)

AllSupplied == Range(ordered) \subseteq DOMAIN by_id

RefuseMissing ==
    /\ stage = "walk"
    /\ verdict = "ordered"
    /\ ~ AllSupplied
    /\ Refuse("not supplied")

TakeSnapshot ==
    /\ stage = "walk"
    /\ verdict = "ordered"
    /\ AllSupplied
    /\ stage' = "compiled"
    /\ snapshot' = [n \in Range(ordered) |-> by_id[n]]
    /\ UNCHANGED <<resolver, contracts, taken, by_id>>

CompilerNext ==
    Take \/ RefuseContract \/ StartWalk \/ Walk \/ StopWalk \/ RefuseMissing \/ TakeSnapshot

\* A request, as its caller makes it.
Requests ==
    /\ IsGraph
    /\ roots \in Seq(Nodes)
    /\ contracts \in Seq(Contracts)

Spec == Requests /\ CompilerInit /\ [][CompilerNext]_vars

\* compile is a sequence of computation steps: nothing else holds it up.
FairSpec == Spec /\ WF_vars(CompilerNext)

-----------------------------------------------------------------------------
(* Properties.                                                             *)

TypeOK ==
    /\ ResolverTypeOK
    /\ contracts \in Seq(Contracts)
    /\ taken \in 0..Len(contracts)
    /\ DOMAIN by_id \subseteq Nodes /\ by_id \in [DOMAIN by_id -> Contents \ Invalid]
    /\ stage \in {"contracts", "walk", "compiled"} \cup Refusals
    /\ DOMAIN snapshot \subseteq Nodes /\ snapshot \in [DOMAIN snapshot -> Contents \ Invalid]

\* What is compiled is all that the roots need and nothing else, each
\* contract with the contents that were supplied for it, which are the only
\* ones supplied under its id.
SnapshotIsClosed ==
    stage = "compiled" =>
        /\ DOMAIN snapshot = Order!Needed
        /\ Order!Closed(DOMAIN snapshot)
        /\ \A n \in DOMAIN snapshot : \E i \in DOMAIN contracts :
             contracts[i] = [id |-> n, content |-> snapshot[n]]
        /\ \A i, j \in DOMAIN contracts : contracts[i].id = contracts[j].id => i = j

\* Every request is answered, whatever its graph.
CompileEnds == <>(stage \in {"compiled"} \cup Refusals)
=============================================================================
