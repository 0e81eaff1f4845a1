----------------------------- MODULE Governance -----------------------------
(***************************************************************************)
(* The components that decide on governed inputs before any state of a     *)
(* workflow is written: the command line with the guard and the loader     *)
(* that it calls, the same two as other callers use them, the merge of     *)
(* owned segments, the checkers, the knowledge service, the probe, the     *)
(* tables of permissions and the registries.  But for the guard and the    *)
(* loader, which run inside the commands, they share no variable.          *)
(***************************************************************************)
EXTENDS CommandLine, Ownership, CheckerRegistry, Knowledge, QgisProbe, Access, Registries

vars == <<guard, loader, line, merger, checker, knowledge, probe, access, registries>>

Init ==
    /\ tree \in Trees
    /\ allowed \in Seq(Paths)
    /\ asked \in Asked
    /\ changes \in 0..MaxChanges
    /\ GuardInit
    /\ file \in SUBSET Defects
    /\ root \in Values
    /\ items \in [Containers -> Seq(Entries)]
    /\ LoaderInit
    /\ database \in Databases
    /\ invocations \in 0..MaxInvocations
    /\ LineInit
    /\ segments \in Seq(Segments)
    /\ MergerInit
    /\ subject \in Subjects
    /\ CheckerInit
    /\ records \in Seq(Records)
    /\ query \in Queries
    /\ KnowledgeInit
    /\ world \in [ToolNames -> Behaviours]
    /\ fonts \in BOOLEAN
    /\ ProbeInit
    /\ question \in Questions
    /\ held \in [Parts -> Seq(PartEntries)]
    /\ AccessInit
    /\ given \in Seq(CatalogEntries)
    /\ documents \in Seq(SchemaFiles)
    /\ RegistriesInit

CommandStep ==
    CommandNext /\ UNCHANGED <<merger, checker, knowledge, probe, access, registries>>
GuardStep ==
    /\ command = NoCommand /\ GuardNext
    /\ UNCHANGED <<loader, line, merger, checker, knowledge, probe, access, registries>>
LoaderStep ==
    /\ command = NoCommand /\ LoaderNext
    /\ UNCHANGED <<guard, line, merger, checker, knowledge, probe, access, registries>>
MergerStep ==
    MergerNext /\ UNCHANGED <<guard, loader, line, checker, knowledge, probe, access, registries>>
CheckerStep ==
    CheckerNext /\ UNCHANGED <<guard, loader, line, merger, knowledge, probe, access, registries>>
KnowledgeStep ==
    KnowledgeNext /\ UNCHANGED <<guard, loader, line, merger, checker, probe, access, registries>>
ProbeStep ==
    ProbeNext /\ UNCHANGED <<guard, loader, line, merger, checker, knowledge, access, registries>>
AccessStep ==
    AccessNext /\ UNCHANGED <<guard, loader, line, merger, checker, knowledge, probe, registries>>
RegistriesStep ==
    RegistriesNext /\ UNCHANGED <<guard, loader, line, merger, checker, knowledge, probe, access>>

Next ==
    \/ CommandStep \/ GuardStep \/ LoaderStep \/ MergerStep \/ CheckerStep
    \/ KnowledgeStep \/ ProbeStep \/ AccessStep \/ RegistriesStep

Spec == Init /\ [][Next]_vars

TypeOK ==
    /\ GuardTypeOK /\ LoaderTypeOK /\ LineTypeOK /\ MergerTypeOK /\ CheckerTypeOK
    /\ KnowledgeTypeOK /\ ProbeTypeOK /\ AccessTypeOK /\ RegistriesTypeOK
=============================================================================
