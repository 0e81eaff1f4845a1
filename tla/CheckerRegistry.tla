--------------------------- MODULE CheckerRegistry ---------------------------
(***************************************************************************)
(* CheckerRegistry (validation/registry.py): the checks of a phase are run *)
(* on a subject by the handlers that callers registered for them, in the   *)
(* order of the policy, and reported.                                      *)
(*                                                                         *)
(* Handlers are callers' code.  They are given the subject itself, which   *)
(* they may change, and may register others while the run is going on.     *)
(* The digest of a subject is the subject.                                 *)
(***************************************************************************)
EXTENDS Naturals, Sequences

CONSTANTS
    Checks,        \* ids of the policy
    Definitions,   \* the policy: a sequence of [id, phase, severity]
    Phases,
    Checkers,      \* handlers
    Subjects,      \* what a subject can be
    Passes,        \* [Checkers -> SUBSET Subjects], what a handler lets pass
    Rewrite,       \* [Checkers -> [Subjects -> Subjects]], what it makes of it
    NoChecker,
    NoReport

ASSUME CheckerAssumption ==
    /\ Definitions \in Seq([id : Checks, phase : Phases, severity : {"blocker", "error"}])
    /\ \A i, j \in DOMAIN Definitions : Definitions[i].id = Definitions[j].id => i = j
    /\ Passes \in [Checkers -> SUBSET Subjects]
    /\ Rewrite \in [Checkers -> [Subjects -> Subjects]]
    /\ NoChecker \notin Checkers /\ "none" \notin Phases

VARIABLES
    handlers,   \* _handlers
    subject,    \* the subject as it is now
    phase,      \* the phase that is run, "none" between runs
    reached,   \* definitions that run has been through
    results,    \* its results so far
    ran,        \* history: the handler of each result and the subject it saw
    report      \* the last report, or why there is none

Results == [id : Checks, severity : {"blocker", "error"}, passed : BOOLEAN]
Reports == [phase : Phases, subject : Subjects, status : {"passed", "failed"}]

checker == <<handlers, subject, phase, reached, results, ran, report>>

CheckerInit ==
    /\ handlers = [c \in Checks |-> NoChecker]
    /\ phase = "none"
    /\ reached = 0
    /\ results = <<>>
    /\ ran = <<>>
    /\ report = NoReport

\* Another handler takes the place of the first.
RegisterChecker(c, h) ==
    /\ handlers' = [handlers EXCEPT ![c] = h]
    /\ UNCHANGED <<subject, phase, reached, results, ran, report>>

StartRun(p) ==
    /\ phase = "none"
    /\ phase' = p
    /\ reached' = 0
    /\ results' = <<>>
    /\ ran' = <<>>
    /\ report' = NoReport
    /\ UNCHANGED <<handlers, subject>>

Definition == Definitions[reached + 1]
Handler    == handlers[Definition.id]

SkipCheck ==
    /\ phase # "none"
    /\ reached < Len(Definitions)
    /\ Definition.phase # phase
    /\ reached' = reached + 1
    /\ UNCHANGED <<handlers, subject, phase, results, ran, report>>

\* A run that takes a check without handler for one that is of no concern.
RunCheckIfAny ==
    /\ phase # "none"
    /\ reached < Len(Definitions)
    /\ Definition.phase = phase
    /\ reached' = reached + 1
    /\ IF Handler = NoChecker THEN UNCHANGED <<subject, results, ran>>
       ELSE /\ results' = Append(results, [id |-> Definition.id, severity |-> Definition.severity,
                                           passed |-> subject \in Passes[Handler]])
            /\ ran' = Append(ran, [handler |-> Handler, saw |-> subject])
            /\ subject' = Rewrite[Handler][subject]
    /\ UNCHANGED <<handlers, phase, report>>

RunCheck ==
    /\ phase # "none"
    /\ reached < Len(Definitions)
    /\ Definition.phase = phase
    /\ Handler # NoChecker
    /\ reached' = reached + 1
    /\ results' = Append(results, [id |-> Definition.id, severity |-> Definition.severity,
                                   passed |-> subject \in Passes[Handler]])
    /\ ran' = Append(ran, [handler |-> Handler, saw |-> subject])
    /\ subject' = Rewrite[Handler][subject]
    /\ UNCHANGED <<handlers, phase, report>>

EndRun(outcome) ==
    /\ phase' = "none"
    /\ report' = outcome
    /\ UNCHANGED <<handlers, subject, reached, results, ran>>

\* CHECKER_NOT_AVAILABLE: the results so far are lost.
RefuseRun ==
    /\ phase # "none"
    /\ reached < Len(Definitions)
    /\ Definition.phase = phase
    /\ Handler = NoChecker
    /\ EndRun(NoReport)

\* A handler raises, or the subject has no digest or the report is refused.
RunFails ==
    /\ phase # "none"
    /\ reached < Len(Definitions) => Definition.phase = phase /\ Handler # NoChecker
    /\ EndRun(NoReport)

\* The verdict of the last check alone.
FailedLast ==
    results # <<>> /\ ~ results[Len(results)].passed /\ results[Len(results)].severity = "blocker"

Failed == \E i \in DOMAIN results : ~ results[i].passed /\ results[i].severity = "blocker"

ReportRun ==
    /\ phase # "none"
    /\ reached = Len(Definitions)
    /\ EndRun([phase |-> phase, subject |-> subject, status |-> IF Failed THEN "failed" ELSE "passed"])

CheckerNext ==
    \/ \E c \in Checks, h \in Checkers : RegisterChecker(c, h)
    \/ \E p \in Phases : StartRun(p)
    \/ SkipCheck \/ RunCheck \/ RefuseRun \/ RunFails \/ ReportRun

-----------------------------------------------------------------------------
(* Properties.                                                             *)

CheckerTypeOK ==
    /\ handlers \in [Checks -> Checkers \cup {NoChecker}]
    /\ subject \in Subjects
    /\ phase \in Phases \cup {"none"}
    /\ reached \in 0..Len(Definitions)
    /\ results \in Seq(Results)
    /\ ran \in Seq([handler : Checkers, saw : Subjects])
    /\ report = NoReport \/ report \in Reports

\* The subject that a report names is the one that each of its handlers saw,
\* as long as none of them changed it, though they may have been replaced in
\* the meantime (registry.py:36-39).
Untouched == \A i \in DOMAIN ran : Rewrite[ran[i].handler][ran[i].saw] = ran[i].saw

\* A report that passed means that, for every blocking check of its phase, a
\* handler that was registered for it let pass the very subject that the
\* report names, unless a handler of the run changed it; one that failed means
\* that some such handler did not, so a check without a handler never counts
\* as passed (registry.py:28-40).
ReportsAreEarned ==
    report # NoReport =>
        /\ \A i \in DOMAIN Definitions : Definitions[i].phase = report.phase =>
             \E n \in DOMAIN results : results[n].id = Definitions[i].id
        /\ Untouched =>
             /\ \A n \in DOMAIN ran : ran[n].saw = report.subject
             /\ report.status = "passed" <=>
                  \A n \in DOMAIN ran : results[n].severity = "blocker" =>
                      report.subject \in Passes[ran[n].handler]
=============================================================================
