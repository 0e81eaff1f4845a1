# carto_core: specifications and proofs

TLA+ models of the Python package
`src/skills/carto-agent/scripts/carto_core`, the controlled core of the Carto
map agent. Paths below are relative to it. `PROJECT.json` maps each definition
to the lines it stands for, and lists the runs, the mutants, the hazards and the
theorems.

## The system

Agents propose and deterministic code decides. A request becomes a map intent;
contracts (templates, plans, policies) are loaded, validated and compiled into a
snapshot; a job goes through its steps, each with a durable receipt; tools and
agents work within a budget; what leaves the system needs an approval receipt
that counts once as long as it is valid. There is no server and no thread pool: processes share state
through files and one SQLite database, and callbacks (tool handlers, checkers)
re-enter the components that call them.

| Component | State it keeps | Operations | Hard about it | Correct when |
|---|---|---|---|---|
| Job state store `workflow/state_machine.py` | `job-state.json`, files under `receipts/` | initialize, load, resume, complete_step, retry | two writes per completion; crashes and failing writes between them; several workers; a `JobState` held by the caller | no outcome without its receipt; one writer sees an atomic ledger |
| Approvals `security/approval.py`, `workflow/approvals.py` | nonces consumed, in memory or in SQLite | require, verify_receipt, consume | two readings of the clock, purge of other receipts' rows, the wait for the lock, dead processes | before a receipt expires its nonce counts once, and only for the gate, object and context that the receipt names |
| Budget and context `workflow/models.py` | five counters, a start time | consume, require_project_scope | charges that are refused have been made; nested tools share the counters | no work beyond the limits |
| Tool gateway `adapters/tool_gateway.py`, `adapters/mcp.py` | handlers | register, bind, invoke | a handler invokes other tools before it returns | no more handlers than the budget has calls, one at most after the time is over; a result points at its own artifact |
| Agent runtime `workflow/agent_runtime.py` | none but the budget | submit, repair, stage_context | three charges, then validation | accepted candidates fit the budget |
| Artifact store `repository/immutable_store.py` | one file per artifact | put, get | concurrent puts of one artifact, torn writes, power loss, edits from outside | an immutable map |
| Compiler `compiler/protocol.py`, `compiler/dependencies.py` | none after the call | compile, resolve | a recursive walk over shared and cyclic dependencies | dependencies first, exactly what is needed, right refusals |
| Ownership `compiler/ownership.py` | none after the call | merge | Python's equality merges values that are written differently | every value attributed; refusals do not depend on the order |
| Intent `workflow/intent.py` | profiles | resolve, dispatch | clarification is a dialogue in several rounds | it ends, and what is dispatched is complete |
| Document loader, schemas `schema_registry.py` | table of schemas | load_document, validate | YAML aliases make a graph of a document; the file is measured, then read | shallow, acyclic, string-keyed |
| Checkers `validation/` | handlers by check | register, run | handlers run on the subject itself and may replace others | a passed report was earned on the subject it names |
| Catalog, routes `repository/catalog.py`, `workflow/router.py` | two tables | register, get, dispatch | handlers register and dispatch while they run | entries never change |
| Knowledge `repository/knowledge.py` | records, sources | lookup_or_search | one bad record refuses every query | exactly what matches, by classification |
| Data preparation `workflow/data_preparation.py` | policy | prepare_data | | only allowed operations, in scope |
| Authorization, egress, redaction `security/authorization.py`, `security/sensitive.py` | none | authorize, require_allowed, redact_for_log | tables that combine, recursion through lists and mappings | no more than the tables grant, nothing sensitive shown |
| Path guard `security/paths.py` | roots | resolve | the tree has links and changes while it is examined | nothing outside of the roots, no honest path refused |
| Command line `cli.py` | nonce databases, one per `--nonce-db` | main | the order of the calls; which exceptions are reported; a report that cannot be written; death in between | success is earned; the nonce is spent last, and counts once until the receipt expires |
| QGIS probe `adapters/qgis_probe.py` | none | run | programs that fail, hang or cannot be started | the verdict is what the programs deserve |

How they interact: the gateway and the agent runtime charge the budget of one
`ExecutionContext`; the gateway pins each output in the artifact store before it
reports it; the commands construct a path guard, load the file that it lets
through and decide on the document; `approval verify` and the gates of
`workflow/approvals.py` call `verify_receipt`, which calls the nonce store last;
`compile` calls `resolve`; the constructors that read a policy call
`load_document`; every record is validated against a JSON schema before it is
returned or written. Nothing in the package calls the job state store or the
merge, or dispatches an intent: callers do.

## The modules

| Module | Models | Used by |
|---|---|---|
| `WorkflowState` | the job store, each worker between two renames | `WorkflowResume`, `MCWorkflowState`, `WorkflowStateProofs` |
| `JobLedger` | abstract: a job that changes in one step per operation | refined by `WorkflowState` |
| `WorkflowResume` | `WorkflowState` with the history of what each step relied on | its own run |
| `Approvals` | verifiers on either nonce store, step by step | `MCApprovals`, `ApprovalsProofs` |
| `ExecutionContext` | budget, clock, scope | `ToolGateway`, `AgentRuntime` |
| `ToolGateway` | gateway, MCP adapter, pinning; a stack of calls per context | `RunSession` |
| `AgentRuntime` | submit and repair | `RunSession` |
| `RunSession` | composition: tools and agents on the same budgets | `MCRunSession`, `RunSessionProofs` |
| `ArtifactStore` | put and get of concurrent processes, with page cache and disk | `MCArtifactStore`, `ArtifactStoreProofs` |
| `ImmutableMap` | abstract: what a put promises | refined by `ArtifactStore` |
| `DependencyResolver` | the recursive visit, call by call | `ProtocolCompiler` |
| `DependencyOrder` | abstract: place any needed contract whose dependencies are placed | refined by `DependencyResolver` |
| `ProtocolCompiler` | composition: contracts, walk, snapshot | `MCProtocolCompiler`, `CompilerProofs` |
| `IntentResolver` | resolve, dispatch, and a caller who answers | `MCIntentResolver`, `IntentProofs` |
| `Documents` | load_document and the recursive depth check | `CommandLine`, `GovernanceProofs` |
| `PathGuard` | the constructor root by root and resolve name by name, in a tree that others change | `CommandLine` |
| `CommandLine` | composition: the commands as sequences of calls, the guard and the loader inside | `Governance` |
| `Ownership` | merge, segment by segment | `Governance`, `GovernanceProofs` |
| `CheckerRegistry` | register and run, check by check | `Governance` |
| `Knowledge` | lookup_or_search, record by record | `Governance` |
| `QgisProbe` | the programs one after the other, and the verdict | `Governance` |
| `Access` | authorize, egress, operations of a preparation, redaction of what a role is shown | `Governance` |
| `Registries` | catalog, routes with nested handlers, the table of schemas | `Governance` |
| `Governance` | composition of the commands with these components, which share no variable with them | `MCGovernance`, `GovernanceProofs`, `CommandProofs` |

### Conventions

* A digest is the digested value. Two digests are equal exactly when the values
  are, so a digest check is an equality and a file name that holds a digest is
  the value itself.
* A JSON schema is a predicate of the record it validates, a set of the module's
  constants (`Invalid`, `Misfits`), except where it decides something that
  interacts with the state: the step name too long for `job-state`
  (`LongStep`), the repeated task of `map-intent` (`Valid`).
* An action is the code between two points where another process, a crash or a
  callback can come in; everything the handler does between them is in it. A
  recursion is a sequence of frames, the innermost last.
* Before some definitions stands a variant of them (`ExceededLate` before
  `Exceeded`, `TooDeepContainers` before `TooDeep`): a plausible mistake in that
  code, which no specification uses. `PROJECT.json` pairs each property with
  such a mutant that violates it.

### Correspondence, component by component

**WorkflowState.** `jobFile`, `receipts` are the files; `held[w]` is the `JobState` in
worker *w*'s hands, `pc[w]` where it is inside an operation, `draft[w]` what that
operation will write. `_atomic_json`
is `WriteJob`/`CompleteReceipt`: one rename, or none (`WriteFails`), so a reader
sees the old or the new file. `initialize` is a look and a write
(`InitializeCheck`, `InitializeWrite`), `complete_step` is a check, the receipt,
and the state (`CompleteCheck`, `CompleteReceipt`, `CompleteState`); `retry`
writes once. `Crash` loses what a worker holds. `Drift` changes a prerequisite
that `resume` compares.

**Approvals.** A verifier takes a receipt through the checks of `verify_receipt`
(`Verify`, all against one reading of the clock), then the memory store
(`Lock`, `Examine`, `Consume`: the dictionary lock) or the SQLite one (`ReadNow`,
`Lock` = `BEGIN IMMEDIATE`, purge and insert, commit). `LockTimeout`,
`ConsumeFails` and `Crash` end it early and roll back. What a receipt and a
request must agree on besides the gate and the object is their `context`, a
function of the fields that are compared one by one (scope, tenant, policy,
issuer, environment). `grants` is the history of what was consumed for
which request. The clock never goes back. The coordinator of
`workflow/approvals.py:32` takes the subject it expects from the receipt itself:
that such a receipt was meant for this subject is up to its caller, and is not
promised here.

**RunSession.** `used[x]` are the counters of context *x*, charged before they are
compared, as `consume` does. `Invoke` is everything from the checks to the
charge, which has the only look at the clock; `Start` the validation of the input
and the call of the handler, any time later; `Finish` and `Fail` what comes after.
From `Start` on the handler may invoke again in the same context. `late` is the
history of handlers started when the time was over. `Pinned` is the `put` of the
output.

**ArtifactStore.** One record per process in `put`; a file has contents in the
cache and on the disk, so that `PowerLoss` keeps what was synced and an arbitrary
part of the rest. `Fault` is any `OSError` and leads to the `finally`
(`Clean`), where the removal of the temporary file may fail in turn
(`CleanFails`, remembered in `stuck`). `changed` and `erased` are the history of
what befell a file, `conflicts` and `refused` that of the errors which `put` and
`get` raised.

**ProtocolCompiler.** `frames` are the calls of `visit`; `visiting`, `visited`,
`ordered` are the variables of `resolve`.

**IntentResolver.** `request` is what the caller has said; a scene counts by
whether the text has one of its terms. `Answer` is the caller: it answers every
item of `missing_items` and resolves again (of tasks that the scene does not
offer it names any that it still wants, `TasksLeft`); `answered` is the history of these
rounds.

**Documents.** `items` is the parsed value as a graph, `calls` the calls of
`_check_depth` on containers; a scalar returns at once and is part of the step of
its container (`Pass`). `Replace` is another writer between `stat` and
`read_text`.

**Ownership.** One step per segment; `Equal` is `==`.

**PathGuard.** A path is the sequence of its names, `tree` says what is at each of
a few places; a junction is a link. The constructor takes the roots of `allowed`
one after the other: a look (`Construct`), and the resolution that follows it
(`ResolveRoot`). `absolute` and `resolved` are the variables of
`resolve`: `walk` is the second while it comes about, one name looked up per
`Step` (`Follow`; `Walked` is the same walk at once, for `exists`, `is_symlink`
and `resolve` of roots and bases). `Contain`, `Look` (one segment of
`_reject_linked_segments`) and `ReturnPath` end it. `Change` is anybody else,
between any two of these looks.

**CommandLine.** `Plan` lists the calls of each command in the order they are
evaluated, `position` is the call that runs. In "guard" and "load" the steps of
`PathGuard` and `Documents` are taken; any other call returns or raises. `Raise`
tells the exceptions that `main` catches from those it does not; `PrintSuccess`
and `PrintError` may fail too, and `Die` is the death of the process. What lasts is
`spent`, per database. The receipt expires at some moment (`Expire`), after which
`Consume` deletes its row before it inserts, as does the verification of any other
receipt in the same database (`Purge`); the last look at the window is in
`CheckReceipt`, before. Invocations come one after another: verifications side by
side are in `Approvals`.

**CheckerRegistry.** One step per definition: skipped, run, or refused for want of
a handler. A handler sees the subject as the earlier ones left it (`Rewrite`);
`ran` is the history of who saw what. `RegisterChecker` may come at any moment.

**Knowledge.** One step per record, in the order of the code's tests: source,
classification, terms, jurisdiction, evidence. `answers` is the history of how
queries ended.

**QgisProbe.** One step per program and one for the verdict. A program is absent,
sound, failing, hanging or impossible to start.

**Access.** One question and its answer. The tables of the code are the functions
`RoleActions` and `StageNames`; `Redacted` is `redact_for_log` on nested lists and
mappings, and `StageContext` what `stage_context` makes of it.

**Registries.** The three tables side by side. `handling` are the dispatches in
progress, whose handlers may register and dispatch.

## The runs

| Run | Instance | Shows |
|---|---|---|
| `workflow_single` | one worker, two steps, two attempts, one prerequisite with two values, two timestamps, two receipts | a lone worker's `JobState` is the file's; the store implements `JobLedger` through crashes and failed writes |
| `workflow_many` | two workers, two inputs, two outcomes | no outcome in the job file without its receipt |
| `approvals` | two verifiers, six receipts over two nonces (shared nonce, mixed gates, unsigned, empty window), requests whose context differs from theirs in one field, three times | once before expiry; once ever in memory; a nonce is spent by a grant alone, and a grant is for the gate, object and every field of the context that the receipt names; the lock is freed |
| `session` | two contexts (one out of scope), three tools, nesting to the limit of two calls, five submissions, one tick past the deadline at any moment | handlers started and amounts accepted are within the budget; at most one handler starts after the time is over; pinning; no refund |
| `store` | two processes, two artifacts, one change from outside, one power loss | no torn file under its final name; a conflict only for what was changed from outside, a refused read only for what was changed or lost; a put that ends leaves no temporary file unless its removal failed too (a process that dies leaves its own); an immutable map until the first loss or change |
| `compiler` | every graph over three contracts with up to two dependencies each, lists of roots, doubled and invalid contracts | implements `DependencyOrder`; the snapshot is closed and exact; compile ends |
| `intent` | two scenes that share a field, requests of every kind | no question twice, five rounds at most, complete dispatch |
| `governance` | every directory tree of five places, and a choice of trees with one change by others; every document of three containers, two with up to two items and one with up to one, at depth limit two; three invocations of the commands over two nonce databases, with a receipt that expires at any moment and rows that others purge, or one invocation while others change the tree or on a document that contains itself; every list of two segments over two keys, and of three over one; four checks in two phases with three kinds of handlers; up to two records; every outcome of the probe; every question about permissions of three known roles and a stranger; two levels of nested values; up to two catalog entries; up to two schema files, or three that have an identifier and a known dialect each | what is accepted, loaded, merged, reported, answered, permitted or shown is what the inputs deserve, and nothing that deserves it is refused |

Four runs find the code at odds with the repository's documents:

| Run | Document | What happens |
|---|---|---|
| `workflow_lost_update` | `doc/carto-agent-architecture.md:407`: one active writer, by project lock and revision number | there is neither: a second worker overwrites a state it has not seen |
| `workflow_two_receipts` | `doc/impl-log/U-P1说明文档.md:45`, `:368`: one receipt per completed step, a second is refused | the receipt's name holds its timestamps' digest, so a second one is not recognised |
| `workflow_resume` | `doc/implement-plan.md:165`: reuse only if all prerequisites still hold | only those of the last receipt are compared |
| `approvals_expiry_race` | `doc/impl-log/U-P0说明文档.md:545`: a nonce is consumed once | a verification that crosses the expiry purges its own nonce and consumes it again |

### Bounds, and why they are enough

Every bound is a constant with a name that begins with `Max`, or a finite set
given in the `.cfg` or the MC module.

* Workers, verifiers, processes: two. The bad interleavings of these components
  are between two; the theorems hold for any number.
* `MaxAttempt`, `MaxReceipts` 2: a retry, and a receipt that competes with
  another. `MaxClock` 1: two receipts that differ only in their timestamps.
* `MaxTime` 2 in `Approvals`: before, at and after the expiry of the receipts,
  one of which is issued when the other expires. The contexts asked for are that
  of the receipts and, for each field, one that differs in it.
* Limits of `session`: two tool calls allow one nesting; one model call and one
  unit of cost make the next submission the one that is refused, and a submission
  of two units is refused for its cost before that.
* `MaxChanges`, `MaxLosses` 1 in `ArtifactStore`: a second loss or change adds
  no state of a file that the first cannot produce.
* Three contracts: chains, diamonds with a shared end, cycles of every length to
  three, self-dependency. Three containers at `MaxDepth` 2: the limit is hit by
  a container and by a scalar, below a shared container and in a cycle longer
  than the limit would allow.
* `MaxSteps` 10: names looked up before links count as a loop, more than any path
  of the instance needs that does not loop. `MaxChanges` 1: one change, between
  any two looks, already makes what was walked and what is looked at differ. Five
  places hold a link that leads out, back in, to another link, to nothing and to
  itself.
* `MaxInvocations` 3: the verification, its repetition on the same database and
  one on the other, or a third after the expiry. Of the receipt only whether it
  has expired counts. `MaxNested` 2: a handler that dispatches its own route.
* `part`, a variable of `MCGovernance` alone, picks one component for each
  behaviour: apart from the guard and the loader inside the commands they share
  no variable, so that interleavings of them show nothing that each alone does
  not. `Governance` itself has no such variable, and the theorems are about it.
* Two scenes, one unsupported action, one capability: every order in which the
  five rounds can come.

Each module has a type invariant. Those of the modules that a proof is about are
theorems and not repeated by the runs, except for that of `Governance`, which is
in its run as well.

Runs switch the deadlock check off because these systems may stop: all workers
idle at the bounds, a request that needs nothing, a loaded document, a command
that has reported.

### Fairness

Only two properties need it. `LockIsFreed` assumes weak fairness of each
verifier's own steps: a process that holds the lock goes on, times out, fails or
dies, for its code has no wait inside the transaction and the connection has a
timeout; no fairness is assumed of the clock, the purge or the arrival of
requests. `CompileEnds` assumes weak fairness of the compiler's step, which is
plain computation. Everything else is safety.

## The proofs

TLAPS checks these for every value of the constants, under the `ASSUME`s of the
modules (names are distinct, bounds are natural numbers, a value that is redacted
has finitely many parts), which every run evaluates. Every invariant and every
refinement that a run checks is a theorem too.

* `WorkflowStateProofs`. `WorkflowSafe`: the invariant `IInv` adds to type
  correctness that the receipt which a worker is about to refer to is on the disk,
  and that what a worker holds refers to a durable receipt too: without it the
  step that writes the job file preserves nothing. `SingleWriterRefinement` and
  `SingleWriterHoldsCurrent` assume `SingleWriter` (`\A v, w \in Workers : v = w`),
  which the code does not enforce (see `workflow_lost_update`); their invariant
  `SoleInv` says how the file, the worker's object and the draft relate at each
  point of an operation, which makes each rename one step of the ledger and
  every other step a stutter.
* `ApprovalsProofs`. `PlaceInv` (who is inside the store holds its lock),
  `ViewInv` (what a verifier read of the table still stands while it holds the
  lock), `RowInv` (each consumption has its row until the row's time), `PairInv`
  (two consumptions of a nonce are after one another's expiry) make
  `ConsumedOnceBeforeExpiry` inductive; in memory nothing is purged, which gives
  `MemoryOnce`; `MatchInv` carries the checks of `verify_receipt`, the
  context field by field among them, to the moment of consumption, and
  `RowsAreGrants` says that rows come from grants only, so that a refused receipt
  keeps its nonce (`ApprovalsFit`). `LockIsHeldBriefly` is the part of
  `LockIsFreed` that needs no fairness: who has the lock is inside the critical
  section, and each step of its own leads on to the second half of it or frees
  the lock.
* `RunSessionProofs`. `BudgetHolds`: `Covered` says that the calls counted cover
  all handlers started and the one that is charged but not started (`Pending`), and
  the accepted amounts those charged, so
  a charge that passes the comparison leaves them within the limit although
  refused charges stay in the counters. `ResultsStayPinned`, `NeverRefunded`.
  `DeadlineStopsHandlers`: between the look at the clock and the start of the
  handler the time may run out; `DeadlineInv` says that from then on those started
  late and the one that is pending are one together, for every later charge sees
  the clock. `HandlersStay` is of the single step: registration is one step with
  its test.
* `ArtifactStoreProofs`. `StoreSafe`: `Durable`, that no file has data which the
  disk lacks because only synced temporary files are renamed, is what keeps
  `PowerLoss` from tearing one. `Blamed` and `Present` say what a file can hold or
  lack for which reason: with them a conflict and a refused read have theirs
  (`RefusalsAreDeserved`). `Followed` accounts for the temporary file at each
  point of a put. `StoreRefinement`: `Kept`
  relates each process's place to the abstract put, until the first loss or
  change.
* `CompilerProofs`. `WalkImplementsOrder`: `WalkInv` relates the frames, whose
  contracts form a path from a root, to `visited` and `ordered`: what is placed
  has its dependencies placed, what a frame has passed is done, what is visited
  is needed; `RootsAreDone` says so of the roots; a back edge gives the cycle
  that a refusal needs. `DependenciesComeFirst` and `CompiledIsClosed` follow
  from the same invariant with the compiler's own (`CompilerInv`).
  `CompileAdvances` is the part of `CompileEnds` that needs no fairness, for
  finitely many contracts: of the phases, supplied contracts, contracts not yet
  entered, roots, calls in progress and dependencies of the innermost call that
  are left, in this order, each step lowers the first number that it changes.
* `IntentProofs`. `IntentInv` says that the caller's request is at one of six
  stages (`Stage`), by what `resolve` asks of it, at a later one than the number of
  rounds it has had, and that it still has what each earlier answer gave it
  (`DoneWith`). An answer undoes no earlier one and leads to a later stage: hence
  `QuestionsDoNotReturn`, `ClarificationEnds` and, with what `dispatch` tests,
  `DispatchIsComplete`. `IntentTypes`, `RefusalsTellWhy`.
* `GovernanceProofs`. `MergeIsSound`: `BehindIsMerged` (the segments taken so
  far are in the result, up to `==`) and `ResultIsGiven` (each entry is of a
  segment of its owner). `LoadingIsSound`: the invariant `LoaderInv` says of each
  call in progress that the items behind it fit, that is, every way down from
  them ends above the depth limit and at string keys (`Behind`, `Fits`; only the
  item that the call waits for is excepted). `Fits` of a container follows from
  that of its items, step by step as calls return, and so needs no induction
  over the document. The root then fits at depth 0, which is `LoadedIsSound`; a
  refusal's cause is the path of the calls in progress (`RefusalsAreRight`).
  `ShowingIsExact`: what `redact_for_log` leaves of a value is defined by a
  recursion over its parts, which exists because no part contains itself
  (`Unfolds`, in the initial condition: a value that contained itself would
  recurse until Python stops it); by induction on the rank of the parts it is
  just what the ways without a sensitive key lead to (`RedactedIsOpen`), and such
  a way meets no part twice (`WaysAreShort`), so that those of `EntryWays`, which
  are no longer than there are parts, are all. `MoreIsNeverLess` is about the
  other decisions of `Access`.
* `CommandProofs`. `GuardContains`: `GuardInv` says that from the comparison with
  the roots on the path that will be returned is the one compared, whatever the
  tree becomes. `AcceptingIsReal` and `PlainPathsPass` are about a tree that nobody
  touches: there `TrackInv` says that the walk, taken name by name, is at each
  moment the one that `After` computes at once, that no link is left on a root, and
  that what has been looked at so far is no link. The lemmas about
  a walk say that no link is left on the names behind it (`AfterType`), that it
  rests once no name is left (`WalkRests`), that a path is walked as it is written
  for as long as no link is on it (`PlainAfter`), and that a path of which the
  guard takes no part for a link has none (`LinklessIsPlain`). `PlainIsAccepted` is
  about paths of at most `MaxSteps` names: longer ones are refused by the bound of
  the model, not by the code. `CommandsEarnSuccess`, `SpendingIsLast`,
  `ReceiptsVerifyAgainOnlyAtExpiry`: `LineInv` says of every call behind the present
  one what it has established (`CallsInv`) and how `expired`, `spent`, `consumed`
  and `verified` agree (`NonceInv`): while the receipt is valid what was consumed
  is still spent; an invocation between the look at the window and its end began
  that before the expiry, so nobody has been told `verified` after it yet. No later
  call and nobody else undoes it. `ReportsSpeakTrue`: `CheckerInv` matches
  each result with the handler and the subject it came from. `KnowledgeIsExact`
  and `SourcesBlockEveryQuery`: `KnowledgeInv` says what has been found among the
  records so far. `ProbeSpeaksTrue`, `TablesStayWhole`, `EntriesAreKept` are about
  the other components, each by an invariant of its own. `GovernanceTypes` puts
  all these invariants together: every variable of the composition has its type.

The library's induction theorems take an operator as a parameter, which the
provers cannot instantiate. Where an induction over data is needed it is stated
for sets: `SetInduction` says that a set which has 0, and n + 1 with each number
n, has all numbers (by counting: otherwise the exceptions up to some number could
be sent one to one to fewer of them), and `StepsHaveFunction` that a function
given by a first value and a step exists. Recursive functions whose domain is
ranked exist by the same induction. No module uses a RECURSIVE operator.

Only model-checked: the two liveness properties, `LockIsFreed` and `CompileEnds`,
because fairness and ENABLED are out of the prover's reach. What is left of them
after `LockIsHeldBriefly` and `CompileAdvances` is that a step which is possible
exists and is taken.

## Observations

Met while modelling; each is a difference between a line of code and a line of
the documents, or a choice a reader should know of. No run is devoted to them.

* `workflow/state_machine.py:44`: two processes may both find no job and both
  create one.
* `cli.py:137` catches `CartoError`, `OSError` and `ValueError`;
  `sqlite3.Error` of a nonce database goes through, where
  `doc/impl-log/U-P0说明文档.md:697` promises a JSON object and exit code 2.
* `adapters/tool_gateway.py:65` charges a call before it validates its input;
  `doc/implement-plan.md:174` lists validation first. `:71`: a handler that runs
  past the time limit still delivers (`doc/impl-log/U-P1说明文档.md:209`).
* `workflow/intent.py:48`: a request that lacks both information and capability
  has readiness `missing_capability`; the document lists information first
  (`U-P1说明文档.md:385`). A scene that is named settles a text that matches
  several, which the document calls ambiguous (`:382`).
* `compiler/protocol.py:21` says that compile checks ownership; it calls neither
  `ownership` nor `require_pinned`.
* `validation/registry.py:38`: only a failed `blocker` fails a report; the
  baseline (`policies/baselines/carto-core-1.0.0.yaml:10`) says
  `error: fail-validation`. `:26` replaces a registered checker silently, `:39`
  digests the subject after the handlers ran, and a phase without checks passes.
* `security/paths.py:110`: the segments of a path are looked at for links only if
  the path, as written, is below the resolved root it ends in. A link from one
  root into another, or a root reached through a link, is followed and accepted,
  where `doc/impl-log/U-P0说明文档.md:48` says that a link on the path is refused.
  What is returned is inside a root all the same (`AcceptedIsInside`). `:116`: a
  link whose target does not exist is no link to this test, so that a path below
  it is accepted unless it must exist.
* A loop of links makes `resolve` raise `RuntimeError` on Python 3.11 and 3.12;
  `cli.py:137` does not catch it, nor `RecursionError` of a document nested too
  deeply for the parser, nor `TypeError` of a value that JSON cannot write. The
  exit code is then 1.
* `security/approval.py:62`: at the expiry of a receipt the command line may call
  it verified a second time on the same database, and not a third
  (`VerifiedAgainOnlyAtExpiry`; `approvals_expiry_race` has the race itself).
* `adapters/tool_gateway.py:65`: nothing looks at the clock between the charge of
  a call and its handler, so one handler of a context may start after its time.
* `repository/immutable_store.py:52`: if the removal of a temporary file fails
  after a failed write, the file stays and the second error is the one reported.
* `cli.py:109`: a verification whose report cannot be written, or whose process
  dies first, has spent the nonce; the caller cannot tell it from a receipt that
  somebody else used. Each `--nonce-db` counts for itself (`:98`).
* `adapters/qgis_probe.py:43`: a program that hangs has the exit code null, which
  does not count against the environment as a failing one does. `:49`: fonts are
  looked for under `WINDIR` alone, so elsewhere the environment is never
  available.
* `repository/knowledge.py:46`: one record of an unreadable source fails every
  query, also those it would not answer. `:49` filters for `public` askers only;
  whoever names another classification is shown all.
* `security/sensitive.py:57`: keys that are equal as text replace one another; sets
  and other containers, and text that has a secret in it, are returned as they
  are.
* `repository/catalog.py:37` sorts versions as text, `10.0.0` before `9.0.0`.
* `compiler/ownership.py:20` keeps the last of two equal values, so the digest of
  a merge that has no conflict may depend on the order of its segments.
* `schema_registry.py:24` measures the file and reads it afterwards; `:34` the
  parser may exceed Python's recursion limit before the depth is checked; `:56` a
  shared container is walked once per path.

## Not modelled, and why

Schemas, canonical JSON, hashing and signatures are functions of data and appear
as predicates and equalities; `errors.py` and `adapters/contracts.py` only declare
types. Schemas, policies, packaging and the documents are data: the policies are
constants of the modules that read them. Floating-point costs are out of TLC's
reach: amounts are integers, negative ones included, so that a cost which is not
a number (`workflow/models.py:39`) is not seen. Python's recursion limit counts
only as an exception of the parser that the command line does not report
(`CallsArePath` and `CallsAreNested` bound the depth of the two walks).
`expanduser`, letter case and the refusal of a relative root are left out of the
path guard, the wording of reports and options out of the command line.

## Plan

1. Done: every component above that keeps state or decides, with the proofs above.
2. `RunSession` with the artifact store's own steps instead of an atomic put, so
   that a handler's result and a crash inside the put meet.
3. `CommandLine` with invocations side by side, on the verifiers of `Approvals`.
4. A specification of when a retry is due, which no document gives: `JobLedger`
   lets one come whenever the code does.
