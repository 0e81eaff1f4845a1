--------------------------- MODULE WorkflowState ---------------------------
(***************************************************************************)
(* WorkflowStateStore (carto_core/workflow/state_machine.py): the job of a *)
(* run directory, kept in job-state.json, and its immutable step receipts  *)
(* under receipts/.  Several workers may hold the run directory open; each *)
(* has its own JobState object, passed by the caller to every operation.   *)
(*                                                                         *)
(* Every write is an _atomic_json: a temporary file renamed over the       *)
(* target, so a reader sees the old contents or the new ones.  An action   *)
(* below is the code between two such renames (or between a look at the    *)
(* directory and the rename that relies on it): workers interleave there,  *)
(* and may stop there.                                                     *)
(*                                                                         *)
(* A digest is modelled by the digested value.  The path of a receipt      *)
(* holds the digest of its contents, so a receipt stands for its own path. *)
(***************************************************************************)
EXTENDS Naturals, FiniteSets

CONSTANTS
    Workers,     \* processes that work on the run directory
    Inputs,      \* inputs a job may be created or resumed with
    Steps,       \* step names of at most 64 characters
    Outcomes,    \* outcomes the callers of complete_step report
    LongStep,    \* a step name the job-state schema refuses
    Keys,        \* names of the prerequisites of steps
    None,        \* Python's None, and "no file"
    MaxVersion,  \* bound: values a prerequisite takes
    MaxAttempt,  \* bound: retries of a step
    MaxClock,    \* bound: distinct timestamps
    MaxReceipts  \* bound: receipts written in a behaviour

Snapshots == UNION {[K -> 0..MaxVersion] : K \in SUBSET Keys}

\* StepReceipt: the fields the store and its callers read back.
Receipts == [step : Steps, attempt : 1..MaxAttempt, status : Outcomes,
             input : Inputs, prerequisites : Snapshots, stamp : 0..MaxClock]

\* JobState.  The statuses "running" and "cancelled" of the schema are never
\* produced by the store.
Jobs == [status : Outcomes \cup {"pending"}, step : Steps,
         attempt : 1..MaxAttempt, input : Inputs, last : Receipts \cup {None}]

\* The next state built by complete_step, before the schema has seen it.
Drafts == [status : Outcomes \cup {"pending"}, step : Steps \cup {LongStep},
           attempt : 1..MaxAttempt, input : Inputs, last : Receipts \cup {None}]

ASSUME BoundsAssumption ==
    /\ MaxVersion \in Nat
    /\ MaxAttempt \in Nat \ {0}
    /\ MaxClock \in Nat
    /\ MaxReceipts \in Nat

ASSUME NamesAssumption ==
    /\ Outcomes \subseteq {"succeeded", "failed", "waiting_approval"}
    /\ LongStep \notin Steps
    /\ None \notin Steps \cup {LongStep}
    /\ None \notin Receipts
    /\ None \notin Drafts

VARIABLES
    jobFile,    \* contents of job-state.json, None before it exists
    receipts,   \* files under receipts/
    facts,      \* current value of every prerequisite, kept by others
    clock,      \* wall clock, read by _now
    pc,         \* where each worker is inside an operation
    held,       \* the JobState each worker holds, None if it has none
    draft       \* the JobState that the operation in progress will write

vars == <<jobFile, receipts, facts, clock, pc, held, draft>>
worker == <<pc, held, draft>>

Init ==
    /\ jobFile = None
    /\ receipts = {}
    /\ facts = [k \in Keys |-> 0]
    /\ clock = 0
    /\ pc = [w \in Workers |-> "idle"]
    /\ held = [w \in Workers |-> None]
    /\ draft = [w \in Workers |-> None]

-----------------------------------------------------------------------------
(* Operations of a worker.                                                 *)

\* The operation of w is over: it returned job, or raised and left w with
\* the JobState it had.
Return(w, job) ==
    /\ pc' = [pc EXCEPT ![w] = "idle"]
    /\ held' = [held EXCEPT ![w] = job]
    /\ draft' = [draft EXCEPT ![w] = None]

\* A store that forgets to hand the new JobState back.
WriteJobStale(w, job) ==
    /\ jobFile' = job
    /\ Return(w, held[w])

\* os.replace of job-state.json, and the return of the operation.
WriteJob(w, job) ==
    /\ jobFile' = job
    /\ Return(w, job)

\* A store that creates without a look at the directory.
NoLook == TRUE

\* initialize: no state file may exist.  Otherwise JOB_ALREADY_EXISTS is
\* raised and nothing changes.
MayInitialize == jobFile = None

InitializeCheck(w, input, step) ==
    /\ pc[w] = "idle"
    /\ MayInitialize
    /\ pc' = [pc EXCEPT ![w] = "initialize"]
    /\ draft' = [draft EXCEPT ![w] =
            [status |-> "pending", step |-> step, attempt |-> 1,
             input |-> input, last |-> None]]
    /\ UNCHANGED <<jobFile, receipts, facts, clock, held>>

InitializeWrite(w) ==
    /\ pc[w] = "initialize"
    /\ WriteJob(w, draft[w])
    /\ UNCHANGED <<receipts, facts, clock>>

Load(w) ==
    /\ pc[w] = "idle"
    /\ jobFile # None
    /\ held' = [held EXCEPT ![w] = jobFile]
    /\ UNCHANGED <<jobFile, receipts, facts, clock, pc, draft>>

\* The caller of complete_step or resume states the current values of the
\* prerequisites it knows of.
Observed(K) == [k \in K |-> facts[k]]

\* resume: JOB_INPUT_DRIFT unless the inputs are those of the job, and
\* JOB_PREREQUISITE_DRIFT unless the prerequisites are those of the last
\* receipt.
Resumable(input, K) ==
    /\ jobFile # None
    /\ input = jobFile.input
    /\ jobFile.last # None =>
         /\ jobFile.last \in receipts
         /\ jobFile.last.prerequisites = Observed(K)

Resume(w, input, K) ==
    /\ pc[w] = "idle"
    /\ Resumable(input, K)
    /\ held' = [held EXCEPT ![w] = jobFile]
    /\ UNCHANGED <<jobFile, receipts, facts, clock, pc, draft>>

\* The receipt that complete_step builds from the caller's JobState.
NewReceipt(job, status, K) ==
    [step |-> job.step, attempt |-> job.attempt, status |-> status,
     input |-> job.input, prerequisites |-> Observed(K), stamp |-> clock]

\* The JobState that complete_step builds from the caller's one.
Advanced(job, receipt, next) ==
    IF next = None
    THEN [job EXCEPT !.status = receipt.status, !.last = receipt]
    ELSE [job EXCEPT !.status = "pending", !.step = next, !.attempt = 1,
                     !.last = receipt]

\* complete_step up to the look at the receipt's path, which raises
\* STEP_RECEIPT_ALREADY_EXISTS if the same receipt is there.
CompleteCheck(w, status, K, next) ==
    /\ pc[w] = "idle"
    /\ held[w] # None
    /\ LET receipt == NewReceipt(held[w], status, K)
       IN  /\ receipt \notin receipts
           /\ draft' = [draft EXCEPT ![w] = Advanced(held[w], receipt, next)]
    /\ pc' = [pc EXCEPT ![w] = "receipt"]
    /\ UNCHANGED <<jobFile, receipts, facts, clock, held>>

\* A store that goes on when the receipt was not written.
CompleteUnrecorded(w) ==
    /\ pc[w] = "receipt"
    /\ pc' = [pc EXCEPT ![w] = "state"]
    /\ UNCHANGED <<jobFile, receipts, facts, clock, held, draft>>

\* complete_step: the receipt is durable, then the new JobState meets the
\* job-state schema, which refuses a long step name by raising.
CompleteReceipt(w) ==
    /\ pc[w] = "receipt"
    /\ Cardinality(receipts) < MaxReceipts
    /\ receipts' = receipts \cup {draft[w].last}
    /\ \/ /\ draft[w].step \in Steps
          /\ pc' = [pc EXCEPT ![w] = "state"]
          /\ UNCHANGED <<held, draft>>
       \/ /\ draft[w].step \notin Steps
          /\ Return(w, held[w])
    /\ UNCHANGED <<jobFile, facts, clock>>

CompleteState(w) ==
    /\ pc[w] = "state"
    /\ WriteJob(w, draft[w])
    /\ UNCHANGED <<receipts, facts, clock>>

Retried(job) == [job EXCEPT !.status = "pending", !.attempt = @ + 1]

\* retry: whatever the status of the caller's JobState.
Retry(w) ==
    /\ pc[w] = "idle"
    /\ held[w] # None
    /\ held[w].attempt < MaxAttempt
    /\ WriteJob(w, Retried(held[w]))
    /\ UNCHANGED <<receipts, facts, clock>>

\* A write fails (disk full, permission): the temporary file is removed, the
\* OSError reaches the caller, who keeps the JobState it passed.
WriteFails(w) ==
    /\ pc[w] # "idle"
    /\ Return(w, held[w])
    /\ UNCHANGED <<jobFile, receipts, facts, clock>>

\* The process dies, at any point, and its successor starts with no JobState.
Crash(w) ==
    /\ pc[w] # "idle" \/ held[w] # None
    /\ Return(w, None)
    /\ UNCHANGED <<jobFile, receipts, facts, clock>>

-----------------------------------------------------------------------------
(* The world.                                                              *)

Tick ==
    /\ clock < MaxClock
    /\ clock' = clock + 1
    /\ UNCHANGED <<jobFile, receipts, facts, worker>>

\* Someone changes a prerequisite (a policy, a registry) between two calls.
Drift(k) ==
    /\ facts[k] < MaxVersion
    /\ facts' = [facts EXCEPT ![k] = @ + 1]
    /\ UNCHANGED <<jobFile, receipts, clock, worker>>

Call(w) ==
    \/ \E input \in Inputs, step \in Steps : InitializeCheck(w, input, step)
    \/ Load(w)
    \/ \E input \in Inputs, K \in SUBSET Keys : Resume(w, input, K)
    \/ \E status \in Outcomes, K \in SUBSET Keys,
          next \in Steps \cup {LongStep, None} : CompleteCheck(w, status, K, next)
    \/ Retry(w)

Continue(w) == InitializeWrite(w) \/ CompleteReceipt(w) \/ CompleteState(w)

Next ==
    \/ \E w \in Workers : Call(w) \/ Continue(w) \/ WriteFails(w) \/ Crash(w)
    \/ Tick
    \/ \E k \in Keys : Drift(k)

Spec == Init /\ [][Next]_vars

-----------------------------------------------------------------------------
(* Properties.                                                             *)

TypeOK ==
    /\ jobFile \in Jobs \cup {None}
    /\ receipts \subseteq Receipts
    /\ facts \in [Keys -> 0..MaxVersion]
    /\ clock \in 0..MaxClock
    /\ pc \in [Workers -> {"idle", "initialize", "receipt", "state"}]
    /\ held \in [Workers -> Jobs \cup {None}]
    /\ draft \in [Workers -> Drafts \cup {None}]

\* A job explains itself: its last receipt is of the same inputs, and a
\* status other than pending is the outcome of that very attempt of that
\* very step.
Explained(job) ==
    /\ job.last # None => job.last.input = job.input
    /\ job.status # "pending" =>
         /\ job.last # None
         /\ job.last.step = job.step
         /\ job.last.attempt = job.attempt
         /\ job.last.status = job.status

\* The last receipt is on disk.
Recorded(job) == job.last # None => job.last \in receipts

\* However many workers there are, and wherever they or their writes fail,
\* job-state.json never claims an outcome that no durable receipt shows: the
\* receipt is written before the state that refers to it
\* (state_machine.py:81-84).
OutcomeHasReceipt == jobFile # None => Explained(jobFile) /\ Recorded(jobFile)

\* With one writer, the JobState in its hands is what the file holds, also
\* after a failed write or a refused next step: no operation loses another.
HolderIsCurrent == \A w \in Workers : held[w] # None => held[w] = jobFile

\* With one writer, the store is the atomic job ledger: a crash between the
\* two writes of complete_step leaves the job where it was, and no operation
\* acts on anything but the job's current value.
Ledger == INSTANCE JobLedger WITH job <- jobFile
LedgerSpec == Ledger!Spec

\* A worker writes only over the state it holds: a write based on a state
\* that somebody has since replaced does not happen.
NoStaleWrite ==
    [][\A w \in Workers : held[w] # None /\ held'[w] # held[w] /\ jobFile' # jobFile
            => held[w] = jobFile]_vars

\* An attempt of a step is completed by one receipt.
OneReceiptPerAttempt ==
    \A r, s \in receipts : r.step = s.step /\ r.attempt = s.attempt => r = s

=============================================================================
