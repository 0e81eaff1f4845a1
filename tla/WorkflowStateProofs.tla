------------------------ MODULE WorkflowStateProofs ------------------------
(***************************************************************************)
(* Proofs about WorkflowState, for any workers, inputs, steps and bounds.  *)
(***************************************************************************)
EXTENDS WorkflowState, TLAPS

USE DEF worker

-----------------------------------------------------------------------------
(* Operators of the model.                                                 *)

\* What a caller observes is a snapshot of the prerequisites it names.
LEMMA ObservedType ==
    ASSUME facts \in [Keys -> 0..MaxVersion], NEW K \in SUBSET Keys
    PROVE  Observed(K) \in Snapshots
<1>1. Observed(K) \in [K -> 0..MaxVersion]
  BY DEF Observed
<1> QED
  BY <1>1 DEF Snapshots

LEMMA NewReceiptType ==
    ASSUME TypeOK, NEW job \in Jobs, NEW status \in Outcomes, NEW K \in SUBSET Keys
    PROVE  NewReceipt(job, status, K) \in Receipts
<1>1. Observed(K) \in Snapshots
  BY ObservedType DEF TypeOK
<1> QED
  BY <1>1 DEF NewReceipt, Receipts, Jobs, TypeOK

\* complete_step builds a JobState that is well typed but for its step, and
\* that the receipt explains.
LEMMA AdvancedType ==
    ASSUME NEW job \in Jobs, NEW receipt \in Receipts,
           NEW next \in Steps \cup {LongStep, None}
    PROVE  /\ Advanced(job, receipt, next) \in Drafts
           /\ Advanced(job, receipt, next).last = receipt
<1>1. CASE next = None
  <2>1. Advanced(job, receipt, next) = [job EXCEPT !.status = receipt.status, !.last = receipt]
    BY <1>1 DEF Advanced
  <2> QED
    BY <2>1 DEF Jobs, Drafts, Receipts
<1>2. CASE next # None
  <2>1. Advanced(job, receipt, next)
          = [job EXCEPT !.status = "pending", !.step = next, !.attempt = 1, !.last = receipt]
    BY <1>2 DEF Advanced
  <2>2. 1 \in 1..MaxAttempt
    BY BoundsAssumption
  <2> QED
    BY <1>2, <2>1, <2>2 DEF Jobs, Drafts, Receipts
<1> QED
  BY <1>1, <1>2

LEMMA AdvancedExplained ==
    ASSUME NEW job \in Jobs, NEW receipt \in Receipts,
           NEW next \in Steps \cup {LongStep, None},
           receipt.step = job.step, receipt.attempt = job.attempt,
           receipt.input = job.input
    PROVE  Explained(Advanced(job, receipt, next))
BY NamesAssumption DEF Advanced, Jobs, Receipts, Explained

\* A draft whose step the schema accepts is a JobState.
LEMMA DraftIsJob ==
    ASSUME NEW job \in Drafts, job.step \in Steps
    PROVE  job \in Jobs
BY DEF Drafts, Jobs

LEMMA JobIsDraft == Jobs \subseteq Drafts
BY DEF Drafts, Jobs

-----------------------------------------------------------------------------
(* The inductive invariant.                                                *)

\* A JobState about to be written, or in a worker's hands, explains itself as
\* the one in the file does.
WorkerInv(w) ==
    /\ held[w] # None => Explained(held[w]) /\ Recorded(held[w])
    /\ pc[w] \in {"initialize", "state"} =>
         draft[w] \in Jobs /\ Explained(draft[w]) /\ Recorded(draft[w])
    /\ pc[w] = "receipt" =>
         /\ draft[w] \in Drafts /\ Explained(draft[w])
         /\ draft[w].last \in Receipts
         /\ held[w] # None

IInv ==
    /\ TypeOK
    /\ OutcomeHasReceipt
    /\ \A w \in Workers : WorkerInv(w)

\* Receipts are never removed, so what is recorded stays recorded.
LEMMA RecordedStable ==
    ASSUME receipts \subseteq receipts', NEW job, Recorded(job)
    PROVE  job.last # None => job.last \in receipts'
BY DEF Recorded

\* A worker that does not move keeps its part of the invariant.
LEMMA IdleWorkerKeeps ==
    ASSUME NEW v \in Workers, WorkerInv(v), receipts \subseteq receipts',
           held'[v] = held[v], pc'[v] = pc[v], draft'[v] = draft[v]
    PROVE  WorkerInv(v)'
BY DEF WorkerInv, Recorded, Explained

LEMMA FileKeeps ==
    ASSUME OutcomeHasReceipt, receipts \subseteq receipts', jobFile' = jobFile
    PROVE  OutcomeHasReceipt'
BY DEF OutcomeHasReceipt, Recorded, Explained

\* Return leaves its worker idle with the given JobState.
LEMMA ReturnEffect ==
    ASSUME TypeOK, NEW w \in Workers, NEW job \in Jobs \cup {None}, Return(w, job)
    PROVE  /\ pc' \in [Workers -> {"idle", "initialize", "receipt", "state"}]
           /\ held' \in [Workers -> Jobs \cup {None}]
           /\ draft' \in [Workers -> Drafts \cup {None}]
           /\ pc'[w] = "idle" /\ held'[w] = job /\ draft'[w] = None
           /\ \A v \in Workers \ {w} :
                held'[v] = held[v] /\ pc'[v] = pc[v] /\ draft'[v] = draft[v]
BY DEF Return, TypeOK

\* An operation that returns a JobState which explains itself, or none, and
\* takes no receipt away keeps the invariant on workers.
LEMMA ReturnKeeps ==
    ASSUME TypeOK, \A v \in Workers : WorkerInv(v),
           NEW w \in Workers, NEW job \in Jobs \cup {None}, Return(w, job),
           job # None => Explained(job) /\ Recorded(job)', receipts \subseteq receipts'
    PROVE  \A v \in Workers : WorkerInv(v)'
<1>1. WorkerInv(w)'
  BY ReturnEffect DEF WorkerInv, Explained, Recorded
<1>2. ASSUME NEW v \in Workers \ {w} PROVE WorkerInv(v)'
  BY ReturnEffect, IdleWorkerKeeps
<1> QED
  BY <1>1, <1>2

THEOREM InitIInv == Init => IInv
BY BoundsAssumption, NamesAssumption
   DEF Init, IInv, TypeOK, OutcomeHasReceipt, WorkerInv, Jobs, Drafts

\* Each operation keeps the invariant.
LEMMA InitializeCheckIInv ==
    ASSUME IInv, NEW w \in Workers, NEW input \in Inputs, NEW step \in Steps,
           InitializeCheck(w, input, step)
    PROVE  IInv'
<1> DEFINE fresh == [status |-> "pending", step |-> step, attempt |-> 1,
                     input |-> input, last |-> None]
<1>1. fresh \in Jobs /\ fresh \in Drafts /\ Explained(fresh) /\ Recorded(fresh)'
  BY BoundsAssumption DEF Jobs, Drafts, Explained, Recorded
<1>2. /\ TypeOK' /\ OutcomeHasReceipt'
      /\ pc'[w] = "initialize" /\ draft'[w] = fresh /\ held'[w] = held[w]
  BY <1>1, FileKeeps DEF IInv, InitializeCheck, TypeOK
<1>3. WorkerInv(w)'
  BY <1>1, <1>2 DEF IInv, WorkerInv, InitializeCheck, Explained, Recorded
<1>4. ASSUME NEW v \in Workers \ {w} PROVE WorkerInv(v)'
  BY IdleWorkerKeeps DEF IInv, InitializeCheck, TypeOK
<1> QED
  BY <1>2, <1>3, <1>4 DEF IInv

LEMMA WriteJobIInv ==
    ASSUME IInv, NEW w \in Workers, NEW job \in Jobs,
           Explained(job), Recorded(job), WriteJob(w, job),
           UNCHANGED <<receipts, facts, clock>>
    PROVE  IInv'
<1>1. Recorded(job)'
  BY DEF Recorded
<1>2. Return(w, job) /\ jobFile' = job
  BY DEF WriteJob
<1>3. \A v \in Workers : WorkerInv(v)'
  BY <1>1, <1>2, ReturnKeeps DEF IInv
<1>4. TypeOK'
  BY <1>2, ReturnEffect DEF IInv, TypeOK
<1>5. OutcomeHasReceipt'
  BY <1>1, <1>2 DEF OutcomeHasReceipt, Explained, Recorded
<1> QED
  BY <1>3, <1>4, <1>5 DEF IInv

LEMMA LoadIInv ==
    ASSUME IInv, NEW w \in Workers, Load(w) \/ \E input \in Inputs, K \in SUBSET Keys : Resume(w, input, K)
    PROVE  IInv'
<1>1. /\ jobFile # None
      /\ held' = [held EXCEPT ![w] = jobFile]
      /\ UNCHANGED <<jobFile, receipts, facts, clock, pc, draft>>
  BY DEF Load, Resume, Resumable
<1>2. TypeOK' /\ OutcomeHasReceipt'
  BY <1>1, FileKeeps DEF IInv, TypeOK
<1>3. WorkerInv(w)'
  BY <1>1 DEF IInv, TypeOK, OutcomeHasReceipt, WorkerInv, Explained, Recorded
<1>4. ASSUME NEW v \in Workers \ {w} PROVE WorkerInv(v)'
  BY <1>1, IdleWorkerKeeps DEF IInv, TypeOK
<1> QED
  BY <1>2, <1>3, <1>4 DEF IInv

LEMMA CompleteCheckIInv ==
    ASSUME IInv, NEW w \in Workers, NEW status \in Outcomes, NEW K \in SUBSET Keys,
           NEW next \in Steps \cup {LongStep, None}, CompleteCheck(w, status, K, next)
    PROVE  IInv'
<1> DEFINE receipt == NewReceipt(held[w], status, K)
           new == Advanced(held[w], receipt, next)
<1>1. held[w] \in Jobs
  BY DEF IInv, TypeOK, CompleteCheck
<1>2. receipt \in Receipts
  BY <1>1, NewReceiptType DEF IInv
<1>3. new \in Drafts /\ new.last = receipt
  BY <1>1, <1>2, AdvancedType
<1>4. Explained(new)
  BY <1>1, <1>2, AdvancedExplained DEF NewReceipt
<1> HIDE DEF receipt, new
<1>5. /\ pc' = [pc EXCEPT ![w] = "receipt"] /\ draft' = [draft EXCEPT ![w] = new]
      /\ UNCHANGED <<jobFile, receipts, facts, clock, held>> /\ held[w] # None
  BY DEF CompleteCheck, receipt, new
<1>6. TypeOK' /\ OutcomeHasReceipt'
  BY <1>3, <1>5, FileKeeps DEF IInv, TypeOK
<1>7. WorkerInv(w)'
  BY <1>2, <1>3, <1>4, <1>5 DEF IInv, TypeOK, WorkerInv, Explained, Recorded
<1>8. ASSUME NEW v \in Workers \ {w} PROVE WorkerInv(v)'
  BY <1>5, IdleWorkerKeeps DEF IInv, TypeOK
<1> QED
  BY <1>6, <1>7, <1>8 DEF IInv

LEMMA CompleteReceiptIInv ==
    ASSUME IInv, NEW w \in Workers, CompleteReceipt(w)
    PROVE  IInv'
<1>1. /\ pc[w] = "receipt" /\ receipts' = receipts \cup {draft[w].last}
      /\ UNCHANGED <<jobFile, facts, clock>>
  BY DEF CompleteReceipt
<1>2. draft[w] \in Drafts /\ Explained(draft[w]) /\ draft[w].last \in Receipts
  BY <1>1 DEF IInv, WorkerInv
<1>3. OutcomeHasReceipt' /\ receipts' \subseteq Receipts
  BY <1>1, <1>2, FileKeeps DEF IInv, TypeOK
<1>4. CASE draft[w].step \in Steps
  <2>1. pc' = [pc EXCEPT ![w] = "state"] /\ UNCHANGED <<held, draft>>
    BY <1>4 DEF CompleteReceipt
  <2>2. TypeOK'
    BY <1>1, <1>3, <2>1 DEF IInv, TypeOK
  <2>3. draft[w] \in Jobs
    BY <1>2, <1>4, DraftIsJob
  <2>4. WorkerInv(w)'
    BY <1>1, <1>2, <2>1, <2>3 DEF IInv, TypeOK, WorkerInv, Explained, Recorded
  <2>5. ASSUME NEW v \in Workers \ {w} PROVE WorkerInv(v)'
    BY <1>1, <2>1, IdleWorkerKeeps DEF IInv, TypeOK
  <2> QED
    BY <1>3, <2>2, <2>4, <2>5 DEF IInv
<1>5. CASE draft[w].step \notin Steps
  <2>2. PICK job \in Jobs \cup {None} : job = held[w]
    BY DEF IInv, TypeOK
  <2>1. Return(w, job)
    BY <1>5, <2>2 DEF CompleteReceipt
  <2>3. TypeOK'
    BY <1>1, <1>3, <2>1, <2>2, ReturnEffect DEF IInv, TypeOK
  <2>4. job # None => Explained(job) /\ Recorded(job)'
    BY <1>1, <2>2 DEF IInv, WorkerInv, Recorded
  <2>5. \A v \in Workers : WorkerInv(v)'
    BY <1>1, <2>1, <2>2, <2>4, ReturnKeeps DEF IInv
  <2> QED
    BY <1>3, <2>3, <2>5 DEF IInv
<1> QED
  BY <1>4, <1>5

LEMMA RetryIInv ==
    ASSUME IInv, NEW w \in Workers, Retry(w)
    PROVE  IInv'
<1> DEFINE job == Retried(held[w])
<1>1. held[w] \in Jobs /\ held[w].attempt < MaxAttempt
  BY DEF IInv, TypeOK, Retry
<1>2. /\ job \in Jobs /\ job.status = "pending"
      /\ job.last = held[w].last /\ job.input = held[w].input
  <2>1. held[w].attempt + 1 \in 1..MaxAttempt
    BY <1>1, BoundsAssumption DEF Jobs
  <2> QED
    BY <1>1, <2>1 DEF Retried, Jobs
<1>3. Explained(job) /\ Recorded(job)
  BY <1>1, <1>2, NamesAssumption, JobIsDraft DEF IInv, WorkerInv, Explained, Recorded
<1>4. WriteJob(w, job) /\ UNCHANGED <<receipts, facts, clock>>
  BY DEF Retry
<1> QED
  BY <1>2, <1>3, <1>4, WriteJobIInv

LEMMA ReturnIInv ==
    ASSUME IInv, NEW w \in Workers, WriteFails(w) \/ Crash(w)
    PROVE  IInv'
<1>1. PICK job \in {held[w], None} : Return(w, job)
  BY DEF WriteFails, Crash
<1>2. UNCHANGED <<jobFile, receipts, facts, clock>>
  BY DEF WriteFails, Crash
<1>3. job \in Jobs \cup {None} /\ (job # None => Explained(job) /\ Recorded(job)')
  BY <1>2 DEF IInv, TypeOK, WorkerInv, Recorded
<1>4. TypeOK' /\ OutcomeHasReceipt'
  BY <1>1, <1>2, <1>3, ReturnEffect, FileKeeps DEF IInv, TypeOK
<1>5. \A v \in Workers : WorkerInv(v)'
  BY <1>1, <1>2, <1>3, ReturnKeeps DEF IInv
<1> QED
  BY <1>4, <1>5 DEF IInv

LEMMA WorldIInv ==
    ASSUME IInv, Tick \/ (\E k \in Keys : Drift(k)) \/ UNCHANGED vars
    PROVE  IInv'
<1>1. UNCHANGED <<jobFile, receipts, pc, held, draft>>
  BY DEF Tick, Drift, vars
<1>2. facts' \in [Keys -> 0..MaxVersion] /\ clock' \in 0..MaxClock
  BY BoundsAssumption DEF IInv, TypeOK, Tick, Drift, vars
<1>3. TypeOK' /\ OutcomeHasReceipt'
  BY <1>1, <1>2, FileKeeps DEF IInv, TypeOK
<1> QED
  BY <1>1, <1>3, IdleWorkerKeeps DEF IInv

THEOREM StepIInv == IInv /\ [Next]_vars => IInv'
<1> SUFFICES ASSUME IInv, [Next]_vars PROVE IInv'
  OBVIOUS
<1>1. ASSUME NEW w \in Workers, Call(w) PROVE IInv'
  BY <1>1, InitializeCheckIInv, LoadIInv, CompleteCheckIInv, RetryIInv DEF Call
<1>2. ASSUME NEW w \in Workers, Continue(w) PROVE IInv'
  <2>1. CASE InitializeWrite(w)
    <3>1. draft[w] \in Jobs /\ Explained(draft[w]) /\ Recorded(draft[w])
      BY <2>1 DEF IInv, WorkerInv, InitializeWrite
    <3> QED
      BY <2>1, <3>1, WriteJobIInv DEF InitializeWrite
  <2>2. CASE CompleteState(w)
    <3>1. draft[w] \in Jobs /\ Explained(draft[w]) /\ Recorded(draft[w])
      BY <2>2 DEF IInv, WorkerInv, CompleteState
    <3> QED
      BY <2>2, <3>1, WriteJobIInv DEF CompleteState
  <2> QED
    BY <1>2, <2>1, <2>2, CompleteReceiptIInv DEF Continue
<1> QED
  BY <1>1, <1>2, ReturnIInv, WorldIInv DEF Next

\* Every reachable state is well typed, and the outcome that job-state.json
\* shows is that of a durable receipt of the same step, attempt and inputs,
\* for any number of workers and whatever crashes or fails to be written.
THEOREM WorkflowSafe == Spec => [](TypeOK /\ OutcomeHasReceipt)
<1>1. IInv => TypeOK /\ OutcomeHasReceipt
  BY DEF IInv
<1> QED
  BY <1>1, InitIInv, StepIInv, PTL DEF Spec

-----------------------------------------------------------------------------
(* With a single writer, the store implements the atomic job ledger.  The  *)
(* code does not enforce that there is one: it is the hypothesis of the    *)
(* theorem, and the runs with two workers show what is lost without it.    *)

SingleWriter == \A v, w \in Workers : v = w

\* new is what complete_step makes of job, with a receipt of its attempt.
Follows(job, new) ==
    /\ job # None
    /\ \E receipt \in Receipts, next \in Steps \cup {LongStep, None} :
         /\ receipt.step = job.step
         /\ receipt.attempt = job.attempt
         /\ receipt.input = job.input
         /\ new = Advanced(job, receipt, next)

\* What the writer is doing is about the job in the file: the JobState in its
\* hands is the file's, and the one it is to write follows from it.
WriterInv(w) ==
    /\ held[w] # None => held[w] = jobFile
    /\ pc[w] = "initialize" =>
         /\ jobFile = None
         /\ \E input \in Inputs, step \in Steps :
              draft[w] = [status |-> "pending", step |-> step, attempt |-> 1,
                          input |-> input, last |-> None]
    /\ pc[w] \in {"receipt", "state"} => Follows(jobFile, draft[w])

SoleInv == \A w \in Workers : WriterInv(w)

\* After Return the writer is idle, with the JobState of the file or none.
LEMMA ReturnWriterInv ==
    ASSUME SingleWriter, TypeOK, NEW w \in Workers, NEW job \in Jobs \cup {None},
           Return(w, job), job # None => job = jobFile'
    PROVE  SoleInv'
<1>1. pc'[w] = "idle" /\ held'[w] = job
  BY ReturnEffect
<1> QED
  BY <1>1 DEF SoleInv, WriterInv, SingleWriter

LEMMA StepSoleInv ==
    ASSUME SingleWriter, IInv, SoleInv, [Next]_vars
    PROVE  SoleInv'
<1>1. ASSUME NEW w \in Workers, NEW input \in Inputs, NEW step \in Steps,
             InitializeCheck(w, input, step)
      PROVE  SoleInv'
  <2>1. /\ jobFile' = None /\ held'[w] = held[w] /\ pc'[w] = "initialize"
        /\ draft'[w] = [status |-> "pending", step |-> step, attempt |-> 1,
                        input |-> input, last |-> None]
        /\ jobFile' = jobFile
    BY <1>1 DEF InitializeCheck, MayInitialize, IInv, TypeOK
  <2> QED
    BY <2>1 DEF SoleInv, WriterInv, SingleWriter
<1>2. ASSUME NEW w \in Workers,
             Load(w) \/ \E input \in Inputs, K \in SUBSET Keys : Resume(w, input, K)
      PROVE  SoleInv'
  <2>1. held'[w] = jobFile /\ pc'[w] = "idle" /\ jobFile' = jobFile
    BY <1>2 DEF Load, Resume, IInv, TypeOK
  <2> QED
    BY <2>1 DEF SoleInv, WriterInv, SingleWriter
<1>3. ASSUME NEW w \in Workers, NEW status \in Outcomes, NEW K \in SUBSET Keys,
             NEW next \in Steps \cup {LongStep, None}, CompleteCheck(w, status, K, next)
      PROVE  SoleInv'
  <2> DEFINE receipt == NewReceipt(held[w], status, K)
  <2>1. held[w] \in Jobs /\ held[w] = jobFile /\ jobFile # None
    BY <1>3 DEF CompleteCheck, IInv, TypeOK, SoleInv, WriterInv
  <2>2. receipt \in Receipts
    BY <2>1, NewReceiptType DEF IInv
  <2>3. /\ receipt.step = jobFile.step /\ receipt.attempt = jobFile.attempt
        /\ receipt.input = jobFile.input
    BY <2>1 DEF NewReceipt
  <2> HIDE DEF receipt
  <2>4. /\ pc'[w] = "receipt" /\ held'[w] = held[w] /\ jobFile' = jobFile
        /\ draft'[w] = Advanced(jobFile, receipt, next)
    BY <1>3, <2>1 DEF CompleteCheck, IInv, TypeOK, receipt
  <2>5. Follows(jobFile, Advanced(jobFile, receipt, next))
    BY <2>1, <2>2, <2>3 DEF Follows
  <2> QED
    BY <2>1, <2>4, <2>5 DEF SoleInv, WriterInv, SingleWriter
<1>4. ASSUME NEW w \in Workers, Retry(w) PROVE SoleInv'
  <2>1. held[w] \in Jobs /\ held[w].attempt < MaxAttempt
    BY <1>4 DEF Retry, IInv, TypeOK
  <2>2. held[w].attempt + 1 \in 1..MaxAttempt
    BY <2>1, BoundsAssumption DEF Jobs
  <2>3. PICK job \in Jobs : job = Retried(held[w])
    BY <2>1, <2>2 DEF Retried, Jobs
  <2>4. Return(w, job) /\ job = jobFile'
    BY <1>4, <2>3 DEF Retry, WriteJob
  <2> QED
    BY <2>4, ReturnWriterInv DEF IInv
<1>5. ASSUME NEW w \in Workers, InitializeWrite(w) \/ CompleteState(w)
      PROVE  SoleInv'
  <2>1. PICK job \in Jobs : job = draft[w]
    BY <1>5 DEF InitializeWrite, CompleteState, IInv, WorkerInv
  <2>2. Return(w, job) /\ job = jobFile'
    BY <1>5, <2>1 DEF InitializeWrite, CompleteState, WriteJob
  <2> QED
    BY <2>2, ReturnWriterInv DEF IInv
<1>6. ASSUME NEW w \in Workers, CompleteReceipt(w) PROVE SoleInv'
  <2>1. pc[w] = "receipt" /\ jobFile' = jobFile
    BY <1>6 DEF CompleteReceipt
  <2>2. CASE draft[w].step \in Steps
    <3>1. pc'[w] = "state" /\ held'[w] = held[w] /\ draft'[w] = draft[w]
      BY <1>6, <2>2 DEF CompleteReceipt, IInv, TypeOK
    <3> QED
      BY <2>1, <3>1 DEF SoleInv, WriterInv, SingleWriter
  <2>3. CASE draft[w].step \notin Steps
    <3>1. PICK job \in Jobs \cup {None} : job = held[w]
      BY DEF IInv, TypeOK
    <3>2. Return(w, job) /\ (job # None => job = jobFile')
      BY <1>6, <2>1, <2>3, <3>1 DEF CompleteReceipt, SoleInv, WriterInv
    <3> QED
      BY <3>2, ReturnWriterInv DEF IInv
  <2> QED
    BY <2>2, <2>3
<1>7. ASSUME NEW w \in Workers, WriteFails(w) \/ Crash(w) PROVE SoleInv'
  <2>1. PICK job \in {held[w], None} : Return(w, job) /\ jobFile' = jobFile
    BY <1>7 DEF WriteFails, Crash
  <2>2. job \in Jobs \cup {None} /\ (job # None => job = jobFile')
    BY <2>1 DEF IInv, TypeOK, SoleInv, WriterInv
  <2> QED
    BY <2>1, <2>2, ReturnWriterInv DEF IInv
<1>8. CASE Tick \/ (\E k \in Keys : Drift(k)) \/ UNCHANGED vars
  <2>1. UNCHANGED <<jobFile, pc, held, draft>>
    BY <1>8 DEF Tick, Drift, vars
  <2> QED
    BY <2>1 DEF SoleInv, WriterInv
<1> QED
  BY <1>1, <1>2, <1>3, <1>4, <1>5, <1>6, <1>7, <1>8 DEF Next, Call, Continue

\* The only writes of job-state.json are the operations of the ledger.
LEMMA StepRefines ==
    ASSUME SingleWriter, IInv, SoleInv, [Next]_vars
    PROVE  [Ledger!Next]_jobFile
<1>1. ASSUME NEW w \in Workers, InitializeWrite(w)
      PROVE  Ledger!Next
  BY <1>1 DEF InitializeWrite, WriteJob, SoleInv, WriterInv, Ledger!Next, Ledger!Create
<1>2. ASSUME NEW w \in Workers, CompleteState(w)
      PROVE  Ledger!Next
  <2>1. pc[w] = "state" /\ jobFile' = draft[w] /\ draft[w] \in Jobs
    BY <1>2 DEF CompleteState, WriteJob, IInv, WorkerInv
  <2>2. PICK receipt \in Receipts, next \in Steps \cup {LongStep, None} :
           /\ receipt.step = jobFile.step
           /\ receipt.attempt = jobFile.attempt
           /\ receipt.input = jobFile.input
           /\ draft[w] = Advanced(jobFile, receipt, next)
    BY <2>1 DEF SoleInv, WriterInv, Follows
  <2>3. jobFile # None /\ jobFile \in Jobs
    BY <2>1 DEF SoleInv, WriterInv, IInv, TypeOK, Follows
  <2>4. next \in Steps \cup {None}
    <3> SUFFICES ASSUME next = LongStep PROVE FALSE
      OBVIOUS
    <3>1. draft[w] = [jobFile EXCEPT !.status = "pending", !.step = next,
                                     !.attempt = 1, !.last = receipt]
      BY <2>2, NamesAssumption DEF Advanced
    <3>2. draft[w].step = LongStep
      BY <2>3, <3>1 DEF Jobs
    <3> QED
      BY <2>1, <3>2, NamesAssumption DEF Jobs
  <2>5. Ledger!Complete(receipt, next)
    BY <2>1, <2>2, <2>3 DEF Ledger!Complete, Advanced
  <2> QED
    BY <2>4, <2>5 DEF Ledger!Next
<1>3. ASSUME NEW w \in Workers, Retry(w)
      PROVE  Ledger!Next
  <2>1. held[w] = jobFile /\ jobFile # None /\ jobFile' = Retried(jobFile)
    BY <1>3 DEF Retry, WriteJob, SoleInv, WriterInv
  <2> QED
    BY <2>1 DEF Retried, Ledger!Next, Ledger!Retry
<1>4. ASSUME NEW w \in Workers,
             \/ \E input \in Inputs, step \in Steps : InitializeCheck(w, input, step)
             \/ Load(w) \/ \E input \in Inputs, K \in SUBSET Keys : Resume(w, input, K)
             \/ \E status \in Outcomes, K \in SUBSET Keys,
                   next \in Steps \cup {LongStep, None} : CompleteCheck(w, status, K, next)
             \/ CompleteReceipt(w) \/ WriteFails(w) \/ Crash(w)
      PROVE  UNCHANGED jobFile
  BY <1>4 DEF InitializeCheck, Load, Resume, CompleteCheck, CompleteReceipt, WriteFails, Crash
<1>5. CASE Tick \/ (\E k \in Keys : Drift(k)) \/ UNCHANGED vars
  BY <1>5 DEF Tick, Drift, vars
<1> QED
  BY <1>1, <1>2, <1>3, <1>4, <1>5 DEF Next, Call, Continue

\* With one writer, whatever crashes or fails to be written, job-state.json
\* behaves as a record on which create, complete and retry are atomic.
THEOREM SingleWriterRefinement ==
    ASSUME SingleWriter
    PROVE  Spec => LedgerSpec
<1>1. Init => Ledger!Init /\ SoleInv
  BY DEF Init, Ledger!Init, SoleInv, WriterInv
<1>2. IInv /\ SoleInv /\ [Next]_vars => SoleInv' /\ [Ledger!Next]_jobFile
  BY StepSoleInv, StepRefines
<1> QED
  BY <1>1, <1>2, InitIInv, StepIInv, PTL DEF Spec, LedgerSpec, Ledger!Spec

\* With one writer, the JobState in its hands is always what the file holds.
THEOREM SingleWriterHoldsCurrent ==
    ASSUME SingleWriter
    PROVE  Spec => []HolderIsCurrent
<1>1. Init => SoleInv
  BY DEF Init, SoleInv, WriterInv
<1>2. IInv /\ SoleInv /\ [Next]_vars => SoleInv'
  BY StepSoleInv
<1>3. SoleInv => HolderIsCurrent
  BY DEF SoleInv, WriterInv, HolderIsCurrent
<1> QED
  BY <1>1, <1>2, <1>3, InitIInv, StepIInv, PTL DEF Spec
=============================================================================
