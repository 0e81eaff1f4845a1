------------------------ MODULE ArtifactStoreProofs -------------------------
(***************************************************************************)
(* Proofs about ArtifactStore: what a reader can find, for any number of   *)
(* processes, artifacts, changes from outside and power losses; and, until *)
(* one of the last two happens, that it implements ImmutableMap.           *)
(*                                                                         *)
(* Why a power loss leaves no torn file: data is synced before the file    *)
(* gets its name, so no file with a name has volatile data (Durable).      *)
(***************************************************************************)
EXTENDS ArtifactStore, TLAPS

Durable ==
    /\ volatile = {}
    /\ \A p \in Processes : At(p, "replace") => temp[p] = "synced"

Untouched == changes = 0 => \A a \in Artifacts : files[a] \in {Absent, Whole}

\* Foreign bytes are of a change.
Blamed == \A a \in Artifacts : files[a] \in {Absent, Whole} \cup (IF a \in changed THEN {Rewritten, Altered} ELSE {})

\* What a put has found, or has named, is there until it ends, since a power
\* loss ends it; and what was handed out is there unless it was lost.
Present ==
    /\ \A p \in Processes : step[p] \in {"compare", "clean"} => files[target[p]] # Absent
    /\ \A a \in handedOut : files[a] # Absent \/ a \in erased

\* From the creation of a temporary file to the end of its put it is followed.
Followed ==
    \A p \in Processes :
        IF step[p] \in {"idle", "look", "compare", "create"}
        THEN temp[p] # None <=> p \in stuck
        ELSE p \notin stuck /\ (At(p, "clean") <=> temp[p] = None)

IInv ==
    /\ TypeOK
    /\ Durable
    /\ Untouched
    /\ Blamed
    /\ Present
    /\ Followed
    /\ RefusalsAreDeserved

-----------------------------------------------------------------------------
LEMMA InitIInv == Init => IInv
BY BoundAssumption DEF Init, IInv, TypeOK, Durable, Untouched,
   Blamed, Present, Followed, RefusalsAreDeserved, At, Steps, Contents,
   Absent, Whole, Torn, Rewritten, Altered

LEMMA TypeStep == TypeOK /\ [Next]_vars => TypeOK'
<1> SUFFICES ASSUME TypeOK, [Next]_vars PROVE TypeOK'
  OBVIOUS
<1> USE DEF TypeOK, Steps, Contents, Absent, Whole, Torn, Rewritten, Altered,
            disk, temps, External, History, Goto, Return, At
<1>1. ASSUME NEW p \in Processes, NEW a \in Artifacts, Put(p, a) PROVE TypeOK'
  BY <1>1, NoneAssumption DEF Put
<1>2. ASSUME NEW p \in Processes, Look(p) PROVE TypeOK'
  BY <1>2 DEF Look
<1>3. ASSUME NEW p \in Processes, Compare(p) PROVE TypeOK'
  BY <1>3 DEF Compare
<1>4. ASSUME NEW p \in Processes, Create(p) PROVE TypeOK'
  BY <1>4 DEF Create
<1>5. ASSUME NEW p \in Processes, Write(p) PROVE TypeOK'
  BY <1>5 DEF Write
<1>6. ASSUME NEW p \in Processes, Sync(p) PROVE TypeOK'
  BY <1>6 DEF Sync
<1>7. ASSUME NEW p \in Processes, Replace(p) PROVE TypeOK'
  BY <1>7 DEF Replace
<1>8. ASSUME NEW p \in Processes, Fault(p) PROVE TypeOK'
  BY <1>8 DEF Fault
<1>9. ASSUME NEW p \in Processes, Clean(p) \/ CleanFails(p) PROVE TypeOK'
  BY <1>9 DEF Clean, CleanFails
<1>10. ASSUME NEW p \in Processes, Die(p) PROVE TypeOK'
  BY <1>10 DEF Die
<1>11. ASSUME NEW a \in Artifacts, Get(a) \/ WriteBack(a) PROVE TypeOK'
  BY <1>11 DEF Get, WriteBack
<1>12. ASSUME NEW gone \in SUBSET Artifacts, PowerLoss(gone) PROVE TypeOK'
  BY <1>12, BoundAssumption DEF PowerLoss
<1>13. ASSUME NEW a \in Artifacts, NEW bytes \in {Rewritten, Altered}, Change(a, bytes)
       PROVE  TypeOK'
  BY <1>13, BoundAssumption DEF Change
<1>14. CASE UNCHANGED vars
  BY <1>14 DEF vars
<1> QED
  BY <1>1, <1>2, <1>3, <1>4, <1>5, <1>6, <1>7, <1>8, <1>9, <1>10, <1>11, <1>12, <1>13, <1>14
     DEF Next

LEMMA StepIInv == IInv /\ [Next]_vars => IInv'
<1> SUFFICES ASSUME IInv, [Next]_vars PROVE IInv'
  OBVIOUS
<1>t. TypeOK /\ TypeOK'
  BY TypeStep DEF IInv
<1> USE DEF IInv, TypeOK, Durable, Untouched, Blamed, Present, Followed,
            RefusalsAreDeserved, Steps, Contents, Absent, Whole, Torn, Rewritten, Altered,
            disk, temps, External, History, Goto, Return, At
<1>1. ASSUME NEW p \in Processes, NEW a \in Artifacts, Put(p, a) PROVE IInv'
  BY <1>t, <1>1 DEF Put
<1>2. ASSUME NEW p \in Processes, Look(p) PROVE IInv'
  BY <1>t, <1>2 DEF Look
<1>3. ASSUME NEW p \in Processes, Compare(p) PROVE IInv'
  <2>1. target[p] \in Artifacts /\ files[target[p]] # Absent
    BY <1>3 DEF Compare
  <2>2. files[target[p]] = Whole \/ target[p] \in changed
    BY <2>1
  <2>3. RefusalsAreDeserved'
    BY <1>3, <2>2 DEF Compare
  <2> QED
    BY <1>t, <1>3, <2>3 DEF Compare
<1>4. ASSUME NEW p \in Processes, Create(p) PROVE IInv'
  BY <1>t, <1>4, NoneAssumption DEF Create
<1>5. ASSUME NEW p \in Processes, Write(p) PROVE IInv'
  BY <1>t, <1>5, NoneAssumption DEF Write
<1>6. ASSUME NEW p \in Processes, Sync(p) PROVE IInv'
  BY <1>t, <1>6, NoneAssumption DEF Sync
<1>7. ASSUME NEW p \in Processes, Replace(p) PROVE IInv'
  BY <1>t, <1>7 DEF Replace
<1>8. ASSUME NEW p \in Processes, Fault(p) PROVE IInv'
  BY <1>t, <1>8 DEF Fault
<1>9. ASSUME NEW p \in Processes, Clean(p) PROVE IInv'
  <2>1. Present'
    BY <1>t, <1>9 DEF Clean
  <2>2. Followed'
    BY <1>t, <1>9 DEF Clean
  <2> QED
    BY <1>t, <1>9, <2>1, <2>2 DEF Clean
<1>15. ASSUME NEW p \in Processes, CleanFails(p) PROVE IInv'
  <2>1. temp[p] # None
    BY <1>15 DEF CleanFails
  <2> QED
    BY <1>t, <1>15, <2>1 DEF CleanFails
<1>10. ASSUME NEW p \in Processes, Die(p) PROVE IInv'
  BY <1>t, <1>10 DEF Die
<1>11. ASSUME NEW a \in Artifacts, Get(a) \/ WriteBack(a) PROVE IInv'
  BY <1>t, <1>11 DEF Get, Readable, WriteBack
<1>12. ASSUME NEW gone \in SUBSET Artifacts, PowerLoss(gone) PROVE IInv'
  BY <1>t, <1>12 DEF PowerLoss
<1>13. ASSUME NEW a \in Artifacts, NEW bytes \in {Rewritten, Altered}, Change(a, bytes)
       PROVE  IInv'
  BY <1>t, <1>13 DEF Change
<1>14. CASE UNCHANGED vars
  BY <1>14 DEF vars
<1> QED
  BY <1>1, <1>2, <1>3, <1>4, <1>5, <1>6, <1>7, <1>8, <1>9, <1>10, <1>11, <1>12, <1>13, <1>14,
     <1>15 DEF Next

\* Whole files, refusals only where there was a change or a loss, and no litter
\* but that of two faults in one put: through concurrent puts, crashes, power
\* losses and changes from outside.
THEOREM StoreSafe ==
    Spec => [](TypeOK /\ NoTornArtifact /\ RefusalsAreDeserved /\ TempFilesAreCleaned)
<1>1. IInv => TypeOK /\ NoTornArtifact /\ RefusalsAreDeserved /\ TempFilesAreCleaned
  BY DEF IInv, Blamed, Followed, NoTornArtifact, TempFilesAreCleaned, At,
     Absent, Whole, Torn, Rewritten, Altered
<1> QED
  BY <1>1, InitIInv, StepIInv, PTL DEF Spec

-----------------------------------------------------------------------------
(* Refinement, as long as no file is touched or lost.                      *)

\* A reference is handed out only for a file that is there, and files stay.
Kept ==
    changes = 0 /\ losses = 0 =>
        /\ \A p \in Processes : At(p, "clean") => files[target[p]] = Whole
        /\ \A a \in handedOut : files[a] = Whole

LEMMA InitKept == Init => Kept
BY DEF Init, Kept, At

\* Faults are counted and never uncounted.
LEMMA FaultsCounted ==
    ASSUME TypeOK, [Next]_vars, changes' = 0, losses' = 0
    PROVE  UNCHANGED <<changes, losses>>
<1>1. changes \in Nat /\ losses \in Nat
  BY BoundAssumption DEF TypeOK
<1> QED
  BY <1>1 DEF Next, vars, Put, Look, Compare, Create, Write, Sync, Replace, Fault, Clean,
     CleanFails, Die, Get, WriteBack, PowerLoss, Change, External

\* Every step keeps whole files, and hands out only those.
LEMMA StepKept ==
    ASSUME IInv, Kept, [Next]_vars, changes' = 0, losses' = 0
    PROVE  Kept' /\ [Map!Next]_<<Stored, handedOut>>
<1>t. TypeOK /\ UNCHANGED <<changes, losses>> /\ changes = 0 /\ losses = 0
  BY FaultsCounted DEF IInv
<1>f. \A a \in Artifacts : files[a] \in {Absent, Whole}
  BY <1>t DEF IInv, Untouched
<1> USE DEF TypeOK, Kept, At, Goto, Return, disk, temps, External, History
<1>1. ASSUME UNCHANGED <<files, handedOut>>,
             \A p \in Processes :
               step'[p] = "clean" => step[p] = "clean" /\ target'[p] = target[p]
      PROVE  Kept' /\ [Map!Next]_<<Stored, handedOut>>
  BY <1>t, <1>1 DEF Stored
<1>2. ASSUME NEW p \in Processes,
             \/ \E a \in Artifacts : Put(p, a)
             \/ Look(p) \/ Create(p) \/ Write(p) \/ Sync(p) \/ Fault(p) \/ CleanFails(p) \/ Die(p)
      PROVE  Kept' /\ [Map!Next]_<<Stored, handedOut>>
  BY <1>t, <1>1, <1>2 DEF Put, Look, Create, Write, Sync, Fault, CleanFails, Die
<1>3. ASSUME NEW p \in Processes, Compare(p)
      PROVE  Kept' /\ [Map!Next]_<<Stored, handedOut>>
  <2>1. target[p] \in Artifacts /\ files[target[p]] = Whole
    BY <1>t, <1>f, <1>3 DEF Compare, IInv, Present
  <2>2. handedOut' = handedOut \cup {target[p]} /\ files' = files
    BY <1>3, <2>1 DEF Compare
  <2>3. Map!HandOut(target[p])
    BY <2>1, <2>2 DEF Map!HandOut, Stored
  <2>4. Kept'
    BY <1>t, <1>3, <2>1, <2>2 DEF Compare
  <2> QED
    BY <2>1, <2>3, <2>4 DEF Map!Next
<1>4. ASSUME NEW p \in Processes, Replace(p)
      PROVE  Kept' /\ [Map!Next]_<<Stored, handedOut>>
  <2>1. target[p] \in Artifacts
    BY <1>t, <1>4 DEF Replace
  <2>2. files' = [files EXCEPT ![target[p]] = Whole] /\ handedOut' = handedOut
    BY <1>4 DEF Replace
  <2>3. Kept'
    BY <1>t, <1>4, <2>1, <2>2 DEF Replace
  <2>4. Stored' = Stored \cup {target[p]}
    BY <1>t, <2>1, <2>2 DEF Stored
  <2>5. CASE target[p] \in Stored
    BY <2>2, <2>3, <2>4, <2>5
  <2>6. CASE target[p] \notin Stored
    <3>1. Map!Appear(target[p])
      BY <2>2, <2>4, <2>6 DEF Map!Appear
    <3>2. Map!Next
      BY <2>1, <3>1 DEF Map!Next
    <3> QED
      BY <2>3, <3>2
  <2> QED
    BY <2>5, <2>6
<1>5. ASSUME NEW p \in Processes, Clean(p)
      PROVE  Kept' /\ [Map!Next]_<<Stored, handedOut>>
  <2>1. target[p] \in Artifacts /\ files' = files
    BY <1>t, <1>5 DEF Clean
  <2>2. CASE step[p] = "clean"
    <3>1. files[target[p]] = Whole /\ handedOut' = handedOut \cup {target[p]}
      BY <1>t, <1>5, <2>2 DEF Clean
    <3>2. Map!HandOut(target[p])
      BY <2>1, <3>1 DEF Map!HandOut, Stored
    <3>3. Kept'
      BY <1>t, <1>5, <2>1, <3>1 DEF Clean
    <3> QED
      BY <2>1, <3>2, <3>3 DEF Map!Next
  <2>3. CASE step[p] # "clean"
    BY <1>t, <1>1, <1>5, <2>3 DEF Clean
  <2> QED
    BY <2>2, <2>3
<1>6. ASSUME NEW a \in Artifacts, Get(a) \/ WriteBack(a)
      PROVE  Kept' /\ [Map!Next]_<<Stored, handedOut>>
  BY <1>1, <1>6 DEF Get, WriteBack
<1>7. ASSUME NEW gone \in SUBSET Artifacts, PowerLoss(gone) PROVE FALSE
  BY <1>t, <1>7 DEF PowerLoss
<1>8. ASSUME NEW a \in Artifacts, NEW bytes \in {Rewritten, Altered}, Change(a, bytes)
      PROVE  FALSE
  BY <1>t, <1>8 DEF Change
<1>9. CASE UNCHANGED vars
  BY <1>1, <1>9 DEF vars
<1> QED
  BY <1>2, <1>3, <1>4, <1>5, <1>6, <1>7, <1>8, <1>9 DEF Next

\* Until a file is changed from outside or the power fails, puts by any number
\* of processes, which may crash at any point, are an immutable map.
THEOREM StoreRefinement == Spec => ImplementsMap
<1>1. Init => Map!Init
  BY DEF Init, Map!Init, Stored, Absent, Whole
<1>2. IInv /\ Kept /\ [Next]_vars => Kept'
  <2> SUFFICES ASSUME IInv, Kept, [Next]_vars, changes' = 0, losses' = 0 PROVE Kept'
    BY DEF Kept
  <2> QED
    BY StepKept
<1>3. IInv /\ Kept /\ [Next]_vars =>
        [changes' = 0 /\ losses' = 0 => [Map!Next]_<<Stored, handedOut>>]_vars
  BY StepKept
<1> QED
  BY <1>1, <1>2, <1>3, InitIInv, StepIInv, InitKept, PTL DEF Spec, ImplementsMap
=============================================================================
