--------------------------- MODULE ArtifactStore ----------------------------
(***************************************************************************)
(* ImmutableArtifactStore (repository/immutable_store.py): JSON files,     *)
(* named by the digest of their value, that several processes create with  *)
(* a temporary file, fsync and os.replace, and that are compared with the  *)
(* digest when they are read back.                                         *)
(*                                                                         *)
(* A file is not fsynced by its name: the directory is never synced, so a  *)
(* power loss can undo a replace, and what a file holds is lost with it    *)
(* unless the data was synced before.  Something outside the program may   *)
(* change files.                                                           *)
(***************************************************************************)
EXTENDS Naturals

CONSTANTS
    Processes,
    Artifacts,     \* artifact id, version and digest: one file name each
    None,
    MaxChanges,    \* bound: changes from outside
    MaxLosses      \* bound: power losses

ASSUME NoneAssumption == None \notin Artifacts \cup {"partial", "written", "synced"}

ASSUME BoundAssumption == MaxChanges \in Nat /\ MaxLosses \in Nat

\* What a file can hold, compared with the canonical bytes of its value:
\* those bytes, a part of them, other bytes of the same value, another value.
Whole     == "whole"
Torn      == "torn"
Rewritten == "rewritten"
Altered   == "altered"
Absent    == "absent"
Contents  == {Whole, Torn, Rewritten, Altered, Absent}

VARIABLES
    files,      \* [Artifacts -> Contents], by their final names
    volatile,   \* files whose data the disk does not yet hold
    named,      \* files whose directory entry the disk holds
    temp,       \* [Processes -> {None, "partial", "written", "synced"}]
    step,       \* [Processes -> Steps], where its put has got to
    target,     \* [Processes -> Artifacts \cup {None}]
    changes,    \* changes made from outside so far
    losses,     \* power losses so far
    handedOut,  \* history: artifacts whose put returned
    conflicts,  \* history: artifacts for which IMMUTABLE_ARTIFACT_CONFLICT was raised
    refused,    \* history: artifacts handed out that a get found missing or corrupt
    changed,    \* history: artifacts that were changed from outside
    erased,     \* history: artifacts that a power loss took away
    stuck       \* history: processes whose last put could not remove its temporary file

disk  == <<files, volatile, named>>
temps == <<temp, stuck>>
vars  == <<disk, temps, step, target, changes, losses, handedOut, conflicts, refused,
           changed, erased>>

Steps == {"idle", "look", "compare", "create", "write", "sync", "replace", "clean", "abandon"}

Init ==
    /\ files = [a \in Artifacts |-> Absent]
    /\ volatile = {}
    /\ named = {}
    /\ temp = [p \in Processes |-> None]
    /\ step = [p \in Processes |-> "idle"]
    /\ target = [p \in Processes |-> None]
    /\ changes = 0
    /\ losses = 0
    /\ handedOut = {}
    /\ conflicts = {}
    /\ refused = {}
    /\ changed = {}
    /\ erased = {}
    /\ stuck = {}

At(p, here) == step[p] = here
Goto(p, there) == step' = [step EXCEPT ![p] = there]

External == <<changes, losses, changed, erased>>
History  == <<handedOut, conflicts, refused>>

\* The put of p ends.
Return(p) ==
    /\ Goto(p, "idle")
    /\ target' = [target EXCEPT ![p] = None]

Put(p, a) ==
    /\ At(p, "idle")
    /\ Goto(p, "look")
    /\ target' = [target EXCEPT ![p] = a]
    /\ UNCHANGED <<disk, temps, External, History>>

\* target.exists()
Look(p) ==
    /\ At(p, "look")
    /\ Goto(p, IF files[target[p]] = Absent THEN "create" ELSE "compare")
    /\ UNCHANGED <<disk, temps, target, External, History>>

\* target.read_bytes() != payload
Compare(p) ==
    /\ At(p, "compare")
    /\ IF files[target[p]] = Whole
       THEN handedOut' = handedOut \cup {target[p]} /\ UNCHANGED conflicts
       ELSE conflicts' = conflicts \cup {target[p]} /\ UNCHANGED handedOut
    /\ Return(p)
    /\ UNCHANGED <<disk, temps, External, refused>>

\* A put that opens the final name for writing.
CreateInPlace(p) ==
    /\ At(p, "create")
    /\ Goto(p, "write")
    /\ temp' = [temp EXCEPT ![p] = "partial"]
    /\ stuck' = stuck \ {p}
    /\ files' = [files EXCEPT ![target[p]] = Torn]
    /\ UNCHANGED <<volatile, named, target, External, History>>

\* tempfile.mkstemp in the directory of the target; a file that an earlier put
\* could not remove has another name, and is followed no further.
Create(p) ==
    /\ At(p, "create")
    /\ Goto(p, "write")
    /\ temp' = [temp EXCEPT ![p] = "partial"]
    /\ stuck' = stuck \ {p}
    /\ UNCHANGED <<disk, target, External, History>>

\* A put that leaves the write-back to the system.
WriteUnsynced(p) ==
    /\ At(p, "write")
    /\ Goto(p, "replace")
    /\ temp' = [temp EXCEPT ![p] = "written"]
    /\ UNCHANGED <<disk, stuck, target, External, History>>

\* stream.write and flush
Write(p) ==
    /\ At(p, "write")
    /\ Goto(p, "sync")
    /\ temp' = [temp EXCEPT ![p] = "written"]
    /\ UNCHANGED <<disk, stuck, target, External, History>>

\* os.fsync
Sync(p) ==
    /\ At(p, "sync")
    /\ Goto(p, "replace")
    /\ temp' = [temp EXCEPT ![p] = "synced"]
    /\ UNCHANGED <<disk, stuck, target, External, History>>

\* A put that removes the old file before it gives the new one its name.
ReplaceInTwoSteps(p) ==
    /\ At(p, "replace")
    /\ IF files[target[p]] # Absent
       THEN /\ files' = [files EXCEPT ![target[p]] = Absent]
            /\ UNCHANGED <<step, temp, volatile>>
       ELSE /\ files' = [files EXCEPT ![target[p]] = Whole]
            /\ volatile' = volatile \ {target[p]}
            /\ temp' = [temp EXCEPT ![p] = None]
            /\ Goto(p, "clean")
    /\ UNCHANGED <<named, stuck, target, External, History>>

\* os.replace: the file of the temporary name takes the final name, and that
\* of the process before, if there was one, is gone.
Replace(p) ==
    /\ At(p, "replace")
    /\ Goto(p, "clean")
    /\ files' = [files EXCEPT ![target[p]] = Whole]
    /\ volatile' = IF temp[p] = "synced" THEN volatile \ {target[p]}
                   ELSE volatile \cup {target[p]}
    /\ temp' = [temp EXCEPT ![p] = None]
    /\ UNCHANGED <<named, stuck, target, External, History>>

\* write, flush, fsync or replace raises OSError.
Fault(p) ==
    /\ step[p] \in {"write", "sync", "replace"}
    /\ Goto(p, "abandon")
    /\ UNCHANGED <<disk, temps, target, External, History>>

\* A put that lets an error go before it cleans up.
CleanAfterSuccess(p) ==
    /\ step[p] \in {"clean", "abandon"}
    /\ temp' = IF At(p, "clean") THEN [temp EXCEPT ![p] = None] ELSE temp
    /\ handedOut' = IF At(p, "clean") THEN handedOut \cup {target[p]} ELSE handedOut
    /\ Return(p)
    /\ UNCHANGED <<disk, stuck, External, conflicts, refused>>

\* The finally clause: the temporary file goes, then put returns or raises.
Clean(p) ==
    /\ step[p] \in {"clean", "abandon"}
    /\ temp' = [temp EXCEPT ![p] = None]
    /\ handedOut' = IF At(p, "clean") THEN handedOut \cup {target[p]} ELSE handedOut
    /\ Return(p)
    /\ UNCHANGED <<disk, stuck, External, conflicts, refused>>

\* After a fault the temporary file cannot be removed either: put raises, and
\* leaves it behind.
CleanFails(p) ==
    /\ At(p, "abandon")
    /\ stuck' = stuck \cup {p}
    /\ Return(p)
    /\ UNCHANGED <<disk, temp, External, History>>

\* get returns a value only if its digest is the artifact's; bytes that are
\* no JSON, or a missing file, raise other errors.
Readable(a) == files[a] \in {Whole, Rewritten}

Get(a) ==
    /\ a \in handedOut
    /\ refused' = IF Readable(a) THEN refused ELSE refused \cup {a}
    /\ UNCHANGED <<disk, temps, step, target, External, handedOut, conflicts>>

\* A process dies; nothing removes its temporary file, which nobody else uses.
Die(p) ==
    /\ ~ At(p, "idle")
    /\ temp' = [temp EXCEPT ![p] = None]
    /\ stuck' = stuck \ {p}
    /\ Return(p)
    /\ UNCHANGED <<disk, External, History>>

\* The system writes back a file's data, and a directory entry.
WriteBack(a) ==
    /\ files[a] # Absent
    /\ \/ a \in volatile /\ volatile' = volatile \ {a} /\ UNCHANGED named
       \/ a \notin named /\ named' = named \cup {a} /\ UNCHANGED volatile
    /\ UNCHANGED <<files, temps, step, target, External, History>>

\* All processes die; entries that were not written back may be gone, and of
\* a file that stays, data that was not written back.
PowerLoss(gone) ==
    /\ losses < MaxLosses
    /\ losses' = losses + 1
    /\ gone \cap named = {}
    /\ erased' = erased \cup {a \in gone : files[a] # Absent}
    /\ files' = [a \in Artifacts |->
                   IF a \in gone THEN Absent
                   ELSE IF a \in volatile THEN Torn
                   ELSE files[a]]
    /\ volatile' = {}
    /\ named' = {a \in Artifacts : files'[a] # Absent}
    /\ temp' = [p \in Processes |-> None]
    /\ step' = [p \in Processes |-> "idle"]
    /\ target' = [p \in Processes |-> None]
    /\ stuck' = {}
    /\ UNCHANGED <<changes, changed, History>>

\* Somebody edits a file.
Change(a, bytes) ==
    /\ changes < MaxChanges
    /\ changes' = changes + 1
    /\ files[a] # Absent
    /\ files' = [files EXCEPT ![a] = bytes]
    /\ changed' = changed \cup {a}
    /\ UNCHANGED <<volatile, named, temps, step, target, losses, erased, History>>

Next ==
    \/ \E p \in Processes :
         \/ \E a \in Artifacts : Put(p, a)
         \/ Look(p) \/ Compare(p)
         \/ Create(p) \/ Write(p) \/ Sync(p) \/ Replace(p) \/ Fault(p) \/ Clean(p)
         \/ CleanFails(p) \/ Die(p)
    \/ \E a \in Artifacts : Get(a) \/ WriteBack(a)
    \/ \E gone \in SUBSET Artifacts : PowerLoss(gone)
    \/ \E a \in Artifacts, bytes \in {Rewritten, Altered} : Change(a, bytes)

Spec == Init /\ [][Next]_vars

-----------------------------------------------------------------------------
(* Properties.                                                             *)

TypeOK ==
    /\ files \in [Artifacts -> Contents]
    /\ volatile \subseteq Artifacts
    /\ named \subseteq Artifacts
    /\ temp \in [Processes -> {None, "partial", "written", "synced"}]
    /\ step \in [Processes -> Steps]
    /\ target \in [Processes -> Artifacts \cup {None}]
    /\ \A p \in Processes : target[p] = None <=> At(p, "idle")
    /\ changes \in 0..MaxChanges
    /\ losses \in 0..MaxLosses
    /\ handedOut \subseteq Artifacts
    /\ conflicts \subseteq Artifacts
    /\ refused \subseteq Artifacts
    /\ changed \subseteq Artifacts
    /\ erased \subseteq Artifacts
    /\ stuck \subseteq Processes

\* No reader ever finds a part of an artifact under its name: not while
\* another process writes it, nor after a crash or a power loss.
NoTornArtifact == \A a \in Artifacts : files[a] # Torn

\* Puts of the same artifact, interleaved in any way and interrupted by
\* crashes, never take one another for a conflict, and never take a file away
\* from under a reference that was handed out: put and get refuse an artifact
\* only if somebody changed it, or a power loss took it away.
RefusalsAreDeserved ==
    /\ conflicts \subseteq changed
    /\ refused \subseteq changed \cup erased

\* A put that has returned or raised leaves its temporary file only if it
\* failed twice: once at the artifact, and again when it removed the file.
TempFilesAreCleaned ==
    \A p \in Processes : At(p, "idle") => (temp[p] # None <=> p \in stuck)

\* As long as nobody else has touched the files and the power has stayed on,
\* the store is the immutable map its callers rely on.
Stored == {a \in Artifacts : files[a] = Whole}

Map == INSTANCE ImmutableMap WITH stored <- Stored

ImplementsMap ==
    /\ Map!Init
    /\ [][changes' = 0 /\ losses' = 0 => [Map!Next]_<<Stored, handedOut>>]_vars
=============================================================================
