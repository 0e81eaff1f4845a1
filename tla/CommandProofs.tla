---------------------------- MODULE CommandProofs ----------------------------
(***************************************************************************)
(* Proofs about the parts of Governance around the loader and the merge:   *)
(* the command line with the path guard, the checkers, the knowledge       *)
(* service, the probe and the registries.                                  *)
(*                                                                         *)
(* The command line: what a call establishes is not undone by the calls    *)
(* that come after it, as the guard and the loader run only in the call    *)
(* that is theirs, and each has one.  So at the last call everything is    *)
(* established, and the nonce has been spent by this invocation.  While    *)
(* the receipt is valid its nonce then stays in the store; and once one    *)
(* was reported as verified after the expiry, no invocation gets past the  *)
(* test of the window again.                                               *)
(*                                                                         *)
(* The guard in a tree that nobody else touches: its walk is, name by      *)
(* name, the one that resolving the path afresh takes, and leaves no link  *)
(* behind.  So the roots it resolved have no links on them; and where what *)
(* is below such a root was found to be no link, the walk along the path   *)
(* as it is written leads to that path.                                    *)
(*                                                                         *)
(* The others: the results of a run of checks are those of the handlers    *)
(* that it called; the evidence of a query is that of the records which    *)
(* it has been through; and an entry of a table is only ever put where     *)
(* there was none.                                                         *)
(***************************************************************************)
EXTENDS GovernanceProofs

-----------------------------------------------------------------------------
(* The plans of the commands.                                              *)

LEMMA CommandsAre ==
    Commands = {"check", "validate", "path", "verify", "intent", "probe", "prepare"}
BY DEF Commands, Plan

LEMMA PlanFacts ==
    ASSUME NEW c \in Commands, NEW n \in DOMAIN Plan[c]
    PROVE  /\ n \in Nat \ {0}
           /\ Plan[c][n] # "print" => n + 1 \in DOMAIN Plan[c]
           /\ Plan[c][n] = "guard" => n = 1
           /\ Plan[c][n] = "checks" <=> c = "verify" /\ n + 1 = 7
           /\ Plan[c][n] = "consume" <=> c = "verify" /\ n + 1 = 8
           /\ Plan[c][n] = "load" => \A m \in 1..(n - 1) : Plan[c][m] # "load"
           /\ Plan[c][n] = "print" =>
                /\ c \in Guarded => n > 1 /\ Plan[c][1] = "guard"
                /\ c \in Guarded \ {"path"} => \E m \in 1..(n - 1) : Plan[c][m] = "load"
                /\ c = "verify" => n = 8
BY CommandsAre DEF Plan, VerifyCalls, Guarded

-----------------------------------------------------------------------------
(* The path guard.                                                         *)

GuardInv ==
    /\ walk = [here |-> walk.here, rest |-> walk.rest, steps |-> walk.steps]
    /\ place \in {"links", "exist", "accepted"} => \E i \in DOMAIN roots : Under(i, walk.here)

LEMMA ChangeKeeps ==
    ASSUME GuardInv, NEW p \in Places, NEW node \in Nodes, Change(p, node)
    PROVE  GuardInv' /\ UNCHANGED <<roots, place, walk>>
BY DEF Change, GuardInv, Under

LEMMA WalkKeeps ==
    ASSUME GuardInv, Construct \/ ResolveRoot \/ Begin \/ Step
    PROVE  GuardInv'
<1>1. place' \notin {"links", "exist", "accepted"}
  BY DEF Construct, ResolveRoot, Begin, Step, Goto, Unsound
<1>2. walk' = [here |-> walk'.here, rest |-> walk'.rest, steps |-> walk'.steps]
  <2>1. CASE UNCHANGED walk
    BY <2>1 DEF GuardInv
  <2>2. CASE walk' = Begun(absolute')
    BY <2>2 DEF Begun
  <2>3. CASE walk' = Follow(walk)
    <3>1. PICK here, rest, steps : Follow(walk) = [here |-> here, rest |-> rest, steps |-> steps]
      BY Zenon DEF Follow
    <3> QED
      BY <2>3, <3>1
  <2> QED
    BY <2>1, <2>2, <2>3 DEF Construct, ResolveRoot, Begin, Step
<1> QED
  BY <1>1, <1>2 DEF GuardInv

LEMMA ContainKeeps ==
    ASSUME GuardInv, Contain
    PROVE  GuardInv'
<1>1. UNCHANGED roots /\ walk'.here = walk.here
      /\ walk' = [here |-> walk'.here, rest |-> walk'.rest, steps |-> walk'.steps]
  BY DEF Contain, GuardInv, Goto
<1>2. place' \in {"links", "exist", "accepted"} => \E i \in DOMAIN roots : Under(i, walk.here)
  BY DEF Contain, Goto, Containing
<1> QED
  BY <1>1, <1>2 DEF GuardInv, Under

LEMMA LookKeeps ==
    ASSUME GuardInv, Look \/ ReturnPath
    PROVE  GuardInv'
<1>1. UNCHANGED roots /\ walk'.here = walk.here
      /\ walk' = [here |-> walk'.here, rest |-> walk'.rest, steps |-> walk'.steps]
  BY DEF Look, ReturnPath, GuardInv, Goto
<1>2. place \in {"links", "exist"}
  BY DEF Look, ReturnPath
<1> QED
  BY <1>1, <1>2 DEF GuardInv, Under

\* A step of the guard that is not somebody else's starts before it returns.
LEMMA GuardKeeps ==
    ASSUME GuardInv, GuardNext
    PROVE  GuardInv' /\ (place = "accepted" => UNCHANGED <<roots, place, walk>>)
<1>1. CASE Construct \/ ResolveRoot \/ Begin \/ Step
  BY <1>1, WalkKeeps DEF Construct, ResolveRoot, Begin, Step
<1>2. CASE Contain
  BY <1>2, ContainKeeps DEF Contain
<1>3. CASE Look \/ ReturnPath
  BY <1>3, LookKeeps DEF Look, ReturnPath
<1>4. CASE \E p \in Places, node \in Nodes : Change(p, node)
  BY <1>4, ChangeKeeps
<1> QED
  BY <1>1, <1>2, <1>3, <1>4 DEF GuardNext

-----------------------------------------------------------------------------
(* The command line.                                                       *)

\* The call is over.
Past(call) == \E n \in 1..(position - 1) : Plan[command][n] = call

NonceInv ==
    /\ consumed # Never => command = "verify" /\ (exit = "running" => position = 8)
    /\ command = "verify" /\ position = 8 /\ exit \in {"running", "success"} => consumed # Never
    /\ consumed # Never /\ ~ expired => spent[database]
    /\ consumed = "after" => expired
    /\ exit = "running" /\ consumed # Never => verified[database][consumed] = 0
    /\ exit = "running" /\ command = "verify" /\ position \in {7, 8} =>
         \A d \in Databases : verified[d]["after"] = 0
    /\ \A d \in Databases : verified[d]["after"] > 0 => expired
    /\ SpentIsSuccessOrLost
    /\ VerifiedAgainOnlyAtExpiry

CallsInv ==
    exit \in {"running", "success"} =>
        /\ position \in DOMAIN Plan[command]
        /\ exit = "success" => Plan[command][position] = "print"
        /\ Past("guard") => place = "accepted" /\ path = walk.here
        /\ Past("load") => stage = "loaded"

LineInv ==
    /\ LineTypeOK
    /\ exit = "idle" <=> command = NoCommand
    /\ GuardInv
    /\ CallsInv
    /\ NonceInv

LEMMA LineInitInv == Init => LineInv
<1> SUFFICES ASSUME Init PROVE LineInv
  OBVIOUS
<1>1. LineTypeOK
  BY DEF Init, LineInit, LineTypeOK, Exits, Periods, Never
<1>2. GuardInv
  BY DEF Init, GuardInit, GuardInv
<1> QED
  BY <1>1, <1>2 DEF Init, LineInit, LineInv, CallsInv, NonceInv, SpentIsSuccessOrLost,
                    VerifiedAgainOnlyAtExpiry, Periods, Never

\* What the steps of the whole are to the command line, the guard and the
\* loader.
LEMMA Steps ==
    ASSUME [Next]_vars
    PROVE  \/ UNCHANGED <<line, guard, loader>>
           \/ LineNext
           \/ (In("guard") \/ command = NoCommand) /\ GuardNext /\ UNCHANGED <<line, loader>>
           \/ (In("load") \/ command = NoCommand) /\ LoaderNext /\ UNCHANGED <<line, guard>>
           \/ (\E p \in Places, node \in Nodes : Change(p, node)) /\ UNCHANGED <<line, loader>>
BY DEF Next, vars, CommandStep, CommandNext, GuardStep, LoaderStep, MergerStep, CheckerStep,
       KnowledgeStep, ProbeStep, AccessStep, RegistriesStep

\* The line stands still while the guard or the loader move.
LEMMA LineStands ==
    ASSUME LineInv, UNCHANGED line,
           GuardInv',
           exit \in {"running", "success"} /\ Past("guard") => UNCHANGED <<place, walk>>,
           exit \in {"running", "success"} /\ Past("load") => UNCHANGED stage
    PROVE  LineInv'
<1>1. UNCHANGED <<command, database, position, path, exit, expired, spent, consumed, lost, verified,
                  invocations>>
  BY DEF line, nonces
<1>2. LineTypeOK' /\ NonceInv' /\ (exit = "idle" <=> command = NoCommand)'
  BY <1>1 DEF LineInv, LineTypeOK, NonceInv, SpentIsSuccessOrLost, VerifiedAgainOnlyAtExpiry
<1>3. \A call : Past(call)' <=> Past(call)
  BY <1>1 DEF Past
<1>4. CallsInv'
  BY <1>1, <1>3 DEF LineInv, CallsInv
<1> QED
  BY <1>2, <1>4 DEF LineInv

LEMMA RunningFacts ==
    ASSUME LineInv, exit = "running"
    PROVE  /\ command \in Commands
           /\ position \in DOMAIN Plan[command]
           /\ position \in Nat \ {0}
<1>1. command \in Commands
  BY DEF LineInv, LineTypeOK
<1>2. position \in DOMAIN Plan[command]
  BY DEF LineInv, LineTypeOK
<1> QED
  BY <1>1, <1>2, PlanFacts

\* The next call is reached, and what was established is kept.
LEMMA ProceedFacts ==
    ASSUME LineInv, exit = "running", Proceed, UNCHANGED command,
           Plan[command][position] # "print"
    PROVE  /\ position' \in DOMAIN Plan[command']
           /\ \A call : Past(call)' <=> Past(call) \/ Plan[command][position] = call
<1>1. position' = position + 1
  BY DEF Proceed
<1>2. 1..(position' - 1) = 1..(position - 1) \cup {position}
  BY <1>1, RunningFacts
<1> QED
  BY <1>1, <1>2, RunningFacts, PlanFacts DEF Past

LEMMA InvokeKeeps ==
    ASSUME LineInv, NEW c \in Commands, NEW d \in Databases, NEW a \in Arguments, Invoke(c, d, a)
    PROVE  LineInv'
<1>1. /\ exit' = "running" /\ command' = c /\ position' = 1 /\ database' = d
      /\ consumed' = Never /\ lost' = FALSE
      /\ UNCHANGED <<expired, spent, verified>>
      /\ invocations' = invocations - 1 /\ invocations > 0
      /\ place' = "construct" /\ walk' = Begun(<<>>)
  BY DEF Invoke
<1>2. 1 \in DOMAIN Plan[c] /\ c # NoCommand
  BY CommandsAre DEF Plan, VerifyCalls, NoCommand
<1>3. LineTypeOK'
  <2>1. MaxInvocations \in Nat
    BY CommandAssumption
  <2>2. invocations' \in 0..MaxInvocations
    BY <1>1, <2>1 DEF LineInv, LineTypeOK
  <2>3. /\ expired' \in BOOLEAN /\ spent' \in [Databases -> BOOLEAN]
        /\ verified' \in [Databases -> [Periods -> Nat]]
    BY <1>1 DEF LineInv, LineTypeOK
  <2> QED
    BY <1>1, <1>2, <2>2, <2>3 DEF LineTypeOK, Exits
<1>4. GuardInv'
  BY <1>1 DEF GuardInv, Begun
<1>5. \A call : ~ Past(call)'
  BY <1>1 DEF Past
<1>6. CallsInv'
  BY <1>1, <1>2, <1>5 DEF CallsInv
<1>7. NonceInv'
  BY <1>1 DEF LineInv, NonceInv, SpentIsSuccessOrLost, VerifiedAgainOnlyAtExpiry, Never
<1> QED
  BY <1>1, <1>2, <1>3, <1>4, <1>6, <1>7 DEF LineInv

\* A step that only proceeds from a call that neither consumes nor prints.
LEMMA ProceedKeeps ==
    ASSUME LineInv, exit = "running", Proceed,
           UNCHANGED <<command, database, nonces, lost, invocations, guard, loader>>,
           Plan[command][position] # "guard" => path' = path,
           Plan[command][position] \notin {"print", "consume"},
           Plan[command][position] = "checks" => ~ expired,
           Plan[command][position] = "guard" => place = "accepted" /\ path' = walk.here,
           Plan[command][position] = "load" => stage = "loaded"
    PROVE  LineInv'
<1>1. /\ UNCHANGED <<place, walk, roots, stage, exit, expired, spent, consumed, verified>>
      /\ position' = position + 1
  BY DEF guard, loader, nonces, Proceed
<1>2. LineTypeOK' /\ (exit = "idle" <=> command = NoCommand)'
  BY <1>1, ProceedFacts DEF LineInv, LineTypeOK
<1>3. GuardInv'
  BY <1>1 DEF LineInv, GuardInv, Under
<1>4. Past("guard") => Plan[command][position] # "guard"
  BY RunningFacts, PlanFacts DEF Past
<1>5. CallsInv'
  BY <1>1, <1>4, ProceedFacts DEF LineInv, CallsInv
<1>6. ~ (position' = 8 /\ command = "verify") /\ consumed = Never
  <2>1. ~ (position' = 8 /\ command = "verify")
    BY <1>1, RunningFacts, PlanFacts
  <2>2. ~ (command = "verify" /\ position = 8)
    BY DEF Plan, VerifyCalls
  <2> QED
    BY <2>1, <2>2 DEF LineInv, NonceInv
<1>7. position' = 7 /\ command = "verify" => ~ expired
  BY <1>1, RunningFacts, PlanFacts
<1>8. position' = 7 /\ command = "verify" => \A d \in Databases : verified[d]["after"] = 0
  BY <1>7 DEF LineInv, LineTypeOK, NonceInv, Periods
<1>9. NonceInv'
  BY <1>1, <1>6, <1>8 DEF LineInv, NonceInv, SpentIsSuccessOrLost, VerifiedAgainOnlyAtExpiry
<1> QED
  BY <1>2, <1>3, <1>5, <1>9 DEF LineInv

\* A step that only ends or is about to end with an error.
LEMMA RaiseKeeps ==
    ASSUME LineInv, exit \in {"running", "failing"},
           exit' \in {"failing", "reported", "traceback", "killed"},
           UNCHANGED <<command, database, position, path, nonces, invocations, guard, loader>>,
           lost' \in BOOLEAN, lost => lost',
           (exit' # "killed" /\ exit = "running" /\ consumed # Never) => lost'
    PROVE  LineInv'
<1>1. UNCHANGED <<place, walk, roots, stage, expired, spent, consumed, verified>>
  BY DEF guard, loader, nonces
<1>2. LineTypeOK' /\ (exit = "idle" <=> command = NoCommand)'
  BY <1>1 DEF LineInv, LineTypeOK, Exits
<1>3. GuardInv'
  BY <1>1 DEF LineInv, GuardInv, Under
<1>4. NonceInv'
  BY <1>1 DEF LineInv, NonceInv, SpentIsSuccessOrLost, VerifiedAgainOnlyAtExpiry
<1> QED
  BY <1>2, <1>3, <1>4 DEF LineInv, CallsInv

LEMMA CheckKeeps ==
    ASSUME LineInv, CheckReceipt
    PROVE  LineInv'
<1>1. exit = "running" /\ Plan[command][position] = "checks"
      /\ UNCHANGED <<command, database, path, nonces, lost, invocations, guard, loader>>
  BY DEF CheckReceipt, In
<1>2. CASE ~ expired /\ Proceed
  BY <1>1, <1>2, ProceedKeeps
<1>3. CASE exit' \in {"failing", "traceback"} /\ UNCHANGED position
  <2>1. consumed = Never
    BY <1>1, RunningFacts, PlanFacts DEF LineInv, NonceInv
  <2> QED
    BY <1>1, <1>3, <2>1, RaiseKeeps DEF LineInv, LineTypeOK
<1> QED
  BY <1>2, <1>3 DEF CheckReceipt, Raise

LEMMA ConsumeKeeps ==
    ASSUME LineInv, Consume
    PROVE  LineInv'
<1>1. exit = "running" /\ Plan[command][position] = "consume" /\ command = "verify" /\ position + 1 = 8
  BY RunningFacts, PlanFacts DEF Consume, In
<1>2. position = 7 /\ consumed = Never
  BY <1>1, RunningFacts DEF LineInv, NonceInv
<1>3. UNCHANGED <<command, database, path, lost, expired, verified, invocations, guard, loader>>
  BY DEF Consume
<1>4. CASE (spent[database] => expired) /\ Insert
  <2>1. position' = 8 /\ UNCHANGED <<exit, place, walk, roots, stage>>
        /\ spent' = [spent EXCEPT ![database] = TRUE] /\ consumed' = Now
    BY <1>2, <1>3, <1>4 DEF guard, loader, Insert, Proceed
  <2>2. /\ consumed' \in Periods /\ consumed' # Never /\ (consumed' = "after" => expired)
        /\ (consumed' = "before" => ~ expired)
    BY <2>1 DEF Now, Periods, Never
  <2>3. LineTypeOK' /\ (exit = "idle" <=> command = NoCommand)'
    <3>1. position' \in DOMAIN Plan[command']
      BY <1>1, <1>3, <1>4, ProceedFacts DEF Insert
    <3> QED
      BY <1>3, <2>1, <2>2, <3>1 DEF LineInv, LineTypeOK
  <2>4. GuardInv'
    BY <2>1 DEF LineInv, GuardInv, Under
  <2>5. CallsInv'
    BY <1>1, <1>3, <1>4, <2>1, ProceedFacts DEF LineInv, CallsInv, Insert
  <2>6. spent'[database'] /\ \A d \in Databases : spent[d] => spent'[d]
    BY <1>3, <2>1 DEF LineInv, LineTypeOK
  <2>7. verified'[database'][consumed'] = 0
    <3>1. verified[database] \in [Periods -> Nat] /\ verified[database]["after"] = 0
      BY <1>1, <1>2 DEF LineInv, LineTypeOK, NonceInv
    <3>2. ~ expired => verified[database]["before"] = 0
      <4>1. verified[database]["before"] \in Nat
        BY <3>1 DEF Periods
      <4> QED
        BY <1>4, <4>1 DEF LineInv, LineTypeOK, NonceInv, VerifiedAgainOnlyAtExpiry, Periods
    <3> QED
      BY <1>3, <2>2, <3>1, <3>2 DEF Periods
  <2>8. \A d \in Databases : verified'[d]["after"] = 0
    BY <1>1, <1>2, <1>3 DEF LineInv, NonceInv
  <2>9. NonceInv'
    BY <1>1, <1>3, <2>1, <2>2, <2>6, <2>7, <2>8
       DEF LineInv, NonceInv, SpentIsSuccessOrLost, VerifiedAgainOnlyAtExpiry
  <2> QED
    BY <2>3, <2>4, <2>5, <2>9 DEF LineInv
<1>5. CASE exit' \in {"failing", "traceback"} /\ UNCHANGED <<position, spent, consumed>>
  BY <1>1, <1>2, <1>3, <1>5, RaiseKeeps DEF LineInv, LineTypeOK, nonces
<1> QED
  BY <1>4, <1>5 DEF Consume, Raise

\* The receipt expires, or a row that has expired is purged: what was promised
\* of the time before is promised no more.
LEMMA AgeKeeps ==
    ASSUME LineInv, Expire \/ \E d \in Databases : Purge(d)
    PROVE  LineInv'
<1>1. UNCHANGED <<command, database, position, path, exit, consumed, lost, verified, invocations,
                  guard, loader>>
  BY DEF Expire, Purge
<1>2. UNCHANGED <<place, walk, roots, stage>>
  BY <1>1 DEF guard, loader
<1>3. expired' /\ spent' \in [Databases -> BOOLEAN]
  BY DEF Expire, Purge, LineInv, LineTypeOK
<1>4. LineTypeOK' /\ (exit = "idle" <=> command = NoCommand)' /\ CallsInv'
  BY <1>1, <1>2, <1>3 DEF LineInv, LineTypeOK, CallsInv, Past, Expire, Purge
<1>5. GuardInv'
  BY <1>2 DEF LineInv, GuardInv, Under
<1>6. NonceInv'
  BY <1>1, <1>3 DEF LineInv, NonceInv, SpentIsSuccessOrLost, VerifiedAgainOnlyAtExpiry
<1> QED
  BY <1>4, <1>5, <1>6 DEF LineInv

LEMMA PrintSuccessKeeps ==
    ASSUME LineInv, PrintSuccess
    PROVE  LineInv'
<1>1. exit = "running" /\ Plan[command][position] = "print"
  BY DEF PrintSuccess, In
<1>2. /\ command \in Commands /\ position \in DOMAIN Plan[command]
      /\ UNCHANGED <<command, database, position, path, expired, spent, consumed, invocations, guard, loader>>
  BY RunningFacts, <1>1 DEF PrintSuccess, Raise
<1>3. CASE exit' = "success"
  <2>1. UNCHANGED <<place, walk, roots, stage, lost>>
        /\ verified' = IF command = "verify" THEN [verified EXCEPT ![database][consumed] = @ + 1] ELSE verified
    BY <1>2, <1>3 DEF guard, loader, PrintSuccess, Raise
  <2>2. command = "verify" => /\ consumed \in Periods /\ consumed # Never
                              /\ verified[database][consumed] = 0
                              /\ ~ expired => spent[database]
                              /\ consumed = "after" => expired
    BY <1>1, <1>2, PlanFacts DEF LineInv, LineTypeOK, NonceInv
  <2>3. /\ verified' \in [Databases -> [Periods -> Nat]]
        /\ \A d \in Databases, p \in Periods :
             \/ verified'[d][p] = verified[d][p]
             \/ command = "verify" /\ d = database /\ p = consumed /\ verified'[d][p] = 1
    BY <2>1, <2>2 DEF LineInv, LineTypeOK
  <2>4. LineTypeOK' /\ (exit = "idle" <=> command = NoCommand)'
    BY <1>1, <1>2, <1>3, <2>1, <2>3 DEF LineInv, LineTypeOK, Exits
  <2>5. GuardInv'
    BY <2>1 DEF LineInv, GuardInv, Under
  <2>6. \A call : Past(call)' <=> Past(call)
    BY <1>2 DEF Past
  <2>7. CallsInv'
    BY <1>1, <1>2, <1>3, <2>1, <2>6 DEF LineInv, CallsInv
  <2>8. VerifiedAgainOnlyAtExpiry' /\ \A d \in Databases : verified'[d]["after"] > 0 => expired
    <3> "before" \in Periods /\ "after" \in Periods
      BY DEF Periods
    <3>1. \A d \in Databases, p \in Periods : verified'[d][p] <= 1
      BY <2>3 DEF LineInv, NonceInv, VerifiedAgainOnlyAtExpiry
    <3>2. \A d \in Databases : verified'[d]["before"] = 1 /\ ~ expired => spent[d]
      BY <2>2, <2>3 DEF LineInv, NonceInv, VerifiedAgainOnlyAtExpiry
    <3>3. \A d \in Databases : verified'[d]["after"] > 0 => expired
      BY <2>2, <2>3 DEF LineInv, NonceInv
    <3> QED
      BY <1>2, <3>1, <3>2, <3>3 DEF VerifiedAgainOnlyAtExpiry
  <2>9. NonceInv'
    BY <1>1, <1>2, <1>3, <2>1, <2>8 DEF LineInv, NonceInv, SpentIsSuccessOrLost, VerifiedAgainOnlyAtExpiry
  <2> QED
    BY <2>4, <2>5, <2>7, <2>9 DEF LineInv
<1>4. CASE exit' \in {"failing", "traceback"} /\ lost' = TRUE /\ UNCHANGED verified
  BY <1>1, <1>2, <1>4, RaiseKeeps DEF nonces
<1> QED
  BY <1>3, <1>4 DEF PrintSuccess, Raise

LEMMA ReturnKeepsLine ==
    ASSUME LineInv, ReturnFromGuard \/ ReturnFromLoad \/ ReturnFromCall
    PROVE  LineInv'
<1>1. exit = "running" /\ ~ Plan[command][position] \in {"print", "consume", "checks"}
  BY DEF ReturnFromGuard, ReturnFromLoad, ReturnFromCall, In
<1>2. UNCHANGED <<command, database, nonces, lost, invocations, guard, loader>>
  BY DEF ReturnFromGuard, ReturnFromLoad, ReturnFromCall
<1>3. CASE Proceed
  <2>1. Plan[command][position] = "guard" => place = "accepted" /\ path' = walk.here
    BY <1>3 DEF ReturnFromGuard, ReturnFromLoad, ReturnFromCall, In, Raise, Proceed
  <2>2. Plan[command][position] = "load" => stage = "loaded"
    BY <1>3, <1>1 DEF ReturnFromGuard, ReturnFromLoad, ReturnFromCall, In, Raise, Proceed
  <2>3. Plan[command][position] # "guard" => path' = path
    BY DEF ReturnFromGuard, ReturnFromLoad, ReturnFromCall, In
  <2> QED
    BY <1>1, <1>2, <1>3, <2>1, <2>2, <2>3, ProceedKeeps
<1>4. CASE exit' \in {"failing", "traceback"} /\ UNCHANGED <<position, path>>
  <2>1. consumed = Never
    <3> SUFFICES ASSUME consumed # Never PROVE FALSE
      OBVIOUS
    <3>1. command = "verify" /\ position = 8
      BY <1>1 DEF LineInv, NonceInv
    <3> QED
      BY <1>1, <3>1 DEF Plan, VerifyCalls
  <2> QED
    BY <1>1, <1>2, <1>4, <2>1, RaiseKeeps DEF LineInv, LineTypeOK
<1> QED
  BY <1>3, <1>4 DEF ReturnFromGuard, ReturnFromLoad, ReturnFromCall, Raise

LEMMA LineNextKeeps ==
    ASSUME LineInv, LineNext
    PROVE  LineInv'
<1>1. CASE PrintError \/ Die
  BY <1>1, RaiseKeeps DEF PrintError, Die, LineInv, LineTypeOK, NonceInv, SpentIsSuccessOrLost
<1> QED
  BY <1>1, InvokeKeeps, ReturnKeepsLine, CheckKeeps, ConsumeKeeps, PrintSuccessKeeps, AgeKeeps
     DEF LineNext

LEMMA LineStepInv == LineInv /\ [Next]_vars => LineInv'
<1> SUFFICES ASSUME LineInv, [Next]_vars PROVE LineInv'
  OBVIOUS
<1>1. exit \in {"running", "success"} => command \in Commands /\ command # NoCommand
  BY CommandsAre DEF LineInv, LineTypeOK
<1>2. CASE UNCHANGED <<line, guard, loader>>
  <2>1. UNCHANGED <<roots, place, walk, stage>>
    BY <1>2 DEF guard, loader
  <2> QED
    BY <1>2, <2>1, LineStands DEF LineInv, GuardInv, Under
<1>3. CASE (In("guard") \/ command = NoCommand) /\ GuardNext /\ UNCHANGED <<line, loader>>
  <2>1. UNCHANGED stage
    BY <1>3 DEF loader
  <2>2. GuardInv' /\ (place = "accepted" => UNCHANGED <<roots, place, walk>>)
    BY <1>3, GuardKeeps DEF LineInv
  <2>3. exit \in {"running", "success"} /\ Past("guard") => place = "accepted"
    BY DEF LineInv, CallsInv
  <2> QED
    BY <1>3, <2>1, <2>2, <2>3, LineStands
<1>4. CASE (In("load") \/ command = NoCommand) /\ LoaderNext /\ UNCHANGED <<line, guard>>
  <2>1. UNCHANGED <<roots, place, walk>>
    BY <1>4 DEF guard
  <2>2. GuardInv'
    BY <2>1 DEF LineInv, GuardInv, Under
  <2>3. ~ (exit \in {"running", "success"} /\ Past("load"))
    <3> SUFFICES ASSUME exit \in {"running", "success"}, Past("load") PROVE FALSE
      OBVIOUS
    <3>1. In("load")
      BY <1>1, <1>4
    <3> QED
      BY <3>1, RunningFacts, PlanFacts DEF In, Past
  <2> QED
    BY <1>4, <2>1, <2>2, <2>3, LineStands
<1>5. CASE (\E p \in Places, node \in Nodes : Change(p, node)) /\ UNCHANGED <<line, loader>>
  <2>1. UNCHANGED stage
    BY <1>5 DEF loader
  <2>2. GuardInv' /\ UNCHANGED <<roots, place, walk>>
    BY <1>5, ChangeKeeps DEF LineInv
  <2> QED
    BY <1>5, <2>1, <2>2, LineStands
<1> QED
  BY <1>2, <1>3, <1>4, <1>5, LineNextKeeps, Steps

-----------------------------------------------------------------------------
(* The theorems about the command line.                                    *)

LEMMA LineAlways == Spec => []LineInv
BY LineInitInv, LineStepInv, PTL DEF Spec

\* For every tree and whatever others do to it: what the guard accepts is a
\* path inside a root, whether a command or another caller asked.
THEOREM GuardContains == Spec => []AcceptedIsInside
<1>1. LineInv => AcceptedIsInside
  BY DEF LineInv, GuardInv, AcceptedIsInside
<1> QED
  BY <1>1, LineAlways, PTL

\* For any number of invocations, trees, documents and failures: success means
\* that the path was accepted, the document loaded and the nonce spent.
THEOREM CommandsEarnSuccess == Spec => []SuccessIsEarned
<1>1. LineInv => SuccessIsEarned
  <2> SUFFICES ASSUME LineInv, exit = "success" PROVE SuccessIsEarned
    BY DEF SuccessIsEarned
  <2>1. /\ command \in Commands /\ position \in DOMAIN Plan[command]
        /\ Plan[command][position] = "print"
    BY DEF LineInv, LineTypeOK, CallsInv
  <2>2. command \in Guarded => Past("guard")
    BY <2>1, PlanFacts DEF Past
  <2>3. command \in Guarded \ {"path"} => Past("load")
    BY <2>1, PlanFacts DEF Past
  <2>4. command = "verify" => consumed # Never
    BY <2>1, PlanFacts DEF LineInv, NonceInv
  <2> QED
    BY <2>2, <2>3, <2>4 DEF SuccessIsEarned, LineInv, CallsInv, GuardInv
<1> QED
  BY <1>1, LineAlways, PTL

\* For any number of invocations one after another, databases, failures and
\* crashes, whatever is purged and whenever the receipt expires: a database lets
\* it be reported as verified once before the expiry and once after it at most.
THEOREM ReceiptsVerifyAgainOnlyAtExpiry == Spec => []VerifiedAgainOnlyAtExpiry
<1>1. LineInv => VerifiedAgainOnlyAtExpiry
  BY DEF LineInv, NonceInv
<1> QED
  BY <1>1, LineAlways, PTL

\* And an invocation that spent the nonce ends in an error only if its report
\* could not be written.
THEOREM SpendingIsLast == Spec => []SpentIsSuccessOrLost
<1>1. LineInv => SpentIsSuccessOrLost
  BY DEF LineInv, NonceInv
<1> QED
  BY <1>1, LineAlways, PTL

-----------------------------------------------------------------------------
(* Sequences from their beginnings.                                        *)

LEMMA AppendBeginnings ==
    ASSUME NEW S, NEW q \in Seq(S), NEW x \in S
    PROVE  /\ Append(q, x) \in Seq(S) /\ Len(Append(q, x)) = Len(q) + 1
           /\ \A n \in 0..Len(q) : SubSeq(Append(q, x), 1, n) = SubSeq(q, 1, n)
           /\ SubSeq(Append(q, x), 1, Len(q) + 1) = Append(q, x)
OBVIOUS

LEMMA SequenceIsWhole ==
    ASSUME NEW S, NEW q \in Seq(S)
    PROVE  /\ Len(q) \in Nat
           /\ SubSeq(q, 1, Len(q)) = q
           /\ Len(q) = 0 <=> q = <<>>
OBVIOUS

LEMMA BeginningFacts ==
    ASSUME NEW S, NEW q \in Seq(S), NEW n \in 0..Len(q)
    PROVE  /\ SubSeq(q, 1, n) \in Seq(S) /\ Len(SubSeq(q, 1, n)) = n
           /\ \A m \in 0..n : SubSeq(SubSeq(q, 1, n), 1, m) = SubSeq(q, 1, m)
OBVIOUS

LEMMA NextFacts ==
    ASSUME NEW S, NEW q \in Seq(S), NEW n \in 0..Len(q), n < Len(q)
    PROVE  /\ q[n + 1] \in S
           /\ SubSeq(q, n + 1, Len(q)) # <<>>
           /\ Head(SubSeq(q, n + 1, Len(q))) = q[n + 1]
           /\ Tail(SubSeq(q, n + 1, Len(q))) = SubSeq(q, n + 2, Len(q))
           /\ Append(SubSeq(q, 1, n), q[n + 1]) = SubSeq(q, 1, n + 1)
<1>1. Len(q) \in Nat /\ n \in Nat /\ n + 1 \in 1..Len(q) /\ q[n + 1] \in S
  OBVIOUS
<1>2. Head(SubSeq(q, n + 1, Len(q))) = q[n + 1] /\ Tail(SubSeq(q, n + 1, Len(q))) = SubSeq(q, n + 2, Len(q))
  <2>1. Len(q) \in (n + 1)..Len(q) /\ (n + 1) + 1 = n + 2
    BY <1>1
  <2> QED
    BY <1>1, <2>1, HeadTailOfSubSeq
<1>3. SubSeq(q, n + 1, Len(q)) # <<>>
  <2>1. Len(SubSeq(q, n + 1, Len(q))) = Len(q) - n /\ Len(q) - n # 0
    BY <1>1
  <2> QED
    BY <2>1
<1>4. Append(SubSeq(q, 1, n), q[n + 1]) = SubSeq(q, 1, n + 1)
  <2>1. n + 1 \in 1..(n + 1) /\ 1 \in 1..Len(q) /\ n + 1 \in 1..Len(q) /\ (n + 1) - 1 = n
    BY <1>1
  <2>2. SubSeq(q, 1, n + 1) = SubSeq(q, 1, n) \o <<q[n + 1]>>
    BY <2>1, SubSeqRecursiveSecond
  <2> QED
    BY <1>1, <2>2, AppendIsConcat
<1> QED
  BY <1>1, <1>2, <1>3, <1>4

LEMMA BeginningFrontLast ==
    ASSUME NEW S, NEW q \in Seq(S), q # <<>>
    PROVE  /\ Front(q) = SubSeq(q, 1, Len(q) - 1) /\ Front(q) \in Seq(S) /\ Len(Front(q)) = Len(q) - 1
           /\ Append(Front(q), Last(q)) = q
<1>1. Len(q) \in Nat \ {0}
  OBVIOUS
<1>2. Len(q) - 1 \in 0..Len(q) /\ Len(q) - 1 < Len(q) /\ (Len(q) - 1) + 1 = Len(q)
  BY <1>1
<1>3. SubSeq(q, 1, Len(q) - 1) \in Seq(S) /\ Len(SubSeq(q, 1, Len(q) - 1)) = Len(q) - 1
  BY <1>2, BeginningFacts
<1>4. Append(SubSeq(q, 1, Len(q) - 1), q[Len(q)]) = q
  BY <1>2, NextFacts, SequenceIsWhole
<1> QED
  BY <1>3, <1>4 DEF Front, Last

LEMMA PrefixIs ==
    ASSUME NEW S, NEW p \in Seq(S), NEW q \in Seq(S)
    PROVE  IsPrefix(p, q) <=> Len(p) <= Len(q) /\ \A n \in 0..Len(p) : SubSeq(p, 1, n) = SubSeq(q, 1, n)
BY DEF IsPrefix

-----------------------------------------------------------------------------
(* The walk along a path.                                                  *)

\* No part of q is a link.
Plain(q) == \A n \in 1..Len(q) : At(SubSeq(q, 1, n)).kind # "link"

\* What a walk can be: no link is left behind, and each name has been looked up.
Walks == { w \in [here : Paths, rest : Paths, steps : Nat] :
             Plain(w.here) /\ Len(w.here) <= w.steps }

LEMMA LinkLeads ==
    ASSUME tree \in Trees, NEW p, At(p).kind = "link"
    PROVE  At(p).to \in Paths
<1>1. p \in Places
  BY DEF At
<1>2. tree[p] \in Nodes /\ tree[p].kind = "link"
  BY <1>1 DEF At, Trees
<1>3. tree[p].to \in Places
  BY <1>2 DEF Nodes
<1> QED
  BY <1>1, <1>3, GuardAssumption DEF At

LEMMA FollowType ==
    ASSUME tree \in Trees, NEW w \in Walks, w.rest # <<>>
    PROVE  Follow(w) \in Walks /\ Follow(w).steps = w.steps + 1
<1>1. /\ w.here \in Seq(PathNames) /\ w.rest \in Seq(PathNames) /\ w.steps \in Nat
      /\ Plain(w.here) /\ Len(w.here) <= w.steps
  BY DEF Walks, Paths
<1>2. Head(w.rest) \in PathNames /\ Tail(w.rest) \in Seq(PathNames)
  BY <1>1, HeadTailProperties
<1> DEFINE next == Append(w.here, Head(w.rest))
<1>3. /\ next \in Seq(PathNames) /\ Len(next) = Len(w.here) + 1
      /\ \A n \in 0..Len(w.here) : SubSeq(next, 1, n) = SubSeq(w.here, 1, n)
      /\ SubSeq(next, 1, Len(w.here) + 1) = next
  BY <1>1, <1>2, AppendBeginnings
<1>4. CASE At(next).kind = "link"
  <2>1. Follow(w) = [here |-> <<>>, rest |-> At(next).to \o Tail(w.rest), steps |-> w.steps + 1]
    BY <1>4 DEF Follow
  <2>2. At(next).to \o Tail(w.rest) \in Seq(PathNames)
    BY <1>2, <1>4, LinkLeads, ConcatProperties DEF Paths
  <2>3. Plain(<<>>) /\ Len(<<>>) = 0 /\ <<>> \in Seq(PathNames)
    BY DEF Plain
  <2> QED
    BY <1>1, <2>1, <2>2, <2>3 DEF Walks, Paths
<1>5. CASE At(next).kind # "link"
  <2>1. Follow(w) = [here |-> next, rest |-> Tail(w.rest), steps |-> w.steps + 1]
    BY <1>5 DEF Follow
  <2>2. Plain(next)
    <3> SUFFICES ASSUME NEW n \in 1..Len(next) PROVE At(SubSeq(next, 1, n)).kind # "link"
      BY DEF Plain
    <3>1. n = Len(w.here) + 1 \/ n \in 1..Len(w.here)
      BY <1>1, <1>3
    <3>2. CASE n = Len(w.here) + 1
      <4> HIDE DEF next
      <4> QED
        BY <3>2, <1>3, <1>5
    <3>3. CASE n \in 1..Len(w.here)
      <4>1. SubSeq(next, 1, n) = SubSeq(w.here, 1, n)
        BY <1>3, <3>3
      <4> HIDE DEF next
      <4> QED
        BY <3>3, <4>1, <1>1 DEF Plain
    <3> HIDE DEF next
    <3> QED
      BY <3>1, <3>2, <3>3
  <2>3. Len(next) <= w.steps + 1
    BY <1>1, <1>3
  <2>4. w.steps + 1 \in Nat
    BY <1>1
  <2> HIDE DEF next
  <2> QED
    BY <1>2, <1>3, <2>1, <2>2, <2>3, <2>4 DEF Walks, Paths
<1> QED
  BY <1>4, <1>5

LEMMA BegunType ==
    ASSUME NEW p \in Paths
    PROVE  Begun(p) \in Walks
<1>1. Plain(<<>>) /\ Len(<<>>) = 0 /\ <<>> \in Paths
  BY DEF Plain, Paths
<1> QED
  BY <1>1 DEF Begun, Walks

\* The walk along a path has the values that its definition gives it.
LEMMA AfterIs ==
    ASSUME tree \in Trees, NEW p \in Paths
    PROVE  /\ After(p)[0] = Begun(p)
           /\ \A n \in 1..MaxSteps : After(p)[n] = Onward(After(p)[n - 1])
<1> DEFINE onward == [n \in 1..MaxSteps |-> [w \in Walks |-> Onward(w)]]
<1>1. MaxSteps \in Nat /\ Begun(p) \in Walks
  BY GuardAssumption, BegunType
<1>2. onward \in [1..MaxSteps -> [Walks -> Walks]]
  BY FollowType DEF Onward
<1>3. PICK f \in [0..MaxSteps -> Walks] :
             f[0] = Begun(p) /\ \A n \in 1..MaxSteps : f[n] = onward[n][f[n - 1]]
  <2> HIDE DEF onward
  <2>1. Iterated(Walks, Begun(p), MaxSteps, onward)
    BY <1>1, <1>2, StepsHaveFunction
  <2> QED
    BY <2>1 DEF Iterated
<1>4. \A n \in 0..MaxSteps : n # 0 => n \in 1..MaxSteps /\ n - 1 \in 0..MaxSteps
  BY <1>1
<1>5. \A n \in 0..MaxSteps : n # 0 => onward[n][f[n - 1]] = Onward(f[n - 1])
  BY <1>3, <1>4
<1>6. f = [n \in 0..MaxSteps |-> IF n = 0 THEN Begun(p) ELSE Onward(f[n - 1])]
  <2> HIDE DEF onward
  <2> QED
    BY <1>3, <1>4, <1>5
<1>7. After(p) = [n \in 0..MaxSteps |-> IF n = 0 THEN Begun(p) ELSE Onward(After(p)[n - 1])]
  BY <1>6 DEF After
<1>8. 0 \in 0..MaxSteps /\ \A n \in 1..MaxSteps : n \in 0..MaxSteps /\ n # 0
  BY <1>1
<1> QED
  BY <1>7, <1>8

LEMMA AfterType ==
    ASSUME tree \in Trees, NEW p \in Paths, NEW n \in 0..MaxSteps
    PROVE  After(p)[n] \in Walks /\ After(p)[n].steps <= n
<1> DEFINE S == { m \in Nat : m <= MaxSteps => After(p)[m] \in Walks /\ After(p)[m].steps <= m }
<1>1. 0 \in S
  <2>1. Begun(p).steps = 0
    BY DEF Begun
  <2> QED
    BY <2>1, AfterIs, BegunType
<1>2. ASSUME NEW m \in Nat, m \in S PROVE m + 1 \in S
  <2> SUFFICES ASSUME m + 1 <= MaxSteps
               PROVE  After(p)[m + 1] \in Walks /\ After(p)[m + 1].steps <= m + 1
    OBVIOUS
  <2>1. m <= MaxSteps /\ m + 1 \in 1..MaxSteps /\ (m + 1) - 1 = m
    BY GuardAssumption
  <2>2. After(p)[m] \in Walks /\ After(p)[m].steps <= m
    BY <1>2, <2>1
  <2>3. After(p)[m + 1] = Onward(After(p)[m])
    BY <2>1, AfterIs
  <2>4. After(p)[m].steps \in Nat
    BY <2>2 DEF Walks
  <2> QED
    BY <2>2, <2>3, <2>4, FollowType DEF Onward
<1>3. \A m \in Nat : m \in S
  <2> HIDE DEF S
  <2> QED
    BY <1>1, <1>2, SetInduction
<1>4. n \in Nat /\ n <= MaxSteps
  BY GuardAssumption
<1> QED
  BY <1>3, <1>4

\* Once nothing is left, the walk stands still.
LEMMA WalkRests ==
    ASSUME tree \in Trees, NEW p \in Paths, NEW n \in 0..MaxSteps, After(p)[n].rest = <<>>
    PROVE  Walked(p) = After(p)[n]
<1> DEFINE S == { m \in Nat : n + m <= MaxSteps => After(p)[n + m] = After(p)[n] }
<1>1. 0 \in S
  <2>1. n + 0 = n
    BY GuardAssumption
  <2> QED
    BY <2>1
<1>2. ASSUME NEW m \in Nat, m \in S PROVE m + 1 \in S
  <2> SUFFICES ASSUME n + (m + 1) <= MaxSteps PROVE After(p)[n + (m + 1)] = After(p)[n]
    OBVIOUS
  <2>1. n + m <= MaxSteps /\ n + (m + 1) \in 1..MaxSteps /\ (n + (m + 1)) - 1 = n + m
    BY GuardAssumption
  <2>2. After(p)[n + (m + 1)] = Onward(After(p)[n + m])
    BY <2>1, AfterIs
  <2> QED
    BY <1>2, <2>1, <2>2 DEF Onward
<1>3. \A m \in Nat : m \in S
  <2> HIDE DEF S
  <2> QED
    BY <1>1, <1>2, SetInduction
<1>4. MaxSteps - n \in Nat /\ n + (MaxSteps - n) = MaxSteps
  BY GuardAssumption
<1>5. \A m \in Nat : m = MaxSteps - n => After(p)[n + m] = After(p)[n]
  BY <1>3, <1>4
<1> QED
  BY <1>4, <1>5 DEF Walked

\* As far as a path has no link on it, it is walked along as it is written.
LEMMA PlainAfter ==
    ASSUME tree \in Trees, NEW p \in Paths, NEW m \in 0..MaxSteps, m <= Len(p), Plain(SubSeq(p, 1, m))
    PROVE  After(p)[m] = [here |-> SubSeq(p, 1, m), rest |-> SubSeq(p, m + 1, Len(p)), steps |-> m]
<1> DEFINE Here(k) == [here |-> SubSeq(p, 1, k), rest |-> SubSeq(p, k + 1, Len(p)), steps |-> k]
           S == { k \in Nat : k <= m => After(p)[k] = Here(k) }
<1>0. p \in Seq(PathNames) /\ Len(p) \in Nat /\ m \in Nat /\ m <= MaxSteps /\ MaxSteps \in Nat
  BY GuardAssumption DEF Paths
<1>1. 0 \in S
  <2>1. SubSeq(p, 1, 0) = <<>> /\ SubSeq(p, 0 + 1, Len(p)) = p
    BY <1>0
  <2> QED
    BY <2>1, AfterIs DEF Begun
<1>2. ASSUME NEW k \in Nat, k \in S PROVE k + 1 \in S
  <2> SUFFICES ASSUME k + 1 <= m PROVE After(p)[k + 1] = Here(k + 1)
    OBVIOUS
  <2>1. k <= m /\ k + 1 \in 1..MaxSteps /\ (k + 1) - 1 = k /\ k \in 0..Len(p) /\ k < Len(p)
        /\ (k + 1) + 1 = k + 2 /\ k + 1 \in 1..m /\ m \in 0..Len(p) /\ k + 1 \in 0..m
    BY <1>0
  <2>2. After(p)[k + 1] = Onward(Here(k))
    BY <2>1, <1>2, AfterIs
  <2>3. /\ SubSeq(p, k + 1, Len(p)) # <<>>
        /\ Head(SubSeq(p, k + 1, Len(p))) = p[k + 1]
        /\ Tail(SubSeq(p, k + 1, Len(p))) = SubSeq(p, (k + 1) + 1, Len(p))
        /\ Append(SubSeq(p, 1, k), p[k + 1]) = SubSeq(p, 1, k + 1)
    BY <1>0, <2>1, NextFacts
  <2>4. At(SubSeq(p, 1, k + 1)).kind # "link"
    <3>1. SubSeq(SubSeq(p, 1, m), 1, k + 1) = SubSeq(p, 1, k + 1) /\ Len(SubSeq(p, 1, m)) = m
      BY <1>0, <2>1, BeginningFacts
    <3> QED
      BY <2>1, <3>1 DEF Plain
  <2>5. Onward(Here(k)) = Here(k + 1)
    BY <2>3, <2>4 DEF Onward, Follow
  <2> QED
    BY <2>2, <2>5
<1>3. m \in S
  <2> HIDE DEF S
  <2>1. \A k \in Nat : k \in S
    BY <1>1, <1>2, SetInduction
  <2> QED
    BY <1>0, <2>1
<1>4. m <= m
  BY <1>0
<1>5. After(p)[m] = Here(m)
  <2> HIDE DEF Here
  <2> QED
    BY <1>3, <1>4
<1> QED
  BY <1>5

LEMMA PlainWalk ==
    ASSUME tree \in Trees, NEW p \in Paths, Plain(p), Len(p) <= MaxSteps
    PROVE  Walked(p) = [here |-> p, rest |-> <<>>, steps |-> Len(p)]
<1>1. p \in Seq(PathNames) /\ Len(p) \in 0..MaxSteps /\ SubSeq(p, 1, Len(p)) = p
      /\ SubSeq(p, Len(p) + 1, Len(p)) = <<>>
  BY GuardAssumption DEF Paths
<1>2. PICK m \in 0..MaxSteps : m = Len(p)
  BY <1>1
<1>3. SubSeq(p, 1, m) = p /\ SubSeq(p, m + 1, Len(p)) = <<>> /\ m <= Len(p)
  BY <1>1, <1>2
<1>4. After(p)[m] = [here |-> p, rest |-> <<>>, steps |-> m]
  BY <1>3, PlainAfter
<1>5. After(p)[m].rest = <<>>
  BY <1>4
<1>6. Walked(p) = After(p)[m]
  BY <1>5, WalkRests
<1> QED
  BY <1>2, <1>4, <1>6

\* At the end of a path that is plain up to there, a link is what it is.
LEMMA PlainLink ==
    ASSUME tree \in Trees, NEW p \in Paths, p # <<>>, Plain(Front(p)), Len(p) <= MaxSteps + 1
    PROVE  IsLink(p) <=> At(p).kind = "link"
<1>1. Front(p) \in Paths /\ Len(Front(p)) = Len(p) - 1 /\ Append(Front(p), Last(p)) = p
  BY BeginningFrontLast DEF Paths
<1>2. Len(Front(p)) <= MaxSteps
  BY <1>1, GuardAssumption DEF Paths
<1>3. Walked(Front(p)) = [here |-> Front(p), rest |-> <<>>, steps |-> Len(Front(p))]
  BY <1>1, <1>2, PlainWalk
<1>4. Walked(Front(p)).rest = <<>> /\ Real(Front(p)) = Front(p)
  BY <1>3 DEF Real
<1> QED
  BY <1>1, <1>4 DEF IsLink

\* A path of which no part is a link for the guard is plain, up to the bound.
LEMMA LinklessIsPlain ==
    ASSUME tree \in Trees, NEW p \in Paths, NEW m \in 0..Len(p), m <= MaxSteps + 1,
           \A n \in 1..m : ~ IsLink(SubSeq(p, 1, n))
    PROVE  Plain(SubSeq(p, 1, m))
<1> DEFINE S == { k \in Nat : k <= m => Plain(SubSeq(p, 1, k)) }
<1>0. p \in Seq(PathNames) /\ Len(p) \in Nat /\ m \in Nat /\ m <= Len(p) /\ MaxSteps \in Nat
  BY GuardAssumption DEF Paths
<1>1. 0 \in S
  <2>1. Len(SubSeq(p, 1, 0)) = 0
    BY <1>0
  <2> QED
    BY <2>1 DEF Plain
<1>2. ASSUME NEW k \in Nat, k \in S PROVE k + 1 \in S
  <2> SUFFICES ASSUME k + 1 <= m PROVE Plain(SubSeq(p, 1, k + 1))
    OBVIOUS
  <2> DEFINE q == SubSeq(p, 1, k + 1)
  <2>1. k + 1 \in 0..Len(p) /\ k \in 0..(k + 1) /\ k + 1 \in 1..m /\ k <= m /\ k + 1 <= MaxSteps + 1
    BY <1>0
  <2>2. q \in Seq(PathNames) /\ Len(q) = k + 1 /\ \A n \in 0..(k + 1) : SubSeq(q, 1, n) = SubSeq(p, 1, n)
    BY <1>0, <2>1, BeginningFacts
  <2>3. Front(q) = SubSeq(p, 1, k) /\ q # <<>>
    <3>1. q # <<>>
      BY <2>2
    <3>2. Len(q) - 1 = k
      BY <2>2
    <3>3. Front(q) = SubSeq(q, 1, k)
      <4> HIDE DEF q
      <4> QED
        BY <2>2, <3>1, <3>2, BeginningFrontLast
    <3> QED
      BY <2>1, <2>2, <3>1, <3>3
  <2>4. Plain(Front(q)) /\ ~ IsLink(q)
    BY <1>2, <2>1, <2>3
  <2>5. At(q).kind # "link"
    <3> HIDE DEF q
    <3> QED
      BY <2>1, <2>2, <2>3, <2>4, PlainLink DEF Paths
  <2>6. \A n \in 1..k : SubSeq(q, 1, n) = SubSeq(SubSeq(p, 1, k), 1, n)
    <3>1. k \in 0..Len(p) /\ \A n \in 1..k : n \in 0..k /\ n \in 0..(k + 1)
      BY <1>0, <2>1
    <3> QED
      BY <1>0, <2>2, <3>1, BeginningFacts
  <2>7. SubSeq(q, 1, k + 1) = q /\ Len(SubSeq(p, 1, k)) = k
    BY <1>0, <2>1
  <2> SUFFICES ASSUME NEW n \in 1..(k + 1) PROVE At(SubSeq(q, 1, n)).kind # "link"
    BY <2>2 DEF Plain
  <2>8. n = k + 1 \/ n \in 1..k
    OBVIOUS
  <2>9. Plain(SubSeq(p, 1, k))
    BY <2>3, <2>4
  <2>10. CASE n \in 1..k
    BY <2>10, <2>6, <2>7, <2>9 DEF Plain
  <2> HIDE DEF q
  <2> QED
    BY <2>5, <2>7, <2>8, <2>10
<1>3. \A k \in Nat : k \in S
  <2> HIDE DEF S
  <2> QED
    BY <1>1, <1>2, SetInduction
<1> QED
  BY <1>0, <1>3

\* What is normal is a path without "..".
LEMMA NormalType ==
    ASSUME NEW p \in Paths
    PROVE  Normal(p) \in Seq(PathNames \ {Up})
<1> DEFINE W == Seq(PathNames \ {Up})
           max == Len(p)
           Onto(q, name) == IF name # Up THEN Append(q, name) ELSE IF q = <<>> THEN <<>> ELSE Front(q)
           onward == [n \in 1..max |-> [q \in W |-> Onto(q, p[n])]]
           Rule(f) == [n \in 0..max |-> IF n = 0 THEN <<>> ELSE Onto(f[n - 1], p[n])]
           normal == CHOOSE f : f = Rule(f)
<1>1. max \in Nat /\ <<>> \in W /\ \A n \in 1..max : p[n] \in PathNames
  BY DEF Paths
<1>2. ASSUME NEW q \in W, NEW name \in PathNames PROVE Onto(q, name) \in W
  <2>1. CASE name # Up
    BY <2>1
  <2>2. CASE q # <<>>
    BY <2>2, BeginningFrontLast
  <2> QED
    BY <1>1, <2>1, <2>2
<1>3. onward \in [1..max -> [W -> W]]
  <2> HIDE DEF W, Onto, max
  <2> QED
    BY <1>1, <1>2
<1>4. \E f \in [0..max -> W] : f[0] = <<>> /\ \A n \in 1..max : f[n] = onward[n][f[n - 1]]
  <2> HIDE DEF W, max, onward
  <2>1. Iterated(W, <<>>, max, onward)
    BY <1>1, <1>3, StepsHaveFunction
  <2> QED
    BY <2>1 DEF Iterated
<1>0. \A n \in 1..max, q \in W : onward[n][q] = Onto(q, p[n])
  <2> HIDE DEF W, Onto, max
  <2> QED
    OBVIOUS
<1>5. PICK f \in [0..max -> W] : f[0] = <<>> /\ \A n \in 1..max : f[n] = Onto(f[n - 1], p[n])
  <2>1. \A n \in 1..max : n - 1 \in 0..max
    BY <1>1
  <2>2. PICK f \in [0..max -> W] : f[0] = <<>> /\ \A n \in 1..max : f[n] = onward[n][f[n - 1]]
    BY <1>4
  <2>3. \A n \in 1..max : onward[n][f[n - 1]] = Onto(f[n - 1], p[n])
    <3> HIDE DEF W, Onto, max, onward
    <3> QED
      BY <1>0, <2>1, <2>2
  <2> QED
    BY <2>2, <2>3
<1>6. f = Rule(f)
  <2>1. \A n \in 0..max : n # 0 => n \in 1..max
    BY <1>1
  <2> HIDE DEF W, Onto, max
  <2> QED
    BY <1>5, <2>1
<1>7. normal = Rule(normal)
  <2> HIDE DEF Rule
  <2> QED
    BY <1>6
<1>8. normal[0] = <<>> /\ \A n \in 1..max : normal[n] = Onto(normal[n - 1], p[n])
  <2>1. 0 \in 0..max /\ \A n \in 1..max : n \in 0..max /\ n # 0
    BY <1>1
  <2> HIDE DEF W, Onto, max, normal
  <2> QED
    BY <1>7, <2>1
<1> DEFINE S == { n \in Nat : n <= max => normal[n] \in W }
<1>9. \A n \in Nat : n \in S
  <2>1. 0 \in S
    BY <1>1, <1>8
  <2>2. ASSUME NEW n \in Nat, n \in S PROVE n + 1 \in S
    <3> SUFFICES ASSUME n + 1 <= max PROVE normal[n + 1] \in W
      OBVIOUS
    <3>1. n <= max /\ n + 1 \in 1..max /\ (n + 1) - 1 = n
      BY <1>1
    <3> HIDE DEF W, Onto, max, normal
    <3> QED
      BY <1>1, <1>2, <1>8, <2>2, <3>1
  <2> HIDE DEF S
  <2> QED
    BY <2>1, <2>2, SetInduction
<1>10. normal[max] \in W
  <2> HIDE DEF normal, W, max
  <2> QED
    BY <1>1, <1>9
<1>11. Normal(p) = normal[max]
  BY DEF Normal
<1> QED
  BY <1>10, <1>11

\* Where links and missing names are, as seen by the guard, depends on the
\* tree alone.
LEMMA TreeDecides ==
    ASSUME UNCHANGED tree
    PROVE  \A p : /\ After(p)' = After(p) /\ Walked(p)' = Walked(p) /\ Real(p)' = Real(p)
                  /\ Exists(p)' = Exists(p) /\ IsLink(p)' = IsLink(p) /\ Plain(p)' = Plain(p)
<1>1. \A p : At(p)' = At(p)
  BY DEF At
<1>2. ASSUME NEW p PROVE After(p)' = After(p)
  BY DEF After, Onward, Follow, At
<1>3. ASSUME NEW p PROVE Walked(p)' = Walked(p) /\ Real(p)' = Real(p)
  BY <1>2 DEF Walked, Real
<1>4. ASSUME NEW p PROVE Exists(p)' = Exists(p)
  BY <1>1, <1>3 DEF Exists
<1>5. ASSUME NEW p PROVE IsLink(p)' = IsLink(p)
  BY <1>1, <1>3 DEF IsLink
<1>6. ASSUME NEW p PROVE Plain(p)' = Plain(p)
  BY <1>1 DEF Plain
<1> QED
  BY <1>2, <1>3, <1>4, <1>5, <1>6

-----------------------------------------------------------------------------
(* The guard in a tree that nobody else touches.                           *)

Settled == {"links", "exist", "accepted", "outside", "link", "missing"}

\* The walk is the one along absolute, and has come to its end once the
\* guard has looked for a root.
Tracked ==
    /\ place = "walk" => walk = After(absolute)[walk.steps]
    /\ place = "loop" => walk = Walked(absolute) /\ walk.rest # <<>>
    /\ place \in Settled => Walked(absolute) = [here |-> walk.here, rest |-> <<>>, steps |-> walk.steps]

\* No link is left on the roots.
RootsArePlain ==
    \A i \in DOMAIN roots : Plain(roots[i]) /\ Len(roots[i]) <= MaxSteps

Unlinked(n) == LET p == SubSeq(absolute, 1, n) IN ~ (Exists(p) /\ IsLink(p))

\* Of what is written below the root, what has been looked at.
LookedAt ==
    /\ place = "links" =>
         /\ Len(Root) + Len(walk.rest) <= Len(absolute)
         /\ \A n \in (Len(Root) + 1)..(Len(absolute) - Len(walk.rest)) : Unlinked(n)
    /\ place \in {"exist", "accepted"} /\ IsPrefix(Root, absolute) =>
         \A n \in (Len(Root) + 1)..Len(absolute) : Unlinked(n)
    /\ place = "link" => \E p \in Beginnings(absolute) : IsLink(p)

Judged ==
    /\ place = "root" => Exists(Head(allowed))
    /\ place = "outside" => Containing = {}
    /\ place = "accepted" /\ asked.exists => Exists(walk.here)
    /\ place = "missing" => ~ Exists(walk.here)

TrackInv == GuardTypeOK /\ GuardInv /\ (Still => Tracked /\ RootsArePlain /\ LookedAt /\ Judged)

LEMMA LeastExists ==
    ASSUME NEW S, S \subseteq Nat, S # {}
    PROVE  \E x \in S : \A y \in S : x <= y
<1> DEFINE T == { n \in Nat : \A y \in S : n <= y }
<1> SUFFICES ASSUME \A x \in S : \E y \in S : ~ (x <= y) PROVE FALSE
  OBVIOUS
<1>1. 0 \in T
  OBVIOUS
<1>2. ASSUME NEW n \in Nat, n \in T PROVE n + 1 \in T
  <2>1. n \notin S
    BY <1>2
  <2>2. \A y \in S : y \in Nat /\ n <= y /\ n # y
    BY <1>2, <2>1
  <2> QED
    BY <2>2
<1>3. \A n \in Nat : n \in T
  <2> HIDE DEF T
  <2> QED
    BY <1>1, <1>2, SetInduction
<1>4. PICK x \in S : x \in Nat
  OBVIOUS
<1>5. x + 1 \in T
  BY <1>3, <1>4
<1> QED
  BY <1>4, <1>5

LEMMA RootIs ==
    ASSUME GuardTypeOK, \E i \in DOMAIN roots : Under(i, walk.here)
    PROVE  \E i \in DOMAIN roots : Root = roots[i] /\ roots[i] \in Paths /\ Under(i, walk.here)
<1>1. Containing # {} /\ Containing \subseteq DOMAIN roots /\ DOMAIN roots \subseteq Nat
  BY DEF Containing, GuardTypeOK
<1>2. \E i \in Containing : \A j \in Containing : i <= j
  BY <1>1, LeastExists
<1>3. PICK i \in Containing : Root = roots[i]
  BY <1>2 DEF Root
<1> QED
  BY <1>1, <1>3 DEF Containing, GuardTypeOK

LEMMA GuardSteps ==
    [Next]_vars =>
      UNCHANGED guard \/ GuardNext \/ \E c \in Commands, d \in Databases, a \in Arguments : Invoke(c, d, a)
BY DEF Next, vars, CommandStep, CommandNext, LineNext, ReturnFromGuard, ReturnFromLoad, ReturnFromCall,
       CheckReceipt, Consume, PrintSuccess, PrintError, Die, Expire, Purge, GuardStep, GuardNext,
       LoaderStep, MergerStep, CheckerStep, KnowledgeStep, ProbeStep, AccessStep, RegistriesStep

LEMMA TrackStands ==
    ASSUME TrackInv, UNCHANGED guard
    PROVE  TrackInv'
<1>1. GuardTypeOK' /\ GuardInv'
  <2>1. GuardTypeOK'
    BY DEF TrackInv, GuardTypeOK, guard
  <2>2. GuardInv'
    BY DEF TrackInv, GuardInv, guard, Under
  <2> QED
    BY <2>1, <2>2
<1>2. SUFFICES ASSUME Still PROVE Tracked' /\ RootsArePlain' /\ LookedAt' /\ Judged'
  <2>1. Still' => Still
    BY DEF Still, guard
  <2> QED
    BY <1>1, <2>1 DEF TrackInv
<1>3. Tracked'
  <2>1. After(absolute)' = After(absolute) /\ Walked(absolute)' = Walked(absolute)
    BY DEF guard, Walked, After, Onward, Follow, At
  <2> QED
    BY <1>2, <2>1 DEF TrackInv, guard, Tracked
<1>4. RootsArePlain'
  BY <1>2, TreeDecides DEF TrackInv, guard, RootsArePlain
<1>5. Root' = Root /\ Containing' = Containing
  BY DEF Root, Containing, Under, guard
<1>6. LookedAt'
  <2>1. \A n : Unlinked(n)' = Unlinked(n)
    BY DEF guard, Unlinked, Exists, IsLink, Real, Walked, After, Onward, Follow, At
  <2>2. Beginnings(absolute)' = Beginnings(absolute)
    BY DEF guard, Beginnings
  <2> QED
    BY <1>2, <1>5, <2>1, <2>2, TreeDecides DEF TrackInv, guard, LookedAt
<1>7. Judged'
  <2>1. Exists(walk.here)' = Exists(walk.here) /\ Exists(Head(allowed))' = Exists(Head(allowed))
    BY DEF guard, Exists, Real, Walked, After, Onward, Follow, At
  <2> QED
    BY <1>2, <1>5, <2>1 DEF TrackInv, guard, Judged
<1> QED
  BY <1>3, <1>4, <1>6, <1>7

LEMMA RealType ==
    ASSUME tree \in Trees, NEW p \in Paths
    PROVE  /\ Walked(p) \in Walks /\ Walked(p).steps <= MaxSteps
           /\ Real(p) \in Paths /\ Plain(Real(p)) /\ Len(Real(p)) <= MaxSteps
<1>1. MaxSteps \in 0..MaxSteps
  BY GuardAssumption
<1>2. Walked(p) \in Walks /\ Walked(p).steps <= MaxSteps
  BY <1>1, AfterType DEF Walked
<1>3. Real(p) \in Paths /\ Plain(Real(p)) /\ Len(Real(p)) <= Walked(p).steps /\ Walked(p).steps \in Nat
  BY <1>2 DEF Walks, Real
<1>4. Len(Real(p)) \in Nat
  BY <1>3 DEF Paths
<1> QED
  BY <1>2, <1>3, <1>4, GuardAssumption

\* A change leaves what is somewhere in a directory.
LEMMA ChangeKeepsTrees ==
    ASSUME tree \in Trees, NEW p \in Places, NEW node \in Nodes, Change(p, node)
    PROVE  tree' \in Trees
<1>1. /\ tree' = [tree EXCEPT ![p] = node] /\ At(Front(p)).kind = "dir"
      /\ \A q \in Places : Front(q) = p => tree[q].kind = "none"
  BY DEF Change
<1>2. tree \in [Places -> Nodes] /\ tree' \in [Places -> Nodes]
  BY <1>1 DEF Trees
<1>3. SUFFICES ASSUME NEW q \in Places, tree'[q].kind # "none" /\ Len(q) > 1
               PROVE  Front(q) \in Places /\ tree'[Front(q)].kind = "dir"
  BY <1>2 DEF Trees
<1>4. q \in Seq(PathNames) /\ q # <<>> /\ Len(q) \in Nat
  BY GuardAssumption DEF Paths
<1>5. Len(Front(q)) = Len(q) - 1 /\ Front(q) # q /\ Front(q) # <<>>
  BY <1>3, <1>4, BeginningFrontLast
<1>6. CASE q = p
  <2>1. Front(q) \in Places /\ tree[Front(q)].kind = "dir"
    BY <1>1, <1>5, <1>6 DEF At
  <2> QED
    BY <1>1, <1>2, <1>5, <1>6, <2>1
<1>7. CASE q # p
  <2>1. tree'[q] = tree[q]
    BY <1>1, <1>2, <1>7
  <2>2. Front(q) \in Places /\ tree[Front(q)].kind = "dir" /\ Front(q) # p
    BY <1>1, <1>3, <2>1 DEF Trees
  <2> QED
    BY <1>1, <1>2, <2>2
<1> QED
  BY <1>6, <1>7

LEMMA GuardTypeKeeps ==
    ASSUME GuardTypeOK, GuardNext
    PROVE  GuardTypeOK'
<1>0. /\ tree \in Trees /\ allowed \in Seq(Paths) /\ (place = "root" => allowed # <<>>)
      /\ roots \in Seq(Paths) /\ asked \in Asked /\ absolute \in Paths
      /\ walk \in [here : Paths, rest : Paths, steps : 0..MaxSteps]
      /\ place \in GuardPlaces \cup GuardRefusals /\ changes \in 0..MaxChanges /\ touched \in BOOLEAN
  BY DEF GuardTypeOK
<1>1. CASE Construct
  BY <1>0, <1>1 DEF Construct, GuardTypeOK, Goto, GuardPlaces, GuardRefusals
<1>8. CASE ResolveRoot
  <2>1. /\ place = "root" /\ place' \in {"construct", "bad_root", "loop"}
        /\ UNCHANGED <<tree, asked, absolute, walk, changes, touched>>
    BY <1>8 DEF ResolveRoot, Goto
  <2>2. allowed' \in Seq(Paths) /\ roots' \in Seq(Paths)
    <3>1. CASE UNCHANGED <<allowed, roots>>
      BY <3>1, <1>0
    <3>2. CASE roots' = Append(roots, Real(Head(allowed))) /\ allowed' = Tail(allowed)
      <4>1. Head(allowed) \in Paths /\ Tail(allowed) \in Seq(Paths)
        BY <1>0, <2>1, HeadTailProperties
      <4>2. Real(Head(allowed)) \in Paths
        BY <1>0, <4>1, RealType
      <4> QED
        BY <1>0, <3>2, <4>1, <4>2, AppendProperties
    <3> QED
      BY <1>8, <3>1, <3>2 DEF ResolveRoot
  <2> QED
    BY <1>0, <2>1, <2>2 DEF GuardTypeOK, GuardPlaces, GuardRefusals
<1>2. CASE Begin
  <2>1. CASE Unsound # "none"
    BY <1>0, <1>2, <2>1 DEF Begin, GuardTypeOK, Goto, Unsound, GuardPlaces, GuardRefusals
  <2>2. CASE Unsound = "none"
    <3> DEFINE p == (IF asked.form = "relative" THEN Real(asked.base) ELSE <<>>) \o asked.names
    <3>1. absolute' = Normal(p) /\ walk' = Begun(absolute') /\ place' = "walk"
          /\ UNCHANGED <<tree, allowed, roots, asked, changes, touched>>
      BY <1>2, <2>2 DEF Begin, Goto
    <3>2. asked.base \in Paths /\ asked.names \in Paths
      BY <1>0 DEF Asked
    <3>3. p \in Paths
      BY <1>0, <3>2, RealType, ConcatProperties DEF Paths
    <3>4. absolute' \in Paths
      <4>1. Normal(p) \in Paths
        <5> HIDE DEF p
        <5>1. Normal(p) \in Seq(PathNames \ {Up})
          BY <3>3, NormalType
        <5> QED
          BY <5>1, SeqMonotonic DEF Paths
      <4> QED
        BY <3>1, <4>1
    <3>5. walk' \in [here : Paths, rest : Paths, steps : 0..MaxSteps]
      BY <3>1, <3>4, GuardAssumption DEF Begun, Paths
    <3> HIDE DEF p
    <3> QED
      BY <1>0, <3>1, <3>4, <3>5 DEF GuardTypeOK, GuardPlaces
  <2> QED
    BY <2>1, <2>2
<1>3. CASE Step
  <2>1. CASE walk.steps = MaxSteps
    BY <1>0, <1>3, <2>1 DEF Step, GuardTypeOK, Goto, GuardPlaces
  <2>2. CASE walk.steps # MaxSteps
    <3>1. walk' = Follow(walk) /\ walk.rest # <<>>
          /\ UNCHANGED <<tree, allowed, roots, asked, place, absolute, changes, touched>>
      BY <1>3, <2>2 DEF Step
    <3>2. walk.steps \in Nat /\ walk.steps + 1 \in 0..MaxSteps /\ walk.here \in Seq(PathNames) /\ walk.rest \in Seq(PathNames)
      BY <1>0, <2>2, GuardAssumption DEF Paths
    <3>3. Head(walk.rest) \in PathNames /\ Tail(walk.rest) \in Seq(PathNames)
      BY <3>1, <3>2, HeadTailProperties
    <3> DEFINE next == Append(walk.here, Head(walk.rest))
    <3>4. next \in Seq(PathNames)
      BY <3>2, <3>3, AppendProperties
    <3>5. CASE At(next).kind = "link"
      <4>1. Follow(walk) = [here |-> <<>>, rest |-> At(next).to \o Tail(walk.rest), steps |-> walk.steps + 1]
        BY <3>5 DEF Follow
      <4>2. At(next).to \o Tail(walk.rest) \in Seq(PathNames)
        BY <1>0, <3>3, <3>5, LinkLeads, ConcatProperties DEF Paths
      <4>3. walk' \in [here : Paths, rest : Paths, steps : 0..MaxSteps]
        BY <3>1, <3>2, <4>1, <4>2 DEF Paths
      <4> QED
        BY <1>0, <3>1, <4>3 DEF GuardTypeOK
    <3>6. CASE At(next).kind # "link"
      <4>1. Follow(walk) = [here |-> next, rest |-> Tail(walk.rest), steps |-> walk.steps + 1]
        BY <3>6 DEF Follow
      <4>2. walk' \in [here : Paths, rest : Paths, steps : 0..MaxSteps]
        <5> HIDE DEF next
        <5> QED
          BY <3>1, <3>2, <3>3, <3>4, <4>1 DEF Paths
      <4> QED
        BY <1>0, <3>1, <4>2 DEF GuardTypeOK
    <3> QED
      BY <3>5, <3>6
  <2> QED
    BY <2>1, <2>2
<1>4. CASE Contain
  <2>1. walk' \in [here : Paths, rest : Paths, steps : 0..MaxSteps]
    <3>1. CASE UNCHANGED walk
      BY <1>0, <3>1
    <3>2. CASE ~ (UNCHANGED walk)
      <4>1. walk' = [walk EXCEPT !.rest = SubSeq(absolute, Len(Root) + 1, Len(absolute))]
            /\ Containing # {}
        BY <1>4, <3>2 DEF Contain
      <4>2. Root \in Paths
        BY <4>1, RootIs DEF Containing
      <4>3. SubSeq(absolute, Len(Root) + 1, Len(absolute)) \in Paths
        BY <1>0, <4>2 DEF Paths
      <4> QED
        BY <1>0, <4>1, <4>3
    <3> QED
      BY <3>1, <3>2
  <2> QED
    BY <1>0, <1>4, <2>1 DEF Contain, GuardTypeOK, Goto, GuardPlaces, GuardRefusals
<1>5. CASE Look
  <2>1. walk' \in [here : Paths, rest : Paths, steps : 0..MaxSteps]
    <3>1. CASE UNCHANGED walk
      BY <1>0, <3>1
    <3>2. CASE walk' = [walk EXCEPT !.rest = Tail(@)] /\ walk.rest # <<>>
      <4>1. Tail(walk.rest) \in Paths
        BY <1>0, <3>2, HeadTailProperties DEF Paths
      <4> QED
        BY <1>0, <3>2, <4>1
    <3> QED
      BY <1>5, <3>1, <3>2 DEF Look
  <2> QED
    BY <1>0, <1>5, <2>1 DEF Look, GuardTypeOK, Goto, GuardPlaces, GuardRefusals
<1>6. CASE ReturnPath
  BY <1>0, <1>6 DEF ReturnPath, GuardTypeOK, Goto, GuardPlaces, GuardRefusals
<1>7. CASE \E p \in Places, node \in Nodes : Change(p, node)
  <2>1. PICK p \in Places, node \in Nodes : Change(p, node)
    BY <1>7
  <2>2. tree' \in Trees
    BY <1>0, <2>1, ChangeKeepsTrees
  <2>3. changes' \in 0..MaxChanges /\ touched' \in BOOLEAN
        /\ UNCHANGED <<allowed, roots, asked, place, absolute, walk>>
    BY <1>0, <2>1, GuardAssumption DEF Change
  <2> QED
    BY <1>0, <2>2, <2>3 DEF GuardTypeOK
<1> QED
  BY <1>1, <1>2, <1>3, <1>4, <1>5, <1>6, <1>7, <1>8 DEF GuardNext

\* What the conjuncts about an untouched tree need of a step that leaves it so.
LEMMA TrackIs ==
    ASSUME TrackInv
    PROVE  /\ GuardTypeOK /\ GuardInv
           /\ tree \in Trees /\ absolute \in Paths /\ roots \in Seq(Paths)
           /\ allowed \in Seq(Paths) /\ (place = "root" => allowed # <<>>)
           /\ walk \in [here : Paths, rest : Paths, steps : 0..MaxSteps]
           /\ Still => Tracked /\ RootsArePlain /\ LookedAt /\ Judged
BY DEF TrackInv, GuardTypeOK

LEMMA ConstructTracks ==
    ASSUME TrackInv, GuardTypeOK', GuardInv', Construct
    PROVE  TrackInv'
<1>1. place' \in {"root", "begin", "bad_root"} /\ UNCHANGED <<tree, touched, roots, allowed>>
      /\ (place' = "root" => Exists(Head(allowed)))
  BY DEF Construct, Goto, Allowable
<1>2. SUFFICES ASSUME Still PROVE Tracked' /\ RootsArePlain' /\ LookedAt' /\ Judged'
  <2>1. Still' => Still
    BY <1>1 DEF Still
  <2> QED
    BY <2>1 DEF TrackInv
<1>3. RootsArePlain'
  BY <1>1, <1>2, TreeDecides, TrackIs DEF RootsArePlain
<1>4. Judged'
  BY <1>1, TreeDecides DEF Judged
<1> QED
  BY <1>1, <1>3, <1>4 DEF Tracked, LookedAt, Settled

\* Nobody has touched the root since it was looked at, so it is there.
LEMMA ResolveTracks ==
    ASSUME TrackInv, GuardTypeOK', GuardInv', ResolveRoot
    PROVE  TrackInv'
<1>1. place = "root" /\ UNCHANGED <<tree, touched>>
  BY DEF ResolveRoot
<1>2. SUFFICES ASSUME Still PROVE Tracked' /\ RootsArePlain' /\ LookedAt' /\ Judged'
  <2>1. Still' => Still
    BY <1>1 DEF Still
  <2> QED
    BY <2>1 DEF TrackInv
<1>3. place' = "construct" /\ roots' = Append(roots, Real(Head(allowed)))
  BY <1>1, <1>2, TrackIs DEF ResolveRoot, Judged, Goto
<1>4. Head(allowed) \in Paths
  BY <1>1, TrackIs, HeadTailProperties
<1>5. Plain(Real(Head(allowed))) /\ Len(Real(Head(allowed))) <= MaxSteps /\ Real(Head(allowed)) \in Paths
  BY <1>4, TrackIs, RealType
<1>6. \A i \in DOMAIN roots' : \/ i \in DOMAIN roots /\ roots'[i] = roots[i]
                               \/ roots'[i] = Real(Head(allowed))
  BY <1>3, <1>5, TrackIs, AppendProperties
<1>7. \A i \in DOMAIN roots' : Plain(roots'[i]) /\ Len(roots'[i]) <= MaxSteps
  BY <1>2, <1>5, <1>6, TrackIs DEF RootsArePlain
<1> QED
  BY <1>1, <1>3, <1>7, TreeDecides DEF Tracked, RootsArePlain, LookedAt, Judged, Settled

LEMMA BeginTracks ==
    ASSUME TrackInv, GuardTypeOK', GuardInv', Begin
    PROVE  TrackInv'
<1>1. place = "begin" /\ UNCHANGED <<tree, touched, roots>>
      /\ place' \in {"walk", "bad_name", "baseless", "bad_base"}
      /\ (place' = "walk" => walk' = Begun(absolute'))
  BY DEF Begin, Goto, Unsound
<1>2. SUFFICES ASSUME Still PROVE Tracked' /\ RootsArePlain' /\ LookedAt' /\ Judged'
  <2>1. Still' => Still
    BY <1>1 DEF Still
  <2> QED
    BY <2>1 DEF TrackInv
<1>3. RootsArePlain'
  BY <1>1, <1>2, TreeDecides, TrackIs DEF RootsArePlain
<1>4. Tracked'
  <2> SUFFICES ASSUME place' = "walk" PROVE walk' = After(absolute)'[walk'.steps]
    BY <1>1 DEF Tracked, Settled
  <2>1. PICK p \in Paths : p = absolute'
    BY DEF GuardTypeOK
  <2>2. After(absolute)' = After(p)
    BY <1>1, <2>1 DEF After, Onward, Follow, At
  <2>3. After(p)[0] = Begun(p) /\ Begun(p).steps = 0
    BY TrackIs, AfterIs DEF Begun
  <2> QED
    BY <1>1, <2>1, <2>2, <2>3
<1>5. LookedAt' /\ Judged'
  BY <1>1 DEF LookedAt, Judged
<1> QED
  BY <1>3, <1>4, <1>5

LEMMA StepTracks ==
    ASSUME TrackInv, GuardTypeOK', GuardInv', Step
    PROVE  TrackInv'
<1>1. /\ place = "walk" /\ walk.rest # <<>> /\ place' \in {"walk", "loop"}
      /\ UNCHANGED <<tree, touched, roots, absolute>>
      /\ place' = "loop" => walk.steps = MaxSteps /\ walk' = walk
      /\ place' = "walk" => walk.steps # MaxSteps /\ walk' = Follow(walk)
  BY DEF Step, Goto
<1>2. SUFFICES ASSUME Still PROVE Tracked' /\ RootsArePlain' /\ LookedAt' /\ Judged'
  <2>1. Still' => Still
    BY <1>1 DEF Still
  <2> QED
    BY <2>1 DEF TrackInv
<1>3. RootsArePlain'
  BY <1>1, <1>2, TreeDecides, TrackIs DEF RootsArePlain
<1>4. Tracked'
  <2>1. After(absolute)' = After(absolute) /\ Walked(absolute)' = Walked(absolute)
    BY <1>1 DEF Walked, After, Onward, Follow, At
  <2>2. walk = After(absolute)[walk.steps] /\ walk.steps \in 0..MaxSteps
    BY <1>1, <1>2, TrackIs DEF Tracked
  <2>3. CASE place' = "loop"
    BY <1>1, <2>1, <2>2, <2>3 DEF Tracked, Walked, Settled
  <2>4. CASE place' = "walk"
    <3>1. walk.steps + 1 \in 1..MaxSteps /\ (walk.steps + 1) - 1 = walk.steps
      BY <1>1, <2>2, <2>4, GuardAssumption
    <3>2. After(absolute)[walk.steps + 1] = Follow(walk)
      BY <1>1, <2>2, <3>1, TrackIs, AfterIs DEF Onward
    <3>3. walk'.steps = walk.steps + 1
      BY <1>1, <2>2, <2>4, TrackIs, AfterType, FollowType
    <3> QED
      BY <1>1, <2>1, <2>4, <3>2, <3>3 DEF Tracked, Settled
  <2> QED
    BY <1>1, <2>3, <2>4
<1>5. LookedAt' /\ Judged'
  BY <1>1 DEF LookedAt, Judged
<1> QED
  BY <1>3, <1>4, <1>5

LEMMA ContainTracks ==
    ASSUME TrackInv, GuardTypeOK', GuardInv', Contain
    PROVE  TrackInv'
<1>1. /\ place = "walk" /\ walk.rest = <<>> /\ place' \in {"outside", "links", "exist"}
      /\ UNCHANGED <<tree, touched, roots, absolute>>
      /\ place' = "outside" => Containing = {} /\ walk' = walk
      /\ place' # "outside" => Containing # {}
      /\ place' = "exist" => ~ IsPrefix(Root, absolute) /\ walk' = walk
      /\ place' = "links" => /\ IsPrefix(Root, absolute)
                             /\ walk' = [walk EXCEPT !.rest = SubSeq(absolute, Len(Root) + 1, Len(absolute))]
  BY DEF Contain, Goto
<1>2. SUFFICES ASSUME Still PROVE Tracked' /\ RootsArePlain' /\ LookedAt' /\ Judged'
  <2>1. Still' => Still
    BY <1>1 DEF Still
  <2> QED
    BY <2>1 DEF TrackInv
<1>3. RootsArePlain'
  BY <1>1, <1>2, TreeDecides, TrackIs DEF RootsArePlain
<1>4. walk'.here = walk.here /\ walk'.steps = walk.steps
  BY <1>1, TrackIs
<1>5. Root' = Root /\ Containing' = Containing
  BY <1>1, <1>4 DEF Root, Containing, Under
<1>6. Tracked'
  <2>1. Walked(absolute)' = Walked(absolute)
    BY <1>1 DEF Walked, After, Onward, Follow, At
  <2>2. walk = After(absolute)[walk.steps] /\ walk.steps \in 0..MaxSteps
    BY <1>1, <1>2, TrackIs DEF Tracked
  <2>3. Walked(absolute) = After(absolute)[walk.steps]
    BY <1>1, <2>2, TrackIs, WalkRests
  <2>4. walk = [here |-> walk.here, rest |-> <<>>, steps |-> walk.steps]
    BY <1>1, TrackIs
  <2> QED
    BY <1>1, <1>4, <2>1, <2>2, <2>3, <2>4 DEF Tracked
<1>7. LookedAt'
  <2>1. CASE place' = "links"
    <3>1. Root \in Paths
      BY <1>1, <2>1, RootIs, TrackIs DEF Containing
    <3>2. Len(Root) \in Nat /\ Len(absolute) \in Nat /\ Len(Root) <= Len(absolute)
          /\ Len(SubSeq(absolute, Len(Root) + 1, Len(absolute))) = Len(absolute) - Len(Root)
      BY <1>1, <2>1, <3>1, TrackIs DEF Paths, IsPrefix
    <3>3. walk'.rest = SubSeq(absolute, Len(Root) + 1, Len(absolute))
      BY <1>1, <2>1, TrackIs
    <3>4. Len(walk'.rest) = Len(absolute) - Len(Root)
      BY <3>2, <3>3
    <3> QED
      BY <1>1, <1>5, <2>1, <3>2, <3>4 DEF LookedAt
  <2>2. CASE place' = "exist"
    <3>1. IsPrefix(Root, absolute)' = IsPrefix(Root, absolute)
      BY <1>1, <1>5 DEF IsPrefix
    <3> QED
      BY <1>1, <2>2, <3>1 DEF LookedAt
  <2>3. CASE place' = "outside"
    BY <2>3 DEF LookedAt
  <2> QED
    BY <1>1, <2>1, <2>2, <2>3
<1>8. Judged'
  BY <1>1, <1>5 DEF Judged
<1> QED
  BY <1>3, <1>6, <1>7, <1>8

LEMMA LookTracks ==
    ASSUME TrackInv, GuardTypeOK', GuardInv', Look
    PROVE  TrackInv'
<1>1. /\ place = "links" /\ place' \in {"links", "link", "exist"}
      /\ UNCHANGED <<tree, touched, roots, absolute>>
      /\ place' = "exist" => walk.rest = <<>> /\ walk' = walk
      /\ place' = "link" => walk.rest # <<>> /\ Linked /\ walk' = walk
      /\ place' = "links" => walk.rest # <<>> /\ ~ Linked /\ walk' = [walk EXCEPT !.rest = Tail(@)]
  BY DEF Look, Goto
<1>2. SUFFICES ASSUME Still PROVE Tracked' /\ RootsArePlain' /\ LookedAt' /\ Judged'
  <2>1. Still' => Still
    BY <1>1 DEF Still
  <2> QED
    BY <2>1 DEF TrackInv
<1>3. RootsArePlain'
  BY <1>1, <1>2, TreeDecides, TrackIs DEF RootsArePlain
<1>4. walk'.here = walk.here /\ walk'.steps = walk.steps
  BY <1>1, TrackIs
<1>5. Root' = Root
  BY <1>1, <1>4 DEF Root, Containing, Under
<1>6. Tracked'
  <2>1. Walked(absolute)' = Walked(absolute)
    BY <1>1 DEF Walked, After, Onward, Follow, At
  <2> QED
    BY <1>1, <1>2, <1>4, <2>1, TrackIs DEF Tracked, Settled
<1>7. LookedAt'
  <2>1. \A n : Unlinked(n)' = Unlinked(n)
    BY <1>1 DEF Unlinked, Exists, IsLink, Real, Walked, After, Onward, Follow, At
  <2>2. /\ Len(Root) + Len(walk.rest) <= Len(absolute)
        /\ \A n \in (Len(Root) + 1)..(Len(absolute) - Len(walk.rest)) : Unlinked(n)
    BY <1>1, <1>2, TrackIs DEF LookedAt
  <2>3. Root \in Paths
    BY <1>1, RootIs, TrackIs DEF GuardInv
  <2>4. Len(Root) \in Nat /\ Len(absolute) \in Nat /\ Len(walk.rest) \in Nat
        /\ (Len(walk.rest) = 0 <=> walk.rest = <<>>)
    BY <2>3, TrackIs DEF Paths
  <2> DEFINE next == Len(absolute) - Len(walk.rest) + 1
  <2>5. CASE place' = "exist"
    <3>1. Len(walk.rest) = 0
      BY <1>1, <2>4, <2>5
    <3>2. \A n \in (Len(Root) + 1)..Len(absolute) : Unlinked(n)
      BY <2>2, <2>4, <3>1
    <3> QED
      BY <1>1, <1>5, <2>1, <2>5, <3>2 DEF LookedAt
  <2>6. CASE place' = "link"
    <3>1. next \in 1..Len(absolute) /\ IsLink(SubSeq(absolute, 1, next))
      <4>1. IsLink(Current) /\ Current = SubSeq(absolute, 1, next)
        BY <1>1, <2>6 DEF Linked, Current
      <4>2. next \in 1..Len(absolute)
        BY <1>1, <2>2, <2>4, <2>6
      <4> HIDE DEF next
      <4> QED
        BY <4>1, <4>2
    <3>2. SubSeq(absolute, 1, next) \in Beginnings(absolute)
      BY <3>1 DEF Beginnings
    <3>3. \E p \in Beginnings(absolute) : IsLink(p)
      BY <3>1, <3>2
    <3>4. Beginnings(absolute)' = Beginnings(absolute)
      BY <1>1 DEF Beginnings
    <3> QED
      BY <1>1, <2>6, <3>3, <3>4, TreeDecides DEF LookedAt
  <2>7. CASE place' = "links"
    <3>1. Unlinked(next)
      BY <1>1, <2>7 DEF Unlinked, Linked, Current
    <3>2. walk'.rest = Tail(walk.rest) /\ Len(Tail(walk.rest)) = Len(walk.rest) - 1
      BY <1>1, <2>7, TrackIs, HeadTailProperties DEF Paths
    <3>3. \A n \in (Len(Root) + 1)..(Len(absolute) - (Len(walk.rest) - 1)) :
            n = next \/ n \in (Len(Root) + 1)..(Len(absolute) - Len(walk.rest))
      BY <2>4
    <3>4. Len(Root) + (Len(walk.rest) - 1) <= Len(absolute)
      BY <2>2, <2>4
    <3> HIDE DEF next
    <3>5. \A n \in (Len(Root) + 1)..(Len(absolute) - (Len(walk.rest) - 1)) : Unlinked(n)
      BY <2>2, <3>1, <3>3
    <3> QED
      BY <1>1, <1>5, <2>1, <2>7, <3>2, <3>4, <3>5 DEF LookedAt
  <2> QED
    BY <1>1, <2>5, <2>6, <2>7
<1>8. Judged'
  BY <1>1 DEF Judged
<1> QED
  BY <1>3, <1>6, <1>7, <1>8

LEMMA ReturnTracks ==
    ASSUME TrackInv, GuardTypeOK', GuardInv', ReturnPath
    PROVE  TrackInv'
<1>1. /\ place = "exist" /\ place' \in {"missing", "accepted"}
      /\ UNCHANGED <<tree, touched, roots, asked, absolute, walk>>
      /\ place' = "missing" => ~ Exists(walk.here)
      /\ place' = "accepted" => (asked.exists => Exists(walk.here))
  BY DEF ReturnPath, Goto
<1>2. SUFFICES ASSUME Still PROVE Tracked' /\ RootsArePlain' /\ LookedAt' /\ Judged'
  <2>1. Still' => Still
    BY <1>1 DEF Still
  <2> QED
    BY <2>1 DEF TrackInv
<1>0. UNCHANGED <<tree, roots, absolute, walk>>
  BY <1>1
<1>3. RootsArePlain'
  BY <1>1, <1>2, TreeDecides, TrackIs DEF RootsArePlain
<1>4. Tracked'
  <2>1. Walked(absolute)' = Walked(absolute)
    BY <1>0 DEF Walked, After, Onward, Follow, At
  <2> QED
    BY <1>1, <1>2, <2>1, TrackIs DEF Tracked, Settled
<1>5. LookedAt'
  <2>1. \A n : Unlinked(n)' = Unlinked(n)
    BY <1>0 DEF Unlinked, Exists, IsLink, Real, Walked, After, Onward, Follow, At
  <2>2. Root' = Root
    BY <1>0 DEF Root, Containing, Under
  <2>3. IsPrefix(Root, absolute)' = IsPrefix(Root, absolute)
    BY <1>1, <2>2 DEF IsPrefix
  <2> QED
    BY <1>1, <1>2, <2>1, <2>2, <2>3, TrackIs DEF LookedAt
<1>6. Judged'
  <2>1. Exists(walk.here)' = Exists(walk.here)
    BY <1>0 DEF Exists, Real, Walked, After, Onward, Follow, At
  <2> QED
    BY <1>1, <2>1 DEF Judged
<1> QED
  BY <1>3, <1>4, <1>5, <1>6

LEMMA TrackKeeps ==
    ASSUME TrackInv, GuardNext
    PROVE  TrackInv'
<1>1. GuardTypeOK' /\ GuardInv'
  BY TrackIs, GuardTypeKeeps, GuardKeeps
<1>2. CASE \E p \in Places, node \in Nodes : Change(p, node)
  BY <1>1, <1>2 DEF Change, TrackInv, Still
<1> QED
  BY <1>1, <1>2, ConstructTracks, ResolveTracks, BeginTracks, StepTracks, ContainTracks,
     LookTracks, ReturnTracks DEF GuardNext

LEMMA InvokeTracks ==
    ASSUME TrackInv, NEW c \in Commands, NEW d \in Databases, NEW a \in Arguments, Invoke(c, d, a)
    PROVE  TrackInv'
<1>1. /\ allowed' = a.roots /\ roots' = <<>> /\ asked' = a.asked
      /\ place' = "construct" /\ absolute' = <<>>
      /\ walk' = Begun(<<>>) /\ touched' = FALSE /\ UNCHANGED <<tree, changes>>
  BY DEF Invoke
<1>2. a.roots \in Seq(Paths) /\ a.asked \in Asked /\ <<>> \in Paths /\ <<>> \in Seq(Paths)
  BY CommandAssumption DEF Paths
<1>3. walk' = [here |-> <<>>, rest |-> <<>>, steps |-> 0]
  BY <1>1 DEF Begun
<1>4. GuardTypeOK'
  <2>1. walk' \in [here : Paths, rest : Paths, steps : 0..MaxSteps]
    BY <1>2, <1>3, GuardAssumption
  <2>2. tree' \in Trees /\ changes' \in 0..MaxChanges /\ place' \in GuardPlaces /\ touched' \in BOOLEAN
    BY <1>1, TrackIs DEF GuardTypeOK, GuardPlaces
  <2> QED
    BY <1>1, <1>2, <2>1, <2>2 DEF GuardTypeOK
<1>5. GuardInv'
  BY <1>1, <1>3 DEF GuardInv
<1>6. Tracked' /\ RootsArePlain' /\ LookedAt' /\ Judged'
  BY <1>1 DEF Tracked, RootsArePlain, LookedAt, Judged, Settled
<1> QED
  BY <1>4, <1>5, <1>6 DEF TrackInv

LEMMA TrackInitInv == Init => TrackInv
<1> SUFFICES ASSUME Init PROVE TrackInv
  OBVIOUS
<1>1. GuardTypeOK
  <2>1. <<>> \in Paths /\ <<>> \in Seq(Paths) /\ 0 \in 0..MaxSteps
    BY GuardAssumption DEF Paths
  <2>2. walk \in [here : Paths, rest : Paths, steps : 0..MaxSteps]
    BY <2>1 DEF Init, GuardInit
  <2>3. tree \in Trees /\ allowed \in Seq(Paths) /\ asked \in Asked /\ changes \in 0..MaxChanges
    BY DEF Init
  <2>4. /\ roots = <<>> /\ absolute = <<>> /\ place = "construct" /\ touched = FALSE
    BY DEF Init, GuardInit
  <2> QED
    <3> "construct" \in GuardPlaces /\ place # "root"
      BY <2>4 DEF GuardPlaces
    <3> QED
      BY <2>1, <2>2, <2>3, <2>4 DEF GuardTypeOK
<1>2. GuardInv
  BY DEF Init, GuardInit, GuardInv
<1>3. Tracked /\ RootsArePlain /\ LookedAt /\ Judged
  BY DEF Init, GuardInit, Tracked, RootsArePlain, LookedAt, Judged, Settled
<1> QED
  BY <1>1, <1>2, <1>3 DEF TrackInv

LEMMA TrackStepInv == TrackInv /\ [Next]_vars => TrackInv'
BY GuardSteps, TrackStands, TrackKeeps, InvokeTracks

LEMMA GuardTracked == Spec => []TrackInv
BY TrackInitInv, TrackStepInv, PTL DEF Spec

\* A path without dangling links, of which what is below a root was found to
\* be no link, is the place where its walk ends.
LEMMA AcceptedIsPlain ==
    ASSUME TrackInv, Still, place = "accepted", IsPrefix(Root, absolute),
           \A p \in Beginnings(absolute) : IsLink(p) => Exists(p)
    PROVE  walk.here = absolute
<1>1. /\ tree \in Trees /\ absolute \in Paths /\ Tracked /\ RootsArePlain /\ LookedAt
      /\ Walked(absolute).rest = <<>> /\ Walked(absolute).here = walk.here
  BY TrackIs DEF Tracked, Settled
<1>2. PICK i \in DOMAIN roots : Root = roots[i] /\ roots[i] \in Paths
  BY RootIs, TrackIs DEF GuardInv
<1>3. Root \in Seq(PathNames) /\ Plain(Root) /\ Len(Root) <= MaxSteps
  BY <1>1, <1>2 DEF RootsArePlain, Paths
<1>4. /\ absolute \in Seq(PathNames) /\ Len(absolute) \in Nat /\ Len(Root) \in Nat /\ MaxSteps \in Nat
      /\ Len(Root) <= Len(absolute) /\ \A n \in 0..Len(Root) : SubSeq(absolute, 1, n) = SubSeq(Root, 1, n)
  <2>1. absolute \in Seq(PathNames) /\ Len(absolute) \in Nat /\ Len(Root) \in Nat /\ MaxSteps \in Nat
    BY <1>1, <1>3, GuardAssumption DEF Paths
  <2> QED
    BY <1>3, <2>1, PrefixIs
<1> DEFINE S == { m \in Nat : m <= Len(absolute) /\ m <= MaxSteps => Plain(SubSeq(absolute, 1, m)) }
<1>5. 0 \in S
  <2>1. Len(SubSeq(absolute, 1, 0)) = 0
    BY <1>4
  <2> QED
    BY <2>1 DEF Plain
<1>6. ASSUME NEW m \in Nat, m \in S PROVE m + 1 \in S
  <2> SUFFICES ASSUME m + 1 <= Len(absolute), m + 1 <= MaxSteps PROVE Plain(SubSeq(absolute, 1, m + 1))
    OBVIOUS
  <2> DEFINE q == SubSeq(absolute, 1, m + 1)
  <2>1. m + 1 \in 0..Len(absolute) /\ m \in 0..Len(absolute) /\ m \in 0..(m + 1) /\ m + 1 \in 1..Len(absolute)
        /\ m <= Len(absolute) /\ m <= MaxSteps
    BY <1>4
  <2>2. q \in Seq(PathNames) /\ Len(q) = m + 1 /\ \A n \in 0..(m + 1) : SubSeq(q, 1, n) = SubSeq(absolute, 1, n)
    BY <1>4, <2>1, BeginningFacts
  <2>3. Plain(SubSeq(absolute, 1, m))
    BY <1>6, <2>1
  <2>4. At(q).kind # "link"
    <3>1. CASE m + 1 <= Len(Root)
      <4>1. m + 1 \in 1..Len(Root) /\ m + 1 \in 0..Len(Root)
        BY <1>4, <3>1
      <4> QED
        BY <1>3, <1>4, <4>1 DEF Plain
    <3>2. CASE Len(Root) < m + 1
      <4>1. m + 1 \in (Len(Root) + 1)..Len(absolute)
        BY <1>4, <2>1, <3>2
      <4>2. Unlinked(m + 1) /\ q \in Beginnings(absolute)
        BY <1>1, <2>1, <4>1 DEF LookedAt, Beginnings
      <4>3. ~ IsLink(q)
        BY <4>2 DEF Unlinked
      <4>4. q # <<>> /\ Front(q) = SubSeq(absolute, 1, m)
        <5>1. q # <<>> /\ Len(q) - 1 = m
          BY <2>2
        <5>2. Front(q) = SubSeq(q, 1, m)
          <6> HIDE DEF q
          <6> QED
            BY <2>2, <5>1, BeginningFrontLast
        <5> QED
          BY <2>1, <2>2, <5>1, <5>2
      <4>5. Len(q) <= MaxSteps + 1
        BY <1>4, <2>1, <2>2
      <4> HIDE DEF q
      <4> QED
        BY <1>1, <2>2, <2>3, <4>3, <4>4, <4>5, PlainLink DEF Paths
    <3> QED
      BY <1>4, <3>1, <3>2
  <2>5. \A n \in 1..m : n \in 0..m /\ n \in 0..(m + 1)
    OBVIOUS
  <2>6. Len(SubSeq(absolute, 1, m)) = m /\ \A n \in 0..m : SubSeq(SubSeq(absolute, 1, m), 1, n) = SubSeq(absolute, 1, n)
    BY <1>4, <2>1, BeginningFacts
  <2>7. \A n \in 1..m : At(SubSeq(q, 1, n)).kind # "link"
    BY <2>2, <2>3, <2>5, <2>6 DEF Plain
  <2>8. SubSeq(q, 1, m + 1) = q
    BY <2>2
  <2>9. \A n \in 1..(m + 1) : n = m + 1 \/ n \in 1..m
    OBVIOUS
  <2> HIDE DEF q
  <2>10. Plain(q)
    BY <2>2, <2>4, <2>7, <2>8, <2>9 DEF Plain
  <2> QED
    BY <2>10 DEF q
<1>7. \A m \in Nat : m \in S
  <2> HIDE DEF S
  <2> QED
    BY <1>5, <1>6, SetInduction
<1>8. ASSUME MaxSteps < Len(absolute) PROVE FALSE
  <2>1. Plain(SubSeq(absolute, 1, MaxSteps)) /\ MaxSteps \in 0..MaxSteps /\ MaxSteps <= Len(absolute)
        /\ MaxSteps \in 0..Len(absolute)
    BY <1>4, <1>7, <1>8
  <2> DEFINE rest == SubSeq(absolute, MaxSteps + 1, Len(absolute))
  <2>2. After(absolute)[MaxSteps] = [here |-> SubSeq(absolute, 1, MaxSteps), rest |-> rest, steps |-> MaxSteps]
    BY <1>1, <2>1, PlainAfter
  <2>3. rest # <<>>
    BY <1>4, <1>8, <2>1, NextFacts
  <2> HIDE DEF rest
  <2>4. Walked(absolute).rest = rest
    BY <2>2 DEF Walked
  <2> QED
    BY <1>1, <2>3, <2>4
<1>9. Len(absolute) <= MaxSteps /\ Plain(SubSeq(absolute, 1, Len(absolute)))
  BY <1>4, <1>7, <1>8
<1>10. Walked(absolute).here = absolute
  <2>1. Plain(absolute)
    BY <1>4, <1>9, SequenceIsWhole
  <2>2. Walked(absolute) = [here |-> absolute, rest |-> <<>>, steps |-> Len(absolute)]
    BY <1>1, <1>9, <2>1, PlainWalk
  <2> QED
    BY <2>2
<1> QED
  BY <1>1, <1>10

\* For every tree, all roots and every name: if nobody touches the tree, what
\* the guard returns is where the name leads, with no link left on it and, if
\* asked for, existing; and a name that is written below the root it is taken
\* for is that place itself, unless a link on it leads nowhere (paths.py:57-81
\* and 107-117).
THEOREM AcceptingIsReal == Spec => []AcceptedIsReal
<1>1. ASSUME TrackInv, place = "accepted", Still PROVE AcceptedIsReal
  <2>1. tree \in Trees /\ absolute \in Paths /\ Tracked /\ Judged
    BY <1>1, TrackIs
  <2>2. Walked(absolute) = [here |-> walk.here, rest |-> <<>>, steps |-> walk.steps]
    BY <1>1, <2>1 DEF Tracked, Settled
  <2>3. Real(absolute) = walk.here
    BY <2>2 DEF Real
  <2>4. walk.here \in Paths /\ Plain(walk.here) /\ Len(walk.here) <= MaxSteps
    BY <2>1, <2>3, RealType
  <2>5. Real(walk.here) = walk.here
    <3>1. Walked(walk.here) = [here |-> walk.here, rest |-> <<>>, steps |-> Len(walk.here)]
      BY <2>1, <2>4, PlainWalk
    <3> QED
      BY <3>1 DEF Real
  <2>6. asked.exists => Exists(walk.here)
    BY <1>1, <2>1 DEF Judged
  <2>7. IsPrefix(Root, absolute) =>
          walk.here = absolute \/ \E p \in Beginnings(absolute) : IsLink(p) /\ ~ Exists(p)
    BY <1>1, AcceptedIsPlain
  <2> QED
    BY <2>3, <2>5, <2>6, <2>7 DEF AcceptedIsReal
<1>2. TrackInv => AcceptedIsReal
  BY <1>1 DEF AcceptedIsReal
<1> QED
  BY <1>2, GuardTracked, PTL

\* And a path below a root with no link on it is not refused as outside, as a
\* link or as a loop, nor as missing if it exists, as long as it has not more
\* names than the bound on the names that are looked up.
THEOREM PlainPathsPass == Spec => []PlainIsAccepted
<1>1. ASSUME TrackInv, Still,
             place \notin {"construct", "root", "begin"} \cup {"bad_root", "bad_name", "baseless", "bad_base"},
             Len(absolute) <= MaxSteps, \A p \in Beginnings(absolute) : ~ IsLink(p),
             \E i \in DOMAIN roots : Under(i, absolute)
      PROVE  place \notin {"outside", "link", "loop"} /\ (place = "missing" => ~ Exists(absolute))
  <2>1. tree \in Trees /\ absolute \in Paths /\ Tracked /\ LookedAt /\ Judged
    BY <1>1, TrackIs
  <2>2. absolute \in Seq(PathNames) /\ Len(absolute) \in Nat /\ Len(absolute) \in 0..Len(absolute)
        /\ SubSeq(absolute, 1, Len(absolute)) = absolute /\ Len(absolute) <= MaxSteps + 1
    BY <1>1, <2>1, SequenceIsWhole, GuardAssumption DEF Paths
  <2>3. \A n \in 1..Len(absolute) : ~ IsLink(SubSeq(absolute, 1, n))
    BY <1>1 DEF Beginnings
  <2>4. Plain(absolute)
    <3>1. Plain(SubSeq(absolute, 1, Len(absolute)))
      BY <2>1, <2>2, <2>3, LinklessIsPlain
    <3> QED
      BY <2>2, <3>1
  <2>5. Walked(absolute) = [here |-> absolute, rest |-> <<>>, steps |-> Len(absolute)]
    BY <1>1, <2>1, <2>4, PlainWalk
  <2>6. place \in Settled => walk.here = absolute
    BY <2>1, <2>5 DEF Tracked
  <2>7. place # "outside"
    BY <1>1, <2>1, <2>6 DEF Judged, Containing, Settled
  <2>8. place # "link"
    BY <1>1, <2>1 DEF LookedAt
  <2>9. place # "loop"
    BY <2>1, <2>5 DEF Tracked
  <2>10. place = "missing" => ~ Exists(absolute)
    BY <2>1, <2>6 DEF Judged, Settled
  <2> QED
    BY <2>7, <2>8, <2>9, <2>10
<1>2. TrackInv => PlainIsAccepted
  BY <1>1 DEF PlainIsAccepted
<1> QED
  BY <1>2, GuardTracked, PTL

-----------------------------------------------------------------------------
(* The checkers.                                                           *)

ResultsAreOfRuns ==
    /\ Len(ran) = Len(results)
    /\ \A n \in DOMAIN results : results[n].passed <=> ran[n].saw \in Passes[ran[n].handler]

RunIsSoFar ==
    phase # "none" =>
        /\ report = NoReport
        /\ \A i \in 1..reached : Definitions[i].phase = phase =>
             \E n \in DOMAIN results : results[n].id = Definitions[i].id
        /\ Untouched => \A n \in DOMAIN ran : ran[n].saw = subject

CheckerInv == CheckerTypeOK /\ ResultsAreOfRuns /\ RunIsSoFar /\ ReportsAreEarned

LEMMA ElementIn ==
    ASSUME NEW S, NEW s \in Seq(S), NEW n \in DOMAIN s
    PROVE  s[n] \in S
OBVIOUS

LEMMA FrontIn ==
    ASSUME NEW S, NEW s \in Seq(S), Len(s) # 0
    PROVE  LET t == SubSeq(s, 1, Len(s) - 1)
           IN  t \in Seq(S) /\ \A i \in DOMAIN t : i \in DOMAIN s /\ t[i] = s[i]
<1> DEFINE t == SubSeq(s, 1, Len(s) - 1)
<1>1. Len(s) \in Nat \ {0} /\ DOMAIN s = 1..Len(s)
  OBVIOUS
<1>2. t \in Seq(S) /\ Len(t) = Len(s) - 1 /\ \A i \in 1..(Len(s) - 1) : t[i] = s[i]
  BY <1>1
<1>3. DOMAIN t = 1..(Len(s) - 1)
  BY <1>2
<1> QED
  BY <1>1, <1>2, <1>3

LEMMA CheckerInitInv == Init => CheckerInv
BY DEF Init, CheckerInit, CheckerInv, CheckerTypeOK, ResultsAreOfRuns, RunIsSoFar, ReportsAreEarned

\* One more result of one more handler.
LEMMA RunCheckKeeps ==
    ASSUME CheckerInv, RunCheck
    PROVE  CheckerInv'
<1> DEFINE new == [id |-> Definition.id, severity |-> Definition.severity,
                   passed |-> subject \in Passes[Handler]]
           run == [handler |-> Handler, saw |-> subject]
<1>1. /\ phase # "none" /\ Definition.phase = phase /\ Handler # NoChecker
      /\ reached < Len(Definitions) /\ reached' = reached + 1
      /\ results' = Append(results, new) /\ ran' = Append(ran, run)
      /\ subject' = Rewrite[Handler][subject]
      /\ UNCHANGED <<handlers, phase, report>>
  BY DEF RunCheck
<1>2. Definition \in [id : Checks, phase : Phases, severity : {"blocker", "error"}]
  <2>1. reached \in Nat /\ Len(Definitions) \in Nat /\ DOMAIN Definitions = 1..Len(Definitions)
    BY CheckerAssumption DEF CheckerInv, CheckerTypeOK
  <2>2. reached + 1 \in DOMAIN Definitions
    BY <1>1, <2>1
  <2> QED
    BY <2>2, ElementIn, CheckerAssumption DEF Definition
<1>3. Handler \in Checkers
  BY <1>1, <1>2 DEF Handler, CheckerInv, CheckerTypeOK
<1>4. new \in Results /\ run \in [handler : Checkers, saw : Subjects]
  BY <1>2, <1>3 DEF Results, CheckerInv, CheckerTypeOK
<1>5. subject' \in Subjects
  BY <1>1, <1>3, CheckerAssumption DEF CheckerInv, CheckerTypeOK
<1>6. reached' \in 0..Len(Definitions)
  BY <1>1, CheckerAssumption DEF CheckerInv, CheckerTypeOK
<1>7. CheckerTypeOK'
  BY <1>1, <1>4, <1>5, <1>6 DEF CheckerInv, CheckerTypeOK
<1>8. /\ Len(results') = Len(results) + 1 /\ Len(ran') = Len(results')
      /\ results'[Len(results')] = new /\ ran'[Len(results')] = run
      /\ \A n \in DOMAIN results : n \in DOMAIN results' /\ results'[n] = results[n] /\ ran'[n] = ran[n]
      /\ DOMAIN results' = DOMAIN results \cup {Len(results')} /\ DOMAIN ran' = DOMAIN results'
      /\ DOMAIN ran = DOMAIN results
  <2> DEFINE N == Len(results)
  <2>1. results \in Seq(Results) /\ ran \in Seq([handler : Checkers, saw : Subjects]) /\ Len(ran) = N
    BY DEF CheckerInv, CheckerTypeOK, ResultsAreOfRuns
  <2> HIDE DEF new, run
  <2>2. /\ N \in Nat /\ DOMAIN results = 1..N /\ DOMAIN ran = 1..N
        /\ Len(results') = N + 1 /\ Len(ran') = N + 1
        /\ DOMAIN results' = 1..(N + 1) /\ DOMAIN ran' = 1..(N + 1)
    BY <1>1, <1>4, <2>1
  <2>3. /\ results'[N + 1] = new /\ ran'[N + 1] = run
        /\ \A n \in 1..N : results'[n] = results[n] /\ ran'[n] = ran[n]
    BY <1>1, <1>4, <2>1
  <2> QED
    BY <2>2, <2>3
<1>9. ResultsAreOfRuns'
  <2> SUFFICES ASSUME NEW n \in DOMAIN results'
               PROVE  results'[n].passed <=> ran'[n].saw \in Passes[ran'[n].handler]
    BY <1>8 DEF ResultsAreOfRuns
  <2>1. CASE n = Len(results')
    <3>1. (new.passed <=> subject \in Passes[Handler]) /\ run.saw = subject /\ run.handler = Handler
      OBVIOUS
    <3> HIDE DEF new, run
    <3>2. results'[n] = new /\ ran'[n] = run
      BY <1>8, <2>1
    <3> QED
      BY <3>1, <3>2
  <2>2. CASE n \in DOMAIN results
    BY <1>8, <2>2 DEF CheckerInv, ResultsAreOfRuns
  <2> QED
    BY <1>8, <2>1, <2>2
<1>10. \A i \in 1..reached' : Definitions[i].phase = phase' =>
         \E n \in DOMAIN results' : results'[n].id = Definitions[i].id
  <2>1. \A i \in 1..reached' : i \in 1..reached \/ i = reached + 1
    BY <1>1, <1>6, CheckerAssumption DEF CheckerInv, CheckerTypeOK
  <2> QED
    BY <1>1, <1>8, <2>1 DEF CheckerInv, RunIsSoFar, Definition
<1>11. Untouched' => \A n \in DOMAIN ran' : ran'[n].saw = subject'
  <2> SUFFICES ASSUME Untouched' PROVE \A n \in DOMAIN ran' : ran'[n].saw = subject'
    OBVIOUS
  <2>1. Untouched
    BY <1>8 DEF Untouched
  <2>2. subject' = subject
    BY <1>1, <1>8 DEF Untouched
  <2> QED
    BY <1>1, <1>8, <2>1, <2>2 DEF CheckerInv, RunIsSoFar
<1> QED
  BY <1>1, <1>7, <1>9, <1>10, <1>11 DEF CheckerInv, RunIsSoFar, ReportsAreEarned

LEMMA ReportRunKeeps ==
    ASSUME CheckerInv, ReportRun
    PROVE  CheckerInv'
<1>1. /\ phase \in Phases /\ phase' = "none" /\ reached = Len(Definitions)
      /\ report' = [phase |-> phase, subject |-> subject, status |-> IF Failed THEN "failed" ELSE "passed"]
      /\ UNCHANGED <<handlers, subject, reached, results, ran>>
  BY DEF ReportRun, EndRun, CheckerInv, CheckerTypeOK
<1>2. CheckerTypeOK'
  BY <1>1 DEF CheckerInv, CheckerTypeOK, Reports
<1>3. \A i \in DOMAIN Definitions : i \in 1..reached
  BY <1>1, CheckerAssumption
<1>4. DOMAIN ran = DOMAIN results
  BY DEF CheckerInv, CheckerTypeOK, ResultsAreOfRuns
<1>5. report'.status = "passed" <=>
        \A n \in DOMAIN ran : results[n].severity = "blocker" => ran[n].saw \in Passes[ran[n].handler]
  BY <1>1, <1>4 DEF Failed, CheckerInv, ResultsAreOfRuns
<1>6. phase # "none"
  BY DEF ReportRun
<1>7. ReportsAreEarned'
  BY <1>1, <1>3, <1>5, <1>6 DEF ReportsAreEarned, Untouched, CheckerInv, RunIsSoFar
<1> QED
  BY <1>1, <1>2, <1>7 DEF CheckerInv, ResultsAreOfRuns, RunIsSoFar

LEMMA CheckerNextKeeps ==
    ASSUME CheckerInv, CheckerNext
    PROVE  CheckerInv'
<1>1. ASSUME NEW c \in Checks, NEW h \in Checkers, RegisterChecker(c, h) PROVE CheckerInv'
  BY <1>1 DEF RegisterChecker, CheckerInv, CheckerTypeOK, ResultsAreOfRuns, RunIsSoFar,
              ReportsAreEarned, Untouched
<1>2. ASSUME NEW p \in Phases, StartRun(p) PROVE CheckerInv'
  BY <1>2, CheckerAssumption
     DEF StartRun, CheckerInv, CheckerTypeOK, ResultsAreOfRuns, RunIsSoFar, ReportsAreEarned
<1>3. CASE SkipCheck
  <2>1. /\ reached < Len(Definitions) /\ reached' = reached + 1 /\ Definition.phase # phase
        /\ phase # "none" /\ UNCHANGED <<handlers, subject, phase, results, ran, report>>
    BY <1>3 DEF SkipCheck
  <2>2. reached' \in 0..Len(Definitions)
        /\ \A i \in 1..reached' : i \in 1..reached \/ i = reached + 1
    BY <2>1, CheckerAssumption DEF CheckerInv, CheckerTypeOK
  <2>3. CheckerTypeOK'
    BY <2>1, <2>2 DEF CheckerInv, CheckerTypeOK
  <2> QED
    BY <2>1, <2>2, <2>3
       DEF Definition, CheckerInv, ResultsAreOfRuns, RunIsSoFar, ReportsAreEarned, Untouched
<1>4. CASE RefuseRun \/ RunFails
  BY <1>4 DEF RefuseRun, RunFails, EndRun, CheckerInv, CheckerTypeOK, ResultsAreOfRuns,
              RunIsSoFar, ReportsAreEarned
<1> QED
  BY <1>1, <1>2, <1>3, <1>4, RunCheckKeeps, ReportRunKeeps DEF CheckerNext

LEMMA CheckerStepInv == CheckerInv /\ [Next]_vars => CheckerInv'
<1> SUFFICES ASSUME CheckerInv, [Next]_vars PROVE CheckerInv'
  OBVIOUS
<1>1. UNCHANGED checker \/ CheckerNext
  BY DEF Next, vars, CommandStep, GuardStep, LoaderStep, MergerStep, CheckerStep,
         KnowledgeStep, ProbeStep, AccessStep, RegistriesStep
<1>2. CASE UNCHANGED checker
  BY <1>2 DEF checker, CheckerInv, CheckerTypeOK, ResultsAreOfRuns, RunIsSoFar, ReportsAreEarned,
              Untouched
<1> QED
  BY <1>1, <1>2, CheckerNextKeeps

\* For every policy, and whatever handlers do to their subject and to one
\* another: a report says of its subject what the handlers of its run found.
THEOREM ReportsSpeakTrue == Spec => []ReportsAreEarned
<1>1. CheckerInv => ReportsAreEarned
  BY DEF CheckerInv
<1> QED
  BY <1>1, CheckerInitInv, CheckerStepInv, PTL DEF Spec

-----------------------------------------------------------------------------
(* The knowledge service.                                                  *)

FoundSoFar ==
    answer \in {"looking", "answered"} =>
        \A i \in 1..consulted :
            /\ Readable(records[i])
            /\ Matches(records[i]) <=> \E n \in DOMAIN evidence : evidence[n] = i

EvidenceIncreases ==
    /\ \A n \in DOMAIN evidence : evidence[n] <= consulted
    /\ \A m, n \in DOMAIN evidence : m < n => evidence[m] < evidence[n]

EndingsAreEarned ==
    /\ answer = "answered" => consulted = Len(records)
    /\ "answered" \in answers => \A i \in DOMAIN records : Readable(records[i])
    /\ {"unregistered", "denied"} \cap answers # {} => \E i \in DOMAIN records : ~ Readable(records[i])

KnowledgeInv == KnowledgeTypeOK /\ FoundSoFar /\ EvidenceIncreases /\ EndingsAreEarned

LEMMA KnowledgeInitInv == Init => KnowledgeInv
BY DEF Init, KnowledgeInit, KnowledgeInv, KnowledgeTypeOK, FoundSoFar, EvidenceIncreases, EndingsAreEarned

LEMMA ConsultingFacts ==
    ASSUME KnowledgeInv, answer = "looking", consulted < Len(records)
    PROVE  /\ consulted \in Nat /\ consulted + 1 \in DOMAIN records
           /\ consulted + 1 \in 0..Len(records) /\ consulted + 1 \in 1..Len(records)
           /\ \A i \in 1..(consulted + 1) : i \in 1..consulted \/ i = consulted + 1
BY DEF KnowledgeInv, KnowledgeTypeOK

LEMMA LookupKeeps ==
    ASSUME KnowledgeInv, NEW q \in Queries, Lookup(q)
    PROVE  KnowledgeInv'
<1>1. CASE q.terms = {}
  <2>1. /\ query' = q /\ consulted' = 0 /\ evidence' = <<>> /\ answer' = "empty"
        /\ answers' = answers \cup {"empty"} /\ records' = records
    BY <1>1 DEF Lookup, EndQuery
  <2>2. KnowledgeTypeOK' /\ EvidenceIncreases' /\ FoundSoFar'
    BY <2>1 DEF KnowledgeInv, KnowledgeTypeOK, Answers, FoundSoFar, EvidenceIncreases
  <2>3. EndingsAreEarned'
    BY <2>1 DEF KnowledgeInv, EndingsAreEarned, Readable
  <2> QED
    BY <2>2, <2>3 DEF KnowledgeInv
<1>2. CASE q.terms # {}
  BY <1>2 DEF Lookup, KnowledgeInv, KnowledgeTypeOK, FoundSoFar,
              EvidenceIncreases, EndingsAreEarned, Readable
<1> QED
  BY <1>1, <1>2

LEMMA QueryEndKeeps ==
    ASSUME KnowledgeInv, RefuseSource \/ FailRecord \/ Answer
    PROVE  KnowledgeInv'
<1>1. /\ UNCHANGED <<records, query, consulted, evidence>> /\ answer' \in Answers
      /\ answers' = answers \cup {answer'} /\ answer = "looking"
      /\ answer' = "answered" => Answer
      /\ answer' \in {"unregistered", "denied"} => RefuseSource
  BY DEF RefuseSource, FailRecord, Answer, EndQuery, Consulting, Answers
<1>2. KnowledgeTypeOK' /\ EvidenceIncreases'
  BY <1>1 DEF KnowledgeInv, KnowledgeTypeOK, EvidenceIncreases
<1>3. FoundSoFar'
  BY <1>1 DEF KnowledgeInv, FoundSoFar, Readable, Matches
<1>4. answer' = "answered" =>
        consulted = Len(records) /\ \A i \in DOMAIN records : Readable(records[i])
  <2>1. DOMAIN records = 1..Len(records)
    BY DEF KnowledgeInv, KnowledgeTypeOK
  <2> QED
    BY <1>1, <2>1 DEF Answer, KnowledgeInv, FoundSoFar
<1>5. answer' \in {"unregistered", "denied"} => \E i \in DOMAIN records : ~ Readable(records[i])
  BY <1>1, ConsultingFacts DEF RefuseSource, Consulting, Record
<1> QED
  BY <1>1, <1>2, <1>3, <1>4, <1>5 DEF KnowledgeInv, EndingsAreEarned, Readable

\* One record more has been consulted.
LEMMA ConsultKeeps ==
    ASSUME KnowledgeInv, PassRecord \/ Collect
    PROVE  KnowledgeInv'
<1> DEFINE i == consulted + 1
<1>1. /\ UNCHANGED <<records, query, answer, answers>> /\ consulted' = i
      /\ answer = "looking" /\ consulted < Len(records) /\ Readable(records[i])
  BY DEF PassRecord, Collect, Consulting, Record
<1>2. EndingsAreEarned'
  BY <1>1 DEF KnowledgeInv, EndingsAreEarned, Readable
<1>3. CASE PassRecord
  <2>1. evidence' = evidence /\ ~ Matches(records[i])
    BY <1>3 DEF PassRecord, Record
  <2>2. \A n \in DOMAIN evidence : evidence[n] <= consulted /\ evidence[n] \in Nat
    <3>1. \A n \in DOMAIN evidence : evidence[n] \in 1..Len(records)
      BY ElementIn DEF KnowledgeInv, KnowledgeTypeOK
    <3> QED
      BY <3>1 DEF KnowledgeInv, EvidenceIncreases
  <2>3. \A n \in DOMAIN evidence : evidence[n] # i /\ evidence[n] <= i
    BY <1>1, <2>2, ConsultingFacts
  <2>4. KnowledgeTypeOK'
    BY <1>1, <2>1, ConsultingFacts DEF KnowledgeInv, KnowledgeTypeOK
  <2>5. EvidenceIncreases'
    BY <1>1, <2>1, <2>3 DEF KnowledgeInv, EvidenceIncreases
  <2>6. FoundSoFar'
    BY <1>1, <2>1, <2>3, ConsultingFacts DEF KnowledgeInv, FoundSoFar, Readable, Matches
  <2> QED
    BY <1>2, <2>4, <2>5, <2>6 DEF KnowledgeInv
<1>4. CASE Collect
  <2>1. evidence' = Append(evidence, i) /\ Matches(records[i])
    BY <1>1, <1>4 DEF Collect, Record
  <2>2. \A n \in DOMAIN evidence : evidence[n] <= consulted /\ evidence[n] \in Nat
    <3>1. \A n \in DOMAIN evidence : evidence[n] \in 1..Len(records)
      BY ElementIn DEF KnowledgeInv, KnowledgeTypeOK
    <3> QED
      BY <3>1 DEF KnowledgeInv, EvidenceIncreases
  <2>3. \A n \in DOMAIN evidence : evidence[n] # i /\ evidence[n] < i
    BY <1>1, <2>2, ConsultingFacts
  <2>4. /\ evidence' \in Seq(1..Len(records)) /\ Len(evidence) \in Nat
        /\ DOMAIN evidence = 1..Len(evidence) /\ DOMAIN evidence' = 1..(Len(evidence) + 1)
        /\ evidence'[Len(evidence) + 1] = i
        /\ \A n \in DOMAIN evidence : evidence'[n] = evidence[n]
    BY <1>1, <2>1, ConsultingFacts DEF KnowledgeInv, KnowledgeTypeOK
  <2>5. KnowledgeTypeOK'
    BY <1>1, <2>4, ConsultingFacts DEF KnowledgeInv, KnowledgeTypeOK
  <2>6. \A n \in DOMAIN evidence' : n \in DOMAIN evidence \/ n = Len(evidence) + 1
    BY <2>4
  <2>7. EvidenceIncreases'
    <3>1. \A n \in DOMAIN evidence' : evidence'[n] <= consulted'
      BY <1>1, <2>3, <2>4, <2>6, ConsultingFacts
    <3>2. ASSUME NEW m \in DOMAIN evidence', NEW n \in DOMAIN evidence', m < n
          PROVE  evidence'[m] < evidence'[n]
      <4>1. m \in DOMAIN evidence
        BY <2>4, <3>2
      <4> QED
        BY <2>3, <2>4, <2>6, <3>2, <4>1 DEF KnowledgeInv, EvidenceIncreases
    <3> QED
      BY <3>1, <3>2 DEF EvidenceIncreases
  <2>8. FoundSoFar'
    <3> SUFFICES ASSUME NEW j \in 1..i
                 PROVE  /\ Readable(records[j])
                        /\ Matches(records[j]) <=> \E n \in DOMAIN evidence' : evidence'[n] = j
      BY <1>1 DEF FoundSoFar, Readable, Matches
    <3>1. CASE j = i
      BY <1>1, <2>1, <2>4, <3>1
    <3>2. CASE j # i
      <4>1. j \in 1..consulted
        BY <1>1, <3>2, ConsultingFacts
      <4>2. (\E n \in DOMAIN evidence' : evidence'[n] = j) <=> \E n \in DOMAIN evidence : evidence[n] = j
        <5>1. \A n \in DOMAIN evidence : n \in DOMAIN evidence' /\ evidence'[n] = evidence[n]
          BY <2>4
        <5>2. \A n \in DOMAIN evidence' : evidence'[n] = j => n \in DOMAIN evidence
          BY <2>4, <2>6, <3>2
        <5> QED
          BY <5>1, <5>2
      <4> QED
        BY <1>1, <4>1, <4>2 DEF KnowledgeInv, FoundSoFar
    <3> QED
      BY <3>1, <3>2
  <2> QED
    BY <1>2, <2>5, <2>7, <2>8 DEF KnowledgeInv
<1> QED
  BY <1>3, <1>4

LEMMA KnowledgeStepInv == KnowledgeInv /\ [Next]_vars => KnowledgeInv'
<1> SUFFICES ASSUME KnowledgeInv, [Next]_vars PROVE KnowledgeInv'
  OBVIOUS
<1>1. UNCHANGED knowledge \/ KnowledgeNext
  BY DEF Next, vars, CommandStep, GuardStep, LoaderStep, MergerStep, CheckerStep,
         KnowledgeStep, ProbeStep, AccessStep, RegistriesStep
<1>2. CASE UNCHANGED knowledge
  <2>1. KnowledgeTypeOK' /\ EvidenceIncreases'
    BY <1>2 DEF knowledge, KnowledgeInv, KnowledgeTypeOK, EvidenceIncreases
  <2>2. FoundSoFar'
    BY <1>2 DEF knowledge, KnowledgeInv, FoundSoFar, Readable, Matches
  <2>3. EndingsAreEarned'
    BY <1>2 DEF knowledge, KnowledgeInv, EndingsAreEarned, Readable
  <2> QED
    BY <2>1, <2>2, <2>3 DEF KnowledgeInv
<1> QED
  BY <1>1, <1>2, LookupKeeps, QueryEndKeeps, ConsultKeeps DEF KnowledgeNext

\* For every set of records, policy and sequence of queries: an answer is
\* exactly what the records have to say.
THEOREM KnowledgeIsExact == Spec => []AnswersAreExact
<1>1. ASSUME KnowledgeInv, answer = "answered"
      PROVE  /\ DOMAIN records = 1..consulted
             /\ \A i \in DOMAIN records : Matches(records[i]) <=>
                  /\ query.terms \ records[i].text = {}
                  /\ \/ records[i].jurisdiction \in {query.applicability, "general"}
                     \/ query.applicability = "general"
                  /\ ~ (query.asker = "public"
                        /\ Registered[records[i].source].classification # "public")
             /\ \A i \in DOMAIN records :
                  Matches(records[i]) <=> \E n \in DOMAIN evidence : evidence[n] = i
             /\ \A n \in DOMAIN evidence : evidence[n] \in DOMAIN records
  <2>1. DOMAIN records = 1..consulted /\ consulted = Len(records)
    BY <1>1 DEF KnowledgeInv, KnowledgeTypeOK, EndingsAreEarned
  <2>2. \A n \in DOMAIN evidence : evidence[n] \in 1..Len(records)
    BY <1>1, ElementIn DEF KnowledgeInv, KnowledgeTypeOK
  <2> QED
    BY <1>1, <2>1, <2>2 DEF KnowledgeInv, FoundSoFar, Matches
<1>2. KnowledgeInv => AnswersAreExact
  <2> SUFFICES ASSUME KnowledgeInv, answer = "answered" PROVE AnswersAreExact
    BY DEF AnswersAreExact
  <2>1. \A m, n \in DOMAIN evidence : m < n => evidence[m] < evidence[n]
    BY DEF KnowledgeInv, EvidenceIncreases
  <2>2. { evidence[n] : n \in DOMAIN evidence } = { i \in DOMAIN records : Matches(records[i]) }
    BY <1>1
  <2>3. \A i \in DOMAIN records : Readable(records[i])
    BY <1>1 DEF KnowledgeInv, FoundSoFar
  <2> QED
    BY <1>1, <2>1, <2>2, <2>3 DEF AnswersAreExact, Readable
<1> QED
  BY <1>2, KnowledgeInitInv, KnowledgeStepInv, PTL DEF Spec

\* For every set of records and policy: a service that has refused one query
\* for a source has answered none and will answer none.
THEOREM SourcesBlockEveryQuery == Spec => []SourcesFailForAll
<1>1. KnowledgeInv => SourcesFailForAll
  BY DEF KnowledgeInv, EndingsAreEarned, SourcesFailForAll
<1> QED
  BY <1>1, KnowledgeInitInv, KnowledgeStepInv, PTL DEF Spec

-----------------------------------------------------------------------------
(* The probe.                                                              *)

ProbeInv ==
    /\ fonts \in BOOLEAN
    /\ tools \in Seq([name : ToolNames, available : BOOLEAN, code : ExitCodes])
    /\ Len(tools) <= Len(Tools)
    /\ \A i \in DOMAIN tools : tools[i] = ProbeTool(Tools[i], world[Tools[i]])
    /\ verdict # "none" =>
         Len(tools) = Len(Tools) /\ (verdict = "available" <=> Capable)

LEMMA ProbeToolFacts ==
    ASSUME NEW name, NEW behaviour
    PROVE  LET tool == ProbeTool(name, behaviour)
           IN  /\ tool.name = name
               /\ tool.available <=> behaviour = "sound"
               /\ tool.code \in {"zero", "none"} <=> behaviour # "failing"
BY DEF ProbeTool

LEMMA ProbeInitInv == Init => ProbeInv
BY DEF Init, ProbeInit, ProbeInv, Tools

LEMMA ProbeKeeps ==
    ASSUME ProbeInv, Probe
    PROVE  ProbeInv'
<1> DEFINE n == Len(tools) + 1
           tool == ProbeTool(Tools[n], world[Tools[n]])
<1>1. /\ Len(tools) < Len(Tools) /\ tools' = Append(tools, tool)
      /\ UNCHANGED <<world, fonts, verdict>>
  BY DEF Probe
<1>2. n \in 1..3 /\ Len(Tools) = 3 /\ DOMAIN Tools = 1..3
  BY <1>1 DEF Tools, ProbeInv
<1>3. tool \in [name : ToolNames, available : BOOLEAN, code : ExitCodes]
  BY <1>2 DEF ProbeTool, ToolNames, ExitCodes
<1>4. verdict = "none"
  BY <1>1, <1>2 DEF ProbeInv
<1> HIDE DEF tool
<1>5. /\ tools' \in Seq([name : ToolNames, available : BOOLEAN, code : ExitCodes])
      /\ Len(tools') = n /\ tools'[n] = tool /\ DOMAIN tools' = 1..n /\ DOMAIN tools = 1..(n - 1)
      /\ \A i \in 1..(n - 1) : tools'[i] = tools[i]
  BY <1>1, <1>3 DEF ProbeInv
<1>6. \A i \in DOMAIN tools' : tools'[i] = ProbeTool(Tools[i], world[Tools[i]])
  <2>1. \A i \in 1..n : i = n \/ i \in 1..(n - 1)
    BY <1>2
  <2> QED
    BY <1>5, <2>1 DEF ProbeInv, tool
<1> QED
  BY <1>1, <1>2, <1>4, <1>5, <1>6 DEF ProbeInv

LEMMA ProbeStepInv == ProbeInv /\ [Next]_vars => ProbeInv'
<1> SUFFICES ASSUME ProbeInv, [Next]_vars PROVE ProbeInv'
  OBVIOUS
<1>1. UNCHANGED probe \/ ProbeNext
  BY DEF Next, vars, CommandStep, GuardStep, LoaderStep, MergerStep, CheckerStep,
         KnowledgeStep, ProbeStep, AccessStep, RegistriesStep
<1>2. CASE UNCHANGED probe
  BY <1>2 DEF probe, ProbeInv, Capable, Available
<1>3. CASE ReportProbe
  BY <1>3 DEF ReportProbe, ProbeInv, Capable, Available
<1> QED
  BY <1>1, <1>2, <1>3, ProbeKeeps DEF ProbeNext

\* However each program behaves, the verdict is the one that the programs
\* which run and those which fail call for.
THEOREM ProbeSpeaksTrue == Spec => []ProbeIsEarned
<1>1. ASSUME ProbeInv, verdict # "none" PROVE ProbeIsEarned
  <2>1. /\ DOMAIN tools = {1, 2, 3}
        /\ tools[1] = ProbeTool("qgis_process", world["qgis_process"])
        /\ tools[2] = ProbeTool("gdalinfo", world["gdalinfo"])
        /\ tools[3] = ProbeTool("projinfo", world["projinfo"])
    <3>1. Len(tools) = 3
      BY <1>1 DEF ProbeInv, Tools
    <3>2. DOMAIN tools = 1..3
      BY <1>1, <3>1 DEF ProbeInv
    <3> QED
      BY <1>1, <3>2 DEF ProbeInv, Tools
  <2>2. /\ tools[1].name = "qgis_process" /\ tools[2].name = "gdalinfo" /\ tools[3].name = "projinfo"
        /\ tools[1].available <=> world["qgis_process"] = "sound"
        /\ tools[2].available <=> world["gdalinfo"] = "sound"
        /\ tools[3].available <=> world["projinfo"] = "sound"
        /\ tools[1].code \in {"zero", "none"} <=> world["qgis_process"] # "failing"
        /\ tools[2].code \in {"zero", "none"} <=> world["gdalinfo"] # "failing"
        /\ tools[3].code \in {"zero", "none"} <=> world["projinfo"] # "failing"
    BY <2>1, ProbeToolFacts
  <2>3. Available("qgis_process") <=> tools[1].available
    BY <2>1, <2>2 DEF Available
  <2>4. Available("gdalinfo") <=> tools[2].available
    BY <2>1, <2>2 DEF Available
  <2>5. Available("projinfo") <=> tools[3].available
    BY <2>1, <2>2 DEF Available
  <2>6. Capable <=>
          /\ fonts
          /\ world["qgis_process"] = "sound"
          /\ world["projinfo"] = "sound" \/ world["gdalinfo"] = "sound"
          /\ world["gdalinfo"] # "failing" /\ world["projinfo"] # "failing"
    BY <2>1, <2>2, <2>3, <2>4, <2>5 DEF Capable
  <2> QED
    BY <1>1, <2>6 DEF ProbeInv, ProbeIsEarned
<1>2. ProbeInv => ProbeIsEarned
  BY <1>1 DEF ProbeIsEarned
<1> QED
  BY <1>2, ProbeInitInv, ProbeStepInv, PTL DEF Spec

-----------------------------------------------------------------------------
(* The registries.                                                         *)

RoutesInv ==
    /\ routes \in [Routes -> Handlers \cup {Absent}]
    /\ handling \in Seq([route : Routes, handler : Handlers])
    /\ \A n \in DOMAIN handling : routes[handling[n].route] = handling[n].handler

CatalogInv ==
    /\ given \in Seq(CatalogEntries)
    /\ catalog \in [CatalogKeys -> Contents \cup {Absent}]

\* The files that have been taken so far.
TakenAreSound(n) ==
    \A i, j \in 1..n :
        /\ documents[i].id \in SchemaIds /\ documents[i].dialect
        /\ documents[i].id = documents[j].id => i = j

SchemasInv ==
    /\ documents \in Seq(SchemaFiles)
    /\ schemas \in Seq(DOMAIN documents)
    /\ Len(schemas) <= Len(documents)
    /\ \A i \in DOMAIN schemas : schemas[i] = i
    /\ TakenAreSound(Len(schemas))
    /\ built = "built" => documents # <<>> /\ Len(schemas) = Len(documents)

RegistriesInv == RoutesInv /\ CatalogInv /\ SchemasInv

LEMMA RegistriesInitInv == Init => RegistriesInv
<1> SUFFICES ASSUME Init PROVE RegistriesInv
  OBVIOUS
<1>1. RoutesInv /\ CatalogInv
  BY DEF Init, RegistriesInit, RoutesInv, CatalogInv
<1>2. SchemasInv
  BY DEF Init, RegistriesInit, SchemasInv, TakenAreSound
<1> QED
  BY <1>1, <1>2 DEF RegistriesInv

\* What a step does to each of the three tables.
LEMMA RegistriesSteps ==
    ASSUME [Next]_vars
    PROVE  /\ \/ UNCHANGED <<routes, handling>>
              \/ \E r \in Routes, h \in Handlers : RegisterRoute(r, h)
              \/ \E r \in Routes : DispatchRoute(r)
              \/ HandlerReturns
           /\ \/ UNCHANGED <<given, catalog>>
              \/ OpenNext
              \/ \E k \in CatalogKeys, v \in Contents : RegisterEntry(k, v)
           /\ \/ UNCHANGED <<documents, schemas, built>>
              \/ AddSchema \/ RefuseSchema \/ FinishSchemas
<1>1. UNCHANGED registries \/ RegistriesNext
  BY DEF Next, vars, CommandStep, GuardStep, LoaderStep, MergerStep, CheckerStep,
         KnowledgeStep, ProbeStep, AccessStep, RegistriesStep
<1>2. CASE UNCHANGED registries
  BY <1>2 DEF registries
<1>3. CASE RegistriesNext
  BY <1>3 DEF RegistriesNext, OpenNext, Opened, RegisterEntry, RegisterRoute, DispatchRoute,
              HandlerReturns, AddSchema, RefuseSchema, FinishSchemas
<1> QED
  BY <1>1, <1>2, <1>3

LEMMA RoutesKeep == ASSUME RoutesInv, [Next]_vars PROVE RoutesInv'
<1>1. CASE UNCHANGED <<routes, handling>>
  BY <1>1 DEF RoutesInv
<1>2. ASSUME NEW r \in Routes, NEW h \in Handlers, RegisterRoute(r, h) PROVE RoutesInv'
  <2>1. /\ routes[r] = Absent /\ routes' = [routes EXCEPT ![r] = h] /\ handling' = handling
    BY <1>2 DEF RegisterRoute
  <2>2. \A n \in DOMAIN handling : handling[n] \in [route : Routes, handler : Handlers]
    BY ElementIn DEF RoutesInv
  <2>3. \A n \in DOMAIN handling : handling[n].route # r
    BY <2>1, <2>2, RegistriesAssumption DEF RoutesInv
  <2> QED
    BY <2>1, <2>2, <2>3 DEF RoutesInv
<1>3. ASSUME NEW r \in Routes, DispatchRoute(r) PROVE RoutesInv'
  <2> DEFINE new == [route |-> r, handler |-> routes[r]]
             N == Len(handling)
  <2>1. routes' = routes /\ handling' = Append(handling, new) /\ routes[r] # Absent
    BY <1>3 DEF DispatchRoute
  <2>2. new \in [route : Routes, handler : Handlers] /\ routes[new.route] = new.handler
    BY <2>1 DEF RoutesInv
  <2> HIDE DEF new
  <2>3. /\ handling' \in Seq([route : Routes, handler : Handlers])
        /\ \A n \in DOMAIN handling' :
             (n \in DOMAIN handling /\ handling'[n] = handling[n]) \/ handling'[n] = new
    BY <2>1, <2>2 DEF RoutesInv
  <2> QED
    BY <2>1, <2>2, <2>3 DEF RoutesInv
<1>4. CASE HandlerReturns
  <2>1. routes' = routes /\ handling' = SubSeq(handling, 1, Len(handling) - 1) /\ Len(handling) # 0
    BY <1>4 DEF HandlerReturns, RoutesInv
  <2>2. /\ handling' \in Seq([route : Routes, handler : Handlers])
        /\ \A n \in DOMAIN handling' : n \in DOMAIN handling /\ handling'[n] = handling[n]
    BY <2>1, FrontIn DEF RoutesInv
  <2> QED
    BY <2>1, <2>2 DEF RoutesInv
<1> QED
  BY <1>1, <1>2, <1>3, <1>4, RegistriesSteps

LEMMA CatalogKeeps == ASSUME CatalogInv, [Next]_vars PROVE CatalogInv'
<1>1. CASE UNCHANGED <<given, catalog>>
  BY <1>1 DEF CatalogInv
<1>2. CASE OpenNext
  <2>1. given # <<>> /\ Head(given) \in CatalogEntries /\ Tail(given) \in Seq(CatalogEntries)
    BY <1>2 DEF OpenNext, CatalogInv
  <2>2. CASE Register(Head(given).key, Head(given).value) /\ given' = Tail(given)
    BY <2>1, <2>2 DEF Register, CatalogInv, CatalogEntries
  <2>3. CASE UNCHANGED <<given, catalog>>
    BY <2>3 DEF CatalogInv
  <2> QED
    BY <1>2, <2>2, <2>3 DEF OpenNext
<1>3. ASSUME NEW k \in CatalogKeys, NEW v \in Contents, RegisterEntry(k, v) PROVE CatalogInv'
  BY <1>3 DEF RegisterEntry, Register, CatalogInv
<1> QED
  BY <1>1, <1>2, <1>3, RegistriesSteps

LEMMA SchemasKeep == ASSUME SchemasInv, [Next]_vars PROVE SchemasInv'
<1> DEFINE n == Len(schemas) + 1
<1>0. /\ Len(schemas) \in Nat /\ Len(documents) \in Nat
      /\ DOMAIN schemas = 1..Len(schemas) /\ DOMAIN documents = 1..Len(documents)
  BY DEF SchemasInv
<1>1. CASE UNCHANGED <<documents, schemas, built>>
  BY <1>1 DEF SchemasInv, TakenAreSound
<1>2. CASE AddSchema
  <2>1. /\ documents' = documents /\ built' = built /\ schemas' = Append(schemas, n)
        /\ built = "building" /\ Len(schemas) < Len(documents)
        /\ documents[n].id # Absent /\ documents[n].dialect
        /\ ~ \E i \in DOMAIN schemas : documents[schemas[i]].id = documents[n].id
    BY <1>2 DEF AddSchema, Building, NextSchema, DuplicateId
  <2>2. n \in DOMAIN documents /\ n \in Nat
    BY <1>0, <2>1
  <2>3. documents[n].id \in SchemaIds
    <3>1. documents[n] \in SchemaFiles
      BY <2>2, ElementIn DEF SchemasInv
    <3> QED
      BY <2>1, <3>1 DEF SchemaFiles
  <2>4. /\ schemas' \in Seq(DOMAIN documents) /\ Len(schemas') = n /\ DOMAIN schemas' = 1..n
        /\ schemas'[n] = n /\ \A i \in 1..(n - 1) : schemas'[i] = schemas[i]
    BY <2>1, <2>2 DEF SchemasInv
  <2>5. \A i \in 1..(n - 1) : i \in DOMAIN schemas /\ documents[i].id # documents[n].id
    BY <1>0, <2>1 DEF SchemasInv
  <2>6. \A i \in 1..n : i = n \/ i \in 1..(n - 1)
    BY <2>2
  <2>7. TakenAreSound(n)
    <3> SUFFICES ASSUME NEW i \in 1..n, NEW j \in 1..n
                 PROVE  /\ documents[i].id \in SchemaIds /\ documents[i].dialect
                        /\ documents[i].id = documents[j].id => i = j
      BY DEF TakenAreSound
    <3>1. TakenAreSound(n - 1)
      <4>1. n - 1 = Len(schemas)
        BY <1>0
      <4> QED
        BY <4>1 DEF SchemasInv
    <3> QED
      BY <2>1, <2>3, <2>5, <2>6, <3>1 DEF TakenAreSound
  <2>8. TakenAreSound(Len(schemas))'
    BY <2>1, <2>4, <2>7 DEF TakenAreSound
  <2>9. \A i \in DOMAIN schemas' : schemas'[i] = i
    BY <2>4, <2>5, <2>6 DEF SchemasInv
  <2> QED
    BY <1>0, <2>1, <2>4, <2>8, <2>9 DEF SchemasInv
<1>3. CASE RefuseSchema
  BY <1>3 DEF RefuseSchema, SchemasInv, TakenAreSound
<1>4. CASE FinishSchemas
  BY <1>0, <1>4 DEF FinishSchemas, SchemasInv, TakenAreSound
<1> QED
  BY <1>1, <1>2, <1>3, <1>4, RegistriesSteps

LEMMA RegistriesStepInv == RegistriesInv /\ [Next]_vars => RegistriesInv'
BY RoutesKeep, CatalogKeeps, SchemasKeep DEF RegistriesInv

\* For every sequence of registrations, nested dispatches and schema files:
\* handlers in progress are those of their routes, and a table that was built
\* is complete and without duplicates.
THEOREM TablesStayWhole == Spec => []TablesAreWhole
<1>1. RegistriesInv => TablesAreWhole
  <2> SUFFICES ASSUME RegistriesInv PROVE TablesAreWhole
    OBVIOUS
  <2>1. DOMAIN documents = 1..Len(documents)
    BY DEF RegistriesInv, SchemasInv
  <2> QED
    BY <2>1 DEF RegistriesInv, RoutesInv, SchemasInv, TakenAreSound, TablesAreWhole
<1> QED
  BY <1>1, RegistriesInitInv, RegistriesStepInv, PTL DEF Spec

\* No step replaces or removes an entry of the catalog or of the routes.
THEOREM EntriesAreKept == Spec => EntriesStay
<1>1. ASSUME RegistriesInv, [Next]_vars PROVE [EntryStays]_registries
  <2>1. \A r \in Routes : routes[r] # Absent => routes'[r] = routes[r]
    <3>1. UNCHANGED routes \/ \E r \in Routes, h \in Handlers : RegisterRoute(r, h)
      BY <1>1, RegistriesSteps DEF DispatchRoute, HandlerReturns
    <3> QED
      BY <1>1, <3>1 DEF RegisterRoute, RegistriesInv, RoutesInv
  <2>2. \A k \in CatalogKeys : catalog[k] # Absent => catalog'[k] = catalog[k]
    <3>1. UNCHANGED catalog \/ \E k, v : Register(k, v)
      BY <1>1, RegistriesSteps DEF OpenNext, RegisterEntry
    <3> QED
      BY <1>1, <3>1 DEF Register, RegistriesInv, CatalogInv
  <2> QED
    BY <2>1, <2>2 DEF EntryStays
<1> QED
  BY <1>1, RegistriesInitInv, RegistriesStepInv, PTL DEF Spec, EntriesStay

-----------------------------------------------------------------------------
(* The types of all the variables.                                         *)

\* What the invariants of the probe and the registries do not say of types.
OutcomesTyped ==
    /\ world \in [ToolNames -> Behaviours]
    /\ verdict \in {"none", "available", "unavailable"}
    /\ opened \in {"opening", "opened", "refused"}
    /\ built \in {"building", "built", "refused"}

LEMMA OutcomesStepInv == OutcomesTyped /\ [Next]_vars => OutcomesTyped'
<1> SUFFICES ASSUME OutcomesTyped, [Next]_vars PROVE OutcomesTyped'
  OBVIOUS
<1>1. /\ UNCHANGED probe \/ ProbeNext
      /\ UNCHANGED registries \/ RegistriesNext
  BY DEF Next, vars, CommandStep, GuardStep, LoaderStep, MergerStep, CheckerStep,
         KnowledgeStep, ProbeStep, AccessStep, RegistriesStep
<1>2. world' = world /\ (verdict' = verdict \/ verdict' \in {"available", "unavailable"})
  BY <1>1 DEF probe, ProbeNext, Probe, ReportProbe
<1>3. opened' = opened \/ opened' \in {"opened", "refused"}
  BY <1>1 DEF registries, RegistriesNext, OpenNext, Opened, RegisterEntry, RegisterRoute,
              DispatchRoute, HandlerReturns, AddSchema, RefuseSchema, FinishSchemas
<1>4. built' = built \/ built' \in {"built", "refused"}
  BY <1>1 DEF registries, RegistriesNext, OpenNext, Opened, RegisterEntry, RegisterRoute,
              DispatchRoute, HandlerReturns, AddSchema, RefuseSchema, FinishSchemas
<1> QED
  BY <1>2, <1>3, <1>4 DEF OutcomesTyped

\* For all values of the constants, the variables of all nine components have
\* their types in every state that the commands, other callers and other users
\* of the directories can bring about.
THEOREM GovernanceTypes == Spec => []TypeOK
<1>1. Init => OutcomesTyped
  BY DEF Init, ProbeInit, RegistriesInit, OutcomesTyped
<1>2. TrackInv /\ LineInv /\ LoaderInv /\ MergerInv /\ CheckerInv /\ KnowledgeInv
      /\ ProbeInv /\ AccessInv /\ RegistriesInv /\ OutcomesTyped => TypeOK
  <2> SUFFICES ASSUME TrackInv, LineInv, LoaderInv, MergerInv, CheckerInv, KnowledgeInv,
                      ProbeInv, AccessInv, RegistriesInv, OutcomesTyped
               PROVE  TypeOK
    OBVIOUS
  <2>1. GuardTypeOK /\ LoaderTypeOK /\ LineTypeOK /\ MergerTypeOK /\ CheckerTypeOK /\ KnowledgeTypeOK
    BY DEF TrackInv, LineInv, LoaderInv, MergerInv, CheckerInv, KnowledgeInv
  <2>2. ProbeTypeOK
    BY DEF ProbeInv, OutcomesTyped, ProbeTypeOK
  <2>3. AccessTypeOK
    BY DEF AccessInv, Held, AccessTypeOK
  <2>4. RegistriesTypeOK
    BY DEF RegistriesInv, RoutesInv, CatalogInv, SchemasInv, OutcomesTyped, RegistriesTypeOK
  <2> QED
    BY <2>1, <2>2, <2>3, <2>4 DEF TypeOK
<1> QED
  BY <1>1, <1>2, GuardTracked, LineAlways, AccessAlways,
     LoaderInitInv, LoaderStepInv, MergerInitInv, MergerStepInv, CheckerInitInv, CheckerStepInv,
     KnowledgeInitInv, KnowledgeStepInv, ProbeInitInv, ProbeStepInv, RegistriesInitInv, RegistriesStepInv,
     OutcomesStepInv, PTL DEF Spec
=============================================================================
