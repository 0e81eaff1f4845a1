----------------------------- MODULE CommandLine -----------------------------
(***************************************************************************)
(* The command line (cli.py): each command is a sequence of calls, any of  *)
(* which may raise, and ends in a report on standard output with exit code *)
(* 0, in a report of an error with 2, or in a traceback with 1.            *)
(*                                                                         *)
(* The path guard and the loader are run as they are in PathGuard and      *)
(* Documents; of the other calls only the outcome counts.  What persists   *)
(* between invocations are the nonce stores, one per database that the     *)
(* caller may name.  Every `approval verify` is of the same receipt, which *)
(* expires at some moment.  Invocations come one after another (Approvals  *)
(* has verifications side by side), but other processes use the databases  *)
(* for other receipts, and that purges the rows that have expired.         *)
(***************************************************************************)
EXTENDS PathGuard, Documents

CONSTANTS
    Databases,       \* files that --nonce-db may name
    Arguments,       \* [roots, asked] that the caller may give
    MaxInvocations   \* bound

ASSUME CommandAssumption ==
    /\ Arguments \subseteq [roots : Seq(Paths), asked : Asked]
    /\ MaxInvocations \in Nat

VARIABLES
    command,       \* the command that runs or ran last
    database,      \* its --nonce-db
    position,      \* the call it is in
    path,          \* what the guard has returned
    exit,          \* whether it runs, or how it ended
    expired,       \* whether the receipt has expired
    spent,         \* per database, whether the receipt's nonce is in it
    consumed,      \* history: when this invocation has put it there
    lost,          \* history: its report could not be written
    verified,      \* history: per database and period, reports of a verification
    invocations    \* invocations that may still come

nonces == <<expired, spent, consumed, verified>>
line   == <<command, database, position, path, exit, nonces, lost, invocations>>

\* A verification that reports before it spends the nonce, and one that
\* spends it before it has checked everything.
VerifyPrintsFirst == <<"guard", "resolve", "load", "schemas", "decide", "checks", "print", "consume">>
VerifySpendsFirst == <<"guard", "resolve", "load", "schemas", "decide", "consume", "checks", "print">>

VerifyCalls == <<"guard", "resolve", "load", "schemas", "decide", "checks", "consume", "print">>

\* The calls of each command, in the order of their evaluation.  "guard" is
\* the construction of a PathGuard and the resolution of the first path,
\* "decide" whatever looks at the document; the rest of a verification up to
\* the nonce is "checks".
Plan ==
    [check    |-> <<"schemas", "print">>,
     validate |-> <<"guard", "schemas", "load", "decide", "print">>,
     path     |-> <<"guard", "print">>,
     verify   |-> VerifyCalls,
     intent   |-> <<"guard", "load", "decide", "policy", "decide", "print">>,
     probe    |-> <<"probe", "schemas", "decide", "print">>,
     prepare  |-> <<"guard", "load", "decide", "policy", "decide", "print">>]

Commands == DOMAIN Plan
NoCommand == "none"
Exits == {"idle", "running", "failing", "success", "reported", "traceback", "killed"}

\* Before and after the receipt expires.
Periods == {"before", "after"}
Now     == IF expired THEN "after" ELSE "before"
Never   == "never"

LineInit ==
    /\ command = NoCommand
    /\ position = 1
    /\ path = <<>>
    /\ exit = "idle"
    /\ expired = FALSE
    /\ spent = [d \in Databases |-> FALSE]
    /\ consumed = Never
    /\ lost = FALSE
    /\ verified = [d \in Databases |-> [p \in Periods |-> 0]]

Invoke(c, d, arguments) ==
    /\ exit \notin {"running", "failing"}
    /\ invocations > 0
    /\ invocations' = invocations - 1
    /\ command' = c
    /\ database' = d
    /\ position' = 1
    /\ path' = <<>>
    /\ exit' = "running"
    /\ consumed' = Never
    /\ lost' = FALSE
    /\ allowed' = arguments.roots /\ roots' = <<>> /\ asked' = arguments.asked
    /\ place' = "construct" /\ absolute' = <<>> /\ walk' = Begun(<<>>) /\ touched' = FALSE
    /\ stage' = "unread" /\ calls' = <<>> /\ active' = {}
    /\ UNCHANGED <<expired, spent, verified, tree, changes, file, root, items>>

In(call) == exit = "running" /\ Plan[command][position] = call

Proceed == position' = position + 1 /\ UNCHANGED exit

\* CartoError, OSError and ValueError are reported, all else is not.
Raise(reported) == exit' = (IF reported THEN "failing" ELSE "traceback") /\ UNCHANGED position

ReturnFromGuard ==
    /\ In("guard")
    /\ \/ place = "accepted" /\ Proceed /\ path' = walk.here
       \/ place \in GuardRefusals /\ Raise(TRUE) /\ UNCHANGED path
       \/ place = "loop" /\ Raise(FALSE) /\ UNCHANGED path
    /\ UNCHANGED <<command, database, nonces, lost, invocations, guard, loader>>

\* The file may be gone (OSError), or nested too deeply for the parser
\* (RecursionError).
ReturnFromLoad ==
    /\ In("load")
    /\ \/ stage = "loaded" /\ Proceed
       \/ stage \in Refusals /\ Raise(TRUE)
       \/ stage = "unread" /\ Raise(TRUE)
       \/ stage = "measured" /\ \E reported \in BOOLEAN : Raise(reported)
    /\ UNCHANGED <<command, database, path, nonces, lost, invocations, guard, loader>>

ReturnFromCall ==
    /\ \E call \in {"schemas", "resolve", "decide", "policy", "probe"} : In(call)
    /\ Proceed \/ \E reported \in BOOLEAN : Raise(reported)
    /\ UNCHANGED <<command, database, path, nonces, lost, invocations, guard, loader>>

\* verify_receipt up to the nonce: whatever is wrong with the receipt, and
\* then its window, the last look before the store.
CheckReceipt ==
    /\ In("checks")
    /\ (~ expired /\ Proceed) \/ \E reported \in BOOLEAN : Raise(reported)
    /\ UNCHANGED <<command, database, path, nonces, lost, invocations, guard, loader>>

\* The nonce goes in.
Insert ==
    /\ Proceed
    /\ spent' = [spent EXCEPT ![database] = TRUE]
    /\ consumed' = Now

\* A store that does not look for the nonce first.
ConsumeAgain ==
    /\ In("consume")
    /\ Insert
    /\ UNCHANGED <<command, database, path, lost, expired, verified, invocations, guard, loader>>

\* One transaction: rows that have expired are deleted, this receipt's own
\* among them, and the nonce is inserted unless it is still there.  The time
\* it compares with was read before the transaction began, so that a row may
\* also be found that has expired since.  Or the database fails
\* (sqlite3.Error).
Consume ==
    /\ In("consume")
    /\ \/ (spent[database] => expired) /\ Insert
       \/ spent[database] /\ Raise(TRUE) /\ UNCHANGED <<spent, consumed>>
       \/ Raise(FALSE) /\ UNCHANGED <<spent, consumed>>
    /\ UNCHANGED <<command, database, path, lost, expired, verified, invocations, guard, loader>>

\* Another process spends the nonce of another receipt.
Purge(d) ==
    /\ expired /\ spent[d]
    /\ spent' = [spent EXCEPT ![d] = FALSE]
    /\ UNCHANGED <<command, database, position, path, exit, expired, consumed, lost, verified,
                   invocations, guard, loader>>

\* Time passes.
Expire ==
    /\ ~ expired
    /\ expired' = TRUE
    /\ UNCHANGED <<command, database, position, path, exit, spent, consumed, lost, verified,
                   invocations, guard, loader>>

\* _success; standard output may be closed (OSError), and not every value
\* can be written as JSON (TypeError).
PrintSuccess ==
    /\ In("print")
    /\ \/ /\ exit' = "success"
          /\ verified' = IF command = "verify" THEN [verified EXCEPT ![database][consumed] = @ + 1] ELSE verified
          /\ UNCHANGED <<position, lost>>
       \/ (\E reported \in BOOLEAN : Raise(reported)) /\ lost' = TRUE /\ UNCHANGED verified
    /\ UNCHANGED <<command, database, path, expired, spent, consumed, invocations, guard, loader>>

PrintError ==
    /\ exit = "failing"
    /\ exit' \in {"reported", "traceback"}
    /\ UNCHANGED <<command, database, position, path, nonces, lost, invocations, guard, loader>>

Die ==
    /\ exit \in {"running", "failing"}
    /\ exit' = "killed"
    /\ UNCHANGED <<command, database, position, path, nonces, lost, invocations, guard, loader>>

LineNext ==
    \/ \E c \in Commands, d \in Databases, a \in Arguments : Invoke(c, d, a)
    \/ ReturnFromGuard \/ ReturnFromLoad \/ ReturnFromCall
    \/ CheckReceipt \/ Consume \/ PrintSuccess \/ PrintError \/ Die
    \/ Expire \/ \E d \in Databases : Purge(d)

\* The guard and the loader run while their call is in progress.  Others may
\* change the tree after the guard has returned.
CommandNext ==
    \/ LineNext
    \/ In("guard") /\ GuardNext /\ UNCHANGED <<line, loader>>
    \/ In("load") /\ LoaderNext /\ UNCHANGED <<line, guard>>
    \/ /\ exit = "running"
       /\ \E p \in Places, node \in Nodes : Change(p, node)
       /\ UNCHANGED <<line, loader>>

-----------------------------------------------------------------------------
(* Properties.                                                             *)

LineTypeOK ==
    /\ command \in Commands \cup {NoCommand}
    /\ database \in Databases
    /\ exit \in Exits
    /\ exit = "running" => position \in DOMAIN Plan[command]
    /\ expired \in BOOLEAN /\ spent \in [Databases -> BOOLEAN]
    /\ consumed \in Periods \cup {Never} /\ lost \in BOOLEAN
    /\ verified \in [Databases -> [Periods -> Nat]]
    /\ invocations \in 0..MaxInvocations

Guarded == {"validate", "path", "verify", "intent", "prepare"}

\* A command that reports success has been through all that it has to pass:
\* the path that it names is the one that the guard accepted, inside an
\* allowed root; the document that it speaks of was loaded, so it is sound;
\* and a receipt that it calls verified had its nonce spent by this very
\* invocation (cli.py:83-136).
SuccessIsEarned ==
    exit = "success" =>
        /\ command \in Guarded =>
             /\ place = "accepted"
             /\ path = walk.here
             /\ \E i \in DOMAIN roots : Under(i, path)
        /\ command \in Guarded \ {"path"} => stage = "loaded"
        /\ command = "verify" => consumed # Never

\* When an invocation has spent the nonce and then ends with an error, the
\* error is that its report could not be written: no check comes after the
\* nonce, so nothing refuses a receipt that is already spent for good
\* (cli.py:101-109, 137).
SpentIsSuccessOrLost == (consumed # Never /\ exit \in {"failing", "reported", "traceback"}) => lost

\* Over all invocations, crashes and failures one database lets a receipt be
\* reported as verified once while the receipt is valid, and no purge lets it
\* through again before it expires.  A second time is possible at the expiry
\* alone, for an invocation that checked the window before it and reached the
\* store after it; a third is not (approval.py:58-68, 156).  Each database
\* that a caller may name counts for itself.
VerifiedAgainOnlyAtExpiry ==
    \A d \in Databases :
        /\ \A p \in Periods : verified[d][p] <= 1
        /\ verified[d]["before"] = 1 /\ ~ expired => spent[d]
=============================================================================
