----------------------------- MODULE Approvals -----------------------------
(***************************************************************************)
(* Approval gates (workflow/approvals.py) over verify_receipt and its two  *)
(* nonce stores (security/approval.py).                                    *)
(*                                                                         *)
(* Verifiers are the threads or processes that present receipts.  Each     *)
(* first compares the receipt with what it asks approval for and with the  *)
(* clock, and then consumes the receipt's nonce in the store it shares     *)
(* with the others.  The checks are pure, so they are one step; the store  *)
(* is a critical section, under a threading.Lock (memory) or a BEGIN       *)
(* IMMEDIATE transaction (SQLite), and the wall clock runs in between.     *)
(*                                                                         *)
(* The persistent store purges rows that have expired at a time it reads   *)
(* before it has the lock (approval.py:59-62).                             *)
(***************************************************************************)
EXTENDS Integers, Sequences

CONSTANTS
    Verifiers,   \* threads or processes that verify receipts
    Receipts,    \* approval receipts that are presented
    Tokens,      \* (issuer, nonce) pairs
    Objects,     \* digests of what is approved
    Contexts,    \* what a receipt or a request is for, field by field
    None,
    MaxTime      \* bound: last value of the clock

\* What ties an approval to a project, besides its gate and its object.  The
\* coordinator takes the subject from the receipt itself, so it ties nothing.
ContextFields == {"scope", "tenant", "policy", "issuer", "environment"}

\* The gates of a run and what approves each of them.
GATES == [G1 |-> [action |-> "approve-map-brief", type |-> "map-brief"],
          G2 |-> [action |-> "approve-freeze", type |-> "resolved-map"],
          G3 |-> [action |-> "approve-delivery", type |-> "delivery-manifest"]]

Requests == [gate : DOMAIN GATES, object : Objects, context : Contexts]

\* A receipt: "signed" says that its shape is valid and that its signature
\* is that of the coordinator's key.
ReceiptType == [token : Tokens, action : STRING, type : STRING, object : Objects,
                context : Contexts, signed : BOOLEAN, issued : Nat, expires : Nat]

ASSUME ApprovalsAssumption ==
    /\ Receipts \subseteq ReceiptType
    /\ \A context \in Contexts : DOMAIN context = ContextFields
    /\ None \notin Verifiers
    /\ MaxTime \in Nat

VARIABLES
    store,   \* the nonce store in use: "sqlite" or "memory"
    clock,   \* wall clock
    table,   \* rows of consumed_nonce, or the set _seen
    lock,    \* the verifier inside the critical section of the store
    pc,      \* where each verifier is
    asked,   \* what each verifier verifies: receipt, request, time of the check
    now,     \* the time that each verifier read on entering the store
    view,    \* the rows that each verifier sees inside the critical section
    grants   \* history: the verifications that consumed a nonce, in order

vars == <<store, clock, table, lock, pc, asked, now, view, grants>>

Rows  == [token : Tokens, expires : Nat]
Asked == [receipt : Receipts, request : Requests, checked : 0..MaxTime]
Grant == [receipt : Receipts, request : Requests, checked : 0..MaxTime,
          at : 0..MaxTime]

Init ==
    /\ store \in {"sqlite", "memory"}
    /\ clock = 0
    /\ table = {}
    /\ lock = None
    /\ pc = [v \in Verifiers |-> "idle"]
    /\ asked = [v \in Verifiers |-> None]
    /\ now = [v \in Verifiers |-> 0]
    /\ view = [v \in Verifiers |-> {}]
    /\ grants = <<>>

-----------------------------------------------------------------------------
(* verify_receipt before the store.                                        *)

SameContext(receipt, request, fields) ==
    \A field \in fields : receipt.context[field] = request.context[field]

\* A verifier that takes the approval of one tenant for another's.
BoundToAnyTenant(receipt, request) ==
    /\ receipt.signed
    /\ receipt.action = GATES[request.gate].action
    /\ receipt.type = GATES[request.gate].type
    /\ receipt.object = request.object
    /\ SameContext(receipt, request, ContextFields \ {"tenant"})

\* Every field of the receipt is the one the gate expects.
Bound(receipt, request) ==
    /\ receipt.signed
    /\ receipt.action = GATES[request.gate].action
    /\ receipt.type = GATES[request.gate].type
    /\ receipt.object = request.object
    /\ SameContext(receipt, request, ContextFields)

\* The window is half open, and not empty.
InWindow(receipt, time) ==
    /\ receipt.issued <= time
    /\ time < receipt.expires
    /\ receipt.issued < receipt.expires

\* A call whose checks fail raises and leaves everything as it was; "raised"
\* is the state after an exception of the store, from which callers go on.
Verify(v, receipt, request) ==
    /\ pc[v] \in {"idle", "raised"}
    /\ Bound(receipt, request)
    /\ InWindow(receipt, clock)
    /\ pc' = [pc EXCEPT ![v] = "checked"]
    /\ asked' = [asked EXCEPT ![v] =
            [receipt |-> receipt, request |-> request, checked |-> clock]]
    /\ UNCHANGED <<store, clock, table, lock, now, view, grants>>

-----------------------------------------------------------------------------
(* The nonce stores.                                                       *)

\* A process that dies without its lock being released.
LeaveLocked(v, place) ==
    /\ pc' = [pc EXCEPT ![v] = place]
    /\ asked' = [asked EXCEPT ![v] = None]
    /\ now' = [now EXCEPT ![v] = 0]
    /\ view' = [view EXCEPT ![v] = {}]
    /\ lock' = lock

\* v leaves the store: it ends at the given place, without the lock.
Leave(v, place) ==
    /\ pc' = [pc EXCEPT ![v] = place]
    /\ asked' = [asked EXCEPT ![v] = None]
    /\ now' = [now EXCEPT ![v] = 0]
    /\ view' = [view EXCEPT ![v] = {}]
    /\ lock' = IF lock = v THEN None ELSE lock

ReadNow(v) ==
    /\ pc[v] = "checked"
    /\ pc' = [pc EXCEPT ![v] = "waiting"]
    /\ now' = [now EXCEPT ![v] = clock]
    /\ UNCHANGED <<store, clock, table, lock, asked, view, grants>>

\* A store without its lock.
LockShared(v) ==
    /\ pc[v] = "waiting"
    /\ lock' = v
    /\ pc' = [pc EXCEPT ![v] = "locked"]
    /\ UNCHANGED <<store, clock, table, asked, now, view, grants>>

Lock(v) ==
    /\ pc[v] = "waiting"
    /\ lock = None
    /\ lock' = v
    /\ pc' = [pc EXCEPT ![v] = "locked"]
    /\ UNCHANGED <<store, clock, table, asked, now, view, grants>>

\* sqlite3 gives up waiting for the lock after 10 seconds and raises an
\* OperationalError.  A threading.Lock waits for ever.
LockTimeout(v) ==
    /\ store = "sqlite"
    /\ pc[v] = "waiting"
    /\ lock # None
    /\ Leave(v, "raised")
    /\ UNCHANGED <<store, clock, table, grants>>

RowOf(receipt) == [token |-> receipt.token, expires |-> receipt.expires]

\* A purge with its comparison the wrong way round.
KeptExpired(time) == {row \in table : row.expires <= time}

\* The rows that a transaction begun at that time does not purge.
Kept(time) ==
    IF store = "sqlite" THEN {row \in table : row.expires > time} ELSE table

\* DELETE, inside the transaction; or the look at _seen.
Examine(v) ==
    /\ pc[v] = "locked"
    /\ pc' = [pc EXCEPT ![v] = "examined"]
    /\ view' = [view EXCEPT ![v] = Kept(now[v])]
    /\ UNCHANGED <<store, clock, table, lock, asked, now, grants>>

\* INSERT OR IGNORE and commit; or the add to _seen, or none.
Consume(v) ==
    /\ pc[v] = "examined"
    /\ LET new == RowOf(asked[v].receipt)
       IN  \/ /\ \A row \in view[v] : row.token # new.token
              /\ table' = view[v] \cup {new}
              /\ grants' = Append(grants,
                    [receipt |-> asked[v].receipt, request |-> asked[v].request,
                     checked |-> asked[v].checked, at |-> clock])
           \/ /\ \E row \in view[v] : row.token = new.token
              /\ table' = view[v]
              /\ grants' = grants
    /\ Leave(v, "idle")
    /\ UNCHANGED <<store, clock>>

\* The transaction fails; closing the connection rolls it back.
ConsumeFails(v) ==
    /\ store = "sqlite"
    /\ pc[v] \in {"locked", "examined"}
    /\ Leave(v, "raised")
    /\ UNCHANGED <<store, clock, table, grants>>

\* A process dies inside verify_receipt: the operating system drops its file
\* lock, and the next connection rolls its transaction back.  The threads
\* that share the memory store live and die together, and it with them.
Crash(v) ==
    /\ store = "sqlite"
    /\ pc[v] \notin {"idle", "raised"}
    /\ Leave(v, "idle")
    /\ UNCHANGED <<store, clock, table, grants>>

Tick ==
    /\ clock < MaxTime
    /\ clock' = clock + 1
    /\ UNCHANGED <<store, table, lock, pc, asked, now, view, grants>>

-----------------------------------------------------------------------------
Step(v) == ReadNow(v) \/ Lock(v) \/ LockTimeout(v) \/ Examine(v) \/ Consume(v)

Next ==
    \/ \E v \in Verifiers :
         \/ \E receipt \in Receipts, request \in Requests : Verify(v, receipt, request)
         \/ Step(v)
         \/ ConsumeFails(v)
         \/ Crash(v)
    \/ Tick

\* A verifier that is inside a call goes on: nothing in the code waits except
\* for the lock.
Fairness == \A v \in Verifiers : WF_vars(Step(v))

Spec == Init /\ [][Next]_vars

FairSpec == Spec /\ Fairness

-----------------------------------------------------------------------------
(* Properties.                                                             *)

TypeOK ==
    /\ store \in {"sqlite", "memory"}
    /\ clock \in 0..MaxTime
    /\ table \subseteq Rows
    /\ lock \in Verifiers \cup {None}
    /\ pc \in [Verifiers -> {"idle", "checked", "waiting", "locked", "examined", "raised"}]
    /\ asked \in [Verifiers -> Asked \cup {None}]
    /\ now \in [Verifiers -> 0..MaxTime]
    /\ view \in [Verifiers -> SUBSET Rows]
    /\ grants \in Seq(Grant)

SameToken(i, j) == grants[i].receipt.token = grants[j].receipt.token

\* A nonce is consumed once (approval.py:158-159).
AtMostOnce == \A i, j \in DOMAIN grants : SameToken(i, j) => i = j

\* So it is with the memory store, however its threads interleave.
MemoryAtMostOnce == store = "memory" => AtMostOnce

\* With the persistent store, while a receipt has not expired the nonce it
\* consumed is not consumed again, by this or by any receipt that shares it:
\* whatever processes crash, wait for the lock or purge the table.
OnceBeforeExpiry ==
    \A i, j \in DOMAIN grants :
        i < j /\ SameToken(i, j) => grants[i].receipt.expires <= grants[j].at

\* What a grant was asked for is what its receipt approves: the gate's action
\* and type, the object, and each field of the context; and it was asked for
\* inside the receipt's window.
Approves(grant) ==
    /\ grant.receipt.signed
    /\ grant.receipt.action = GATES[grant.request.gate].action
    /\ grant.receipt.type = GATES[grant.request.gate].type
    /\ grant.receipt.object = grant.request.object
    /\ \A field \in ContextFields :
         grant.receipt.context[field] = grant.request.context[field]
    /\ grant.checked \in grant.receipt.issued .. (grant.receipt.expires - 1)

\* A nonce is spent for what its receipt approves and for nothing else: every
\* grant was asked for its receipt's gate, object and context, in time, however
\* long it waited since it was checked and whoever else verified meanwhile; and
\* every spent nonce was spent by a grant, so a receipt that was refused can
\* still be used where it fits (approval.py:128-159).
GrantsMatch ==
    /\ \A i \in DOMAIN grants : Approves(grants[i])
    /\ \A row \in table : \E i \in DOMAIN grants : row = RowOf(grants[i].receipt)

\* A verifier that has the lock gives it back, even if it dies, so the others
\* are not kept out for ever.
LockIsFreed == lock # None ~> lock = None
=============================================================================
