-------------------------- MODULE ApprovalsProofs --------------------------
(***************************************************************************)
(* Proofs about Approvals, for any verifiers, receipts and clock.          *)
(***************************************************************************)
EXTENDS Approvals, TLAPS

Places == {"idle", "checked", "waiting", "locked", "examined", "raised"}
Inside == {"locked", "examined"}

\* A verifier inside the store has the lock, and knows what it verifies.
PlaceInv ==
    \A v \in Verifiers :
        /\ pc[v] \in Inside => lock = v
        /\ pc[v] \notin {"idle", "raised"} => asked[v] \in Asked
        /\ now[v] <= clock

\* What a transaction does not see is what has expired; the memory store
\* sees everything.
ViewInv ==
    \A v \in Verifiers : pc[v] = "examined" =>
        /\ view[v] \subseteq table
        /\ \A row \in table \ view[v] : store = "sqlite" /\ row.expires <= clock

\* The row of a consumed nonce stays until it expires, and for ever in the
\* memory store.
RowInv ==
    \A i \in DOMAIN grants :
        \/ RowOf(grants[i].receipt) \in table
        \/ store = "sqlite" /\ grants[i].receipt.expires <= clock

\* Of two verifications that consumed one nonce, the later came after the
\* expiry of the earlier one, and that only in the SQLite store.
PairInv ==
    \A i, j \in DOMAIN grants :
        i < j /\ SameToken(i, j) => store = "sqlite" /\ grants[i].receipt.expires <= grants[j].at

IInv == TypeOK /\ PlaceInv /\ ViewInv /\ RowInv /\ PairInv

-----------------------------------------------------------------------------
LEMMA RowType ==
    ASSUME NEW receipt \in Receipts
    PROVE  /\ RowOf(receipt) \in Rows
           /\ RowOf(receipt).token = receipt.token
           /\ RowOf(receipt).expires = receipt.expires
BY ApprovalsAssumption DEF RowOf, Rows, ReceiptType

LEMMA GrantType ==
    ASSUME TypeOK, NEW i \in DOMAIN grants
    PROVE  grants[i] \in Grant /\ grants[i].receipt \in Receipts
<1>1. grants[i] \in Grant
  BY DEF TypeOK
<1> QED
  BY <1>1 DEF Grant

\* Leaving the store moves one verifier to a place outside of it.
LEMMA LeaveEffect ==
    ASSUME TypeOK, NEW v \in Verifiers, NEW place \in {"idle", "raised"}, Leave(v, place)
    PROVE  /\ pc' \in [Verifiers -> Places]
           /\ asked' \in [Verifiers -> Asked \cup {None}]
           /\ now' \in [Verifiers -> 0..MaxTime]
           /\ view' \in [Verifiers -> SUBSET Rows]
           /\ lock' \in Verifiers \cup {None}
           /\ pc'[v] = place /\ now'[v] = 0
           /\ \A u \in Verifiers \ {v} :
                /\ pc'[u] = pc[u] /\ asked'[u] = asked[u]
                /\ now'[u] = now[u] /\ view'[u] = view[u]
                /\ lock = u => lock' = u
BY ApprovalsAssumption DEF Leave, TypeOK, Places

LEMMA LeavePlaceInv ==
    ASSUME TypeOK, PlaceInv, NEW v \in Verifiers, NEW place \in {"idle", "raised"},
           Leave(v, place), clock' = clock
    PROVE  PlaceInv'
<1>1. clock \in Nat
  BY ApprovalsAssumption DEF TypeOK
<1> QED
  BY <1>1, LeaveEffect DEF PlaceInv, Inside

THEOREM InitIInv == Init => IInv
BY ApprovalsAssumption
   DEF Init, IInv, TypeOK, PlaceInv, ViewInv, RowInv, PairInv, Inside, Rows, Grant

\* Leaving without a commit.
LEMMA LeaveIInv ==
    ASSUME IInv, NEW v \in Verifiers, NEW place \in {"idle", "raised"},
           Leave(v, place), UNCHANGED <<store, clock, table, grants>>
    PROVE  IInv'
<1>1. TypeOK'
  BY LeaveEffect DEF IInv, TypeOK, Places
<1>2. PlaceInv'
  BY LeavePlaceInv DEF IInv
<1>3. ViewInv'
  BY LeaveEffect DEF IInv, ViewInv
<1>4. RowInv' /\ PairInv'
  BY DEF IInv, RowInv, PairInv, RowOf, SameToken
<1> QED
  BY <1>1, <1>2, <1>3, <1>4 DEF IInv

LEMMA VerifyIInv ==
    ASSUME IInv, NEW v \in Verifiers, NEW receipt \in Receipts, NEW request \in Requests,
           Verify(v, receipt, request)
    PROVE  IInv'
<1>1. [receipt |-> receipt, request |-> request, checked |-> clock] \in Asked
  BY DEF IInv, TypeOK, Asked
<1>2. TypeOK'
  BY <1>1 DEF IInv, TypeOK, Verify
<1>3. PlaceInv' /\ ViewInv'
  BY <1>1 DEF IInv, TypeOK, PlaceInv, ViewInv, Inside, Verify
<1>4. RowInv' /\ PairInv'
  BY DEF IInv, RowInv, PairInv, RowOf, SameToken, Verify
<1> QED
  BY <1>2, <1>3, <1>4 DEF IInv

LEMMA EnterIInv ==
    ASSUME IInv, NEW v \in Verifiers, ReadNow(v) \/ Lock(v)
    PROVE  IInv'
<1>1. TypeOK'
  BY DEF IInv, TypeOK, ReadNow, Lock
<1>2. PlaceInv'
  <2>1. clock \in Nat
    BY ApprovalsAssumption DEF IInv, TypeOK
  <2> QED
    BY <2>1, ApprovalsAssumption DEF IInv, TypeOK, PlaceInv, Inside, ReadNow, Lock
<1>3. ViewInv'
  BY DEF IInv, TypeOK, ViewInv, ReadNow, Lock
<1>4. RowInv' /\ PairInv'
  BY DEF IInv, RowInv, PairInv, RowOf, SameToken, ReadNow, Lock
<1> QED
  BY <1>1, <1>2, <1>3, <1>4 DEF IInv

LEMMA ExamineIInv ==
    ASSUME IInv, NEW v \in Verifiers, Examine(v)
    PROVE  IInv'
<1>1. Kept(now[v]) \subseteq table
  BY DEF Kept
<1>2. TypeOK'
  BY <1>1 DEF IInv, TypeOK, Examine
<1>3. PlaceInv'
  BY DEF IInv, TypeOK, PlaceInv, Inside, Examine
<1>4. \A row \in table \ Kept(now[v]) : store = "sqlite" /\ row.expires <= clock
  <2>1. clock \in Nat /\ now[v] \in Nat /\ now[v] <= clock
    BY ApprovalsAssumption DEF IInv, TypeOK, PlaceInv
  <2>2. \A row \in table : row.expires \in Nat
    BY DEF IInv, TypeOK, Rows
  <2> QED
    BY <2>1, <2>2 DEF Kept
<1>5. ViewInv'
  BY <1>1, <1>4 DEF IInv, TypeOK, ViewInv, Examine
<1>6. RowInv' /\ PairInv'
  BY DEF IInv, RowInv, PairInv, RowOf, SameToken, Examine
<1> QED
  BY <1>2, <1>3, <1>5, <1>6 DEF IInv

LEMMA TickIInv ==
    ASSUME IInv, Tick
    PROVE  IInv'
<1>1. clock \in Nat /\ clock' = clock + 1 /\ clock' \in 0..MaxTime
  BY ApprovalsAssumption DEF IInv, TypeOK, Tick
<1>2. TypeOK'
  BY <1>1 DEF IInv, TypeOK, Tick
<1>3. PlaceInv'
  BY <1>1, ApprovalsAssumption DEF IInv, TypeOK, PlaceInv, Inside, Tick
<1>4. ViewInv'
  <2>1. \A row \in table : row.expires \in Nat
    BY DEF IInv, TypeOK, Rows
  <2> QED
    BY <1>1, <2>1 DEF IInv, ViewInv, Tick
<1>5. RowInv' /\ PairInv'
  <2>1. \A i \in DOMAIN grants : grants[i].receipt.expires \in Nat
    BY ApprovalsAssumption, GrantType DEF IInv, ReceiptType
  <2> QED
    BY <1>1, <2>1 DEF IInv, RowInv, PairInv, RowOf, SameToken, Tick
<1> QED
  BY <1>2, <1>3, <1>4, <1>5 DEF IInv

\* The commit: if the nonce is consumed, every earlier consumer of it has a
\* row that the transaction purged, hence expired by now.
LEMMA ConsumeIInv ==
    ASSUME IInv, NEW v \in Verifiers, Consume(v)
    PROVE  IInv'
<1> DEFINE receipt == asked[v].receipt
           new == RowOf(receipt)
           grant == [receipt |-> receipt, request |-> asked[v].request,
                     checked |-> asked[v].checked, at |-> clock]
<1>1. /\ pc[v] = "examined" /\ lock = v /\ asked[v] \in Asked
      /\ Leave(v, "idle") /\ clock' = clock /\ clock \in 0..MaxTime /\ store' = store
  BY DEF Consume, IInv, TypeOK, PlaceInv, Inside
<1>2. /\ view[v] \subseteq table
      /\ \A row \in table \ view[v] : store = "sqlite" /\ row.expires <= clock
  BY <1>1 DEF IInv, ViewInv
<1>3. receipt \in Receipts /\ grant \in Grant /\ grant.at = clock
  BY <1>1 DEF Asked, Grant
<1>4. new \in Rows /\ new.token = receipt.token /\ new.expires = receipt.expires
  BY <1>3, RowType
<1>5. \A i \in DOMAIN grants :
        /\ grants[i] \in Grant /\ grants[i].receipt \in Receipts
        /\ RowOf(grants[i].receipt).token = grants[i].receipt.token
        /\ RowOf(grants[i].receipt).expires = grants[i].receipt.expires
  BY RowType, GrantType DEF IInv
<1>6. \A i \in DOMAIN grants :
        \/ RowOf(grants[i].receipt) \in view[v]
        \/ store = "sqlite" /\ grants[i].receipt.expires <= clock
  BY <1>2, <1>5 DEF IInv, RowInv
<1>7. PlaceInv'
  BY <1>1, LeavePlaceInv DEF IInv
<1>8. ViewInv'
  BY <1>1, LeaveEffect DEF IInv, ViewInv, PlaceInv, Inside
<1>9. CASE /\ \A row \in view[v] : row.token # new.token
           /\ table' = view[v] \cup {new}
           /\ grants' = Append(grants, grant)
  <2> HIDE DEF new, grant, receipt
  <2>1. /\ grants' \in Seq(Grant) /\ Len(grants') = Len(grants) + 1
        /\ \A i \in DOMAIN grants : grants'[i] = grants[i]
        /\ grants'[Len(grants) + 1] = grant
        /\ DOMAIN grants' = DOMAIN grants \cup {Len(grants) + 1}
        /\ \A i \in DOMAIN grants : i \in Nat /\ i < Len(grants) + 1
        /\ Len(grants) \in Nat
    BY <1>3, <1>9 DEF IInv, TypeOK
  <2>2. TypeOK'
    BY <1>1, <1>2, <1>4, <1>9, <2>1, LeaveEffect DEF IInv, TypeOK, Places
  <2>3. grant.receipt = receipt
    BY DEF grant
  <2>4. RowInv'
    <3>1. ASSUME NEW i \in DOMAIN grants
          PROVE  RowOf(grants'[i].receipt) \in table' \/ (store = "sqlite" /\ grants'[i].receipt.expires <= clock')
      BY <1>1, <1>6, <1>9, <2>1
    <3>2. RowOf(grants'[Len(grants) + 1].receipt) \in table'
      BY <1>9, <2>1, <2>3 DEF new
    <3> QED
      BY <1>1, <2>1, <3>1, <3>2 DEF RowInv, RowOf
  <2>5. PairInv'
    <3>1. ASSUME NEW i \in DOMAIN grants, grants[i].receipt.token = receipt.token
          PROVE  store = "sqlite" /\ grants[i].receipt.expires <= clock
      BY <1>4, <1>5, <1>6, <1>9, <3>1
    <3>2. ASSUME NEW i \in DOMAIN grants', NEW j \in DOMAIN grants', i < j, SameToken(i, j)'
          PROVE  store = "sqlite" /\ grants'[i].receipt.expires <= grants'[j].at
      <4>1. i \in DOMAIN grants
        BY <2>1, <3>2
      <4>2. CASE j \in DOMAIN grants
        BY <2>1, <3>2, <4>1, <4>2 DEF IInv, PairInv, SameToken
      <4>3. CASE j = Len(grants) + 1
        BY <1>3, <2>1, <2>3, <3>1, <3>2, <4>1, <4>3 DEF SameToken
      <4> QED
        BY <2>1, <4>2, <4>3
    <3> QED
      BY <1>1, <3>2 DEF PairInv
  <2> QED
    BY <1>7, <1>8, <2>2, <2>4, <2>5 DEF IInv
<1>10. CASE table' = view[v] /\ grants' = grants
  <2>1. TypeOK'
    BY <1>1, <1>2, <1>10, LeaveEffect DEF IInv, TypeOK, Places
  <2>2. RowInv' /\ PairInv'
    BY <1>1, <1>6, <1>10 DEF IInv, RowInv, PairInv, RowOf, SameToken
  <2> QED
    BY <1>7, <1>8, <2>1, <2>2 DEF IInv
<1> QED
  BY <1>9, <1>10 DEF Consume

THEOREM StepIInv == IInv /\ [Next]_vars => IInv'
<1> SUFFICES ASSUME IInv, [Next]_vars PROVE IInv'
  OBVIOUS
<1>1. ASSUME NEW v \in Verifiers, LockTimeout(v) \/ ConsumeFails(v) \/ Crash(v)
      PROVE  IInv'
  <2>1. PICK place \in {"idle", "raised"} : Leave(v, place) /\ UNCHANGED <<store, clock, table, grants>>
    BY <1>1 DEF LockTimeout, ConsumeFails, Crash
  <2> QED
    BY <2>1, LeaveIInv
<1>2. CASE UNCHANGED vars
  BY <1>2 DEF vars, IInv, TypeOK, PlaceInv, ViewInv, RowInv, PairInv, RowOf, SameToken
<1> QED
  BY <1>1, <1>2, VerifyIInv, EnterIInv, ExamineIInv, ConsumeIInv, TickIInv DEF Next, Step

\* Every reachable state is well typed, and no nonce is consumed again before
\* the receipt that consumed it has expired, whichever the store, however many
\* verifiers wait, fail or die in it.
THEOREM ConsumedOnceBeforeExpiry == Spec => [](TypeOK /\ OnceBeforeExpiry)
<1>1. IInv => TypeOK /\ OnceBeforeExpiry
  BY DEF IInv, PairInv, OnceBeforeExpiry
<1> QED
  BY <1>1, InitIInv, StepIInv, PTL DEF Spec

\* In the memory store a nonce is consumed once.
THEOREM MemoryOnce == Spec => []MemoryAtMostOnce
<1>1. IInv => MemoryAtMostOnce
  <2> SUFFICES ASSUME IInv, store = "memory",
                      NEW i \in DOMAIN grants, NEW j \in DOMAIN grants, SameToken(i, j)
               PROVE  i = j
    BY DEF MemoryAtMostOnce, AtMostOnce
  <2>1. i \in Nat /\ j \in Nat
    BY DEF IInv, TypeOK
  <2>2. ~ (i < j) /\ ~ (j < i)
    BY DEF IInv, PairInv, SameToken
  <2> QED
    BY <2>1, <2>2
<1> QED
  BY <1>1, InitIInv, StepIInv, PTL DEF Spec

-----------------------------------------------------------------------------
(* A nonce is consumed for what its receipt says.                          *)

\* A nonce is spent by the grant of a receipt that has it.
RowsAreGrants ==
    \A row \in table : \E i \in DOMAIN grants : row = RowOf(grants[i].receipt)

\* What verify_receipt has established about a receipt and a request.
Fits(q) == Bound(q.receipt, q.request) /\ InWindow(q.receipt, q.checked)

\* It holds of every verification that is under way and of every grant, and
\* every row is that of a grant.
MatchInv ==
    /\ RowsAreGrants
    /\ \A v \in Verifiers : pc[v] \notin {"idle", "raised"} => Fits(asked[v])
    /\ \A i \in DOMAIN grants : Fits(grants[i])

\* The rows change only when a transaction commits: it leaves what it saw, and
\* adds its own row together with its grant.
LEMMA StepRowsAreGrants == IInv /\ RowsAreGrants /\ [Next]_vars => RowsAreGrants'
<1> SUFFICES ASSUME IInv, RowsAreGrants, [Next]_vars PROVE RowsAreGrants'
  OBVIOUS
<1>1. CASE UNCHANGED <<table, grants>>
  BY <1>1 DEF RowsAreGrants, RowOf
<1>2. ASSUME NEW v \in Verifiers, Consume(v)
      PROVE  RowsAreGrants'
  <2> DEFINE new == RowOf(asked[v].receipt)
             grant == [receipt |-> asked[v].receipt, request |-> asked[v].request,
                       checked |-> asked[v].checked, at |-> clock]
  <2>1. view[v] \subseteq table /\ asked[v] \in Asked /\ clock \in 0..MaxTime
    BY <1>2 DEF IInv, TypeOK, ViewInv, PlaceInv, Consume
  <2>2. grant \in Grant /\ grants \in Seq(Grant) /\ RowOf(grant.receipt) = new
    BY <2>1 DEF IInv, TypeOK, Asked, Grant
  <2>3. CASE table' = view[v] /\ grants' = grants
    BY <2>1, <2>3 DEF RowsAreGrants, RowOf
  <2>4. CASE table' = view[v] \cup {new} /\ grants' = Append(grants, grant)
    <3> HIDE DEF new, grant
    <3>1. /\ \A i \in DOMAIN grants : i \in DOMAIN grants' /\ grants'[i] = grants[i]
          /\ Len(grants) + 1 \in DOMAIN grants' /\ grants'[Len(grants) + 1] = grant
      BY <2>2, <2>4
    <3>2. \A row \in view[v] : \E i \in DOMAIN grants' : row = RowOf(grants'[i].receipt)
      BY <2>1, <3>1 DEF RowsAreGrants, RowOf
    <3>3. \E i \in DOMAIN grants' : new = RowOf(grants'[i].receipt)
      BY <2>2, <3>1
    <3> QED
      BY <2>4, <3>2, <3>3 DEF RowsAreGrants, RowOf
  <2> QED
    BY <1>2, <2>3, <2>4 DEF Consume
<1> QED
  BY <1>1, <1>2 DEF Next, Step, Verify, ReadNow, Lock, LockTimeout, Examine,
     ConsumeFails, Crash, Tick, vars

LEMMA StepMatchInv == IInv /\ MatchInv /\ [Next]_vars => MatchInv'
<1> SUFFICES ASSUME IInv, MatchInv, [Next]_vars PROVE MatchInv'
  OBVIOUS
<1>t. TypeOK
  BY DEF IInv
<1>r. RowsAreGrants'
  BY StepRowsAreGrants DEF MatchInv
<1>1. ASSUME NEW v \in Verifiers, NEW receipt \in Receipts, NEW request \in Requests,
             Verify(v, receipt, request)
      PROVE  MatchInv'
  <2>1. /\ pc' = [pc EXCEPT ![v] = "checked"] /\ grants' = grants
        /\ asked' = [asked EXCEPT ![v] =
              [receipt |-> receipt, request |-> request, checked |-> clock]]
        /\ Bound(receipt, request) /\ InWindow(receipt, clock)
    BY <1>1 DEF Verify
  <2>2. Fits(asked'[v])
    BY <1>t, <2>1 DEF TypeOK, Fits
  <2> QED
    BY <1>t, <1>r, <2>1, <2>2 DEF TypeOK, MatchInv
<1>2. ASSUME NEW v \in Verifiers, ReadNow(v) \/ Lock(v) \/ Examine(v)
      PROVE  MatchInv'
  <2>1. /\ pc[v] \notin {"idle", "raised"} /\ UNCHANGED <<asked, grants>>
        /\ \A u \in Verifiers \ {v} : pc'[u] = pc[u]
    BY <1>t, <1>2 DEF ReadNow, Lock, Examine, TypeOK
  <2> QED
    BY <1>r, <2>1 DEF MatchInv
<1>3. ASSUME NEW v \in Verifiers, NEW place \in {"idle", "raised"}, Leave(v, place)
      PROVE  \A u \in Verifiers : pc'[u] \notin {"idle", "raised"} => Fits(asked'[u])
  BY <1>t, <1>3, LeaveEffect DEF MatchInv
<1>4. ASSUME NEW v \in Verifiers, LockTimeout(v) \/ ConsumeFails(v) \/ Crash(v)
      PROVE  MatchInv'
  <2>1. PICK place \in {"idle", "raised"} : Leave(v, place) /\ grants' = grants
    BY <1>4 DEF LockTimeout, ConsumeFails, Crash
  <2> QED
    BY <1>r, <1>3, <2>1 DEF MatchInv
<1>5. ASSUME NEW v \in Verifiers, Consume(v)
      PROVE  MatchInv'
  <2> DEFINE grant == [receipt |-> asked[v].receipt, request |-> asked[v].request,
                       checked |-> asked[v].checked, at |-> clock]
  <2>1. Leave(v, "idle") /\ (grants' = grants \/ grants' = Append(grants, grant))
    BY <1>5 DEF Consume
  <2>2. Fits(grant)
    <3>1. Fits(asked[v])
      BY <1>5 DEF Consume, MatchInv
    <3> QED
      BY <3>1 DEF Fits
  <2>3. grants \in Seq(Grant)
    BY <1>t DEF TypeOK
  <2>4. \A i \in DOMAIN grants' : grants'[i] = grant \/ (i \in DOMAIN grants /\ grants'[i] = grants[i])
    <3> HIDE DEF grant
    <3> QED BY <2>1, <2>3
  <2> QED
    BY <1>r, <1>3, <2>1, <2>2, <2>4 DEF MatchInv
<1>6. CASE Tick \/ UNCHANGED vars
  BY <1>r, <1>6 DEF Tick, vars, MatchInv
<1> QED
  BY <1>1, <1>2, <1>4, <1>5, <1>6 DEF Next, Step

\* No approval is spent for another gate, object, scope, tenant, policy, issuer
\* or environment than its own or outside its window, and none is spent by a
\* verification that was refused.
THEOREM ApprovalsFit == Spec => []GrantsMatch
<1>1. Init => MatchInv
  BY DEF Init, MatchInv, RowsAreGrants
<1>2. IInv /\ MatchInv => GrantsMatch
  <2> SUFFICES ASSUME IInv, MatchInv, NEW i \in DOMAIN grants
               PROVE  Approves(grants[i])
    BY DEF GrantsMatch, MatchInv, RowsAreGrants
  <2>1. grants[i] \in Grant
    BY DEF IInv, TypeOK
  <2>2. grants[i].receipt \in ReceiptType /\ grants[i].checked \in Nat
    BY <2>1, ApprovalsAssumption DEF Grant
  <2>3. Bound(grants[i].receipt, grants[i].request) /\ InWindow(grants[i].receipt, grants[i].checked)
    BY DEF MatchInv, Fits
  <2>4. grants[i].receipt.issued \in Nat /\ grants[i].receipt.expires \in Nat
    BY <2>2 DEF ReceiptType
  <2> QED
    BY <2>2, <2>3, <2>4 DEF Bound, SameContext, InWindow, Approves
<1> QED
  BY <1>1, <1>2, InitIInv, StepIInv, StepMatchInv, PTL DEF Spec

-----------------------------------------------------------------------------
(* The lock.                                                               *)

\* Who has the lock is inside the store.
HolderIsInside == \A v \in Verifiers : lock = v => pc[v] \in Inside

Onward(v) == pc[v] = "locked" /\ pc'[v] = "examined"

\* The lock goes from nobody to somebody and back.  Who has it only moves
\* towards the end of the critical section, with each step of its own.
HolderGoesOn ==
    \A v \in Verifiers : lock = v =>
        /\ lock' = None \/ (lock' = v /\ (pc'[v] = pc[v] \/ Onward(v)))
        /\ Step(v) => lock' = None \/ Onward(v)

LEMMA HolderSteps ==
    ASSUME TypeOK, HolderIsInside, NEW v \in Verifiers, lock = v, Step(v)
    PROVE  lock' = None \/ Onward(v)
<1>1. pc[v] \in Inside
  BY DEF HolderIsInside
<1>2. CASE Examine(v)
  BY <1>2 DEF Examine, TypeOK, Onward
<1>3. CASE Consume(v)
  BY <1>3 DEF Consume, Leave
<1> QED
  BY <1>1, <1>2, <1>3 DEF Step, ReadNow, Lock, LockTimeout, Inside

LEMMA LockSteps ==
    ASSUME IInv, HolderIsInside, [Next]_vars
    PROVE  HolderIsInside' /\ HolderGoesOn
<1>t. /\ TypeOK /\ PlaceInv /\ None \notin Verifiers
      /\ \A v \in Verifiers : lock = v /\ Step(v) => lock' = None \/ Onward(v)
  BY ApprovalsAssumption, HolderSteps DEF IInv
<1>1. ASSUME NEW v \in Verifiers,
             ReadNow(v) \/ \E receipt \in Receipts, request \in Requests : Verify(v, receipt, request)
      PROVE  HolderIsInside' /\ HolderGoesOn
  <2>1. /\ pc[v] \notin Inside /\ lock' = lock
        /\ \A u \in Verifiers \ {v} : pc'[u] = pc[u]
    BY <1>t, <1>1 DEF ReadNow, Verify, TypeOK, Inside
  <2> QED
    BY <1>t, <2>1 DEF HolderIsInside, HolderGoesOn
<1>2. ASSUME NEW v \in Verifiers, Lock(v)
      PROVE  HolderIsInside' /\ HolderGoesOn
  <2>1. lock = None /\ lock' = v /\ pc'[v] = "locked"
    BY <1>t, <1>2 DEF Lock, TypeOK
  <2> QED
    BY <1>t, <2>1 DEF HolderIsInside, HolderGoesOn, Inside
<1>3. ASSUME NEW v \in Verifiers, Examine(v)
      PROVE  HolderIsInside' /\ HolderGoesOn
  <2>1. /\ pc[v] = "locked" /\ pc'[v] = "examined" /\ lock' = lock
        /\ \A u \in Verifiers \ {v} : pc'[u] = pc[u]
    BY <1>t, <1>3 DEF Examine, TypeOK
  <2> QED
    BY <1>t, <2>1 DEF HolderIsInside, HolderGoesOn, Inside, Onward
<1>4. ASSUME NEW v \in Verifiers, NEW place \in {"idle", "raised"}, Leave(v, place)
      PROVE  HolderIsInside' /\ HolderGoesOn
  <2>1. lock' = (IF lock = v THEN None ELSE lock) /\ \A u \in Verifiers \ {v} : pc'[u] = pc[u]
    BY <1>t, <1>4, LeaveEffect DEF Leave
  <2> QED
    BY <1>t, <2>1 DEF HolderIsInside, HolderGoesOn
<1>5. CASE Tick \/ UNCHANGED vars
  BY <1>t, <1>5 DEF Tick, vars, HolderIsInside, HolderGoesOn
<1>6. ASSUME NEW v \in Verifiers, LockTimeout(v) \/ Consume(v) \/ ConsumeFails(v) \/ Crash(v)
      PROVE  \E place \in {"idle", "raised"} : Leave(v, place)
  BY <1>6 DEF LockTimeout, Consume, ConsumeFails, Crash
<1> QED
  BY <1>1, <1>2, <1>3, <1>4, <1>5, <1>6 DEF Next, Step

\* Whatever fails or dies, the lock is held only from the beginning to the end
\* of a critical section, and two steps of its holder free it: what is left of
\* LockIsFreed is that the holder takes them (approval.py:31-37 and 58-68).
THEOREM LockIsHeldBriefly == Spec => []HolderIsInside /\ [][HolderGoesOn]_vars
<1>1. Init => HolderIsInside
  BY ApprovalsAssumption DEF Init, HolderIsInside
<1>2. IInv /\ HolderIsInside /\ [Next]_vars => HolderIsInside' /\ [HolderGoesOn]_vars
  BY LockSteps
<1> QED
  BY <1>1, <1>2, InitIInv, StepIInv, PTL DEF Spec
=============================================================================
