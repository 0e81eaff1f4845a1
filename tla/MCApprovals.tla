---------------------------- MODULE MCApprovals ----------------------------
(* Instances of Approvals for TLC. *)
EXTENDS Approvals, TLC

CONSTANTS v1, v2, v3, t1, t2, o1, o2

OurContext == [field \in ContextFields |-> "ours"]

\* Our context, and those that differ from it in one field.
MCContexts ==
    {OurContext} \cup {[OurContext EXCEPT ![field] = "other"] : field \in ContextFields}

MCReceipt(token, gate, type, issued, expires) ==
    [token |-> token, action |-> GATES[gate].action, type |-> GATES[type].type,
     object |-> o1, context |-> OurContext, signed |-> TRUE,
     issued |-> issued, expires |-> expires]

\* Two receipts of one nonce that expire at different times.
RaceReceipts == { MCReceipt(t1, "G1", "G1", 0, 1), MCReceipt(t1, "G1", "G1", 1, 2) }

\* With them: another nonce, whose verification may purge the first one's row;
\* a receipt that mixes two gates, one that is not signed and one whose
\* window is empty.
MCReceipts == RaceReceipts \cup
    { MCReceipt(t2, "G2", "G2", 0, 2),
      MCReceipt(t2, "G1", "G3", 1, 2),
      [MCReceipt(t2, "G3", "G3", 0, 2) EXCEPT !.signed = FALSE],
      MCReceipt(t2, "G3", "G3", 2, 2) }
=============================================================================
