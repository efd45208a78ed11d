----------------------------- MODULE MCJobHistory -----------------------------
(***************************************************************************)
(* Instances of JobHistory: two mail accounts report the same offer, one of *)
(* them after an interview and the other after a submission; and the user's *)
(* own commands, without any message.                                       *)
(***************************************************************************)
EXTENDS JobHistory

Invite(slot) == [kind |-> "interview", slot |-> slot]
Offered == [kind |-> "offer", slot |-> NoSlot]

MCSourceOf == [m1 |-> "s1", m2 |-> "s2"]
MCDateOf   == [m1 |-> 1, m2 |-> 2]
MCFactsOf  == [m1 |-> <<Invite(1), Offered>>, m2 |-> <<Submitted, Offered>>]

None == [m \in {} |-> 0]
=============================================================================
