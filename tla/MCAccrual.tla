------------------------------ MODULE MCAccrual ------------------------------
(***************************************************************************)
(* Instances of Accrual for TLC: a buyer u1, whom the panel does not know  *)
(* yet, his referrer u2, whose subscription has expired, and one or two    *)
(* orders of a kind.                                                       *)
(***************************************************************************)
EXTENDS Accrual, TLC

CONSTANTS u1, u2, w1, w2, c1, c2, l1, l2, g1, a1

MCThreads  == Workers \cup {Poller}
MCOwner    == [o \in Invoices \cup AdminCredits |-> u1]
MCDays     == [o \in Orders |-> 2]
MCReferrer == [u \in Users |-> IF u = u1 THEN u2 ELSE NoUser]
MCStart    == [u \in Users |-> IF u = u1 THEN 0 ELSE -1]

Symmetry == Permutations(Workers)
=============================================================================
