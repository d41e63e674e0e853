---------------------------- MODULE OneTimeGrant ----------------------------
(***************************************************************************)
(* What every one-time credential of the service promises: a login         *)
(* challenge, a pairing code, a browser-to-app code.  A grant names the    *)
(* account it stands for, it is taken at most once, by the account it      *)
(* names at that moment, and once taken it never names another account.    *)
(***************************************************************************)
CONSTANTS
    Grants,    \* the credentials that may be issued
    Holders,   \* the accounts they may stand for
    Nobody     \* no account; not one of Holders

VARIABLES
    holder,    \* holder[g]: the account grant g stands for, or Nobody
    taker      \* taker[g]: the account g was taken for, or Nobody

gvars == <<holder, taker>>

GrantInit == /\ holder = [g \in Grants |-> Nobody]
             /\ taker  = [g \in Grants |-> Nobody]

\* Grants may be withdrawn, pruned or run out at any time, several at once.
Void(G) == \A g \in G : holder'[g] \in {holder[g], Nobody}

Withdraw == /\ holder' \in [Grants -> Holders \cup {Nobody}]
            /\ Void(Grants)
            /\ UNCHANGED taker

\* A grant that was not taken comes to stand for a; its predecessors may be
\* withdrawn in the same transaction.
Bind(g, a) == /\ taker[g] = Nobody
              /\ holder' \in [Grants -> Holders \cup {Nobody}]
              /\ holder'[g] = a
              /\ Void(Grants \ {g})
              /\ UNCHANGED taker

Take(g) == /\ taker[g] = Nobody
           /\ holder[g] # Nobody
           /\ taker' = [taker EXCEPT ![g] = holder[g]]
           /\ UNCHANGED holder

GrantNext == \/ Withdraw
             \/ \E g \in Grants, a \in Holders : Bind(g, a)
             \/ \E g \in Grants : Take(g)

GrantSpec == GrantInit /\ [][GrantNext]_gvars
=============================================================================
