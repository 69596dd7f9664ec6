------------------------------ MODULE MCAccounts ------------------------------
\* Values for the constants of Accounts: the requests' keys share one prefix.
EXTENDS Accounts, TLC

CONSTANTS r1, r2, r3, u1, admin, p1, p2

MCRequests == {r1, r2, r3}
MCPrefix   == [k \in MCRequests \union {u1, admin} |-> IF k \in MCRequests THEN 1 ELSE 0]
MCSymmetry == Permutations(MCRequests) \union Permutations({p1, p2})
===============================================================================
