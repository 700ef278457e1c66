----------------------------- MODULE MCAccounts -----------------------------
EXTENDS Accounts, TLC

CONSTANTS u1, u2, o1, i1, i2, q1, q2

\* Both invites ask the second user into one organisation.
ToSecond == [i \in Invites |-> u2]
ToHome == [i \in Invites |-> o1]
Interchangeable == Permutations(Requests)
=============================================================================
