----------------------------- MODULE MCAccounts -----------------------------
EXTENDS Accounts
CONSTANTS i1, i2, i3
\* Only the account of the thread's first instance changes.
MCLimits == [i \in Instances |-> IF i = Home THEN 2 ELSE 1]
=============================================================================
