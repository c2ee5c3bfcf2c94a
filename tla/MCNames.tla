------------------------------- MODULE MCNames -------------------------------
EXTENDS Names

\* Short ids that differ.
OwnShort == [a \in Accounts |-> a]
=============================================================================
