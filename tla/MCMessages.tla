------------------------------ MODULE MCMessages ------------------------------
\* Model values for TLC: requests are interchangeable.
EXTENDS Messages, TLC

Perms == Permutations(Calls) \cup Permutations(Marks)
=============================================================================
