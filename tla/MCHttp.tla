-------------------------------- MODULE MCHttp --------------------------------
\* Model values for TLC: requests are interchangeable.
EXTENDS Http, TLC

Perms == Permutations(Requests)
=============================================================================
