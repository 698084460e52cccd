------------------------------ MODULE MCProfiles ------------------------------
\* Model values for TLC: requests, addresses and images are interchangeable.
EXTENDS Profiles, TLC

Perms == Permutations(Calls) \cup Permutations(Addresses) \cup Permutations(Images)
=============================================================================
