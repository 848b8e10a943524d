---------------------------- MODULE MCVisibility ----------------------------
\* Instances of the access control for TLC: k1's report, and an anonymous one.
EXTENDS Visibility, TLC

CONSTANTS k1, own, anonymous

Owners == (own :> k1) @@ (anonymous :> Null)
NoReports == <<>>

Symmetry ==
    Permutations(Nonces) \cup Permutations(Secrets) \cup Permutations(Slugs)
    \cup Permutations(Changes) \cup Permutations(Logins)
=============================================================================
