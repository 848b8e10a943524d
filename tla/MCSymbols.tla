------------------------------ MODULE MCSymbols ------------------------------
\* Instances of the symbol pool for TLC: one snapshot and one release tree.
EXTENDS Symbols, TLC

CONSTANTS snap, rel, s1, s2, r1, own

\* Two builds of the snapshot under one version, one of the release, and one that
\* somebody made of the release's sources.
BuildTree == [b \in Builds |-> IF b \in {r1, own} THEN rel ELSE snap]

Kernel == {<<"vmlinux", r1>>}

\* Sound when both or none of the snapshot builds have the module.
Symmetry == Permutations({s1, s2})
=============================================================================
