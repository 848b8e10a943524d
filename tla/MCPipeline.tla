----------------------------- MODULE MCPipeline -----------------------------
\* Instances of the report pipeline for TLC.
EXTENDS PipelineClaims, TLC

CONSTANTS u1, u2

\* Every upload under this uuid is rejected by payload::decode.
UndecodableU2 == {up \in Uploads : up.uuid = u2}
NoneUndecodable == {}

Jobs1 == {1}
Jobs2 == {1, 2}

Symmetry ==
    Permutations(Devices) \cup Permutations(Requests) \cup Permutations(FreshIds)
=============================================================================
