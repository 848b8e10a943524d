--------------------------- MODULE PipelineClaims ---------------------------
(***************************************************************************)
(* What the documents of the repository say of the report pipeline and its *)
(* code does not do.  Each property is refuted by a run of its own; the    *)
(* README tells the counterexamples.                                       *)
(***************************************************************************)
EXTENDS Pipeline

\* A report the device was told is stored has its decode job
\* (phase1-plan.md T2.2 "report + decode_job rows"; protocol.md 3 answers a
\* re-upload from the report row alone).
AckedIsEnqueued == \A a \in acked : \E j \in JobIds : job[j].report = a[2]

\* A decode that was started is finished, retried or given up, also when the
\* decoder is restarted in between (phase1-plan.md T2.5 "retry x3, then state
\* failed"; docker-compose.yml "restart: unless-stopped").
StartedIsSettled ==
    \A j \in JobIds : job[j].state = "running" ~> Settled(j)
=============================================================================
