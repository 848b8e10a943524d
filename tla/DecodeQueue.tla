---------------------------- MODULE DecodeQueue ----------------------------
(***************************************************************************)
(* What table decode_job promises the rest of the system, without reports, *)
(* files or SQL: a queue of jobs that are handed out one at a time and a   *)
(* bounded number of times.  A job whose holder goes away without settling *)
(* it is dropped: it stays out for good.                                   *)
(***************************************************************************)
EXTENDS Naturals

CONSTANTS Jobs, Holders, Budget, Nobody

VARIABLES
    state,          \* the state of each job
    tries,          \* how often each job was handed out
    holds           \* the job each holder works on

queueVars == <<state, tries, holds>>

QueueTypeOK ==
    /\ state \in [Jobs -> {"absent", "pending", "running", "done", "failed"}]
    /\ tries \in [Jobs -> 0 .. Budget]
    /\ holds \in [Holders -> Jobs \cup {Nobody}]

QueueInit ==
    /\ state = [j \in Jobs |-> "absent"]
    /\ tries = [j \in Jobs |-> 0]
    /\ holds = [h \in Holders |-> Nobody]

Enqueue(j) ==
    /\ state[j] = "absent"
    /\ state' = [state EXCEPT ![j] = "pending"]
    /\ UNCHANGED <<tries, holds>>

Take(h, j) ==
    /\ holds[h] = Nobody
    /\ state[j] = "pending"
    /\ state' = [state EXCEPT ![j] = "running"]
    /\ tries' = [tries EXCEPT ![j] = @ + 1]
    /\ holds' = [holds EXCEPT ![h] = j]

\* Done, or given back for another attempt, or given up after the last one.
Settle(h) ==
    /\ holds[h] # Nobody
    /\ \E s \in {"done", "pending", "failed"} :
          /\ s = "pending" => tries[holds[h]] < Budget
          /\ s = "failed" => tries[holds[h]] = Budget
          /\ state' = [state EXCEPT ![holds[h]] = s]
    /\ holds' = [holds EXCEPT ![h] = Nobody]
    /\ UNCHANGED tries

Drop(h) ==
    /\ holds[h] # Nobody
    /\ holds' = [holds EXCEPT ![h] = Nobody]
    /\ UNCHANGED <<state, tries>>

QueueNext ==
    \/ \E j \in Jobs : Enqueue(j)
    \/ \E h \in Holders : (\E j \in Jobs : Take(h, j)) \/ Settle(h) \/ Drop(h)

QueueSpec == QueueInit /\ [][QueueNext]_queueVars

QueueFairSpec ==
    /\ QueueSpec
    /\ \A h \in Holders :
          WF_queueVars((\E j \in Jobs : Take(h, j)) \/ Settle(h) \/ Drop(h))

-----------------------------------------------------------------------------
\* A job is handed to one holder at a time, and is running while it is held.
HeldOnce ==
    \A h \in Holders :
        holds[h] # Nobody =>
            /\ state[holds[h]] = "running"
            /\ \A g \in Holders : holds[g] = holds[h] => g = h

\* A job that waits has an attempt left, one that was given up has none.
TriesLeft ==
    \A j \in Jobs :
        /\ state[j] \in {"absent", "pending"} => tries[j] < Budget
        /\ state[j] = "failed" => tries[j] = Budget
=============================================================================
