----------------------------- MODULE Retention -----------------------------
(***************************************************************************)
(* The retention half of the decoder's hourly task (main.rs, decode.rs     *)
(* gc_failed_raw): it runs beside the worker loop of the same process, and *)
(* beside the server.                                                      *)
(***************************************************************************)
EXTENDS Store

CONSTANT Collectors         \* the decoders that run without --once

VARIABLE gc                 \* ids selected and not yet handled, and the one
                            \* whose file has been removed

Resting == [todo |-> {}, removed |-> Null]

RetentionInit == gc = [p \in Collectors |-> Resting]

RetentionTypeOK ==
    gc \in [Collectors -> [todo : SUBSET Ids, removed : Ids \cup {Null}]]

\* The clock passes received_at + raw_failed_retention_days.
Age(i) ==
    /\ report[i].state # "absent"
    /\ report' = [report EXCEPT ![i].aged = TRUE]
    /\ UNCHANGED <<device, groups, job, spool, gc>>

\* Mutations: the SELECT without state = 'failed'; without the cutoff.
ExpiredAnyState(row) == row.state # "absent" /\ ~row.rawDeleted /\ row.aged
ExpiredAnyAge(row) == row.state = "failed" /\ ~row.rawDeleted
Expired(row) == row.state = "failed" /\ ~row.rawDeleted /\ row.aged

GcSelect(p) ==
    /\ gc[p] = Resting
    /\ gc' = [gc EXCEPT ![p].todo = {i \in Ids : Expired(report[i])}]
    /\ UNCHANGED <<tables, spool>>

\* let _ = remove_file: the error is ignored.
GcRemove(p) ==
    /\ gc[p].removed = Null
    /\ \E i \in gc[p].todo :
          /\ \/ raw' = [raw EXCEPT ![i] = Null]
             \/ "lost" \in Faults /\ raw' = raw
          /\ gc' = [gc EXCEPT ![p].removed = i]
    /\ UNCHANGED <<tables, decoded>>

GcMark(p) ==
    /\ gc[p].removed # Null
    /\ \/ report' = [report EXCEPT ![gc[p].removed].rawDeleted = TRUE]
       \/ "lost" \in Faults /\ report' = report
    /\ gc' = [gc EXCEPT ![p] = [todo |-> @.todo \ {@.removed},
                                removed |-> Null]]
    /\ UNCHANGED <<device, groups, job, spool>>

GcStep(p) == GcSelect(p) \/ GcRemove(p) \/ GcMark(p)

RetentionNext ==
    \/ \E p \in Collectors : GcStep(p)
    \/ \E i \in Ids : Age(i)
=============================================================================
