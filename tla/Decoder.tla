------------------------------ MODULE Decoder ------------------------------
(***************************************************************************)
(* The worker loop of ucrs-decoder (main.rs, decode.rs): claim a job, run  *)
(* decode_report, settle the job.  Usually one process runs it; `--once`   *)
(* runs may be started beside it, and nothing but the claim keeps them     *)
(* apart.  Symbols and annotation are in module SymbolPool.                *)
(***************************************************************************)
EXTENDS Store

CONSTANT Workers

VARIABLE worker             \* the local state of each decoder's loop

Idle == [pc |-> "idle", job |-> Null, attempts |-> 0, text |-> Null]

WorkerState ==
    [pc : {"idle", "read", "write", "writing", "group", "update", "remove",
           "ok", "fail", "mark"},
     job : JobIds \cup {Null},
     attempts : Nat,
     text : Payloads \cup {Null}]

DecoderInit == worker = [w \in Workers |-> Idle]

DecoderTypeOK == worker \in [Workers -> WorkerState]

At(w, pc)  == worker[w].pc = pc
To(w, pc)  == worker' = [worker EXCEPT ![w].pc = pc]
Release(w) == worker' = [worker EXCEPT ![w] = Idle]
Report(w)  == job[worker[w].job].report
Lost       == "lost" \in Faults

\* Mutation: a claim that takes a job whatever its state.
ClaimableAny(j) == job[j].state \in {"pending", "running"}
\* SELECT id ... WHERE state = 'pending' ORDER BY id LIMIT 1
Claimable(j) == job[j].state = "pending" /\ \A k \in PendingJobs : j <= k

\* Mutations: a claim that does not count itself; a state nobody knows.
RunningSameAttempts(row) == [row EXCEPT !.state = "running"]
RunningDecoding(row) == [row EXCEPT !.state = "decoding", !.attempts = @ + 1]
Running(row) == [row EXCEPT !.state = "running", !.attempts = @ + 1]

Claim(w) ==
    /\ At(w, "idle")
    /\ \E j \in JobIds :
          /\ Claimable(j)
          /\ job' = [job EXCEPT ![j] = Running(@)]
          /\ worker' = [worker EXCEPT ![w] =
                 [pc |-> "read", job |-> j, attempts |-> job'[j].attempts,
                  text |-> Null]]
    /\ UNCHANGED <<device, report, groups, spool>>

\* Reading and payload::decode.  A torn file may decode (encoding "none").
ReadRaw(w) ==
    LET content == raw[Report(w)] IN
    /\ At(w, "read")
    /\ content \in Payloads \ Undecodable
    /\ worker' = [worker EXCEPT ![w].pc = "write", ![w].text = content]
    /\ UNCHANGED <<tables, spool>>

ReadRawFails(w) ==
    /\ At(w, "read")
    /\ raw[Report(w)] \in {Null, Torn} \cup Undecodable
    /\ To(w, "fail")
    /\ UNCHANGED <<tables, spool>>

\* fs::write truncates the file first: an older text is no longer complete.
OpenDecoded(w) ==
    /\ At(w, "write")
    /\ decoded' = [decoded EXCEPT ![Report(w)] = Null]
    /\ To(w, "writing")
    /\ UNCHANGED <<tables, raw>>

WriteDecoded(w) ==
    /\ At(w, "writing")
    /\ decoded' = [decoded EXCEPT ![Report(w)] = worker[w].text]
    /\ To(w, "group")
    /\ UNCHANGED <<tables, raw>>

UpsertGroup(w) ==
    /\ At(w, "group")
    /\ groups' = groups \cup {worker[w].text}
    /\ To(w, "update")
    /\ UNCHANGED <<device, report, job, spool>>

UpdateReport(w) ==
    /\ At(w, "update")
    /\ report' = [report EXCEPT ![Report(w)].state = "decoded",
                                ![Report(w)].group = worker[w].text,
                                ![Report(w)].rawDeleted = TRUE]
    /\ To(w, "remove")
    /\ UNCHANGED <<device, groups, job, spool>>

\* remove_file: a missing file is an error like any other.
RemoveRaw(w) ==
    /\ At(w, "remove")
    /\ raw' = [raw EXCEPT ![Report(w)] = Null]
    /\ To(w, IF raw[Report(w)] = Null THEN "fail" ELSE "ok")
    /\ UNCHANGED <<tables, decoded>>

\* decode_report returns Err: the database, the disk, the permissions.
StepError(w) ==
    /\ "error" \in Faults
    /\ worker[w].pc \in {"read", "write", "writing", "group", "update", "remove"}
    /\ To(w, "fail")
    /\ UNCHANGED <<tables, spool>>

SetJobState(j, state) ==
    \/ job' = [job EXCEPT ![j].state = state]
    \/ Lost /\ job' = job

FinishOk(w) ==
    /\ At(w, "ok")
    /\ SetJobState(worker[w].job, "done")
    /\ Release(w)
    /\ UNCHANGED <<device, report, groups, spool>>

\* Mutations: one attempt too many; one too few.
OutOfAttemptsLate(attempts) == attempts > MaxAttempts
OutOfAttemptsEarly(attempts) == attempts + 1 >= MaxAttempts
OutOfAttempts(attempts) == attempts >= MaxAttempts

FinishRetry(w) ==
    /\ At(w, "fail")
    /\ ~OutOfAttempts(worker[w].attempts)
    /\ SetJobState(worker[w].job, "pending")
    /\ Release(w)
    /\ UNCHANGED <<device, report, groups, spool>>

FinishFailed(w) ==
    /\ At(w, "fail")
    /\ OutOfAttempts(worker[w].attempts)
    /\ SetJobState(worker[w].job, "failed")
    /\ To(w, "mark")
    /\ UNCHANGED <<device, report, groups, spool>>

MarkFailed(w) ==
    /\ At(w, "mark")
    /\ \/ report' = [report EXCEPT ![Report(w)].state = "failed"]
       \/ Lost /\ report' = report
    /\ Release(w)
    /\ UNCHANGED <<device, groups, job, spool>>

WorkerStep(w) ==
    \/ Claim(w)
    \/ ReadRaw(w) \/ ReadRawFails(w)
    \/ OpenDecoded(w) \/ WriteDecoded(w)
    \/ UpsertGroup(w) \/ UpdateReport(w) \/ RemoveRaw(w)
    \/ FinishOk(w) \/ FinishRetry(w) \/ FinishFailed(w) \/ MarkFailed(w)

DecoderNext == \E w \in Workers : WorkerStep(w) \/ StepError(w)
=============================================================================
