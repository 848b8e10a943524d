------------------------------ MODULE Pipeline ------------------------------
(***************************************************************************)
(* The report pipeline: uploads (Ingest), decoders (Decoder) and the       *)
(* retention task (Retention) over one database and one spool (Store).     *)
(***************************************************************************)
EXTENDS Ingest, Decoder, Retention

ASSUME CollectorsAssumption == Collectors \subseteq Workers

pipelineVars == <<tables, spool, ingestVars, worker, gc>>

Init == StoreInit /\ IngestInit /\ DecoderInit /\ RetentionInit

\* A decoder process stops: its worker loop and its retention task go.
Crash(w) ==
    /\ "crash" \in Faults
    /\ worker' = [worker EXCEPT ![w] = Idle]
    /\ gc' = [p \in Collectors |-> IF p = w THEN Resting ELSE gc[p]]
    /\ UNCHANGED <<tables, spool, ingestVars>>

Next ==
    \/ IngestNext /\ UNCHANGED <<worker, gc>>
    \/ DecoderNext /\ UNCHANGED <<ingestVars, gc>>
    \/ RetentionNext /\ UNCHANGED <<ingestVars, worker>>
    \/ \E w \in Workers : Crash(w)

Spec == Init /\ [][Next]_pipelineVars

-----------------------------------------------------------------------------
\* Every row, file and program state has the shape the code gives it.
TypeOK ==
    StoreTypeOK /\ IngestTypeOK /\ DecoderTypeOK /\ RetentionTypeOK

\* A report has at most one decode job, so its decoding is one job's affair:
\* the two INSERTs of post_report run once per row, whatever requests race.
OneJobPerReport ==
    \A j, k \in JobIds :
        job[j].report = job[k].report /\ job[j].report # Null => j = k

\* Two decoders never work on the same report (claim_job's UPDATE ... RETURNING
\* is the only thing that keeps them apart), and what one of them works on is
\* running, except while it still has to mark the report failed.
ClaimExclusive ==
    /\ \A v, w \in Workers :
          worker[v].job = worker[w].job /\ worker[v].job # Null => v = w
    /\ \A w \in Workers :
          worker[w].job # Null =>
              \/ job[worker[w].job].state = "running"
              \/ At(w, "mark") /\ job[worker[w].job].state = "failed"

\* No job is attempted more than MAX_ATTEMPTS times, and one that waits for its
\* turn still has an attempt left.
AttemptBudget ==
    \A j \in JobIds :
        /\ job[j].attempts <= MaxAttempts
        /\ job[j].state = "pending" => job[j].attempts < MaxAttempts

\* The crash is never lost: until a failed report's retention has passed, a
\* report has its payload file or its complete decoded text, linked to a group
\* that exists.  Crashes, retries, the other decoder and the retention task may
\* come between any two steps.
NothingLost ==
    \A i \in Ids :
        \/ report[i].state = "absent"
        \/ raw[i] # Null
        \/ /\ report[i].state = "decoded"
           /\ report[i].group \in groups
           /\ decoded[i] = report[i].group
        \/ report[i].state = "failed" /\ report[i].aged

\* A finished job leaves a decoded report whose text is the one its group was
\* computed from; a report is failed only after all attempts of its job.
JobAndReportAgree ==
    \A j \in JobIds :
        LET i == job[j].report IN
        /\ job[j].state = "done" =>
              report[i].state = "decoded" /\ decoded[i] = report[i].group
        /\ job[j].report # Null /\ report[i].state = "failed" =>
              job[j].attempts = MaxAttempts

\* A 200 answer names a row that was made for this very upload.
AckedIsStored == \A a \in acked : report[a[2]].upload = a[1]

\* A device that sends the same uuid again gets no second row, unless the id
\* itself belongs to somebody else's report.
SignedUploadsDeduplicated ==
    \A i, k \in Ids :
        /\ report[i].upload = report[k].upload
        /\ report[i].upload # Null /\ report[i].upload.dev # Null
        => \/ i = k
           \/ LET u == report[i].upload.uuid IN
              report[u].upload \notin {Null, report[i].upload}

\* A payload file disappears only once the report is decoded and its text is
\* complete, or once it is failed and its retention has passed.
RawDropStep ==
    \A i \in Ids :
        raw[i] # Null /\ raw'[i] = Null =>
            \/ report[i].state = "decoded" /\ decoded[i] = report[i].group
            \/ report[i].state = "failed" /\ report[i].aged
RawDropJustified == [][RawDropStep]_pipelineVars

-----------------------------------------------------------------------------
(***************************************************************************)
(* Fairness: a decoder that is not stopped runs its loop on (main.rs polls *)
(* every 5 seconds and drains the queue), and its hourly task ticks on.    *)
(* Nothing is assumed of clients, faults or the clock.                     *)
(***************************************************************************)
WorkerProgress(w) == WorkerStep(w) /\ UNCHANGED <<ingestVars, gc>>
GcProgress(p)     == GcStep(p) /\ UNCHANGED <<ingestVars, worker>>

FairSpec ==
    /\ Spec
    /\ \A w \in Workers : WF_pipelineVars(WorkerProgress(w))
    /\ \A p \in Collectors : WF_pipelineVars(GcProgress(p))

Settled(j)  == job[j].state \in {"done", "failed"}
Stranded(j) == job[j].state = "running" /\ \A w \in Workers : worker[w].job # j

\* Every queued job is settled in the end, unless the decoder that had it
\* stopped or its last statement was lost.
PendingSettles ==
    \A j \in JobIds :
        job[j].state = "pending" ~> Settled(j) \/ Stranded(j)

-----------------------------------------------------------------------------
\* To the queue, a decoder that only has to mark the report is done with it.
HeldJob(w) == IF At(w, "mark") THEN Null ELSE worker[w].job

Queue == INSTANCE DecodeQueue WITH
    Jobs    <- JobIds,
    Holders <- Workers,
    Budget  <- MaxAttempts,
    Nobody  <- Null,
    state   <- [j \in JobIds |-> job[j].state],
    tries   <- [j \in JobIds |-> job[j].attempts],
    holds   <- [w \in Workers |-> HeldJob(w)]

\* The job table under both programs, with all their failures, is that queue.
ImplementsQueue == Queue!QueueFairSpec

-----------------------------------------------------------------------------
\* A job that is done was its report's last attempt.
Finished(i) == \E j \in JobIds : job[j].report = i /\ job[j].state = "done"

StageOf(i) ==
    CASE report[i].state = "absent" -> "unknown"
      [] report[i].state # "absent" /\ Finished(i) -> "closed"
      [] report[i].state = "failed" /\ ~Finished(i) ->
            IF report[i].aged THEN "expired" ELSE "failed"
      [] report[i].state \in {"received", "decoded"} /\ ~Finished(i) -> "open"

\* A text counts once the row refers to a group that was made of it.
TextOf(i) ==
    IF report[i].state = "decoded" /\ decoded[i] = report[i].group
    THEN decoded[i] ELSE Null

Life == INSTANCE ReportLife WITH
    Reports  <- Ids,
    Texts    <- Payloads,
    None     <- Null,
    stage    <- [i \in Ids |-> StageOf(i)],
    payloads <- {i \in Ids : raw[i] # Null},
    text     <- [i \in Ids |-> TextOf(i)]

\* To whoever reads and sends reports, both programs with all their requests,
\* attempts, crashes and collections are one life per report: what is closed
\* keeps its text, what is open or failed can still be read or decoded.
ImplementsLife == Life!LifeSpec
=============================================================================
