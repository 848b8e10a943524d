---------------------------- MODULE SpoolProofs ----------------------------
(***************************************************************************)
(* No crash report is lost between the spool and the database: the files   *)
(* and the rows agree wherever the server, the decoders and the retention  *)
(* task stop, fail and overlap.                                            *)
(***************************************************************************)
EXTENDS TableProofs

\* The complete text is there, linked to a group that exists.
DecodedComplete(i) ==
    /\ report[i].state = "decoded"
    /\ report[i].group \in groups
    /\ decoded[i] = report[i].group

\* No row yet: nothing can have removed the file that was just written.
RawBeforeRow ==
    \A r \in Requests :
        /\ req[r].pc \in {"writing", "insert"}
           /\ report[req[r].id].state = "absent" => raw[req[r].id] # Null
        /\ req[r].pc = "enqueue" => report[req[r].id].state = "received"

\* A report that may still be decoded has its payload file, up to RemoveRaw.
RawWhileOpen ==
    /\ \A j \in JobIds :
          job[j].state = "pending" => raw[job[j].report] # Null
    /\ \A w \in Workers :
          worker[w].pc \notin {"idle", "ok"} => raw[Report(w)] # Null

\* How far decode_report has come is what the files and tables show.
WorkerProgressKnown ==
    \A w \in Workers :
        /\ worker[w].pc \in {"group", "update"} =>
              decoded[Report(w)] = worker[w].text
        /\ worker[w].pc = "update" => worker[w].text \in groups
        /\ worker[w].pc \in {"remove", "ok"} => DecodedComplete(Report(w))
        /\ worker[w].pc = "mark" => worker[w].attempts = MaxAttempts

DoneIsComplete ==
    \A j \in JobIds : job[j].state = "done" => DecodedComplete(job[j].report)

\* Once a report is failed its job is never worked on again.
FailedIsOver ==
    \A j \in JobIds :
        job[j].report # Null /\ report[job[j].report].state = "failed" =>
            /\ job[j].state \in {"running", "failed"}
            /\ job[j].attempts = MaxAttempts
            /\ \A w \in Workers : worker[w].job # j

\* What the retention task selected stays failed and aged.
SelectionStands ==
    \A p \in Collectors : \A i \in gc[p].todo :
        report[i].state = "failed" /\ report[i].aged

\* NothingLost is not inductive: whether a step may drop the payload depends on
\* how far the decoder that takes it has come, and on nobody else being there,
\* which is ClaimInv (one decoder per job) and IngestInv (one job per report).
SpoolInv ==
    /\ ClaimInv /\ IngestInv
    /\ RawBeforeRow /\ RawWhileOpen /\ WorkerProgressKnown
    /\ DoneIsComplete /\ FailedIsOver /\ SelectionStands
    /\ NothingLost

USE NullAssumption, TornAssumption, IdsAssumption

LEMMA SpoolInitially == Init => SpoolInv
<1> SUFFICES ASSUME Init PROVE SpoolInv
    OBVIOUS
<1>1. ClaimInv /\ IngestInv
    BY ClaimInitially, IngestInitially
<1>2. /\ \A w \in Workers : worker[w].pc = "idle"
      /\ \A j \in JobIds : job[j] = NoJob
      /\ \A i \in Ids : report[i].state = "absent"
      /\ \A r \in Requests : req[r].pc = "idle"
      /\ \A p \in Collectors : gc[p].todo = {}
    BY DEF Init, StoreInit, DecoderInit, IngestInit, RetentionInit, NoReport,
           NoRequest, Idle, Resting
<1> QED
    BY <1>1, <1>2
    DEF SpoolInv, RawBeforeRow, RawWhileOpen, WorkerProgressKnown, DoneIsComplete,
        FailedIsOver, SelectionStands, NothingLost, NoJob

\* What a decoder works on is its own: one job, of a report that is not failed.
LEMMA BusyFacts ==
    ASSUME SpoolInv, NEW w \in Workers, worker[w].pc # "idle"
    PROVE  /\ worker[w].job \in JobIds /\ Report(w) \in Ids
           /\ report[Report(w)].state \notin {"absent", "failed"}
           /\ \A v \in Workers \ {w} : worker[v].job # worker[w].job
<1>1. TypeInv
    BY DEF SpoolInv, ClaimInv
<1>2. worker[w].job \in JobIds /\ Report(w) \in Ids
    BY <1>1, TypeFacts DEF Report, WorkerShape, JobShape
<1>3. report[Report(w)].state # "absent"
    BY <1>2 DEF SpoolInv, IngestInv, JobHasRow, Report
<1>4. report[Report(w)].state # "failed"
    BY <1>2 DEF SpoolInv, FailedIsOver, Report
<1>5. \A v \in Workers \ {w} : worker[v].job # worker[w].job
    BY <1>2 DEF SpoolInv, ClaimInv, ClaimExclusive
<1> QED
    BY <1>2, <1>3, <1>4, <1>5

\* A decoder's step concerns one job j and its report i.  If it leaves every
\* other job, row, file and decoder alone, and i in order, all is in order.
LEMMA SpoolLocal ==
    ASSUME SpoolInv, ClaimInv', IngestInv',
           NEW w \in Workers, NEW j \in JobIds, NEW i \in Ids,
           job[j].report = i, job'[j].report = i,
           worker[w].job \in {j, Null}, worker'[w].job \in {j, Null},
           report[i].state # "failed", report'[i].state # "absent",
           UNCHANGED <<req, gc>>,
           \A k \in Ids \ {i} :
              raw'[k] = raw[k] /\ decoded'[k] = decoded[k] /\ report'[k] = report[k],
           \A k \in JobIds \ {j} : job'[k] = job[k],
           \A v \in Workers \ {w} : worker'[v] = worker[v] /\ worker[v].job # j,
           groups \subseteq groups',
           raw'[i] # Null \/ DecodedComplete(i)',
           job'[j].state = "pending" => raw'[i] # Null,
           job'[j].state = "done" => DecodedComplete(i)',
           worker'[w].pc \notin {"idle", "ok"} => raw'[i] # Null,
           worker'[w].pc \in {"group", "update"} =>
              decoded'[i] = worker'[w].text,
           worker'[w].pc = "update" => worker'[w].text \in groups',
           worker'[w].pc \in {"remove", "ok"} => DecodedComplete(i)',
           worker'[w].pc = "mark" => worker'[w].attempts = MaxAttempts,
           report'[i].state = "failed" =>
              /\ job'[j].state \in {"running", "failed"}
              /\ job'[j].attempts = MaxAttempts
              /\ worker'[w].job # j
    PROVE  SpoolInv'
<1>1. TypeInv /\ TypeInv'
    BY DEF SpoolInv, ClaimInv
<1>2. \A k \in JobIds \ {j} : job[k].report # i
    BY DEF SpoolInv, IngestInv, OneJobPerReport
<1>3. \A v \in Workers \ {w} : worker[v].pc # "idle" =>
          /\ worker[v].job \in JobIds \ {j}
          /\ Report(v) \in Ids \ {i}
          /\ Report(v)' = Report(v)
    BY <1>1, <1>2, TypeFacts DEF Report, WorkerShape, JobShape
<1>4. worker'[w].pc # "idle" => worker'[w].job = j /\ Report(w)' = i
    BY <1>1 DEF Report, TypeInv, WorkerShape
<1>5. \A k \in Ids \ {i} : DecodedComplete(k) => DecodedComplete(k)'
    BY DEF DecodedComplete
<1>6. RawBeforeRow'
    <2>1. \A r \in Requests : req[r].pc = "enqueue" => req[r].id # i
        BY DEF SpoolInv, IngestInv, EnqueueOwnsRow
    <2>2. \A r \in Requests : req[r].pc # "idle" => req[r].id \in Ids
        BY <1>1, TypeFacts DEF RequestShape
    <2> QED
        BY <2>1, <2>2 DEF SpoolInv, RawBeforeRow
<1>7. RawWhileOpen'
    <2>1. ASSUME NEW k \in JobIds, job'[k].state = "pending"
          PROVE  raw'[job'[k].report] # Null
        BY <1>1, <1>2, <2>1, TypeFacts DEF SpoolInv, RawWhileOpen, JobShape
    <2>2. ASSUME NEW v \in Workers, worker'[v].pc \notin {"idle", "ok"}
          PROVE  raw'[Report(v)'] # Null
        BY <1>3, <1>4, <2>2 DEF SpoolInv, RawWhileOpen
    <2> QED
        BY <2>1, <2>2 DEF RawWhileOpen
<1>8. WorkerProgressKnown'
    <2>1. ASSUME NEW v \in Workers \ {w}, worker[v].pc # "idle"
          PROVE  /\ worker'[v] = worker[v] /\ Report(v)' = Report(v)
                 /\ decoded'[Report(v)] = decoded[Report(v)]
                 /\ DecodedComplete(Report(v)) => DecodedComplete(Report(v))'
        BY <1>3, <1>5, <2>1 DEF DecodedComplete
    <2> QED
        BY <1>4, <2>1 DEF SpoolInv, WorkerProgressKnown, DecodedComplete
<1>9. DoneIsComplete'
    <2>1. ASSUME NEW k \in JobIds \ {j}, job[k].state = "done"
          PROVE  job[k].report \in Ids \ {i} /\ DecodedComplete(job[k].report)
        BY <1>1, <1>2, <2>1, TypeFacts DEF SpoolInv, DoneIsComplete, JobShape
    <2> QED
        BY <1>5, <2>1 DEF DoneIsComplete, DecodedComplete
<1>10. FailedIsOver'
    <2>1. ASSUME NEW k \in JobIds \ {j}, job[k].report # Null
          PROVE  /\ job[k].report \in Ids \ {i}
                 /\ worker'[w].job # k
        BY <1>1, <1>2, <2>1, TypeFacts
    <2> QED
        BY <2>1 DEF SpoolInv, FailedIsOver
<1>11. SelectionStands'
    BY <1>1, TypeFacts DEF SpoolInv, SelectionStands
<1>12. NothingLost'
    BY <1>5 DEF SpoolInv, NothingLost, DecodedComplete
<1> QED
    BY <1>6, <1>7, <1>8, <1>9, <1>10, <1>11, <1>12 DEF SpoolInv

LEMMA SpoolClaim ==
    ASSUME SpoolInv, ClaimInv', IngestInv', NEW w \in Workers, Claim(w),
           UNCHANGED <<req, gc>>
    PROVE  SpoolInv'
<1>1. TypeInv
    BY DEF SpoolInv, ClaimInv
<1>2. PICK j \in JobIds :
          /\ job[j].state = "pending"
          /\ job' = [job EXCEPT ![j] = Running(@)]
          /\ worker' = [worker EXCEPT ![w] =
                 [pc |-> "read", job |-> j, attempts |-> job'[j].attempts,
                  text |-> Null]]
    BY DEF Claim, Claimable
<1>3. /\ job'[j].state = "running" /\ job'[j].report = job[j].report
      /\ \A k \in JobIds \ {j} : job'[k] = job[k]
    BY <1>1, <1>2, RunningType, TypeFacts
<1>4. /\ worker'[w].job = j /\ worker'[w].pc = "read" /\ worker[w].job = Null
      /\ \A v \in Workers \ {w} : worker'[v] = worker[v]
    BY <1>1, <1>2, TypeFacts DEF Claim, At, WorkerShape
<1>5. \A v \in Workers : worker[v].job # j
    BY <1>2 DEF SpoolInv, ClaimInv, ClaimExclusive, At
<1>6. job[j].report \in Ids /\ report[job[j].report].state \notin {"absent", "failed"}
    <2>1. job[j].report \in Ids
        BY <1>1, <1>2, TypeFacts DEF JobShape
    <2> QED
        BY <1>2, <2>1 DEF SpoolInv, IngestInv, JobHasRow, FailedIsOver
<1>7. raw[job[j].report] # Null
    BY <1>2 DEF SpoolInv, RawWhileOpen
<1>8. UNCHANGED <<report, groups, raw, decoded>>
    BY DEF Claim, spool
<1> QED
    BY <1>3, <1>4, <1>5, <1>6, <1>7, <1>8, SpoolLocal

\* The worker loop lets go of its job: at the end of process_job, or in a crash.
LEMMA SpoolRelease ==
    ASSUME SpoolInv, ClaimInv', IngestInv', NEW w \in Workers,
           worker[w].pc # "idle", worker' = [worker EXCEPT ![w] = Idle],
           UNCHANGED <<req, report, groups, raw, decoded, gc>>,
           \/ job' = job
           \/ worker[w].pc = "ok" /\ SetJobState(worker[w].job, "done")
           \/ worker[w].pc = "fail" /\ SetJobState(worker[w].job, "pending")
    PROVE  SpoolInv'
<1>1. TypeInv
    BY DEF SpoolInv, ClaimInv
<1>2. PICK j \in JobIds, i \in Ids :
          /\ j = worker[w].job /\ i = Report(w) /\ job[j].report = i
          /\ report[i].state \notin {"absent", "failed"}
          /\ \A v \in Workers \ {w} : worker[v].job # j
    BY BusyFacts DEF Report
<1>3. /\ worker'[w].pc = "idle" /\ worker'[w].job = Null
      /\ \A v \in Workers \ {w} : worker'[v] = worker[v]
    BY <1>1, TypeFacts DEF Idle
<1>4. /\ job'[j].report = i
      /\ \A k \in JobIds \ {j} : job'[k] = job[k]
    BY <1>1, <1>2, TypeFacts DEF SetJobState, JobRow
<1>5. /\ worker[w].pc = "ok" => DecodedComplete(i)
      /\ worker[w].pc # "ok" => raw[i] # Null
    BY <1>2 DEF SpoolInv, RawWhileOpen, WorkerProgressKnown
<1>6. DecodedComplete(i)' <=> DecodedComplete(i)
    BY <1>2 DEF DecodedComplete
<1>7. job[j].state \in {"running", "failed"}
    BY <1>2 DEF SpoolInv, ClaimInv, ClaimExclusive
<1>8. /\ job'[j].state = "pending" => raw[i] # Null
      /\ job'[j].state = "done" => DecodedComplete(i)
    BY <1>1, <1>2, <1>5, <1>7, TypeFacts DEF SetJobState, JobRow
<1> QED
    BY <1>2, <1>3, <1>4, <1>5, <1>6, <1>8, SpoolLocal

\* The steps that leave the job table alone and keep the job.
LEMMA SpoolBusy ==
    ASSUME SpoolInv, ClaimInv', IngestInv', NEW w \in Workers,
           \/ ReadRaw(w) \/ ReadRawFails(w) \/ OpenDecoded(w) \/ WriteDecoded(w)
           \/ UpsertGroup(w) \/ UpdateReport(w) \/ RemoveRaw(w) \/ StepError(w),
           UNCHANGED <<req, gc>>
    PROVE  SpoolInv'
<1>1. TypeInv
    BY DEF SpoolInv, ClaimInv
<1>2. worker[w].pc \in {"read", "write", "writing", "group", "update", "remove"}
    BY DEF ReadRaw, ReadRawFails, OpenDecoded, WriteDecoded, UpsertGroup,
           UpdateReport, RemoveRaw, StepError, At
<1>3. PICK j \in JobIds, i \in Ids :
          /\ j = worker[w].job /\ i = Report(w) /\ job[j].report = i
          /\ report[i].state \notin {"absent", "failed"}
          /\ \A v \in Workers \ {w} : worker[v].job # j
    BY <1>2, BusyFacts DEF Report
<1>4. raw[i] # Null /\ job[j].state = "running"
    BY <1>2, <1>3 DEF SpoolInv, RawWhileOpen, ClaimInv, ClaimExclusive, At
<1>5. /\ worker[w].pc = "remove" => DecodedComplete(i)
      /\ worker[w].pc \in {"group", "update"} => decoded[i] = worker[w].text
      /\ worker[w].pc = "update" => worker[w].text \in groups
    BY <1>3 DEF SpoolInv, WorkerProgressKnown
<1>6. job' = job
    BY DEF ReadRaw, ReadRawFails, OpenDecoded, WriteDecoded, UpsertGroup,
           UpdateReport, RemoveRaw, StepError, tables
<1>7. /\ worker'[w].job = j
      /\ \A v \in Workers \ {w} : worker'[v] = worker[v]
    BY <1>1, <1>3, TypeFacts
    DEF ReadRaw, ReadRawFails, OpenDecoded, WriteDecoded, UpsertGroup,
        UpdateReport, RemoveRaw, StepError, To, WorkerState
<1> USE DEF tables, spool
<1>8. CASE ReadRaw(w) \/ ReadRawFails(w) \/ StepError(w)
    <2>1. /\ worker'[w].pc \in {"write", "fail"}
          /\ UNCHANGED <<report, groups, raw, decoded>>
        BY <1>1, <1>8, TypeFacts
        DEF ReadRaw, ReadRawFails, StepError, To, WorkerState
    <2> QED
        BY <1>3, <1>4, <1>6, <1>7, <2>1, SpoolLocal
<1>9. CASE OpenDecoded(w) \/ WriteDecoded(w)
    <2>1. /\ worker'[w].pc \in {"writing", "group"}
          /\ worker'[w].pc = "group" => decoded'[i] = worker'[w].text
          /\ \A k \in Ids \ {i} : decoded'[k] = decoded[k]
          /\ UNCHANGED <<report, groups, raw>>
        BY <1>1, <1>3, <1>9, TypeFacts DEF OpenDecoded, WriteDecoded, To, WorkerState
    <2> QED
        BY <1>3, <1>4, <1>6, <1>7, <2>1, SpoolLocal
<1>10. CASE UpsertGroup(w)
    <2>1. /\ worker'[w].pc = "update" /\ worker'[w].text = worker[w].text
          /\ worker[w].pc = "group"
          /\ groups' = groups \cup {worker[w].text}
          /\ UNCHANGED <<report, raw, decoded>>
        BY <1>1, <1>10, TypeFacts DEF UpsertGroup, At, To, WorkerState
    <2> QED
        BY <1>3, <1>4, <1>5, <1>6, <1>7, <2>1, SpoolLocal
<1>11. CASE UpdateReport(w)
    <2>1. /\ worker'[w].pc = "remove" /\ worker[w].pc = "update"
          /\ UNCHANGED <<groups, raw, decoded>>
        BY <1>1, <1>11, TypeFacts DEF UpdateReport, At, To, WorkerState
    <2>2. /\ report'[i].state = "decoded" /\ report'[i].group = worker[w].text
          /\ \A k \in Ids \ {i} : report'[k] = report[k]
        BY <1>1, <1>3, <1>11, TypeFacts DEF UpdateReport, ReportRow
    <2>3. DecodedComplete(i)'
        BY <1>3, <1>5, <2>1, <2>2 DEF DecodedComplete
    <2> QED
        BY <1>3, <1>4, <1>6, <1>7, <2>1, <2>2, <2>3, SpoolLocal
<1>12. CASE RemoveRaw(w)
    <2>1. /\ worker'[w].pc = "ok" /\ worker[w].pc = "remove"
          /\ \A k \in Ids \ {i} : raw'[k] = raw[k]
          /\ UNCHANGED <<report, groups, decoded>>
        BY <1>1, <1>3, <1>4, <1>12, TypeFacts DEF RemoveRaw, At, To, WorkerState
    <2>2. DecodedComplete(i)'
        BY <1>3, <1>5, <2>1 DEF DecodedComplete
    <2> QED
        BY <1>3, <1>4, <1>6, <1>7, <2>1, <2>2, SpoolLocal
<1> QED
    BY <1>8, <1>9, <1>10, <1>11, <1>12

LEMMA SpoolGiveUp ==
    ASSUME SpoolInv, ClaimInv', IngestInv', NEW w \in Workers,
           FinishFailed(w) \/ MarkFailed(w), UNCHANGED <<req, gc>>
    PROVE  SpoolInv'
<1>1. TypeInv
    BY DEF SpoolInv, ClaimInv
<1>2. worker[w].pc \in {"fail", "mark"}
    BY DEF FinishFailed, MarkFailed, At
<1>3. PICK j \in JobIds, i \in Ids :
          /\ j = worker[w].job /\ i = Report(w) /\ job[j].report = i
          /\ report[i].state \notin {"absent", "failed"}
          /\ \A v \in Workers \ {w} : worker[v].job # j
    BY <1>2, BusyFacts DEF Report
<1>4. raw[i] # Null /\ job[j].state \in {"running", "failed"}
      /\ worker[w].attempts = job[j].attempts
    BY <1>2, <1>3
    DEF SpoolInv, RawWhileOpen, ClaimInv, ClaimExclusive, AttemptsKnown
<1>5. CASE FinishFailed(w)
    <2>1. /\ worker'[w].pc = "mark" /\ worker'[w].job = j
          /\ worker'[w].attempts = worker[w].attempts
          /\ \A v \in Workers \ {w} : worker'[v] = worker[v]
          /\ UNCHANGED <<report, groups, raw, decoded>>
        BY <1>1, <1>3, <1>5, TypeFacts DEF FinishFailed, To, WorkerState, spool
    <2>2. worker[w].attempts = MaxAttempts
        <3>1. job[j].attempts \in Nat /\ job[j].attempts <= MaxAttempts
            BY <1>1, <1>3, TypeFacts DEF SpoolInv, ClaimInv, AttemptBudget
        <3>2. job[j].attempts >= MaxAttempts
            BY <1>4, <1>5 DEF FinishFailed, OutOfAttempts
        <3> QED
            BY <1>4, <3>1, <3>2, MaxAttemptsAssumption
    <2>3. /\ job'[j].state \in {"running", "failed"} /\ job'[j].report = i
          /\ \A k \in JobIds \ {j} : job'[k] = job[k]
        BY <1>1, <1>3, <1>4, <1>5, TypeFacts
        DEF FinishFailed, SetJobState, JobRow
    <2> QED
        BY <1>3, <1>4, <2>1, <2>2, <2>3, SpoolLocal
<1>6. CASE MarkFailed(w)
    <2>1. /\ worker'[w].pc = "idle" /\ worker'[w].job = Null
          /\ \A v \in Workers \ {w} : worker'[v] = worker[v]
          /\ UNCHANGED <<job, groups, raw, decoded>>
          /\ worker[w].pc = "mark"
        BY <1>1, <1>6, TypeFacts DEF MarkFailed, Release, At, Idle, spool
    <2>2. job[j].attempts = MaxAttempts
        BY <1>4, <2>1 DEF SpoolInv, WorkerProgressKnown
    <2>3. /\ report'[i].state # "absent"
          /\ \A k \in Ids \ {i} : report'[k] = report[k]
        BY <1>1, <1>3, <1>6, TypeFacts DEF MarkFailed, ReportRow
    <2> QED
        BY <1>3, <1>4, <2>1, <2>2, <2>3, SpoolLocal
<1> QED
    BY <1>5, <1>6

\* A request before its first INSERT changes no row, and only adds files.
LEMMA SpoolUpload ==
    ASSUME SpoolInv, ClaimInv', IngestInv',
           UNCHANGED <<report, groups, decoded, job, worker, gc>>,
           \A i \in Ids : raw[i] # Null => raw'[i] # Null,
           RawBeforeRow'
    PROVE  SpoolInv'
<1>1. TypeInv
    BY DEF SpoolInv, ClaimInv
<1>2. \A i \in Ids : DecodedComplete(i) => DecodedComplete(i)'
    BY DEF DecodedComplete
<1>3. \A w \in Workers : worker[w].pc # "idle" =>
          Report(w) \in Ids /\ Report(w)' = Report(w)
    BY BusyFacts DEF Report
<1>4. RawWhileOpen' /\ WorkerProgressKnown'
    <2>1. \A j \in JobIds : job[j].state = "pending" => job[j].report \in Ids
        BY <1>1, TypeFacts DEF JobShape
    <2>2. RawWhileOpen'
        BY <1>3, <2>1 DEF SpoolInv, RawWhileOpen
    <2>3. WorkerProgressKnown'
        BY <1>3 DEF SpoolInv, WorkerProgressKnown, DecodedComplete
    <2> QED
        BY <2>2, <2>3
<1>5. DoneIsComplete' /\ FailedIsOver' /\ SelectionStands'
    BY DEF SpoolInv, DoneIsComplete, FailedIsOver, SelectionStands, DecodedComplete
<1>6. NothingLost'
    BY DEF SpoolInv, NothingLost
<1> QED
    BY <1>4, <1>5, <1>6 DEF SpoolInv

LEMMA SpoolInsertReport ==
    ASSUME SpoolInv, ClaimInv', IngestInv', NEW r \in Requests,
           InsertReport(r), UNCHANGED <<worker, gc>>
    PROVE  SpoolInv'
<1>1. TypeInv
    BY DEF SpoolInv, ClaimInv
<1>2. PICK i \in Ids :
          /\ i = req[r].id /\ report[i].state = "absent"
          /\ report'[i].state = "received"
          /\ \A k \in Ids \ {i} : report'[k] = report[k]
          /\ req[r].pc = "insert" /\ req'[r].pc = "enqueue" /\ req'[r].id = i
          /\ \A q \in Requests \ {r} : req'[q] = req[q]
          /\ UNCHANGED <<groups, job, raw, decoded>>
    BY <1>1, TypeFacts
    DEF InsertReport, Goto, RequestShape, NoReport, RequestState, spool
<1>3. raw[i] # Null
    BY <1>2 DEF SpoolInv, RawBeforeRow
<1>4. \A j \in JobIds : job[j].report # i
    BY <1>2 DEF SpoolInv, IngestInv, JobHasRow
<1>5. \A w \in Workers : worker[w].pc # "idle" =>
          Report(w) \in Ids \ {i} /\ Report(w)' = Report(w)
    BY <1>2, BusyFacts DEF Report
<1>6. RawBeforeRow'
    <2>1. ASSUME NEW q \in Requests \ {r}, req[q].pc # "idle"
          PROVE  /\ req'[q] = req[q] /\ req[q].id \in Ids
                 /\ req[q].pc = "enqueue" => req[q].id # i
        BY <1>1, <1>2, <2>1, TypeFacts DEF SpoolInv, RawBeforeRow, RequestShape
    <2> QED
        BY <1>2, <2>1 DEF SpoolInv, RawBeforeRow
<1>7. RawWhileOpen'
    BY <1>2, <1>5 DEF SpoolInv, RawWhileOpen
<1>8. WorkerProgressKnown'
    <2>1. \A k \in Ids \ {i} : DecodedComplete(k) => DecodedComplete(k)'
        BY <1>2 DEF DecodedComplete
    <2> QED
        BY <1>2, <1>5, <2>1 DEF SpoolInv, WorkerProgressKnown, DecodedComplete
<1>9. DoneIsComplete' /\ FailedIsOver'
    <2>1. \A j \in JobIds : job[j].state = "done" => job[j].report \in Ids \ {i}
        BY <1>1, <1>4, TypeFacts DEF JobShape
    <2>2. DoneIsComplete'
        BY <1>2, <2>1 DEF SpoolInv, DoneIsComplete, DecodedComplete
    <2>3. FailedIsOver'
        BY <1>1, <1>2, <1>4, TypeFacts DEF SpoolInv, FailedIsOver
    <2> QED
        BY <2>2, <2>3
<1>10. SelectionStands'
    BY <1>1, <1>2, TypeFacts DEF SpoolInv, SelectionStands
<1>11. NothingLost'
    BY <1>2, <1>3 DEF SpoolInv, NothingLost
<1> QED
    BY <1>6, <1>7, <1>8, <1>9, <1>10, <1>11 DEF SpoolInv

LEMMA SpoolInsertJob ==
    ASSUME SpoolInv, ClaimInv', IngestInv', NEW r \in Requests,
           InsertJob(r), UNCHANGED <<worker, gc>>
    PROVE  SpoolInv'
<1>1. TypeInv
    BY DEF SpoolInv, ClaimInv
<1>2. PICK i \in Ids :
          /\ i = req[r].id /\ req[r].pc = "enqueue" /\ req'[r].pc = "idle"
          /\ \A q \in Requests \ {r} : req'[q] = req[q]
          /\ UNCHANGED <<report, groups, raw, decoded>>
    BY <1>1, TypeFacts
    DEF InsertJob, Stop, NoRequest, RequestShape, RequestState, spool
<1>3. PICK j \in JobIds :
          job[j].state = "absent" /\ job' = [job EXCEPT ![j] = NewJob(i)]
    BY <1>2 DEF InsertJob, NewJob
<1>4. /\ job'[j].state = "pending" /\ job'[j].report = i
      /\ \A k \in JobIds \ {j} : job'[k] = job[k]
    BY <1>1, <1>3, NewJobType, TypeFacts
<1>5. report[i].state = "received" /\ raw[i] # Null
    BY <1>2 DEF SpoolInv, RawBeforeRow, NothingLost
<1>6. \A w \in Workers : worker[w].pc # "idle" =>
          /\ worker[w].job \in JobIds \ {j} /\ Report(w) \in Ids
          /\ Report(w)' = Report(w)
    BY <1>1, <1>3, <1>4, BusyFacts, TypeFacts DEF Report, WorkerShape
<1>7. RawBeforeRow'
    BY <1>2 DEF SpoolInv, RawBeforeRow
<1>8. RawWhileOpen'
    BY <1>2, <1>4, <1>5, <1>6 DEF SpoolInv, RawWhileOpen
<1>9. WorkerProgressKnown'
    BY <1>2, <1>6 DEF SpoolInv, WorkerProgressKnown, DecodedComplete
<1>10. DoneIsComplete'
    BY <1>2, <1>4 DEF SpoolInv, DoneIsComplete, DecodedComplete
<1>11. FailedIsOver'
    BY <1>2, <1>4, <1>5 DEF SpoolInv, FailedIsOver
<1>12. SelectionStands' /\ NothingLost'
    BY <1>2 DEF SpoolInv, SelectionStands, NothingLost
<1> QED
    BY <1>7, <1>8, <1>9, <1>10, <1>11, <1>12 DEF SpoolInv

LEMMA SpoolRequest ==
    ASSUME SpoolInv, ClaimInv', IngestInv', IngestNext, UNCHANGED <<worker, gc>>
    PROVE  SpoolInv'
<1>1. TypeInv
    BY DEF SpoolInv, ClaimInv
<1>2. ASSUME NEW r \in Requests,
             \/ LookupAck(r) \/ LookupCollision(r) \/ LookupNew(r)
             \/ InsertConflict(r) \/ Abort(r)
             \/ \E up \in Uploads : Authenticate(r, up)
      PROVE  SpoolInv'
    <2>1. /\ UNCHANGED <<report, groups, job, raw, decoded>>
          /\ req'[r].pc \in {"idle", "lookup", "write"}
          /\ \A q \in Requests \ {r} : req'[q] = req[q]
        BY <1>1, <1>2, TypeFacts
        DEF Authenticate, LookupAck, LookupCollision, LookupNew, InsertConflict,
            Abort, Goto, Stop, NoRequest, RequestState, tables, spool
    <2>2. RawBeforeRow'
        BY <2>1 DEF SpoolInv, RawBeforeRow
    <2> QED
        BY <2>1, <2>2, SpoolUpload
<1>3. ASSUME NEW r \in Requests, OpenRaw(r) \/ WriteRaw(r)
      PROVE  SpoolInv'
    <2>1. PICK i \in Ids : i = req[r].id /\ req[r].pc \in {"write", "writing"}
        BY <1>1, <1>3, TypeFacts DEF OpenRaw, WriteRaw, RequestShape
    <2>2. /\ UNCHANGED <<report, groups, job, decoded>>
          /\ req'[r].pc \in {"writing", "insert"} /\ req'[r].id = i
          /\ \A q \in Requests \ {r} : req'[q] = req[q]
        BY <1>1, <1>3, <2>1, TypeFacts
        DEF OpenRaw, WriteRaw, Goto, RequestState, tables
    <2>3. /\ \A k \in Ids \ {i} : raw'[k] = raw[k]
          /\ raw[i] # Null => raw'[i] # Null
          /\ req[r].pc = "write" => raw'[i] # Null
        <3>1. CASE OpenRaw(r)
            BY <1>1, <2>1, <3>1, TypeFacts DEF OpenRaw, Payloads
        <3>2. CASE WriteRaw(r)
            <4>1. PICK c \in Written(raw[i], req[r].upload) :
                      raw' = [raw EXCEPT ![i] = c]
                BY <2>1, <3>2 DEF WriteRaw
            <4>2. req[r].upload \in Uploads /\ req[r].pc = "writing"
                BY <1>1, <3>2, TypeFacts DEF WriteRaw, RequestShape
            <4>3. raw[i] # Null => c # Null
                BY <4>1, <4>2 DEF Written, Payloads
            <4> QED
                BY <1>1, <4>1, <4>2, <4>3, TypeFacts
        <3> QED
            BY <1>3, <3>1, <3>2
    <2>4. RawBeforeRow'
        BY <1>1, <2>1, <2>2, <2>3, TypeFacts
        DEF SpoolInv, RawBeforeRow, RequestShape
    <2> QED
        BY <2>2, <2>3, <2>4, SpoolUpload
<1>4. ASSUME NEW d \in Submitters, RejectUpload(d) PROVE SpoolInv'
    <2>1. UNCHANGED <<report, groups, job, raw, decoded, req>>
        BY <1>4 DEF RejectUpload, ingestVars
    <2>2. RawBeforeRow'
        BY <2>1 DEF SpoolInv, RawBeforeRow
    <2> QED
        BY <2>1, <2>2, SpoolUpload
<1> QED
    BY <1>2, <1>3, <1>4, SpoolInsertReport, SpoolInsertJob
    DEF IngestNext, RequestStep

LEMMA SpoolRetention ==
    ASSUME SpoolInv, ClaimInv', IngestInv', RetentionNext,
           UNCHANGED <<ingestVars, worker>>
    PROVE  SpoolInv'
<1>1. TypeInv
    BY DEF SpoolInv, ClaimInv
<1>2. UNCHANGED <<groups, decoded, job, req>>
    BY DEF RetentionNext, GcStep, Age, GcSelect, GcRemove, GcMark, tables, spool,
           ingestVars
<1>3. \A w \in Workers : worker[w].pc # "idle" =>
          Report(w) \in Ids /\ Report(w)' = Report(w)
    BY <1>2, BusyFacts DEF Report
<1>4. \A j \in JobIds : job[j].state # "absent" => job[j].report \in Ids
    BY <1>1, TypeFacts DEF JobShape
<1>5. ASSUME \A i \in Ids : /\ report'[i].state = report[i].state
                            /\ report'[i].group = report[i].group
                            /\ report[i].aged => report'[i].aged,
             raw' = raw, SelectionStands'
      PROVE  SpoolInv'
    <2>1. RawBeforeRow'
        BY <1>1, <1>2, <1>5, TypeFacts DEF SpoolInv, RawBeforeRow, RequestShape
    <2>2. RawWhileOpen'
        BY <1>2, <1>3, <1>5 DEF SpoolInv, RawWhileOpen
    <2>3. WorkerProgressKnown'
        BY <1>2, <1>3, <1>5 DEF SpoolInv, WorkerProgressKnown, DecodedComplete
    <2>4. DoneIsComplete'
        BY <1>2, <1>4, <1>5 DEF SpoolInv, DoneIsComplete, DecodedComplete
    <2>5. FailedIsOver'
        BY <1>1, <1>2, <1>5, TypeFacts DEF SpoolInv, FailedIsOver
    <2>6. NothingLost'
        BY <1>2, <1>5 DEF SpoolInv, NothingLost
    <2> QED
        BY <1>5, <2>1, <2>2, <2>3, <2>4, <2>5, <2>6 DEF SpoolInv
<1>6. ASSUME NEW k \in Ids, Age(k) PROVE SpoolInv'
    <2>1. /\ \A i \in Ids : /\ report'[i].state = report[i].state
                            /\ report'[i].group = report[i].group
                            /\ report[i].aged => report'[i].aged
          /\ raw' = raw /\ gc' = gc
        BY <1>1, <1>6, TypeFacts DEF Age, ReportRow, spool
    <2>2. SelectionStands'
        BY <1>1, <2>1, TypeFacts DEF SpoolInv, SelectionStands
    <2> QED
        BY <1>5, <2>1, <2>2
<1>7. ASSUME NEW p \in Collectors, GcSelect(p) PROVE SpoolInv'
    <2>1. UNCHANGED <<report, raw>>
        BY <1>7 DEF GcSelect, tables, spool
    <2>2. SelectionStands'
        BY <1>1, <1>7, <2>1, TypeFacts
        DEF GcSelect, Expired, SpoolInv, SelectionStands
    <2> QED
        BY <1>5, <2>1, <2>2
<1>8. ASSUME NEW p \in Collectors, GcMark(p) PROVE SpoolInv'
    <2>1. /\ \A i \in Ids : /\ report'[i].state = report[i].state
                            /\ report'[i].group = report[i].group
                            /\ report'[i].aged = report[i].aged
          /\ raw' = raw
        <3>1. gc[p].removed \in Ids /\ raw' = raw
            BY <1>1, <1>8, TypeFacts DEF GcMark, spool
        <3>2. CASE report' = report
            BY <3>1, <3>2
        <3>3. CASE report' = [report EXCEPT ![gc[p].removed].rawDeleted = TRUE]
            BY <1>1, <3>1, <3>3, TypeFacts DEF ReportRow
        <3> QED
            BY <1>8, <3>2, <3>3 DEF GcMark
    <2>2. \A q \in Collectors : gc'[q].todo \subseteq gc[q].todo
        BY <1>1, <1>8, TypeFacts DEF GcMark
    <2>3. SelectionStands'
        BY <1>1, <2>1, <2>2, TypeFacts DEF SpoolInv, SelectionStands
    <2> QED
        BY <1>5, <2>1, <2>3
<1>9. ASSUME NEW p \in Collectors, GcRemove(p) PROVE SpoolInv'
    <2>1. PICK i \in Ids :
              /\ i \in gc[p].todo
              /\ \A k \in Ids \ {i} : raw'[k] = raw[k]
              /\ report' = report
              /\ \A q \in Collectors : gc'[q].todo = gc[q].todo
        BY <1>1, <1>9, TypeFacts DEF GcRemove, tables
    <2>2. report[i].state = "failed" /\ report[i].aged
        BY <2>1 DEF SpoolInv, SelectionStands
    <2>3. RawBeforeRow'
        BY <1>1, <1>2, <2>1, <2>2, TypeFacts DEF SpoolInv, RawBeforeRow, RequestShape
    <2>4. \A w \in Workers : worker[w].pc # "idle" => Report(w) # i
        BY <2>2, BusyFacts
    <2>5. \A j \in JobIds : job[j].state = "pending" => job[j].report \in Ids \ {i}
        BY <1>4, <2>1, <2>2 DEF SpoolInv, FailedIsOver
    <2>6. RawWhileOpen'
        BY <1>2, <1>3, <2>1, <2>4, <2>5 DEF SpoolInv, RawWhileOpen
    <2>7. WorkerProgressKnown'
        BY <1>2, <1>3, <2>1 DEF SpoolInv, WorkerProgressKnown, DecodedComplete
    <2>8. DoneIsComplete' /\ FailedIsOver'
        BY <1>2, <2>1 DEF SpoolInv, DoneIsComplete, FailedIsOver, DecodedComplete
    <2>9. SelectionStands'
        BY <2>1 DEF SpoolInv, SelectionStands
    <2>10. NothingLost'
        BY <1>2, <2>1, <2>2 DEF SpoolInv, NothingLost
    <2> QED
        BY <2>3, <2>6, <2>7, <2>8, <2>9, <2>10 DEF SpoolInv
<1> QED
    BY <1>6, <1>7, <1>8, <1>9 DEF RetentionNext, GcStep

LEMMA SpoolStep ==
    ASSUME SpoolInv, [Next]_pipelineVars
    PROVE  SpoolInv'
<1>1. ClaimInv' /\ IngestInv'
    BY ClaimStep, IngestStep DEF SpoolInv
<1>2. CASE UNCHANGED pipelineVars
    <2>1. RawBeforeRow'
        BY <1>2 DEF pipelineVars, tables, spool, ingestVars, SpoolInv, RawBeforeRow
    <2> QED
        BY <1>1, <1>2, <2>1, SpoolUpload DEF pipelineVars, tables, spool
<1>3. CASE IngestNext /\ UNCHANGED <<worker, gc>>
    BY <1>1, <1>3, SpoolRequest
<1>4. CASE DecoderNext /\ UNCHANGED <<ingestVars, gc>>
    <2>1. PICK w \in Workers : WorkerStep(w) \/ StepError(w)
        BY <1>4 DEF DecoderNext
    <2>2. UNCHANGED <<req, gc>>
        BY <1>4 DEF ingestVars
    <2>3. CASE FinishOk(w) \/ FinishRetry(w)
        BY <1>1, <2>2, <2>3, SpoolRelease
        DEF FinishOk, FinishRetry, At, Release, SetJobState, spool
    <2> QED
        BY <1>1, <2>1, <2>2, <2>3, SpoolClaim, SpoolBusy, SpoolGiveUp
        DEF WorkerStep
<1>5. CASE RetentionNext /\ UNCHANGED <<ingestVars, worker>>
    BY <1>1, <1>5, SpoolRetention
<1>6. ASSUME NEW w \in Workers, Crash(w) PROVE SpoolInv'
    <2>1. UNCHANGED <<req, report, groups, job, raw, decoded>>
        BY <1>6 DEF Crash, tables, spool, ingestVars
    <2>2. \A p \in Collectors : gc'[p].todo \subseteq gc[p].todo
        BY <1>6 DEF Crash, Resting
    <2>3. TypeInv
        BY DEF SpoolInv, ClaimInv
    <2>4. \A v \in Workers \ {w} : worker'[v] = worker[v]
        BY <1>6, <2>3, TypeFacts DEF Crash
    <2>5. worker'[w].pc = "idle" /\ worker'[w].job = Null
        BY <1>6, <2>3, TypeFacts DEF Crash, Idle
    <2>6. \A v \in Workers \ {w} : Report(v)' = Report(v)
        BY <2>1, <2>4 DEF Report
    <2>7. RawBeforeRow' /\ NothingLost'
        BY <2>1 DEF SpoolInv, RawBeforeRow, NothingLost
    <2>8. RawWhileOpen'
        BY <2>1, <2>4, <2>5, <2>6 DEF SpoolInv, RawWhileOpen
    <2>9. WorkerProgressKnown'
        BY <2>1, <2>4, <2>5, <2>6 DEF SpoolInv, WorkerProgressKnown, DecodedComplete
    <2>10. DoneIsComplete'
        BY <2>1 DEF SpoolInv, DoneIsComplete, DecodedComplete
    <2>11. FailedIsOver'
        BY <2>1, <2>3, <2>4, <2>5, TypeFacts DEF SpoolInv, FailedIsOver
    <2>12. SelectionStands'
        BY <2>1, <2>2 DEF SpoolInv, SelectionStands
    <2> QED
        BY <1>1, <2>7, <2>8, <2>9, <2>10, <2>11, <2>12 DEF SpoolInv
<1> QED
    BY <1>2, <1>3, <1>4, <1>5, <1>6 DEF Next

LEMMA SpoolAgrees == SpoolInv => NothingLost /\ JobAndReportAgree
<1> SUFFICES ASSUME SpoolInv PROVE JobAndReportAgree
    BY DEF SpoolInv
<1>1. TypeInv
    BY DEF SpoolInv, ClaimInv
<1> QED
    <2>1. ASSUME NEW j \in JobIds, job[j].state = "done"
          PROVE  /\ report[job[j].report].state = "decoded"
                 /\ decoded[job[j].report] = report[job[j].report].group
        BY <2>1 DEF SpoolInv, DoneIsComplete, DecodedComplete
    <2>2. ASSUME NEW j \in JobIds, job[j].report # Null,
                 report[job[j].report].state = "failed"
          PROVE  job[j].attempts = MaxAttempts
        BY <2>2 DEF SpoolInv, FailedIsOver
    <2> QED
        BY <2>1, <2>2 DEF JobAndReportAgree

LEMMA DropStep ==
    ASSUME SpoolInv, [Next]_pipelineVars
    PROVE  RawDropStep
<1>1. TypeInv
    BY DEF SpoolInv, ClaimInv
<1>2. ASSUME NEW i \in Ids, raw[i] # Null, raw'[i] = Null
      PROVE  \/ report[i].state = "decoded" /\ decoded[i] = report[i].group
             \/ report[i].state = "failed" /\ report[i].aged
    <2>1. CASE \E r \in Requests : OpenRaw(r)
        BY <1>1, <1>2, <2>1, TypeFacts DEF OpenRaw, Payloads
    <2>2. CASE \E r \in Requests : WriteRaw(r)
        <3>0. PICK r \in Requests : WriteRaw(r)
            BY <2>2
        <3>1. PICK c \in Written(raw[req[r].id], req[r].upload) :
                  raw' = [raw EXCEPT ![req[r].id] = c] /\ req[r].pc = "writing"
            BY <3>0 DEF WriteRaw
        <3>2. req[r].id = i /\ c = Null
            BY <1>1, <1>2, <3>1, TypeFacts
        <3>3. req[r].upload \in Uploads
            BY <1>1, <3>1, TypeFacts DEF RequestShape
        <3> QED
            BY <1>2, <3>1, <3>2, <3>3 DEF Written, Payloads
    <2>3. CASE \E w \in Workers : RemoveRaw(w)
        <3>1. PICK w \in Workers : RemoveRaw(w)
            BY <2>3
        <3>2. worker[w].pc = "remove" /\ Report(w) = i
            BY <1>1, <1>2, <3>1, TypeFacts DEF RemoveRaw, At
        <3>3. DecodedComplete(i)
            BY <3>2 DEF SpoolInv, WorkerProgressKnown
        <3> QED
            BY <3>3 DEF DecodedComplete
    <2>4. CASE \E p \in Collectors : GcRemove(p)
        BY <1>1, <1>2, <2>4, TypeFacts DEF GcRemove, SpoolInv, SelectionStands
    <2>5. CASE raw' = raw
        BY <1>2, <2>5
    <2>6. CASE IngestNext
        <3>1. ASSUME NEW r \in Requests, RequestStep(r), ~OpenRaw(r), ~WriteRaw(r)
              PROVE  raw' = raw
            BY <3>1
            DEF RequestStep, Authenticate, LookupAck, LookupCollision, LookupNew,
                InsertReport, InsertConflict, InsertJob, Abort, spool
        <3>2. ASSUME NEW d \in Submitters, RejectUpload(d) PROVE raw' = raw
            BY <3>2 DEF RejectUpload
        <3> QED
            BY <2>1, <2>2, <2>5, <2>6, <3>1, <3>2 DEF IngestNext
    <2>7. CASE DecoderNext
        <3>1. ASSUME NEW w \in Workers, WorkerStep(w) \/ StepError(w), ~RemoveRaw(w)
              PROVE  raw' = raw
            BY <3>1
            DEF WorkerStep, StepError, Claim, ReadRaw, ReadRawFails, OpenDecoded,
                WriteDecoded, UpsertGroup, UpdateReport, FinishOk, FinishRetry,
                FinishFailed, MarkFailed, spool
        <3> QED
            BY <2>3, <2>5, <2>7, <3>1 DEF DecoderNext
    <2>8. CASE RetentionNext
        <3>1. ASSUME NEW p \in Collectors, GcStep(p), ~GcRemove(p) PROVE raw' = raw
            BY <3>1 DEF GcStep, GcSelect, GcMark, spool
        <3>2. ASSUME NEW k \in Ids, Age(k) PROVE raw' = raw
            BY <3>2 DEF Age, spool
        <3> QED
            BY <2>4, <2>5, <2>8, <3>1, <3>2 DEF RetentionNext
    <2>9. ASSUME NEW w \in Workers, Crash(w) PROVE raw' = raw
        BY <2>9 DEF Crash, spool
    <2>10. CASE UNCHANGED pipelineVars
        BY <2>5, <2>10 DEF pipelineVars, spool
    <2> QED
        BY <2>5, <2>6, <2>7, <2>8, <2>9, <2>10 DEF Next
<1> QED
    BY <1>2 DEF RawDropStep

LEMMA SpoolAlways == Spec => []SpoolInv
BY SpoolInitially, SpoolStep, PTL DEF Spec

\* No crash is lost in any behaviour of any number of requests, decoders and
\* retention tasks, with every kind of failure.
THEOREM SpoolCorrect == Spec => []NothingLost
BY SpoolAlways, SpoolAgrees, PTL

\* A job that is done has left a decoded report with the text of its group, and
\* a report is failed only after all attempts of its job, through every crash,
\* retry and lost statement.
THEOREM JobsAgree == Spec => []JobAndReportAgree
BY SpoolAlways, SpoolAgrees, PTL

\* A payload file is only ever dropped for a decoded report with its complete
\* text, or for a failed one past its retention.
THEOREM DropsCorrect == Spec => RawDropJustified
<1>1. SpoolInv /\ [Next]_pipelineVars => [RawDropStep]_pipelineVars
    BY DropStep
<1> QED
    BY SpoolAlways, <1>1, PTL DEF Spec, RawDropJustified
=============================================================================
