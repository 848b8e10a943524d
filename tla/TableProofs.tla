----------------------------- MODULE TableProofs -----------------------------
(***************************************************************************)
(* The two tables of the pipeline, however many clients and decoders use   *)
(* them and whatever fails.  The job table is the abstract queue of module *)
(* DecodeQueue, and no two decoders ever have the same job.  The report    *)
(* table holds what post_report guarantees however requests race, fail and *)
(* repeat: a 200 names a row made for that upload, and a report has one    *)
(* decode job.                                                             *)
(***************************************************************************)
EXTENDS PipelineTypeProofs

\* A decoder knows how often its job was attempted: claim_job returned it, and
\* nobody else attempts a job that is running.
AttemptsKnown ==
    \A w \in Workers :
        worker[w].job # Null =>
            worker[w].attempts = job[worker[w].job].attempts

Untried == \A j \in JobIds : job[j].state = "absent" => job[j].attempts = 0

\* Exclusiveness needs the type invariant (a busy decoder's job exists); the
\* budget needs AttemptsKnown, because FinishRetry decides on the copy.
ClaimInv ==
    TypeInv /\ ClaimExclusive /\ AttemptBudget /\ AttemptsKnown /\ Untried

jobStates == [j \in JobIds |-> job[j].state]
jobTries  == [j \in JobIds |-> job[j].attempts]
jobHolds  == [w \in Workers |-> HeldJob(w)]

USE NullAssumption, MaxAttemptsAssumption
USE DEF ClaimInv, ClaimExclusive, AttemptBudget, AttemptsKnown, Untried

LEMMA ClaimInitially == Init => ClaimInv
<1> SUFFICES ASSUME Init PROVE ClaimInv
    OBVIOUS
<1>1. TypeInv
    BY TypeInitially
<1> QED
    BY <1>1 DEF Init, StoreInit, DecoderInit, NoJob, Idle

\* Only these touch the job table or a decoder's job; everything else leaves
\* ClaimInv and the queue alone.
LEMMA ClaimFrame ==
    ASSUME ClaimInv, TypeInv', job' = job,
           \A w \in Workers :
              /\ worker'[w].job = worker[w].job
              /\ worker'[w].attempts = worker[w].attempts
              /\ worker'[w].pc = "mark" <=> worker[w].pc = "mark"
    PROVE  ClaimInv' /\ UNCHANGED <<jobStates, jobTries, jobHolds>>
<1>1. ClaimExclusive' /\ AttemptBudget' /\ AttemptsKnown' /\ Untried'
    BY DEF At
<1>2. UNCHANGED <<jobStates, jobTries, jobHolds>>
    BY DEF At, HeldJob, jobStates, jobTries, jobHolds
<1> QED
    BY <1>1, <1>2

LEMMA ClaimEnqueue ==
    ASSUME ClaimInv, TypeInv', NEW r \in Requests, InsertJob(r),
           UNCHANGED worker
    PROVE  ClaimInv' /\ \E j \in JobIds : Queue!Enqueue(j)
<1>1. PICK j \in JobIds :
          job[j].state = "absent" /\ job' = [job EXCEPT ![j] = NewJob(req[r].id)]
    BY DEF InsertJob, NewJob
<1>2. req[r].id \in Ids
    BY TypeFacts DEF InsertJob, RequestShape
<1>3. /\ job'[j].state = "pending" /\ job'[j].attempts = 0
      /\ job[j].attempts = 0
      /\ \A k \in JobIds \ {j} : job'[k] = job[k]
    BY <1>1, <1>2, NewJobType, TypeFacts
<1>4. \A w \in Workers : worker[w].job # j
    BY <1>1, TypeFacts DEF WorkerShape
<1>5. ClaimExclusive' /\ AttemptBudget' /\ AttemptsKnown' /\ Untried'
    BY <1>3, <1>4, TypeFacts DEF At
<1>6. Queue!Enqueue(j)
    BY <1>1, <1>3, TypeFacts DEF Queue!Enqueue, HeldJob, At
<1> QED
    BY <1>5, <1>6

LEMMA ClaimTake ==
    ASSUME ClaimInv, TypeInv', NEW w \in Workers, Claim(w)
    PROVE  ClaimInv' /\ \E j \in JobIds : Queue!Take(w, j)
<1>1. PICK j \in JobIds :
          /\ job[j].state = "pending"
          /\ job' = [job EXCEPT ![j] = Running(@)]
          /\ worker' = [worker EXCEPT ![w] =
                 [pc |-> "read", job |-> j, attempts |-> job'[j].attempts,
                  text |-> Null]]
    BY DEF Claim, Claimable
<1>2. /\ job'[j].state = "running" /\ job'[j].attempts = job[j].attempts + 1
      /\ \A k \in JobIds \ {j} : job'[k] = job[k]
    BY <1>1, RunningType, TypeFacts
<1>3. /\ worker'[w].job = j /\ worker'[w].attempts = job'[j].attempts
      /\ worker'[w].pc = "read" /\ worker[w].pc = "idle"
      /\ \A v \in Workers \ {w} : worker'[v] = worker[v]
    BY <1>1, TypeFacts DEF Claim, At
<1>4. \A v \in Workers : worker[v].job # j
    BY <1>1 DEF At
<1>5. job[j].attempts \in Nat /\ job[j].attempts < MaxAttempts
    BY <1>1, TypeFacts
<1>6. /\ ClaimExclusive'
      /\ AttemptBudget'
      /\ AttemptsKnown' /\ Untried'
    <2>1. ClaimExclusive'
        BY <1>2, <1>3, <1>4, TypeFacts DEF At
    <2>2. AttemptBudget'
        BY <1>2, <1>5
    <2>3. AttemptsKnown'
        BY <1>2, <1>3, <1>4, TypeFacts
    <2>4. Untried'
        BY <1>2
    <2> QED
        BY <2>1, <2>2, <2>3, <2>4
<1>7. Queue!Take(w, j)
    BY <1>1, <1>2, <1>3, TypeFacts DEF Queue!Take, HeldJob, At, WorkerShape
<1> QED
    BY <1>6, <1>7

\* The three ways process_job ends: the statement is executed, or it is lost
\* and the job is out of the queue for good.
LEMMA ClaimSettle ==
    ASSUME ClaimInv, TypeInv', NEW w \in Workers,
           FinishOk(w) \/ FinishRetry(w) \/ FinishFailed(w)
    PROVE  ClaimInv' /\ (Queue!Settle(w) \/ Queue!Drop(w))
<1> DEFINE j == worker[w].job
<1>1. j \in JobIds /\ ~At(w, "mark") /\ job[j].state = "running"
    BY TypeFacts DEF FinishOk, FinishRetry, FinishFailed, At, WorkerShape
<1>2. /\ job[j].attempts \in Nat /\ job[j].attempts <= MaxAttempts
      /\ worker[w].attempts = job[j].attempts
    BY <1>1, TypeFacts
<1>3. PICK s \in {"done", "pending", "failed"} :
          /\ SetJobState(j, s)
          /\ s = "pending" => job[j].attempts < MaxAttempts
          /\ s = "failed" => job[j].attempts = MaxAttempts
          /\ s = "failed" => To(w, "mark")
          /\ s # "failed" => Release(w)
    <2>1. CASE FinishOk(w)
        BY <2>1 DEF FinishOk
    <2>2. CASE FinishRetry(w)
        BY <1>2, <2>2 DEF FinishRetry, OutOfAttempts
    <2>3. CASE FinishFailed(w)
        BY <1>2, <2>3 DEF FinishFailed, OutOfAttempts
    <2> QED
        BY <2>1, <2>2, <2>3
<1>4. /\ \A v \in Workers \ {w} : worker'[v] = worker[v]
      /\ \/ s = "failed" /\ worker'[w].pc = "mark" /\ worker'[w].job = j
            /\ worker'[w].attempts = worker[w].attempts
         \/ s # "failed" /\ worker'[w].pc = "idle" /\ worker'[w].job = Null
    BY <1>3, TypeFacts DEF To, Release, Idle, WorkerState
<1>5. HeldJob(w) = j /\ HeldJob(w)' = Null
    BY <1>1, <1>4 DEF HeldJob, At
<1>6. jobHolds' = [jobHolds EXCEPT ![w] = Null]
    BY <1>4, <1>5 DEF jobHolds, HeldJob, At
<1>7. \A v \in Workers \ {w} : worker[v].job # j
    BY <1>1, TypeFacts
<1>8. CASE job' = [job EXCEPT ![j].state = s]
    <2>1. /\ job'[j].state = s /\ job'[j].attempts = job[j].attempts
          /\ \A k \in JobIds \ {j} : job'[k] = job[k]
        BY <1>1, <1>8, TypeFacts DEF JobRow
    <2>2. ClaimExclusive'
        <3>1. ASSUME NEW v \in Workers, v # w
              PROVE  /\ worker'[v] = worker[v]
                     /\ worker[v].job # Null => worker[v].job \in JobIds \ {j}
            BY <1>4, <1>7, <3>1, TypeFacts
        <3>2. \/ worker'[w].job = Null
              \/ /\ worker'[w].job = j /\ worker'[w].pc = "mark"
                 /\ job'[j].state = "failed"
            BY <1>4, <2>1
        <3> QED
            BY <1>1, <2>1, <3>1, <3>2 DEF At
    <2>6. AttemptBudget'
        <3>1. ASSUME NEW k \in JobIds
              PROVE  /\ job'[k].attempts = job[k].attempts
                     /\ job'[k].state = "pending"
                        => job[k].attempts < MaxAttempts
            <4>1. CASE k = j
                BY <1>3, <2>1, <4>1
            <4>2. CASE k # j
                BY <2>1, <4>2
            <4> QED
                BY <4>1, <4>2
        <3> QED
            BY <3>1
    <2>7. AttemptsKnown'
        <3>1. ASSUME NEW v \in Workers, worker'[v].job # Null
              PROVE  worker'[v].attempts = job'[worker'[v].job].attempts
            <4>1. CASE v = w
                BY <1>2, <1>4, <2>1, <3>1, <4>1
            <4>2. CASE v # w
                <5>1. /\ worker'[v] = worker[v]
                      /\ worker[v].job \in JobIds \ {j}
                    BY <1>4, <1>7, <3>1, <4>2, TypeFacts
                <5> QED
                    BY <2>1, <3>1, <5>1
            <4> QED
                BY <4>1, <4>2
        <3> QED
            BY <3>1
    <2>8. Untried'
        BY <1>3, <2>1
    <2>3. AttemptBudget' /\ AttemptsKnown' /\ Untried'
        BY <2>6, <2>7, <2>8
    <2>4. /\ jobStates' = [jobStates EXCEPT ![j] = s]
          /\ jobTries' = jobTries
        BY <1>1, <2>1 DEF jobStates, jobTries
    <2>9. /\ jobHolds[w] = j /\ jobHolds[w] # Null
          /\ jobTries[j] = job[j].attempts
        BY <1>1, <1>5 DEF jobHolds, jobTries
    <2>10. /\ s = "pending" => jobTries[jobHolds[w]] < MaxAttempts
           /\ s = "failed" => jobTries[jobHolds[w]] = MaxAttempts
           /\ jobStates' = [jobStates EXCEPT ![jobHolds[w]] = s]
        BY <1>3, <2>4, <2>9
    <2>5. Queue!Settle(w)
        <3> USE DEF Queue!Settle, jobStates, jobTries, jobHolds
        <3>1. \E t \in {"done", "pending", "failed"} :
                 /\ t = "pending" => jobTries[jobHolds[w]] < MaxAttempts
                 /\ t = "failed" => jobTries[jobHolds[w]] = MaxAttempts
                 /\ jobStates' = [jobStates EXCEPT ![jobHolds[w]] = t]
            <4> HIDE DEF jobStates, jobTries, jobHolds
            <4> QED
                BY <2>10
        <3> QED
            BY <1>6, <2>4, <2>9, <3>1, Zenon
    <2> QED
        BY <2>2, <2>3, <2>5
<1>9. CASE job' = job
    <2>2. ClaimExclusive'
        <3>1. ASSUME NEW v \in Workers, v # w
              PROVE  worker'[v] = worker[v] /\ worker[v].job # j
            BY <1>4, <1>7, <3>1
        <3>2. worker'[w].job = Null \/ worker'[w].pc = "mark"
            BY <1>4
        <3> QED
            BY <1>1, <1>4, <1>9, <3>1, <3>2 DEF At
    <2>1. AttemptsKnown'
        <3>1. ASSUME NEW v \in Workers, worker'[v].job # Null
              PROVE  worker'[v].attempts = job[worker'[v].job].attempts
            <4>1. CASE v = w
                BY <1>2, <1>4, <3>1, <4>1
            <4>2. CASE v # w
                BY <1>4, <3>1, <4>2
            <4> QED
                BY <4>1, <4>2
        <3> QED
            BY <1>9, <3>1
    <2>3. AttemptBudget' /\ AttemptsKnown' /\ Untried'
        BY <1>9, <2>1
    <2>4. Queue!Drop(w)
        BY <1>1, <1>5, <1>6, <1>9 DEF Queue!Drop, jobHolds, jobStates, jobTries
    <2> QED
        BY <2>2, <2>3, <2>4
<1> QED
    BY <1>3, <1>8, <1>9 DEF SetJobState

LEMMA ClaimRelease ==
    ASSUME ClaimInv, TypeInv', NEW w \in Workers, job' = job,
           worker' = [worker EXCEPT ![w] = Idle]
    PROVE  /\ ClaimInv'
           /\ \/ Queue!Drop(w)
              \/ UNCHANGED <<jobStates, jobTries, jobHolds>>
<1>1. /\ worker'[w].pc = "idle" /\ worker'[w].job = Null
      /\ \A v \in Workers \ {w} : worker'[v] = worker[v]
    BY TypeFacts DEF Idle
<1>2. ClaimExclusive' /\ AttemptBudget' /\ AttemptsKnown' /\ Untried'
    BY <1>1 DEF At
<1>3. jobHolds' = [jobHolds EXCEPT ![w] = Null]
    <2>1. HeldJob(w)' = Null
        BY <1>1 DEF HeldJob, At
    <2>2. \A v \in Workers \ {w} : HeldJob(v)' = HeldJob(v)
        BY <1>1 DEF HeldJob, At
    <2> QED
        BY <2>1, <2>2 DEF jobHolds
<1>4. CASE HeldJob(w) = Null
    <2>1. jobHolds' = jobHolds
        BY <1>3, <1>4 DEF jobHolds
    <2> QED
        BY <1>2, <2>1 DEF jobStates, jobTries
<1>5. CASE HeldJob(w) # Null
    <2>1. jobHolds[w] # Null
        BY <1>5 DEF jobHolds
    <2>2. Queue!Drop(w)
        BY <1>3, <2>1 DEF Queue!Drop, jobHolds, jobStates, jobTries
    <2> QED
        BY <1>2, <2>2
<1> QED
    BY <1>2, <1>4, <1>5

LEMMA ClaimStep ==
    ASSUME ClaimInv, [Next]_pipelineVars
    PROVE  /\ ClaimInv'
           /\ \/ Queue!QueueNext
              \/ UNCHANGED <<jobStates, jobTries, jobHolds>>
<1>1. TypeInv'
    BY TypeStep
<1> USE <1>1
<1>2. CASE UNCHANGED pipelineVars
    BY <1>2, ClaimFrame DEF pipelineVars, tables
<1>3. CASE IngestNext /\ UNCHANGED <<worker, gc>>
    <2>1. CASE \E r \in Requests : InsertJob(r)
        BY <1>3, <2>1, ClaimEnqueue DEF Queue!QueueNext
    <2>2. CASE ~ \E r \in Requests : InsertJob(r)
        <3>1. job' = job
            <4>1. ASSUME NEW r \in Requests, RequestStep(r) PROVE job' = job
                BY <2>2, <4>1
                DEF RequestStep, Authenticate, LookupAck, LookupCollision,
                    LookupNew, OpenRaw, WriteRaw, InsertReport, InsertConflict,
                    Abort, tables
            <4>2. ASSUME NEW d \in Submitters, RejectUpload(d) PROVE job' = job
                BY <4>2 DEF RejectUpload
            <4> QED
                BY <1>3, <4>1, <4>2 DEF IngestNext
        <3> QED
            BY <1>3, <3>1, ClaimFrame
    <2> QED
        BY <2>1, <2>2
<1>4. CASE DecoderNext /\ UNCHANGED <<ingestVars, gc>>
    <2>1. PICK w \in Workers : WorkerStep(w) \/ StepError(w)
        BY <1>4 DEF DecoderNext
    <2>2. CASE Claim(w)
        BY <2>2, ClaimTake DEF Queue!QueueNext
    <2>3. CASE FinishOk(w) \/ FinishRetry(w) \/ FinishFailed(w)
        BY <2>3, ClaimSettle DEF Queue!QueueNext
    <2>4. CASE MarkFailed(w)
        BY <2>4, ClaimRelease DEF MarkFailed, Release, Queue!QueueNext
    <2>5. CASE \/ ReadRaw(w) \/ ReadRawFails(w) \/ OpenDecoded(w)
               \/ WriteDecoded(w) \/ UpsertGroup(w) \/ UpdateReport(w)
               \/ RemoveRaw(w) \/ StepError(w)
        <3>1. /\ job' = job
              /\ worker[w].pc # "mark" /\ worker'[w].pc # "mark"
              /\ worker'[w].job = worker[w].job
              /\ worker'[w].attempts = worker[w].attempts
              /\ \A v \in Workers \ {w} : worker'[v] = worker[v]
            <4>1. CASE ReadRaw(w)
                BY <4>1, TypeFacts DEF ReadRaw, At, tables
            <4>2. CASE ~ReadRaw(w)
                <5>1. /\ job' = job /\ worker[w].pc # "mark"
                      /\ \E pc \in BusyPcs \ {"mark"} : To(w, pc)
                    BY <2>5, <4>2
                    DEF ReadRawFails, OpenDecoded, WriteDecoded, UpsertGroup,
                        UpdateReport, RemoveRaw, StepError, At, tables, BusyPcs
                <5> QED
                    BY <5>1, TypeFacts DEF To
            <4> QED
                BY <4>1, <4>2
        <3> QED
            BY <3>1, ClaimFrame
    <2> QED
        BY <2>1, <2>2, <2>3, <2>4, <2>5 DEF WorkerStep
<1>5. CASE RetentionNext /\ UNCHANGED <<ingestVars, worker>>
    <2>1. job' = job
        BY <1>5 DEF RetentionNext, GcStep, Age, GcSelect, GcRemove, GcMark, tables
    <2> QED
        BY <1>5, <2>1, ClaimFrame
<1>6. CASE \E w \in Workers : Crash(w)
    BY <1>6, ClaimRelease DEF Crash, tables, Queue!QueueNext
<1> QED
    BY <1>2, <1>3, <1>4, <1>5, <1>6 DEF Next

LEMMA ClaimAlways == Spec => []ClaimInv
BY ClaimInitially, ClaimStep, PTL DEF Spec

\* No two decoders work on the same job, for any number of decoders, and through
\* every crash, error and lost statement.
THEOREM ClaimsCorrect == Spec => []ClaimExclusive
BY ClaimAlways, PTL DEF ClaimInv

\* No job is attempted more often than MAX_ATTEMPTS, and one that waits has an
\* attempt left, whatever the number of attempts is.
THEOREM BudgetKept == Spec => []AttemptBudget
BY ClaimAlways, PTL DEF ClaimInv

LEMMA QueueStarts == Init => Queue!QueueInit
BY DEF Init, StoreInit, DecoderInit, NoJob, Idle, Queue!QueueInit, HeldJob, At

\* The pipeline implements the abstract queue: every step of the server and of
\* the decoders is a step of the queue or leaves it alone.
THEOREM QueueImplemented == Spec => Queue!QueueSpec
<1>1. ClaimInv /\ [Next]_pipelineVars => [Queue!QueueNext]_(Queue!queueVars)
    BY ClaimStep DEF Queue!queueVars, jobStates, jobTries, jobHolds
<1> QED
    BY QueueStarts, <1>1, ClaimAlways, PTL DEF Spec, Queue!QueueSpec

-----------------------------------------------------------------------------
\* A row that exists has an upload, and under a device-supplied id that is the
\* upload which was sent under it.
RowShape ==
    \A i \in Ids :
        /\ report[i].state = "absent" <=> report[i].upload = Null
        /\ i \in Uuids /\ report[i].upload # Null => report[i].upload.uuid = i

RequestId ==
    \A r \in Requests :
        /\ req[r].pc # "idle" /\ req[r].id \in Uuids =>
              req[r].id = req[r].upload.uuid
        /\ req[r].pc = "lookup" => req[r].id \in Uuids

\* Jobs are made for rows that exist.
JobHasRow ==
    \A j \in JobIds :
        job[j].report # Null => report[job[j].report].state # "absent"

\* Between its two INSERTs a request owns the row: it is its upload's, it has
\* no job, and no other request stands there.
EnqueueOwnsRow ==
    \A r \in Requests :
        req[r].pc = "enqueue" =>
            /\ report[req[r].id].upload = req[r].upload
            /\ \A j \in JobIds : job[j].report # req[r].id
            /\ \A q \in Requests :
                  req[q].pc = "enqueue" /\ req[q].id = req[r].id => q = r

\* AckedIsStored needs RowShape for the re-upload that is answered from the row,
\* and OneJobPerReport needs to know who may still insert a job.
IngestInv ==
    /\ TypeInv
    /\ RowShape /\ RequestId /\ JobHasRow /\ EnqueueOwnsRow
    /\ OneJobPerReport /\ AckedIsStored

USE NullAssumption, IdsAssumption
USE DEF IngestInv, RowShape, RequestId, JobHasRow, EnqueueOwnsRow,
        OneJobPerReport, AckedIsStored

LEMMA IngestInitially == Init => IngestInv
<1> SUFFICES ASSUME Init PROVE IngestInv
    OBVIOUS
<1>1. TypeInv
    BY TypeInitially
<1> QED
    BY <1>1 DEF Init, StoreInit, IngestInit, NoReport, NoJob, NoRequest

\* Decoders, their failures and the retention task make no row and no job.
LEMMA IngestFrame ==
    ASSUME IngestInv, TypeInv', UNCHANGED ingestVars,
           \A j \in JobIds : job'[j].report = job[j].report,
           \A i \in Ids :
              /\ report'[i].upload = report[i].upload
              /\ report'[i].state = "absent" <=> report[i].state = "absent"
    PROVE  IngestInv'
<1>1. RowShape' /\ RequestId' /\ JobHasRow'
    BY TypeFacts DEF ingestVars
<1>2. EnqueueOwnsRow' /\ OneJobPerReport' /\ AckedIsStored'
    BY TypeFacts DEF ingestVars, RequestShape
<1> QED
    BY <1>1, <1>2

\* A request goes on, without a row or a job being made, to anywhere but the
\* place between the two INSERTs.
LEMMA IngestMoves ==
    ASSUME IngestInv, NEW r \in Requests, UNCHANGED <<report, job>>,
           \A q \in Requests \ {r} : req'[q] = req[q],
           req'[r].pc # "enqueue",
           req'[r].pc # "idle" /\ req'[r].id \in Uuids =>
              req'[r].id = req'[r].upload.uuid,
           req'[r].pc = "lookup" => req'[r].id \in Uuids
    PROVE  RowShape' /\ RequestId' /\ JobHasRow' /\ OneJobPerReport'
           /\ EnqueueOwnsRow'
<1>1. RowShape' /\ JobHasRow' /\ OneJobPerReport'
    OBVIOUS
<1>2. RequestId'
    <2>1. ASSUME NEW q \in Requests, q # r
          PROVE  /\ req'[q].pc # "idle" /\ req'[q].id \in Uuids =>
                       req'[q].id = req'[q].upload.uuid
                 /\ req'[q].pc = "lookup" => req'[q].id \in Uuids
        <3>1. req'[q] = req[q]
            BY <2>1
        <3> QED
            BY <3>1
    <2> QED
        BY <2>1
<1>3. EnqueueOwnsRow'
    <2>1. ASSUME NEW q \in Requests, req'[q].pc = "enqueue"
          PROVE  req'[q] = req[q] /\ q # r
        BY <2>1
    <2>2. ASSUME NEW q \in Requests, req'[q].pc = "enqueue"
          PROVE  /\ report[req'[q].id].upload = req'[q].upload
                 /\ \A j \in JobIds : job[j].report # req'[q].id
                 /\ \A t \in Requests :
                       req'[t].pc = "enqueue" /\ req'[t].id = req'[q].id => t = q
        <3>1. req'[q] = req[q] /\ req[q].pc = "enqueue"
            BY <2>1, <2>2
        <3>2. ASSUME NEW t \in Requests, req'[t].pc = "enqueue",
                     req'[t].id = req'[q].id
              PROVE  t = q
            <4>1. req'[t] = req[t]
                BY <2>1, <3>2
            <4> QED
                BY <3>1, <3>2, <4>1
        <3> QED
            BY <3>1, <3>2
    <2> QED
        BY <2>2
<1> QED
    BY <1>1, <1>2, <1>3

LEMMA IngestRequest ==
    ASSUME IngestInv, TypeInv', NEW r \in Requests, RequestStep(r)
    PROVE  IngestInv'
<1>0. Null \notin Uploads
    BY DEF Payloads
<1> DEFINE Rest == RowShape /\ RequestId /\ JobHasRow /\ OneJobPerReport
                   /\ EnqueueOwnsRow
<1>a. /\ req \in [Requests -> RequestState]
      /\ req[r].pc # "idle" => req[r].upload \in Uploads /\ req[r].id \in Ids
    BY TypeFacts DEF RequestShape
<1>f. /\ \A q \in Requests :
            req[q].pc # "idle" => req[q].upload \in Uploads /\ req[q].id \in Ids
      /\ \A j \in JobIds : job[j].report \in Ids \cup {Null}
      /\ acked \subseteq Uploads \X Ids
    BY TypeFacts DEF RequestShape
<1>b. req[r].pc # "idle" /\ req[r].id \in Uuids => req[r].id = req[r].upload.uuid
    OBVIOUS
<1>c. UNCHANGED <<report, acked>> => AckedIsStored'
    OBVIOUS
<1>d. ASSUME NEW pc \in {"write", "writing", "insert"}, Goto(r, pc),
             req[r].pc # "idle", UNCHANGED <<report, job, acked>>
      PROVE  IngestInv'
    <2>1. /\ req'[r].pc = pc /\ req'[r].id = req[r].id
          /\ req'[r].upload = req[r].upload
          /\ \A q \in Requests \ {r} : req'[q] = req[q]
        BY <1>a, <1>d DEF Goto
    <2>2. Rest'
        <3>1. req'[r].pc # "enqueue" /\ req'[r].pc # "lookup"
            BY <2>1
        <3> QED
            BY <1>b, <1>d, <2>1, <3>1, IngestMoves
    <2> QED
        BY <1>c, <1>d, <2>2
<1>e. ASSUME Stop(r), UNCHANGED <<report, job>> PROVE Rest'
    <2>1. /\ req'[r].pc = "idle" /\ \A q \in Requests \ {r} : req'[q] = req[q]
        BY <1>a, <1>e DEF Stop, NoRequest
    <2> QED
        BY <1>e, <2>1, IngestMoves
<1>1. ASSUME NEW up \in Uploads, Authenticate(r, up) PROVE IngestInv'
    <2>1. up.uuid \in Uuids
        BY DEF Uploads
    <2>2. /\ req'[r].pc = "lookup" /\ req'[r].id = up.uuid /\ req'[r].upload = up
          /\ \A q \in Requests \ {r} : req'[q] = req[q]
          /\ UNCHANGED <<report, job, acked>>
        BY <1>1, <1>a DEF Authenticate
    <2>3. Rest'
        BY <2>1, <2>2, IngestMoves
    <2> QED
        BY <1>c, <2>2, <2>3
<1>2. CASE LookupAck(r)
    <2>1. report[req[r].id].upload = req[r].upload
        <3>1. /\ req[r].pc = "lookup" /\ req[r].id \in Uuids /\ req[r].id \in Ids
              /\ req[r].upload \in Uploads /\ req[r].id = req[r].upload.uuid
            BY <1>2, <1>a, <1>b DEF LookupAck
        <3>2. LET row == report[req[r].id] IN
              /\ row.upload # Null /\ row.upload.dev = req[r].upload.dev
              /\ row.upload.uuid = req[r].id
              /\ row.upload \in Uploads
            BY <1>2, <3>1, TypeFacts DEF LookupAck, SameOwner
        <3> QED
            BY <3>1, <3>2 DEF Uploads
    <2>2. AckedIsStored'
        BY <1>2, <2>1 DEF LookupAck, tables
    <2>3. Rest'
        BY <1>2, <1>e DEF LookupAck, tables
    <2> QED
        BY <2>2, <2>3
<1>3. CASE LookupCollision(r)
    <2>1. PICK k \in UnusedFreshIds :
              req' = [req EXCEPT ![r].pc = "write", ![r].id = k]
        BY <1>3 DEF LookupCollision
    <2>2. k \notin Uuids
        BY DEF UnusedFreshIds
    <2>3. /\ req'[r].pc = "write" /\ req'[r].id = k
          /\ \A q \in Requests \ {r} : req'[q] = req[q]
          /\ UNCHANGED <<report, job, acked>>
        BY <1>3, <1>a, <2>1 DEF LookupCollision, tables, RequestState
    <2>4. Rest'
        BY <2>2, <2>3, IngestMoves
    <2> QED
        BY <1>c, <2>3, <2>4
<1>4. CASE LookupNew(r)
    BY <1>4, <1>d DEF LookupNew, tables
<1>5. CASE OpenRaw(r)
    BY <1>5, <1>d DEF OpenRaw, tables
<1>6. CASE WriteRaw(r)
    BY <1>6, <1>d DEF WriteRaw, tables
<1>7. CASE InsertReport(r)
    <2> DEFINE i == req[r].id
    <2>1. /\ i \in Ids /\ req[r].upload \in Uploads
          /\ report[i].state = "absent" /\ report[i].upload = Null
          /\ report'[i].state = "received" /\ report'[i].upload = req[r].upload
          /\ \A k \in Ids \ {i} : report'[k] = report[k]
          /\ UNCHANGED <<job, acked>>
          /\ req'[r].pc = "enqueue" /\ req'[r].id = i
          /\ req'[r].upload = req[r].upload
          /\ \A q \in Requests \ {r} : req'[q] = req[q]
          /\ req[r].pc = "insert"
        <3>1. i \in Ids /\ req[r].upload \in Uploads /\ req[r].pc = "insert"
            BY <1>7, <1>a DEF InsertReport
        <3>2. report[i].state = "absent" /\ report[i].upload = Null
            BY <1>7, <3>1 DEF InsertReport
        <3>3. /\ report' = [report EXCEPT ![i] = NewReport(req[r].upload)]
              /\ report \in [Ids -> ReportRow] /\ UNCHANGED <<job, acked>>
            BY <1>7, TypeFacts DEF InsertReport, NewReport
        <3>4. /\ NewReport(req[r].upload).state = "received"
              /\ NewReport(req[r].upload).upload = req[r].upload
            BY DEF NewReport, NoReport
        <3>5. /\ report'[i] = NewReport(req[r].upload)
              /\ \A k \in Ids \ {i} : report'[k] = report[k]
            BY <3>1, <3>3
        <3>6. /\ req'[r].pc = "enqueue" /\ req'[r].id = i
              /\ req'[r].upload = req[r].upload
              /\ \A q \in Requests \ {r} : req'[q] = req[q]
            BY <1>7, <1>a DEF InsertReport, Goto, RequestState
        <3> QED
            BY <3>1, <3>2, <3>3, <3>4, <3>5, <3>6
    <2>2. \A j \in JobIds : job[j].report # i
        BY <2>1
    <2>3. \A q \in Requests : req[q].pc = "enqueue" => req[q].id # i
        BY <1>0, <1>f, <2>1
    <2>4. RowShape'
        <3>1. i \in Uuids => req[r].upload.uuid = i
            BY <2>1
        <3>2. report'[i].upload # Null /\ report'[i].state # "absent"
            BY <1>0, <2>1
        <3> QED
            BY <2>1, <3>1, <3>2
    <2>5. RequestId' /\ JobHasRow' /\ OneJobPerReport'
        <3>1. ASSUME NEW q \in Requests
              PROVE  /\ req'[q].pc = "lookup" => req[q].pc = "lookup"
                     /\ req'[q].id = req[q].id /\ req'[q].upload = req[q].upload
                     /\ req'[q].pc # "idle" => req[q].pc # "idle"
            BY <2>1
        <3>2. RequestId'
            BY <3>1
        <3>3. ASSUME NEW j \in JobIds, job[j].report # Null
              PROVE  report'[job[j].report].state # "absent"
            BY <1>f, <2>1, <3>3
        <3> QED
            BY <2>1, <3>2, <3>3
    <2>6. EnqueueOwnsRow'
        <3>1. ASSUME NEW q \in Requests, q # r, req'[q].pc = "enqueue"
              PROVE  /\ req'[q] = req[q] /\ req[q].id \in Ids \ {i}
                     /\ report'[req[q].id] = report[req[q].id]
            BY <1>f, <2>1, <2>3, <3>1
        <3> QED
            BY <2>1, <2>2, <3>1
    <2>7. AckedIsStored'
        <3>1. ASSUME NEW a \in acked PROVE a[2] \in Ids \ {i}
            <4>1. a[1] \in Uploads /\ a[2] \in Ids
                BY <1>f
            <4>2. report[a[2]].upload = a[1]
                OBVIOUS
            <4> QED
                BY <1>0, <2>1, <4>1, <4>2
        <3> QED
            BY <2>1, <3>1
    <2> QED
        BY <2>4, <2>5, <2>6, <2>7
<1>8. CASE InsertConflict(r)
    BY <1>8, <1>c, <1>e DEF InsertConflict, tables
<1>9. CASE InsertJob(r)
    <2> DEFINE i == req[r].id
    <2>1. PICK j \in JobIds :
              job[j].state = "absent" /\ job' = [job EXCEPT ![j] = NewJob(i)]
        BY <1>9 DEF InsertJob, NewJob
    <2>2. /\ i \in Ids /\ req[r].pc = "enqueue"
          /\ acked' = acked \cup {<<req[r].upload, i>>}
          /\ report' = report
          /\ req'[r].pc = "idle"
          /\ \A q \in Requests \ {r} : req'[q] = req[q]
        BY <1>9, <1>a DEF InsertJob, Stop, NoRequest
    <2>3. /\ job'[j].report = i
          /\ \A k \in JobIds \ {j} : job'[k] = job[k]
        <3>1. /\ NewJob(i).report = i
              /\ job \in [JobIds -> JobRow]
            BY <2>2, NewJobType, TypeFacts
        <3> QED
            BY <2>1, <3>1
    <2>4. RowShape' /\ RequestId'
        <3>1. ASSUME NEW q \in Requests, req'[q].pc # "idle"
              PROVE  /\ req'[q].id \in Uuids => req'[q].id = req'[q].upload.uuid
                     /\ req'[q].pc = "lookup" => req'[q].id \in Uuids
            <4>1. req'[q] = req[q]
                BY <2>2, <3>1
            <4> QED
                BY <3>1, <4>1
        <3>2. RequestId'
            BY <3>1
        <3>3. RowShape'
            BY <2>2
        <3> QED
            BY <3>2, <3>3
    <2>5. report[i].upload = req[r].upload /\ req[r].upload \in Uploads
          /\ report[i].state # "absent"
        BY <1>0, <1>f, <2>2
    <2>8. AckedIsStored'
        <3>1. ASSUME NEW a \in acked' PROVE report[a[2]].upload = a[1]
            <4>1. a \in acked \/ (a[1] = req[r].upload /\ a[2] = i)
                BY <2>2
            <4> QED
                BY <2>5, <4>1
        <3> QED
            BY <2>2, <3>1
    <2>6. JobHasRow' /\ OneJobPerReport'
        <3>1. \A k \in JobIds : job[k].report # i
            BY <2>2
        <3>2. JobHasRow'
            BY <2>2, <2>3, <2>5
        <3>3. OneJobPerReport'
            BY <2>3, <3>1
        <3> QED
            BY <3>2, <3>3
    <2>7. EnqueueOwnsRow'
        <3>1. ASSUME NEW q \in Requests, req'[q].pc = "enqueue"
              PROVE  q # r /\ req[q].id # i /\ req'[q] = req[q]
            BY <2>2, <3>1
        <3> QED
            BY <2>2, <2>3, <3>1
    <2> QED
        BY <2>4, <2>6, <2>7, <2>8
<1>10. CASE Abort(r)
    BY <1>10, <1>c, <1>e DEF Abort, tables
<1> QED
    BY <1>1, <1>2, <1>3, <1>4, <1>5, <1>6, <1>7, <1>8, <1>9, <1>10
    DEF RequestStep

\* Decoders change jobs and rows, but not whose they are.
LEMMA DecoderKeeps ==
    ASSUME IngestInv, DecoderNext
    PROVE  /\ \A j \in JobIds : job'[j].report = job[j].report
           /\ \A i \in Ids :
                 /\ report'[i].upload = report[i].upload
                 /\ report'[i].state = "absent" <=> report[i].state = "absent"
<1>1. PICK w \in Workers : WorkerStep(w) \/ StepError(w)
    BY DEF DecoderNext
<1>2. \A j \in JobIds : job'[j].report = job[j].report
    <2>1. CASE Claim(w)
        BY <2>1, TypeFacts, RunningType DEF Claim
    <2>2. CASE FinishOk(w) \/ FinishRetry(w) \/ FinishFailed(w)
        <3>1. ASSUME NEW st, SetJobState(worker[w].job, st)
              PROVE  \A j \in JobIds : job'[j].report = job[j].report
            BY <3>1, TypeFacts DEF SetJobState, JobRow
        <3> QED
            BY <2>2, <3>1 DEF FinishOk, FinishRetry, FinishFailed
    <2>3. CASE job' = job
        BY <2>3
    <2> QED
        BY <1>1, <2>1, <2>2, <2>3
        DEF WorkerStep, StepError, ReadRaw, ReadRawFails, OpenDecoded,
            WriteDecoded, UpsertGroup, UpdateReport, RemoveRaw, MarkFailed,
            tables
<1>3. \A i \in Ids :
          /\ report'[i].upload = report[i].upload
          /\ report'[i].state = "absent" <=> report[i].state = "absent"
    <2>1. CASE UpdateReport(w) \/ MarkFailed(w)
        <3>1. Report(w) \in Ids /\ report[Report(w)].state # "absent"
            <4>1. worker[w].pc # "idle"
                BY <2>1 DEF UpdateReport, MarkFailed, At
            <4>2. worker[w].job \in JobIds /\ Report(w) \in Ids
                BY <4>1, TypeFacts DEF Report, WorkerShape, JobShape
            <4> QED
                BY <4>2 DEF Report
        <3>2. CASE UpdateReport(w)
            BY <3>1, <3>2, TypeFacts DEF UpdateReport, ReportRow
        <3>3. CASE MarkFailed(w)
            BY <3>1, <3>3, TypeFacts DEF MarkFailed, ReportRow
        <3> QED
            BY <2>1, <3>2, <3>3
    <2>2. CASE report' = report
        BY <2>2
    <2> QED
        BY <1>1, <2>1, <2>2
        DEF WorkerStep, StepError, Claim, ReadRaw, ReadRawFails, OpenDecoded,
            WriteDecoded, UpsertGroup, RemoveRaw, FinishOk, FinishRetry,
            FinishFailed, tables
<1> QED
    BY <1>2, <1>3

\* Neither does the retention task, nor the clock.
LEMMA RetentionKeeps ==
    ASSUME IngestInv, RetentionNext
    PROVE  /\ job' = job
           /\ \A i \in Ids :
                 /\ report'[i].upload = report[i].upload
                 /\ report'[i].state = report[i].state
<1>1. job' = job
    BY DEF RetentionNext, GcStep, Age, GcSelect, GcRemove, GcMark, tables
<1>2. \A i \in Ids :
          /\ report'[i].upload = report[i].upload
          /\ report'[i].state = report[i].state
    <2>1. ASSUME NEW k \in Ids, Age(k)
          PROVE  \A i \in Ids : /\ report'[i].upload = report[i].upload
                                /\ report'[i].state = report[i].state
        <3>1. report \in [Ids -> ReportRow]
            BY TypeFacts
        <3>2. report[k] \in ReportRow
            BY <3>1
        <3>3. /\ report'[k].upload = report[k].upload
              /\ report'[k].state = report[k].state
              /\ \A i \in Ids \ {k} : report'[i] = report[i]
            BY <2>1, <3>1, <3>2 DEF Age, ReportRow
        <3> QED
            BY <3>3
    <2>2. ASSUME NEW p \in Collectors, GcMark(p)
          PROVE  \A i \in Ids : /\ report'[i].upload = report[i].upload
                                /\ report'[i].state = report[i].state
        <3>1. report \in [Ids -> ReportRow] /\ gc[p].removed \in Ids
            BY <2>2, TypeFacts DEF GcMark
        <3>2. ASSUME report' = [report EXCEPT ![gc[p].removed].rawDeleted = TRUE]
              PROVE  \A i \in Ids : /\ report'[i].upload = report[i].upload
                                    /\ report'[i].state = report[i].state
            BY <3>1, <3>2 DEF ReportRow
        <3> QED
            BY <2>2, <3>2 DEF GcMark
    <2>3. CASE report' = report
        BY <2>3
    <2> QED
        BY <2>1, <2>2, <2>3
        DEF RetentionNext, GcStep, GcSelect, GcRemove, tables
<1> QED
    BY <1>1, <1>2

LEMMA IngestStep ==
    ASSUME IngestInv, [Next]_pipelineVars
    PROVE  IngestInv'
<1>1. TypeInv'
    BY TypeStep
<1> USE <1>1
<1>2. CASE UNCHANGED pipelineVars
    BY <1>2, IngestFrame DEF pipelineVars, tables
<1>3. CASE IngestNext /\ UNCHANGED <<worker, gc>>
    <2>1. ASSUME NEW d \in Submitters, RejectUpload(d) PROVE IngestInv'
        BY <2>1, IngestFrame DEF RejectUpload
    <2> QED
        BY <1>3, <2>1, IngestRequest DEF IngestNext
<1>4. CASE DecoderNext /\ UNCHANGED <<ingestVars, gc>>
    BY <1>4, DecoderKeeps, IngestFrame
<1>5. CASE RetentionNext /\ UNCHANGED <<ingestVars, worker>>
    BY <1>5, RetentionKeeps, IngestFrame
<1>6. CASE \E w \in Workers : Crash(w)
    BY <1>6, IngestFrame DEF Crash, tables
<1> QED
    BY <1>2, <1>3, <1>4, <1>5, <1>6 DEF Next

LEMMA IngestAlways == Spec => []IngestInv
BY IngestInitially, IngestStep, PTL DEF Spec

\* Whatever requests race, fail and repeat: every 200 names a row made for that
\* very upload.
THEOREM AcksCorrect == Spec => []AckedIsStored
BY IngestAlways, PTL DEF IngestInv

\* No report has two decode jobs, whatever requests race for its uuid.
THEOREM OneJobKept == Spec => []OneJobPerReport
BY IngestAlways, PTL DEF IngestInv

-----------------------------------------------------------------------------
(* Re-uploads of a device that signs.                                      *)

\* The uuid of an upload leads to a report of somebody else's.
Elsewhere(up) == report[up.uuid].upload \notin {Null, up}

\* A device's report has an id of its own choice, unless that was taken; and so
\* has the request that will make the row.
RowsAtHome ==
    \A i \in Ids :
        report[i].upload # Null /\ report[i].upload.dev # Null =>
            i = report[i].upload.uuid \/ Elsewhere(report[i].upload)

RequestsAtHome ==
    \A r \in Requests :
        req[r].pc # "idle" /\ req[r].upload.dev # Null =>
            req[r].id = req[r].upload.uuid \/ Elsewhere(req[r].upload)

DedupInv == IngestInv /\ RowsAtHome /\ RequestsAtHome

USE DEF DedupInv
HIDE DEF IngestInv, RowShape, RequestId, JobHasRow, EnqueueOwnsRow,
         OneJobPerReport, AckedIsStored

\* A row keeps its upload, so what is somebody else's stays that.
LEMMA ElsewhereStays ==
    ASSUME NEW up \in Uploads, Elsewhere(up),
           \A i \in Ids :
              report[i].upload # Null => report'[i].upload = report[i].upload
    PROVE  Elsewhere(up)'
<1>1. up.uuid \in Ids
    BY DEF Uploads, Ids
<1> QED
    BY <1>1 DEF Elsewhere

\* No row is made, and every request goes on with its upload under its id, ends,
\* or begins.
LEMMA DedupFrame ==
    ASSUME DedupInv, TypeInv, TypeInv',
           \A i \in Ids : report'[i].upload = report[i].upload,
           \A r \in Requests :
              \/ req'[r].pc = "idle"
              \/ req'[r].id = req'[r].upload.uuid
              \/ /\ req[r].pc # "idle"
                 /\ req'[r].upload = req[r].upload /\ req'[r].id = req[r].id
              \/ req'[r].upload.dev # Null => Elsewhere(req'[r].upload)
    PROVE  (RowsAtHome /\ RequestsAtHome)'
<1>1. \A up \in Uploads : Elsewhere(up) => Elsewhere(up)'
    BY ElsewhereStays
<1>2. \A i \in Ids : report[i].upload \in Uploads \cup {Null}
    BY TypeFacts
<1>3. RowsAtHome'
    <2>1. ASSUME NEW i \in Ids, NEW up \in Uploads,
                 report'[i].upload = up, up.dev # Null
          PROVE  i = up.uuid \/ Elsewhere(up)'
        BY <1>1, <2>1 DEF RowsAtHome, Payloads
    <2> QED
        BY <1>2, <2>1 DEF RowsAtHome, Elsewhere
<1>4. \A r \in Requests :
          /\ req[r].pc # "idle" => req[r].upload \in Uploads
          /\ req'[r].pc # "idle" => req'[r].upload \in Uploads
    BY TypeFacts DEF TypeInv, RequestShape
<1>5. ASSUME NEW r \in Requests, NEW up \in Uploads,
             req'[r].pc # "idle", req'[r].upload = up, up.dev # Null
      PROVE  req'[r].id = up.uuid \/ Elsewhere(up)'
    BY <1>1, <1>5 DEF RequestsAtHome
<1>6. RequestsAtHome'
    BY <1>4, <1>5 DEF RequestsAtHome, Elsewhere
<1> QED
    BY <1>3, <1>6

\* post_report looks the uuid up, and takes another id only from a row that is
\* there and not this device's.
LEMMA CollisionElsewhere ==
    ASSUME IngestInv, TypeInv, NEW r \in Requests, LookupCollision(r),
           req[r].upload.dev # Null
    PROVE  Elsewhere(req[r].upload)
<1>1. req[r].pc = "lookup" /\ req[r].upload \in Uploads /\ req[r].id \in Ids
    BY TypeFacts DEF LookupCollision, RequestShape
<1>2. req[r].id = req[r].upload.uuid
    BY <1>1 DEF IngestInv, RequestId
<1>3. report[req[r].id].upload # Null
    BY <1>1 DEF LookupCollision, IngestInv, RowShape
<1>4. report[req[r].id].upload # req[r].upload
    BY <1>3 DEF LookupCollision, SameOwner
<1> QED
    BY <1>2, <1>3, <1>4 DEF Elsewhere

\* The request that inserts a row has an id at home, and so has the row.
LEMMA InsertAtHome ==
    ASSUME DedupInv, TypeInv, NEW r \in Requests, InsertReport(r)
    PROVE  (RowsAtHome /\ RequestsAtHome)'
<1> DEFINE i == req[r].id
           up == req[r].upload
<1>1. i \in Ids /\ up \in Uploads /\ req[r].pc = "insert"
    BY TypeFacts DEF InsertReport, RequestShape
<1>2. report' = [report EXCEPT ![i] = NewReport(up)] /\ report \in [Ids -> ReportRow]
    BY TypeFacts DEF InsertReport, NewReport
<1>3. NewReport(up).upload = up
    BY DEF NewReport, NoReport
<1>4. /\ report'[i].upload = up
      /\ \A k \in Ids \ {i} : report'[k] = report[k]
    BY <1>1, <1>2, <1>3
<1>5. report[i].upload = Null
    BY <1>1 DEF InsertReport, IngestInv, RowShape
<1>6. \A k \in Ids : report[k].upload # Null => report'[k].upload = report[k].upload
    BY <1>4, <1>5
<1>7. \A u \in Uploads : Elsewhere(u) => Elsewhere(u)'
    BY <1>6, ElsewhereStays
<1>8. up.dev # Null => i = up.uuid \/ Elsewhere(up)
    BY <1>1 DEF RequestsAtHome
<1>9. \A k \in Ids : report[k].upload \in Uploads \cup {Null}
    BY TypeFacts
<1>10. ASSUME NEW k \in Ids, NEW u \in Uploads,
              report'[k].upload = u, u.dev # Null
       PROVE  k = u.uuid \/ Elsewhere(u)'
    <2>1. CASE k = i
        BY <1>4, <1>7, <1>8, <1>10, <2>1
    <2>2. CASE k # i
        BY <1>4, <1>7, <1>10, <2>2, NullAssumption DEF RowsAtHome, Payloads
    <2> QED
        BY <2>1, <2>2
<1>11. \A k \in Ids : report'[k].upload \in Uploads \cup {Null}
    BY <1>1, <1>4, <1>9
<1>12. RowsAtHome'
    BY <1>10, <1>11 DEF RowsAtHome, Elsewhere
<1>13. \A q \in Requests : req[q].pc # "idle" => req[q].upload \in Uploads
    BY TypeFacts DEF RequestShape
<1>14. \A q \in Requests :
           /\ req'[q].upload = req[q].upload /\ req'[q].id = req[q].id
           /\ req'[q].pc # "idle" => req[q].pc # "idle"
    BY <1>1, TypeFacts DEF InsertReport, Goto, RequestState
<1>15. ASSUME NEW q \in Requests, NEW u \in Uploads,
              req'[q].pc # "idle", req'[q].upload = u, u.dev # Null
       PROVE  req'[q].id = u.uuid \/ Elsewhere(u)'
    BY <1>7, <1>14, <1>15 DEF RequestsAtHome
<1>16. RequestsAtHome'
    BY <1>13, <1>14, <1>15 DEF RequestsAtHome, Elsewhere
<1> QED
    BY <1>12, <1>16

LEMMA DedupRequest ==
    ASSUME DedupInv, TypeInv, TypeInv', NEW r \in Requests, RequestStep(r)
    PROVE  (RowsAtHome /\ RequestsAtHome)'
<1>1. req \in [Requests -> RequestState]
    BY TypeFacts
<1>2. ASSUME NEW pc, pc # "idle", req[r].pc # "idle", Goto(r, pc),
             UNCHANGED report
      PROVE  (RowsAtHome /\ RequestsAtHome)'
    <2>1. /\ req'[r].upload = req[r].upload /\ req'[r].id = req[r].id
          /\ \A q \in Requests \ {r} : req'[q] = req[q]
        BY <1>1, <1>2 DEF Goto, RequestState
    <2>2. \A q \in Requests : req'[q].pc # "idle" => req[q].pc # "idle"
        BY <1>2, <2>1
    <2> QED
        BY <1>2, <2>1, <2>2, DedupFrame
<1>3. ASSUME Stop(r), UNCHANGED report PROVE (RowsAtHome /\ RequestsAtHome)'
    <2>1. req'[r].pc = "idle" /\ \A q \in Requests \ {r} : req'[q] = req[q]
        BY <1>1, <1>3 DEF Stop, NoRequest
    <2> QED
        BY <1>3, <2>1, DedupFrame
<1>4. ASSUME NEW up \in Uploads, Authenticate(r, up)
      PROVE  (RowsAtHome /\ RequestsAtHome)'
    <2>1. /\ req'[r].id = req'[r].upload.uuid
          /\ \A q \in Requests \ {r} : req'[q] = req[q]
          /\ UNCHANGED report
        BY <1>1, <1>4 DEF Authenticate
    <2> QED
        BY <2>1, DedupFrame
<1>5. ASSUME LookupCollision(r) PROVE (RowsAtHome /\ RequestsAtHome)'
    <2>1. PICK k \in UnusedFreshIds :
              req' = [req EXCEPT ![r].pc = "write", ![r].id = k]
        BY <1>5 DEF LookupCollision
    <2>2. /\ req'[r].upload = req[r].upload
          /\ \A q \in Requests \ {r} : req'[q] = req[q]
          /\ UNCHANGED report
        BY <1>1, <1>5, <2>1 DEF LookupCollision, tables, RequestState
    <2>3. req'[r].upload.dev # Null => Elsewhere(req'[r].upload)
        BY <1>5, <2>2, CollisionElsewhere
    <2>4. \A q \in Requests \ {r} :
              \/ req'[q].pc = "idle"
              \/ /\ req[q].pc # "idle"
                 /\ req'[q].upload = req[q].upload /\ req'[q].id = req[q].id
        BY <2>2
    <2> QED
        BY <2>2, <2>3, <2>4, DedupFrame
<1> QED
    BY <1>2, <1>3, <1>4, <1>5, InsertAtHome
    DEF RequestStep, LookupAck, LookupNew, OpenRaw, WriteRaw, InsertConflict,
        InsertJob, Abort, tables

LEMMA DedupInitially == Init => DedupInv
<1> SUFFICES ASSUME Init PROVE DedupInv
    OBVIOUS
<1>1. IngestInv
    BY IngestInitially
<1>2. RowsAtHome /\ RequestsAtHome
    BY DEF Init, StoreInit, IngestInit, NoReport, NoRequest, RowsAtHome,
           RequestsAtHome
<1> QED
    BY <1>1, <1>2

LEMMA DedupStep ==
    ASSUME DedupInv, [Next]_pipelineVars
    PROVE  DedupInv'
<1>1. TypeInv /\ TypeInv' /\ IngestInv'
    BY IngestStep, TypeStep DEF IngestInv
<1>2. ASSUME UNCHANGED req, \A i \in Ids : report'[i].upload = report[i].upload
      PROVE  (RowsAtHome /\ RequestsAtHome)'
    BY <1>1, <1>2, DedupFrame
<1>3. ASSUME IngestNext PROVE (RowsAtHome /\ RequestsAtHome)'
    <2>1. ASSUME NEW d \in Submitters, RejectUpload(d)
          PROVE  (RowsAtHome /\ RequestsAtHome)'
        BY <1>2, <2>1 DEF RejectUpload, ingestVars
    <2> QED
        BY <1>1, <1>3, <2>1, DedupRequest DEF IngestNext
<1>4. ASSUME DecoderNext /\ UNCHANGED ingestVars PROVE (RowsAtHome /\ RequestsAtHome)'
    BY <1>2, <1>4, DecoderKeeps DEF ingestVars
<1>5. ASSUME RetentionNext /\ UNCHANGED ingestVars PROVE (RowsAtHome /\ RequestsAtHome)'
    BY <1>2, <1>5, RetentionKeeps DEF ingestVars
<1>6. ASSUME UNCHANGED <<tables, ingestVars>> PROVE (RowsAtHome /\ RequestsAtHome)'
    BY <1>2, <1>6 DEF tables, ingestVars
<1>7. (RowsAtHome /\ RequestsAtHome)'
    BY <1>3, <1>4, <1>5, <1>6 DEF Next, Crash, pipelineVars
<1> QED
    BY <1>1, <1>7

\* post_report looks an upload's uuid up first, and new_id is for uuids of others:
\* a device that signs gets no second row, however its retries race and die.
THEOREM RetriesDeduplicated == Spec => []SignedUploadsDeduplicated
<1>1. DedupInv => SignedUploadsDeduplicated
    <2> SUFFICES ASSUME RowsAtHome, NEW i \in Ids, NEW k \in Ids,
                        report[i].upload = report[k].upload,
                        report[i].upload # Null, report[i].upload.dev # Null,
                        i # k
                 PROVE  Elsewhere(report[i].upload)
        BY DEF SignedUploadsDeduplicated, Elsewhere
    <2> QED
        BY DEF RowsAtHome
<1> QED
    BY <1>1, DedupInitially, DedupStep, PTL DEF Spec
=============================================================================
