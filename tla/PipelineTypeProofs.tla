------------------------- MODULE PipelineTypeProofs -------------------------
(***************************************************************************)
(* The type invariant of the report pipeline, for any devices, ids, jobs,  *)
(* requests, decoders and kinds of failure.                                *)
(***************************************************************************)
EXTENDS Pipeline, FiniteSetTheorems, TLAPS

\* A request that is under way has an upload and an id.
RequestShape ==
    \A r \in Requests :
        req[r].pc # "idle" => req[r].upload \in Uploads /\ req[r].id \in Ids

\* A job that exists is a report's.
JobShape == \A j \in JobIds : job[j].state # "absent" => job[j].report \in Ids

\* A decoder that is busy has a job that exists, and from ReadRaw on its text.
WorkerShape ==
    \A w \in Workers :
        /\ worker[w].pc = "idle" <=> worker[w].job = Null
        /\ worker[w].job # Null => job[worker[w].job].state # "absent"
        /\ worker[w].pc \in {"write", "writing", "group", "update", "remove"}
              => worker[w].text \in Payloads

\* TypeOK is not inductive: a step writes what the local state says, which has
\* its type only while the program is where the code reads it.
TypeInv == TypeOK /\ RequestShape /\ JobShape /\ WorkerShape

\* A statement that sets columns of one row keeps the table's type.
LEMMA ReportUpdateType ==
    ASSUME report \in [Ids -> ReportRow], NEW i \in Ids
    PROVE  /\ [report EXCEPT ![i].aged = TRUE] \in [Ids -> ReportRow]
           /\ [report EXCEPT ![i].rawDeleted = TRUE] \in [Ids -> ReportRow]
           /\ [report EXCEPT ![i].state = "failed"] \in [Ids -> ReportRow]
<1>1. ASSUME NEW row \in ReportRow
      PROVE  /\ [row EXCEPT !.aged = TRUE] \in ReportRow
             /\ [row EXCEPT !.rawDeleted = TRUE] \in ReportRow
             /\ [row EXCEPT !.state = "failed"] \in ReportRow
    BY DEF ReportRow
<1>2. report[i] \in ReportRow
    OBVIOUS
<1> QED
    BY <1>1, <1>2

\* The row post_report inserts.
NewReport(up) == [NoReport EXCEPT !.state = "received", !.upload = up]

LEMMA NewReportType ==
    ASSUME report \in [Ids -> ReportRow], NEW i \in Ids, NEW up \in Uploads
    PROVE  [report EXCEPT ![i] = NewReport(up)] \in [Ids -> ReportRow]
<1>1. NewReport(up) \in ReportRow
    BY DEF NewReport, NoReport, ReportRow
<1> QED
    BY <1>1

LEMMA DecodedType ==
    ASSUME report \in [Ids -> ReportRow], NEW i \in Ids, NEW g \in Payloads
    PROVE  [report EXCEPT ![i].state = "decoded", ![i].group = g,
                          ![i].rawDeleted = TRUE] \in [Ids -> ReportRow]
<1>1. ASSUME NEW row \in ReportRow
      PROVE  [[[row EXCEPT !.state = "decoded"] EXCEPT !.group = g]
                    EXCEPT !.rawDeleted = TRUE] \in ReportRow
    BY DEF ReportRow
<1> QED
    BY <1>1

LEMMA JobStateType ==
    ASSUME job \in [JobIds -> JobRow], NEW j \in JobIds,
           NEW s \in {"pending", "done", "failed"}, SetJobState(j, s)
    PROVE  /\ job' \in [JobIds -> JobRow]
           /\ \A k \in JobIds : job'[k].report = job[k].report
           /\ \A k \in JobIds :
                 k # j \/ job[k].state # "absent"
                 => (job'[k].state = "absent" <=> job[k].state = "absent")
<1>1. CASE job' = job
    BY <1>1
<1>2. CASE job' = [job EXCEPT ![j].state = s]
    <2>1. ASSUME NEW row \in JobRow
          PROVE  /\ [row EXCEPT !.state = s] \in JobRow
                 /\ [row EXCEPT !.state = s].report = row.report
                 /\ [row EXCEPT !.state = s].state = s
        BY DEF JobRow
    <2>2. /\ job[j] \in JobRow
          /\ job'[j] = [job[j] EXCEPT !.state = s]
          /\ \A k \in JobIds \ {j} : job'[k] = job[k]
        BY <1>2
    <2>3. job' \in [JobIds -> JobRow]
        BY <1>2, <2>1, <2>2
    <2>4. job'[j].report = job[j].report /\ job'[j].state = s
        BY <2>1, <2>2
    <2> QED
        BY <2>2, <2>3, <2>4
<1> QED
    BY <1>1, <1>2 DEF SetJobState

LEMMA RunningType ==
    ASSUME NEW row \in JobRow
    PROVE  /\ Running(row) \in JobRow
           /\ Running(row).report = row.report
           /\ Running(row).attempts = row.attempts + 1
           /\ Running(row).state = "running"
<1> DEFINE m == [row EXCEPT !.state = "running"]
<1>1. m \in JobRow /\ row.attempts + 1 \in Nat
    BY DEF JobRow
<1>2. [m EXCEPT !.attempts = row.attempts + 1] \in JobRow
    <2> HIDE DEF m
    <2> QED
        BY <1>1 DEF JobRow
<1>4. Running(row) \in JobRow
    BY <1>2 DEF Running
<1>5. Running(row).report = row.report /\ Running(row).state = "running"
    BY DEF Running, JobRow
<1>6. Running(row).attempts = row.attempts + 1
    BY DEF Running, JobRow
<1> QED
    BY <1>4, <1>5, <1>6

\* What the row InsertJob numbers a new row by is a number.
LEMMA JobCountType == JobCount \in Nat
<1>1. IsFiniteSet({j \in JobIds : job[j].state # "absent"})
    BY FS_Subset, JobIdsAssumption
<1> QED
    BY <1>1, FS_CardinalityType DEF JobCount

NewJob(i) == [NoJob EXCEPT !.state = "pending", !.report = i,
                           !.rowid = JobCount + 1]

LEMMA NewJobType ==
    ASSUME NEW i \in Ids
    PROVE  /\ NewJob(i) \in JobRow
           /\ NewJob(i).state = "pending"
           /\ NewJob(i).report = i
           /\ NewJob(i).attempts = 0
<1> DEFINE n == JobCount + 1
<1>1. n \in Nat
    BY JobCountType
<1>2. NewJob(i) \in JobRow
    <2> HIDE DEF n
    <2>1. [NoJob EXCEPT !.state = "pending", !.report = i, !.rowid = n]
              \in JobRow
        BY <1>1 DEF NoJob, JobRow
    <2> QED
        BY <2>1 DEF n, NewJob
<1> QED
    BY <1>2 DEF NewJob, NoJob

USE NullAssumption, TornAssumption, JobIdsAssumption
USE DEF TypeInv, TypeOK, StoreTypeOK, IngestTypeOK, DecoderTypeOK,
        RetentionTypeOK, RequestShape, JobShape, WorkerShape

LEMMA TypeInitially == Init => TypeInv
BY DEF Init, StoreInit, IngestInit, DecoderInit, RetentionInit, NoReport, NoJob,
       NoRequest, Idle, Resting, ReportRow, JobRow, RequestState, WorkerState

LEMMA TypeIngest ==
    ASSUME TypeInv, IngestNext, UNCHANGED <<worker, gc>>
    PROVE  TypeInv'
<1> USE DEF tables, spool, ingestVars, Goto, Stop, NoRequest, RequestState
<1>1. ASSUME NEW d \in Submitters, RejectUpload(d) PROVE TypeInv'
    BY <1>1 DEF RejectUpload, Register, Submitters
<1>2. ASSUME NEW r \in Requests, RequestStep(r) PROVE TypeInv'
    <2>1. ASSUME NEW up \in Uploads, Authenticate(r, up) PROVE TypeInv'
        BY <1>2, <2>1 DEF Authenticate, Register, Uploads, Submitters, Ids
    <2>2. CASE LookupAck(r)
        BY <2>2 DEF LookupAck
    <2>3. CASE LookupCollision(r)
        BY <2>3 DEF LookupCollision, UnusedFreshIds, Ids
    <2>4. CASE LookupNew(r)
        BY <2>4 DEF LookupNew
    <2>5. CASE OpenRaw(r)
        BY <2>5 DEF OpenRaw, Payloads
    <2>6. CASE WriteRaw(r)
        BY <2>6 DEF WriteRaw, Written, Payloads
    <2>7. CASE InsertReport(r)
        <3>1. req[r].id \in Ids /\ req[r].upload \in Uploads
            BY <2>7 DEF InsertReport
        <3>2. report' = [report EXCEPT ![req[r].id] = NewReport(req[r].upload)]
            BY <2>7 DEF InsertReport, NewReport
        <3>3. report' \in [Ids -> ReportRow]
            BY <3>1, <3>2, NewReportType
        <3>4. UNCHANGED <<device, groups, job, raw, decoded, acked>>
            BY <2>7 DEF InsertReport
        <3>5. req' = [req EXCEPT ![r].pc = "enqueue"]
            BY <2>7 DEF InsertReport
        <3>6. req' \in [Requests -> RequestState]
            BY <3>5
        <3>7. RequestShape'
            BY <3>1, <3>5
        <3> QED
            BY <3>3, <3>4, <3>6, <3>7
    <2>8. CASE InsertConflict(r)
        BY <2>8 DEF InsertConflict
    <2>9. CASE InsertJob(r)
        <3>1. req[r].id \in Ids /\ req[r].upload \in Uploads
            BY <2>9 DEF InsertJob
        <3>2. PICK j \in JobIds : job' = [job EXCEPT ![j] = NewJob(req[r].id)]
            BY <2>9 DEF InsertJob, NewJob
        <3>3. job' \in [JobIds -> JobRow] /\ JobShape' /\ WorkerShape'
            BY <2>9, <3>1, <3>2, NewJobType DEF InsertJob
        <3> QED
            BY <2>9, <3>1, <3>3 DEF InsertJob
    <2>10. CASE Abort(r)
        BY <2>10 DEF Abort
    <2> QED
        BY <1>2, <2>1, <2>2, <2>3, <2>4, <2>5, <2>6, <2>7, <2>8, <2>9, <2>10
        DEF RequestStep
<1> QED
    BY <1>1, <1>2 DEF IngestNext

\* Where a decoder that has a job may stand, and where it needs its text.
BusyPcs == {"read", "write", "writing", "group", "update", "remove", "ok",
            "fail", "mark"}
TextPcs == {"write", "writing", "group", "update", "remove"}

LEMMA BusyWorker ==
    ASSUME TypeInv, NEW w \in Workers, worker[w].pc # "idle"
    PROVE  /\ worker[w] \in WorkerState
           /\ worker[w].job \in JobIds
           /\ job[worker[w].job].state # "absent"
           /\ Report(w) \in Ids
           /\ worker[w].pc \in TextPcs => worker[w].text \in Payloads
<1>1. worker[w] \in WorkerState
    OBVIOUS
<1>2. worker[w].job \in JobIds
    BY <1>1 DEF WorkerState
<1>3. job[worker[w].job].state # "absent"
    BY <1>2
<1>4. Report(w) \in Ids
    BY <1>2, <1>3 DEF Report
<1> QED
    BY <1>1, <1>2, <1>3, <1>4 DEF TextPcs

\* A decoder goes on to another step of the same job.
LEMMA WorkerMoves ==
    ASSUME TypeInv, NEW w \in Workers, worker[w].pc # "idle",
           NEW pc \in BusyPcs, NEW text \in Payloads \cup {Null},
           pc \in TextPcs => text \in Payloads,
           worker' = [worker EXCEPT ![w] =
                         [worker[w] EXCEPT !.pc = pc, !.text = text]],
           \A j \in JobIds : job[j].state # "absent" => job'[j].state # "absent"
    PROVE  DecoderTypeOK' /\ WorkerShape'
<1> DEFINE new == [worker[w] EXCEPT !.pc = pc, !.text = text]
<1>1. /\ worker[w] \in WorkerState /\ worker[w].job \in JobIds
      /\ job[worker[w].job].state # "absent"
    BY BusyWorker
<1>2. /\ new \in WorkerState
      /\ new.pc = pc /\ new.job = worker[w].job /\ new.text = text
    BY <1>1 DEF WorkerState, BusyPcs
<1> HIDE DEF new
<1>3. worker' = [worker EXCEPT ![w] = new] /\ worker \in [Workers -> WorkerState]
    BY DEF new
<1>4. worker' \in [Workers -> WorkerState]
    BY <1>2, <1>3
<1>5. ASSUME NEW v \in Workers, v # w
      PROVE  /\ worker'[v].pc = "idle" <=> worker'[v].job = Null
             /\ worker'[v].job # Null => job'[worker'[v].job].state # "absent"
             /\ worker'[v].pc \in TextPcs => worker'[v].text \in Payloads
    <2>1. worker'[v] = worker[v] /\ worker[v] \in WorkerState
        BY <1>3, <1>5
    <2>2. worker[v].job # Null => worker[v].job \in JobIds
        BY <2>1 DEF WorkerState
    <2> QED
        BY <2>1, <2>2 DEF TextPcs
<1>6. /\ worker'[w].pc # "idle" /\ worker'[w].job # Null
      /\ job'[worker'[w].job].state # "absent"
      /\ worker'[w].pc \in TextPcs => worker'[w].text \in Payloads
    <2>1. worker'[w] = new
        BY <1>3
    <2> QED
        BY <1>1, <1>2, <2>1 DEF BusyPcs
<1> QED
    BY <1>4, <1>5, <1>6 DEF TextPcs

\* The same, when nothing but pc changes.
LEMMA WorkerGoes ==
    ASSUME TypeInv, NEW w \in Workers, worker[w].pc # "idle",
           NEW pc \in BusyPcs, pc \in TextPcs => worker[w].pc \in TextPcs,
           To(w, pc),
           \A j \in JobIds : job[j].state # "absent" => job'[j].state # "absent"
    PROVE  DecoderTypeOK' /\ WorkerShape'
<1>1. worker[w] \in WorkerState /\ worker \in [Workers -> WorkerState]
    OBVIOUS
<1>2. worker[w].text \in Payloads \cup {Null}
    BY <1>1 DEF WorkerState
<1>3. [worker[w] EXCEPT !.pc = pc]
          = [worker[w] EXCEPT !.pc = pc, !.text = worker[w].text]
    BY <1>1 DEF WorkerState
<1>4. worker' = [worker EXCEPT ![w] =
                    [worker[w] EXCEPT !.pc = pc, !.text = worker[w].text]]
    BY <1>1, <1>3 DEF To
<1>5. pc \in TextPcs => worker[w].text \in Payloads
    BY BusyWorker
<1> QED
    BY <1>2, <1>4, <1>5, WorkerMoves

\* A decoder is done with its job.
LEMMA WorkerRests ==
    ASSUME TypeInv, NEW w \in Workers, Release(w),
           \A j \in JobIds : job[j].state # "absent" => job'[j].state # "absent"
    PROVE  DecoderTypeOK' /\ WorkerShape'
<1>1. Idle \in WorkerState /\ Idle.pc = "idle" /\ Idle.job = Null
    BY DEF Idle, WorkerState
<1>2. worker' = [worker EXCEPT ![w] = Idle] /\ worker \in [Workers -> WorkerState]
    BY DEF Release
<1>3. worker' \in [Workers -> WorkerState] /\ worker'[w] = Idle
    BY <1>1, <1>2
<1>4. ASSUME NEW v \in Workers, v # w
      PROVE  /\ worker'[v].pc = "idle" <=> worker'[v].job = Null
             /\ worker'[v].job # Null => job'[worker'[v].job].state # "absent"
             /\ worker'[v].pc \in TextPcs => worker'[v].text \in Payloads
    <2>1. worker'[v] = worker[v] /\ worker[v] \in WorkerState
        BY <1>2, <1>4
    <2>2. worker[v].job # Null => worker[v].job \in JobIds
        BY <2>1 DEF WorkerState
    <2> QED
        BY <2>1, <2>2 DEF TextPcs
<1> QED
    BY <1>1, <1>3, <1>4 DEF TextPcs

LEMMA TypeDecoder ==
    ASSUME TypeInv, DecoderNext, UNCHANGED <<ingestVars, gc>>
    PROVE  TypeInv'
<1>1. IngestTypeOK' /\ RetentionTypeOK' /\ RequestShape'
    BY DEF ingestVars
<1> SUFFICES StoreTypeOK' /\ JobShape' /\ DecoderTypeOK' /\ WorkerShape'
    BY <1>1
<1>2. PICK w \in Workers : WorkerStep(w) \/ StepError(w)
    BY DEF DecoderNext
<1> DEFINE i == Report(w)
<1>3. StoreTypeOK /\ JobShape
    OBVIOUS
<1>4. worker[w].pc # "idle" => i \in Ids
    BY BusyWorker
<1>5. worker[w].pc \in TextPcs => worker[w].text \in Payloads
    BY BusyWorker DEF TextPcs
<1>6. worker[w].pc # "idle" => worker[w].job \in JobIds
    BY BusyWorker
<1> HIDE DEF i, TypeInv, DecoderTypeOK, WorkerShape
<1>7. ASSUME UNCHANGED tables, UNCHANGED spool
      PROVE  /\ StoreTypeOK' /\ JobShape'
             /\ \A j \in JobIds : job[j].state # "absent" => job'[j].state # "absent"
    BY <1>3, <1>7 DEF tables, spool
<1>8. ASSUME NEW s \in {"pending", "done", "failed"}, worker[w].pc # "idle",
             SetJobState(worker[w].job, s), UNCHANGED <<device, report, groups, spool>>
      PROVE  /\ StoreTypeOK' /\ JobShape'
             /\ \A j \in JobIds : job[j].state # "absent" => job'[j].state # "absent"
    <2> DEFINE k == worker[w].job
    <2>1. /\ job' \in [JobIds -> JobRow]
          /\ \A j \in JobIds : job'[j].report = job[j].report
          /\ \A j \in JobIds :
                j # k \/ job[j].state # "absent"
                => (job'[j].state = "absent" <=> job[j].state = "absent")
        <3>1. job \in [JobIds -> JobRow] /\ k \in JobIds /\ SetJobState(k, s)
            BY <1>3, <1>6, <1>8
        <3> HIDE DEF k
        <3> QED
            BY <3>1, JobStateType
    <2>2. job[k].state # "absent"
        BY <1>8, BusyWorker
    <2> HIDE DEF k
    <2>3. JobShape'
        BY <1>3, <2>1, <2>2
    <2>4. StoreTypeOK'
        BY <1>3, <1>8, <2>1 DEF spool
    <2> QED
        BY <2>1, <2>2, <2>3, <2>4
<1>9. CASE StepError(w)
    <2>1. worker[w].pc # "idle" /\ To(w, "fail") /\ "fail" \in BusyPcs \ TextPcs
        BY <1>9 DEF StepError, BusyPcs, TextPcs
    <2>2. UNCHANGED tables /\ UNCHANGED spool
        BY <1>9 DEF StepError
    <2> QED
        BY <1>7, <2>1, <2>2, WorkerGoes
<1>10. CASE Claim(w)
    <2>1. PICK j \in JobIds :
              /\ Claimable(j)
              /\ job' = [job EXCEPT ![j] = Running(@)]
              /\ worker' = [worker EXCEPT ![w] =
                     [pc |-> "read", job |-> j,
                      attempts |-> job'[j].attempts, text |-> Null]]
        BY <1>10 DEF Claim
    <2>2. /\ job[j] \in JobRow
          /\ Running(job[j]) \in JobRow
          /\ Running(job[j]).report = job[j].report
          /\ Running(job[j]).state = "running"
        BY <1>3, RunningType
    <2>3. job' = [job EXCEPT ![j] = Running(job[j])]
        BY <2>1
    <2>4. job[j].state # "absent"
        BY <2>1 DEF Claimable
    <2>5. /\ job' \in [JobIds -> JobRow] /\ job'[j] = Running(job[j])
          /\ \A k \in JobIds \ {j} : job'[k] = job[k]
        BY <1>3, <2>2, <2>3
    <2>6. \A k \in JobIds : /\ job[k].state # "absent" => job'[k].state # "absent"
                            /\ job'[k].report = job[k].report
        BY <2>2, <2>5
    <2>7. JobShape'
        BY <1>3, <2>2, <2>4, <2>5
    <2>8. StoreTypeOK'
        BY <1>3, <1>10, <2>5 DEF Claim, spool
    <2>9. job'[j].attempts \in Nat
        BY <2>5 DEF JobRow
    <2> DEFINE new == [pc |-> "read", job |-> j,
                       attempts |-> job'[j].attempts, text |-> Null]
    <2>10. /\ new \in WorkerState /\ new.pc = "read" /\ new.job = j
           /\ j # Null
        BY <2>9 DEF WorkerState
    <2>11. worker' = [worker EXCEPT ![w] = new]
        BY <2>1
    <2> HIDE DEF new
    <2>12. worker \in [Workers -> WorkerState] /\ WorkerShape
        BY DEF TypeInv, DecoderTypeOK
    <2>13. worker' \in [Workers -> WorkerState] /\ worker'[w] = new
        BY <2>10, <2>11, <2>12
    <2>14. ASSUME NEW v \in Workers, v # w
           PROVE  /\ worker'[v] = worker[v]
                  /\ worker[v].job # Null => job'[worker[v].job].state # "absent"
        <3>1. worker'[v] = worker[v] /\ worker[v].job \in JobIds \cup {Null}
            BY <2>11, <2>12, <2>14 DEF WorkerState
        <3> QED
            BY <2>6, <2>12, <3>1 DEF WorkerShape
    <2>15. /\ worker'[w].pc = "read" /\ worker'[w].job # Null
           /\ job'[worker'[w].job].state # "absent"
        BY <2>2, <2>5, <2>10, <2>13
    <2>16. WorkerShape'
        BY <2>12, <2>14, <2>15 DEF WorkerShape
    <2> QED
        BY <2>7, <2>8, <2>13, <2>16 DEF DecoderTypeOK
<1>11. CASE ReadRaw(w)
    <2>1. /\ worker[w].pc # "idle" /\ raw[i] \in Payloads
          /\ UNCHANGED tables /\ UNCHANGED spool
        BY <1>11 DEF ReadRaw, At, i
    <2>2. worker' = [worker EXCEPT ![w] =
                        [worker[w] EXCEPT !.pc = "write", !.text = raw[i]]]
        <3>1. worker \in [Workers -> WorkerState]
            BY DEF TypeInv, DecoderTypeOK
        <3> QED
            BY <1>11, <3>1 DEF ReadRaw, i
    <2>3. "write" \in BusyPcs
        BY DEF BusyPcs
    <2> QED
        BY <1>7, <2>1, <2>2, <2>3, WorkerMoves
<1>12. CASE ReadRawFails(w)
    <2>1. worker[w].pc # "idle" /\ To(w, "fail") /\ "fail" \in BusyPcs \ TextPcs
        BY <1>12 DEF ReadRawFails, At, BusyPcs, TextPcs
    <2>2. UNCHANGED tables /\ UNCHANGED spool
        BY <1>12 DEF ReadRawFails
    <2> QED
        BY <1>7, <2>1, <2>2, WorkerGoes
<1>13. CASE OpenDecoded(w)
    <2>1. /\ worker[w].pc = "write" /\ To(w, "writing")
          /\ {"write", "writing"} \subseteq BusyPcs
          /\ "writing" \in TextPcs => "write" \in TextPcs
        BY <1>13 DEF OpenDecoded, At, BusyPcs, TextPcs
    <2>2. StoreTypeOK'
        <3>1. /\ decoded' = [decoded EXCEPT ![i] = Null]
              /\ UNCHANGED <<device, report, groups, job, raw>>
            BY <1>13 DEF OpenDecoded, i, tables
        <3>2. i \in Ids /\ Null \in Payloads \cup {Null}
            BY <1>4, <1>5, <2>1 DEF TextPcs
        <3> QED
            BY <1>3, <3>1, <3>2
    <2>3. /\ JobShape'
          /\ \A j \in JobIds : job[j].state # "absent" => job'[j].state # "absent"
        BY <1>3, <1>13 DEF OpenDecoded, tables
    <2> QED
        BY <2>1, <2>2, <2>3, WorkerGoes
<1>14. CASE WriteDecoded(w)
    <2>1. /\ worker[w].pc = "writing" /\ To(w, "group")
          /\ {"writing", "group"} \subseteq BusyPcs
          /\ "group" \in TextPcs => "writing" \in TextPcs
        BY <1>14 DEF WriteDecoded, At, BusyPcs, TextPcs
    <2>2. StoreTypeOK'
        <3>1. /\ decoded' = [decoded EXCEPT ![i] = worker[w].text]
              /\ UNCHANGED <<device, report, groups, job, raw>>
            BY <1>14 DEF WriteDecoded, i, tables
        <3>2. i \in Ids /\ worker[w].text \in Payloads \cup {Null}
            BY <1>4, <1>5, <2>1 DEF TextPcs
        <3> QED
            BY <1>3, <3>1, <3>2
    <2>3. /\ JobShape'
          /\ \A j \in JobIds : job[j].state # "absent" => job'[j].state # "absent"
        BY <1>3, <1>14 DEF WriteDecoded, tables
    <2> QED
        BY <2>1, <2>2, <2>3, WorkerGoes
<1>15. CASE UpsertGroup(w)
    <2>1. /\ worker[w].pc = "group" /\ To(w, "update")
          /\ {"group", "update"} \subseteq BusyPcs
          /\ "update" \in TextPcs => "group" \in TextPcs
        BY <1>15 DEF UpsertGroup, At, BusyPcs, TextPcs
    <2>2. StoreTypeOK'
        <3>1. worker[w].text \in Payloads
            BY <1>5, <2>1 DEF TextPcs
        <3>2. groups' = groups \cup {worker[w].text}
            BY <1>15 DEF UpsertGroup
        <3>3. UNCHANGED <<device, report, job, raw, decoded>>
            BY <1>15 DEF UpsertGroup, spool
        <3> QED
            BY <1>3, <3>1, <3>2, <3>3
    <2>3. /\ JobShape'
          /\ \A j \in JobIds : job[j].state # "absent" => job'[j].state # "absent"
        BY <1>3, <1>15 DEF UpsertGroup
    <2> QED
        BY <2>1, <2>2, <2>3, WorkerGoes
<1>16. CASE UpdateReport(w)
    <2>1. /\ worker[w].pc = "update" /\ To(w, "remove")
          /\ {"update", "remove"} \subseteq BusyPcs
          /\ "remove" \in TextPcs => "update" \in TextPcs
        BY <1>16 DEF UpdateReport, At, BusyPcs, TextPcs
    <2>2. StoreTypeOK'
        <3>1. i \in Ids /\ worker[w].text \in Payloads
            BY <1>4, <1>5, <2>1 DEF TextPcs
        <3>2. report' = [report EXCEPT ![i].state = "decoded",
                                       ![i].group = worker[w].text,
                                       ![i].rawDeleted = TRUE]
            BY <1>16 DEF UpdateReport, i
        <3>3. report' \in [Ids -> ReportRow]
            BY <1>3, <3>1, <3>2, DecodedType
        <3>4. UNCHANGED <<device, groups, job, raw, decoded>>
            BY <1>16 DEF UpdateReport, spool
        <3> QED
            BY <1>3, <3>3, <3>4
    <2>3. /\ JobShape'
          /\ \A j \in JobIds : job[j].state # "absent" => job'[j].state # "absent"
        BY <1>3, <1>16 DEF UpdateReport
    <2> QED
        BY <2>1, <2>2, <2>3, WorkerGoes
<1>17. CASE RemoveRaw(w)
    <2>1. /\ worker[w].pc # "idle"
          /\ To(w, "fail") \/ To(w, "ok")
          /\ {"fail", "ok"} \subseteq BusyPcs \ TextPcs
        BY <1>17 DEF RemoveRaw, At, BusyPcs, TextPcs
    <2>2. StoreTypeOK'
        <3>1. /\ raw' = [raw EXCEPT ![i] = Null]
              /\ UNCHANGED <<device, report, groups, job, decoded>>
            BY <1>17 DEF RemoveRaw, i, tables
        <3> QED
            BY <1>3, <3>1
    <2>3. /\ JobShape'
          /\ \A j \in JobIds : job[j].state # "absent" => job'[j].state # "absent"
        BY <1>3, <1>17 DEF RemoveRaw, tables
    <2> QED
        BY <2>1, <2>2, <2>3, WorkerGoes
<1>18. CASE FinishOk(w)
    <2>1. /\ worker[w].pc # "idle" /\ Release(w)
          /\ SetJobState(worker[w].job, "done")
          /\ UNCHANGED <<device, report, groups, spool>>
        BY <1>18 DEF FinishOk, At
    <2> QED
        BY <1>8, <2>1, WorkerRests
<1>19. CASE FinishRetry(w)
    <2>1. /\ worker[w].pc # "idle" /\ Release(w)
          /\ SetJobState(worker[w].job, "pending")
          /\ UNCHANGED <<device, report, groups, spool>>
        BY <1>19 DEF FinishRetry, At
    <2> QED
        BY <1>8, <2>1, WorkerRests
<1>20. CASE FinishFailed(w)
    <2>1. /\ worker[w].pc # "idle" /\ To(w, "mark")
          /\ "mark" \in BusyPcs \ TextPcs
          /\ SetJobState(worker[w].job, "failed")
          /\ UNCHANGED <<device, report, groups, spool>>
        BY <1>20 DEF FinishFailed, At, BusyPcs, TextPcs
    <2> QED
        BY <1>8, <2>1, WorkerGoes
<1>21. CASE MarkFailed(w)
    <2>1. /\ worker[w].pc # "idle" /\ Release(w)
          /\ \/ report' = [report EXCEPT ![i].state = "failed"]
             \/ report' = report
          /\ UNCHANGED <<device, groups, job, spool>>
        BY <1>21 DEF MarkFailed, At, i
    <2>2. report' \in [Ids -> ReportRow]
        <3>1. /\ report \in [Ids -> ReportRow] /\ i \in Ids
            BY <1>3, <1>4, <2>1
        <3>2. [report EXCEPT ![i].state = "failed"] \in [Ids -> ReportRow]
            BY <3>1, ReportUpdateType
        <3> QED
            BY <2>1, <3>1, <3>2
    <2>3. StoreTypeOK' /\ JobShape'
        BY <1>3, <2>1, <2>2 DEF spool
    <2>4. \A j \in JobIds : job[j].state # "absent" => job'[j].state # "absent"
        BY <2>1
    <2> QED
        BY <2>1, <2>3, <2>4, WorkerRests
<1> QED
    BY <1>2, <1>9, <1>10, <1>11, <1>12, <1>13, <1>14, <1>15, <1>16, <1>17,
       <1>18, <1>19, <1>20, <1>21 DEF WorkerStep

LEMMA TypeRetention ==
    ASSUME TypeInv, RetentionNext, UNCHANGED <<ingestVars, worker>>
    PROVE  TypeInv'
<1> USE DEF tables, spool, ingestVars, Resting
<1>1. ASSUME NEW i \in Ids, Age(i) PROVE TypeInv'
    BY <1>1, ReportUpdateType DEF Age
<1>2. ASSUME NEW p \in Collectors, GcSelect(p) PROVE TypeInv'
    BY <1>2 DEF GcSelect
<1>3. ASSUME NEW p \in Collectors, GcRemove(p) PROVE TypeInv'
    BY <1>3 DEF GcRemove
<1>4. ASSUME NEW p \in Collectors, GcMark(p) PROVE TypeInv'
    <2>1. report' \in [Ids -> ReportRow]
        <3>1. gc[p].removed \in Ids
            BY <1>4 DEF GcMark
        <3>2. CASE report' = report
            BY <3>2
        <3>3. CASE report' = [report EXCEPT ![gc[p].removed].rawDeleted = TRUE]
            BY <3>1, <3>3, ReportUpdateType
        <3> QED
            BY <1>4, <3>2, <3>3 DEF GcMark
    <2>2. gc' \in [Collectors -> [todo : SUBSET Ids, removed : Ids \cup {Null}]]
        BY <1>4 DEF GcMark
    <2> QED
        BY <1>4, <2>1, <2>2 DEF GcMark
<1> QED
    BY <1>1, <1>2, <1>3, <1>4 DEF RetentionNext, GcStep

LEMMA TypeCrash ==
    ASSUME TypeInv, NEW w \in Workers, Crash(w)
    PROVE  TypeInv'
BY DEF Crash, Idle, Resting, WorkerState, tables, spool, ingestVars

LEMMA TypeStep == TypeInv /\ [Next]_pipelineVars => TypeInv'
<1> SUFFICES ASSUME TypeInv, [Next]_pipelineVars PROVE TypeInv'
    OBVIOUS
<1>1. CASE UNCHANGED pipelineVars
    BY <1>1 DEF pipelineVars, tables, spool, ingestVars
<1> QED
    BY <1>1, TypeIngest, TypeDecoder, TypeRetention, TypeCrash DEF Next

\* Every table row, file and program state of the pipeline keeps its type.
THEOREM TypeCorrect == Spec => []TypeOK
<1>1. Spec => []TypeInv
    BY TypeInitially, TypeStep, PTL DEF Spec
<1> QED
    BY <1>1, PTL DEF TypeInv

\* What the proofs about the pipeline use of the type invariant.
LEMMA TypeFacts ==
    ASSUME TypeInv
    PROVE  /\ job \in [JobIds -> JobRow]
           /\ \A j \in JobIds : /\ job[j].attempts \in Nat
                                /\ job[j].report \in Ids \cup {Null}
           /\ worker \in [Workers -> WorkerState]
           /\ \A w \in Workers : worker[w].job \in JobIds \cup {Null}
           /\ report \in [Ids -> ReportRow]
           /\ \A i \in Ids : report[i].upload \in Uploads \cup {Null}
           /\ req \in [Requests -> RequestState]
           /\ raw \in [Ids -> Payloads \cup {Null}]
           /\ decoded \in [Ids -> Payloads \cup {Null}]
           /\ gc \in [Collectors -> [todo : SUBSET Ids, removed : Ids \cup {Null}]]
           /\ acked \subseteq Uploads \X Ids
           /\ WorkerShape /\ RequestShape /\ JobShape
BY DEF JobRow, WorkerState, ReportRow
=============================================================================
