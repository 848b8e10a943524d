------------------------ MODULE LifeRefinementProofs ------------------------
(***************************************************************************)
(* Requests, decoders and the retention task, with all that may fail,      *)
(* implement the life of a report of module ReportLife; and what its pages *)
(* show of a report that is over.                                          *)
(***************************************************************************)
EXTENDS SpoolProofs, Pages

stages == [i \in Ids |-> StageOf(i)]
kept   == {i \in Ids : raw[i] # Null}
texts  == [i \in Ids |-> TextOf(i)]

USE NullAssumption

\* StageOf, by the columns of a row.
LEMMA StageFacts ==
    ASSUME TypeInv, NEW i \in Ids
    PROVE  /\ report[i].state = "absent" => StageOf(i) = "unknown"
           /\ report[i].state # "absent" /\ Finished(i) => StageOf(i) = "closed"
           /\ report[i].state = "failed" /\ ~Finished(i) =>
                 StageOf(i) = IF report[i].aged THEN "expired" ELSE "failed"
           /\ report[i].state \in {"received", "decoded"} /\ ~Finished(i) =>
                 StageOf(i) = "open"
           /\ report[i].state \in {"absent", "received", "decoded", "failed"}
<1>1. report[i].state \in {"absent", "received", "decoded", "failed"}
    BY TypeFacts DEF ReportRow
<1> QED
    BY <1>1 DEF StageOf

\* The same of the next state.
LEMMA StageNext ==
    ASSUME TypeInv', NEW i \in Ids
    PROVE  /\ report'[i].state # "absent" /\ Finished(i)' => StageOf(i)' = "closed"
           /\ report'[i].state = "failed" /\ ~Finished(i)' =>
                 StageOf(i)' = IF report'[i].aged THEN "expired" ELSE "failed"
           /\ report'[i].state \in {"received", "decoded"} /\ ~Finished(i)' =>
                 StageOf(i)' = "open"
           /\ report'[i].state \in {"absent", "received", "decoded", "failed"}
<1>1. report'[i].state \in {"absent", "received", "decoded", "failed"}
    BY DEF TypeInv, TypeOK, StoreTypeOK, ReportRow
<1> QED
    BY <1>1 DEF StageOf

\* What a row and its files show of a report's life.
LEMMA LifeFacts ==
    ASSUME SpoolInv, NEW i \in Ids
    PROVE  /\ DecodedComplete(i) => TextOf(i) # Null
           /\ TextOf(i) \in Payloads \cup {Null}
           /\ report[i].state = "failed" => ~Finished(i) /\ TextOf(i) = Null
           /\ Finished(i) => DecodedComplete(i)
<1>1. TypeInv
    BY DEF SpoolInv, ClaimInv
<1>2. decoded[i] \in Payloads \cup {Null} /\ groups \subseteq Payloads
    BY <1>1, TypeFacts DEF TypeInv, TypeOK, StoreTypeOK
<1>3. Finished(i) => DecodedComplete(i)
    BY DEF SpoolInv, DoneIsComplete, Finished
<1>4. DecodedComplete(i) => TextOf(i) # Null
    BY <1>2 DEF DecodedComplete, TextOf
<1>5. TextOf(i) \in Payloads \cup {Null}
    BY <1>2 DEF TextOf
<1>6. report[i].state = "failed" => ~Finished(i) /\ TextOf(i) = Null
    BY <1>3 DEF DecodedComplete, TextOf
<1> QED
    BY <1>3, <1>4, <1>5, <1>6

LEMMA LifeStarts == Init => Life!LifeInit
<1> SUFFICES ASSUME Init PROVE Life!LifeInit
    OBVIOUS
<1>1. \A i \in Ids : report[i].state = "absent" /\ raw[i] = Null
    BY DEF Init, StoreInit, NoReport
<1>2. \A i \in Ids : StageOf(i) = "unknown" /\ TextOf(i) = Null
    BY <1>1, TypeInitially, StageFacts DEF TextOf
<1> QED
    BY <1>1, <1>2 DEF Life!LifeInit

\* No job is finished by a step that finishes none.
LEMMA NoneFinished ==
    ASSUME \A j \in JobIds :
              /\ job'[j].state = "done" <=> job[j].state = "done"
              /\ job[j].state = "done" => job'[j].report = job[j].report
    PROVE  \A k \in Ids : Finished(k)' <=> Finished(k)
BY DEF Finished

\* A step concerns one report i; the life of the others goes on as it was.
LEMMA OthersLive ==
    ASSUME NEW i \in Ids,
           \A k \in Ids \ {i} :
              /\ report'[k].state = report[k].state
              /\ report'[k].group = report[k].group
              /\ report'[k].aged = report[k].aged
              /\ decoded'[k] = decoded[k]
              /\ raw'[k] = Null <=> raw[k] = Null
              /\ Finished(k)' <=> Finished(k)
    PROVE  /\ stages' = [stages EXCEPT ![i] = StageOf(i)']
           /\ texts' = [texts EXCEPT ![i] = TextOf(i)']
           /\ raw'[i] # Null => kept' = kept \cup {i}
           /\ raw'[i] = Null => kept' = kept \ {i}
<1>1. \A k \in Ids \ {i} : StageOf(k)' = StageOf(k)
    BY DEF StageOf
<1>2. \A k \in Ids \ {i} : TextOf(k)' = TextOf(k)
    BY DEF TextOf
<1>3. stages' = [k \in Ids |-> StageOf(k)'] /\ texts' = [k \in Ids |-> TextOf(k)']
    BY DEF stages, texts
<1>4. stages' = [stages EXCEPT ![i] = StageOf(i)']
    BY <1>1, <1>3 DEF stages
<1>5. texts' = [texts EXCEPT ![i] = TextOf(i)']
    BY <1>2, <1>3 DEF texts
<1>6. /\ raw'[i] # Null => kept' = kept \cup {i}
      /\ raw'[i] = Null => kept' = kept \ {i}
    BY DEF kept
<1> QED
    BY <1>4, <1>5, <1>6

\* Steps that leave rows, texts and outcomes alone and unlink no file: nothing,
\* or a payload that appears.
LEMMA LifeRests ==
    ASSUME \A k \in Ids :
              /\ report'[k].state = report[k].state
              /\ report'[k].group = report[k].group
              /\ report'[k].aged = report[k].aged
              /\ decoded'[k] = decoded[k]
              /\ raw'[k] = Null <=> raw[k] = Null
              /\ Finished(k)' <=> Finished(k)
    PROVE  UNCHANGED <<stages, kept, texts>>
<1>1. \A k \in Ids : StageOf(k)' = StageOf(k)
    BY DEF StageOf
<1>2. \A k \in Ids : TextOf(k)' = TextOf(k)
    BY DEF TextOf
<1>3. stages' = [k \in Ids |-> StageOf(k)'] /\ texts' = [k \in Ids |-> TextOf(k)']
    BY DEF stages, texts
<1> QED
    BY <1>1, <1>2, <1>3 DEF stages, texts, kept

Stutters == UNCHANGED <<stages, kept, texts>>
Lives    == Life!LifeNext \/ Stutters

LEMMA LifeMoves ==
    ASSUME NEW i \in Ids,
           \/ Life!Upload(i) \/ Life!Receive(i) \/ Life!Attempt(i)
           \/ Life!Discard(i) \/ Life!Close(i) \/ Life!Fail(i) \/ Life!Expire(i)
    PROVE  Lives
BY DEF Lives, Life!LifeNext

LEMMA LifeRequest ==
    ASSUME SpoolInv, SpoolInv', IngestNext, UNCHANGED <<worker, gc>>
    PROVE  Lives
<1>1. TypeInv /\ TypeInv'
    BY DEF SpoolInv, ClaimInv
<1>2. ASSUME NEW r \in Requests,
             \/ LookupAck(r) \/ LookupCollision(r) \/ LookupNew(r)
             \/ InsertConflict(r) \/ Abort(r)
             \/ \E up \in Uploads : Authenticate(r, up)
      PROVE  Lives
    <2>1. UNCHANGED <<report, job, raw, decoded>>
        BY <1>2
        DEF Authenticate, LookupAck, LookupCollision, LookupNew, InsertConflict,
            Abort, tables, spool
    <2> QED
        BY <2>1, NoneFinished, LifeRests DEF Lives, Stutters
<1>3. ASSUME NEW d \in Submitters, RejectUpload(d) PROVE Lives
    <2>1. UNCHANGED <<report, job, raw, decoded>>
        BY <1>3 DEF RejectUpload
    <2> QED
        BY <2>1, NoneFinished, LifeRests DEF Lives, Stutters
<1>4. ASSUME NEW r \in Requests, OpenRaw(r) PROVE Lives
    <2>1. PICK i \in Ids : i = req[r].id
        BY <1>1, <1>4, TypeFacts DEF OpenRaw, RequestShape
    <2>2. UNCHANGED <<report, job, decoded>>
        BY <1>4 DEF OpenRaw, tables
    <2>3. raw'[i] # Null /\ \A k \in Ids \ {i} : raw'[k] = raw[k]
        BY <1>1, <1>4, <2>1, TypeFacts DEF OpenRaw, Payloads
    <2>4. \A k \in Ids : Finished(k)' <=> Finished(k)
        BY <2>2, NoneFinished
    <2>5. kept' = kept \cup {i}
        BY <2>2, <2>3, <2>4, OthersLive
    <2>6. stages' = stages /\ texts' = texts
        BY <2>2, <2>4 DEF stages, texts, StageOf, TextOf
    <2> QED
        BY <2>5, <2>6, LifeMoves DEF Life!Upload, stages, kept, texts
<1>5. ASSUME NEW r \in Requests, WriteRaw(r) PROVE Lives
    <2>1. PICK i \in Ids : i = req[r].id
        BY <1>1, <1>5, TypeFacts DEF WriteRaw, RequestShape
    <2>2. PICK c \in Written(raw[i], req[r].upload) : raw' = [raw EXCEPT ![i] = c]
        BY <1>5, <2>1 DEF WriteRaw
    <2>3. req[r].upload \in Uploads
        BY <1>1, <1>5, TypeFacts DEF WriteRaw, RequestShape
    <2>4. raw[i] = Null <=> c = Null
        BY <2>2, <2>3 DEF Written, Payloads
    <2>5. \A k \in Ids : raw'[k] = Null <=> raw[k] = Null
        BY <1>1, <2>2, <2>4, TypeFacts
    <2>6. UNCHANGED <<report, job, decoded>>
        BY <1>5 DEF WriteRaw, tables
    <2> QED
        BY <2>5, <2>6, NoneFinished, LifeRests DEF Lives, Stutters
<1>6. ASSUME NEW r \in Requests, InsertReport(r) PROVE Lives
    <2>1. PICK i \in Ids :
              /\ i = req[r].id /\ report[i].state = "absent"
              /\ report'[i].state = "received"
              /\ \A k \in Ids \ {i} : report'[k] = report[k]
              /\ req[r].pc = "insert"
              /\ UNCHANGED <<job, raw, decoded>>
        BY <1>1, <1>6, TypeFacts DEF InsertReport, RequestShape, NoReport, spool
    <2>2. \A k \in Ids : Finished(k)' <=> Finished(k)
        BY <2>1, NoneFinished
    <2>3. ~Finished(i)
        BY <2>1, LifeFacts DEF DecodedComplete
    <2>4. StageOf(i) = "unknown" /\ StageOf(i)' = "open"
        BY <1>1, <2>1, <2>2, <2>3, StageFacts, StageNext
    <2>5. TextOf(i)' = TextOf(i)
        BY <2>1 DEF TextOf
    <2>6. i \in kept
        BY <2>1 DEF SpoolInv, RawBeforeRow, kept
    <2>7. /\ stages' = [stages EXCEPT ![i] = "open"]
          /\ kept' = kept
        BY <2>1, <2>2, <2>4, OthersLive DEF kept
    <2>8. texts' = texts
        <3>1. \A k \in Ids : TextOf(k)' = TextOf(k)
            BY <2>1, <2>5 DEF TextOf
        <3> QED
            BY <3>1 DEF texts
    <2>9. stages[i] = "unknown"
        BY <2>4 DEF stages
    <2>10. Life!Receive(i)
        BY <2>6, <2>7, <2>8, <2>9 DEF Life!Receive, stages, kept, texts
    <2> QED
        BY <2>10, LifeMoves
<1>7. ASSUME NEW r \in Requests, InsertJob(r) PROVE Lives
    <2>1. PICK j \in JobIds :
              job[j].state = "absent" /\ job' = [job EXCEPT ![j] = NewJob(req[r].id)]
        BY <1>7 DEF InsertJob, NewJob
    <2>2. /\ job'[j].state = "pending"
          /\ \A k \in JobIds \ {j} : job'[k] = job[k]
        <3>1. req[r].id \in Ids
            BY <1>1, <1>7, TypeFacts DEF InsertJob, RequestShape
        <3> QED
            BY <1>1, <2>1, <3>1, TypeFacts, NewJobType
    <2>3. UNCHANGED <<report, raw, decoded>>
        BY <1>7 DEF InsertJob, spool
    <2> QED
        BY <2>1, <2>2, <2>3, NoneFinished, LifeRests DEF Lives, Stutters
<1> QED
    BY <1>2, <1>3, <1>4, <1>5, <1>6, <1>7 DEF IngestNext, RequestStep

\* An attempt that has the job j of report i, and the payload.
LEMMA LifeAttempt ==
    ASSUME SpoolInv, SpoolInv', NEW w \in Workers,
           OpenDecoded(w) \/ WriteDecoded(w) \/ UpdateReport(w)
    PROVE  Lives
<1>1. TypeInv /\ TypeInv'
    BY DEF SpoolInv, ClaimInv
<1>2. worker[w].pc \in {"write", "writing", "update"}
    BY DEF OpenDecoded, WriteDecoded, UpdateReport, At
<1>3. PICK i \in Ids :
          /\ i = Report(w) /\ report[i].state \notin {"absent", "failed"}
          /\ raw[i] # Null
    BY <1>2, BusyFacts DEF SpoolInv, RawWhileOpen
<1>4. /\ raw' = raw /\ job' = job
      /\ \A k \in Ids \ {i} : report'[k] = report[k] /\ decoded'[k] = decoded[k]
      /\ report'[i].state \notin {"absent", "failed"}
    <2>1. CASE OpenDecoded(w) \/ WriteDecoded(w)
        BY <1>1, <1>3, <2>1, TypeFacts DEF OpenDecoded, WriteDecoded, tables
    <2>2. CASE UpdateReport(w)
        BY <1>1, <1>3, <2>2, TypeFacts DEF UpdateReport, ReportRow, spool
    <2> QED
        BY <2>1, <2>2
<1>5. \A k \in Ids : Finished(k)' <=> Finished(k)
    BY <1>4, NoneFinished
<1>6. ~Finished(i)
    <2>1. PICK j \in JobIds : j = worker[w].job /\ job[j].report = i
        BY <1>2, <1>3, BusyFacts DEF Report
    <2>2. job[j].state = "running"
        BY <1>2, <2>1 DEF SpoolInv, ClaimInv, ClaimExclusive, At
    <2>3. \A k \in JobIds : job[k].report = i => k = j
        BY <2>1 DEF SpoolInv, IngestInv, OneJobPerReport
    <2> QED
        BY <2>2, <2>3 DEF Finished
<1>7. StageOf(i) = "open" /\ StageOf(i)' = "open"
    BY <1>1, <1>3, <1>4, <1>5, <1>6, StageFacts, StageNext
<1>8. TextOf(i)' \in Payloads \cup {Null}
    <2>1. decoded'[i] \in Payloads \cup {Null}
        BY <1>1 DEF TypeInv, TypeOK, StoreTypeOK
    <2> QED
        BY <2>1 DEF TextOf
<1>9. stages' = stages /\ kept' = kept
      /\ texts' = [texts EXCEPT ![i] = TextOf(i)']
    <2>1. /\ stages' = [stages EXCEPT ![i] = "open"]
          /\ texts' = [texts EXCEPT ![i] = TextOf(i)']
        BY <1>4, <1>5, <1>7, OthersLive
    <2>2. [stages EXCEPT ![i] = "open"] = stages
        BY <1>7 DEF stages
    <2> QED
        BY <1>4, <2>1, <2>2 DEF kept
<1>10. Life!Attempt(i)
    BY <1>3, <1>7, <1>8, <1>9 DEF Life!Attempt, stages, kept, texts
<1> QED
    BY <1>10, LifeMoves

\* The payload goes: the decoder's at the end, the retention task's.
LEMMA LifeDiscard ==
    ASSUME SpoolInv, SpoolInv', NEW i \in Ids,
           UNCHANGED <<report, decoded, job>>,
           \A k \in Ids \ {i} : raw'[k] = raw[k],
           \/ raw'[i] = raw[i]
           \/ raw'[i] = Null /\ StageOf(i) = "open" /\ DecodedComplete(i)
           \/ raw'[i] = Null /\ StageOf(i) = "expired"
    PROVE  Lives
<1>1. \A k \in Ids : Finished(k)' <=> Finished(k)
    BY NoneFinished
<1>2. stages' = stages /\ texts' = texts
    BY <1>1 DEF stages, texts, StageOf, TextOf
<1>3. CASE raw'[i] = raw[i]
    BY <1>2, <1>3 DEF Lives, Stutters, kept
<1>4. CASE raw'[i] # raw[i]
    <2>1. kept' = kept \ {i}
        BY <1>1, <1>4, OthersLive
    <2>2. \/ stages[i] = "open" /\ texts[i] # Null
          \/ stages[i] = "expired"
        BY <1>4, LifeFacts DEF stages, texts
    <2>3. Life!Discard(i)
        BY <1>2, <2>1, <2>2 DEF Life!Discard, stages, kept, texts
    <2> QED
        BY <2>3, LifeMoves
<1> QED
    BY <1>3, <1>4

\* The steps that a decoder takes without a file or a row, and how it ends.
LEMMA LifeDecoder ==
    ASSUME SpoolInv, SpoolInv', NEW w \in Workers, WorkerStep(w) \/ StepError(w)
    PROVE  Lives
<1>1. TypeInv /\ TypeInv'
    BY DEF SpoolInv, ClaimInv
<1>2. CASE ReadRaw(w) \/ ReadRawFails(w) \/ UpsertGroup(w) \/ StepError(w)
    <2>1. UNCHANGED <<report, job, raw, decoded>>
        BY <1>2 DEF ReadRaw, ReadRawFails, UpsertGroup, StepError, tables, spool
    <2> QED
        BY <2>1, NoneFinished, LifeRests DEF Lives, Stutters
<1>3. CASE Claim(w)
    <2>1. PICK j \in JobIds :
              job[j].state = "pending" /\ job' = [job EXCEPT ![j] = Running(@)]
        BY <1>3 DEF Claim, Claimable
    <2>2. /\ job'[j].state = "running"
          /\ \A k \in JobIds \ {j} : job'[k] = job[k]
        BY <1>1, <2>1, RunningType, TypeFacts
    <2>3. UNCHANGED <<report, raw, decoded>>
        BY <1>3 DEF Claim, spool
    <2> QED
        BY <2>1, <2>2, <2>3, NoneFinished, LifeRests DEF Lives, Stutters
<1>4. ASSUME ~Claim(w), worker[w].pc # "idle"
      PROVE  \E j \in JobIds, i \in Ids :
                 /\ j = worker[w].job /\ i = Report(w) /\ job[j].report = i
                 /\ report[i].state \notin {"absent", "failed"}
                 /\ \A k \in JobIds : job[k].report = i => k = j
    BY <1>4, BusyFacts DEF Report, SpoolInv, IngestInv, OneJobPerReport
<1>5. CASE RemoveRaw(w)
    <2>1. PICK j \in JobIds, i \in Ids :
              /\ j = worker[w].job /\ i = Report(w) /\ job[j].report = i
              /\ report[i].state \notin {"absent", "failed"}
              /\ \A k \in JobIds : job[k].report = i => k = j
        BY <1>4, <1>5 DEF RemoveRaw, Claim, At
    <2>2. job[j].state = "running" /\ DecodedComplete(i)
        BY <1>5, <2>1
        DEF RemoveRaw, At, SpoolInv, WorkerProgressKnown, ClaimInv, ClaimExclusive
    <2>3. StageOf(i) = "open"
        BY <1>1, <2>1, <2>2, StageFacts DEF Finished
    <2>4. /\ UNCHANGED <<report, decoded, job>>
          /\ raw'[i] = Null /\ \A k \in Ids \ {i} : raw'[k] = raw[k]
        BY <1>1, <1>5, <2>1, TypeFacts DEF RemoveRaw, tables
    <2> QED
        BY <2>2, <2>3, <2>4, LifeDiscard
<1>6. CASE FinishRetry(w) \/ FinishFailed(w)
    <2>1. PICK j \in JobIds, i \in Ids : j = worker[w].job /\ i = Report(w)
        BY <1>4, <1>6 DEF FinishRetry, FinishFailed, Claim, At
    <2>2. job[j].state = "running"
        BY <1>6, <2>1
        DEF FinishRetry, FinishFailed, At, SpoolInv, ClaimInv, ClaimExclusive
    <2>3. /\ job'[j].state # "done"
          /\ \A k \in JobIds \ {j} : job'[k] = job[k]
        BY <1>1, <1>6, <2>1, <2>2, TypeFacts
        DEF FinishRetry, FinishFailed, SetJobState, JobRow
    <2>4. UNCHANGED <<report, raw, decoded>>
        BY <1>6 DEF FinishRetry, FinishFailed, spool
    <2> QED
        BY <2>2, <2>3, <2>4, NoneFinished, LifeRests DEF Lives, Stutters
<1>7. CASE FinishOk(w)
    <2>1. PICK j \in JobIds, i \in Ids :
              /\ j = worker[w].job /\ i = Report(w) /\ job[j].report = i
              /\ report[i].state \notin {"absent", "failed"}
              /\ \A k \in JobIds : job[k].report = i => k = j
        BY <1>4, <1>7 DEF FinishOk, Claim, At
    <2>2. job[j].state = "running" /\ DecodedComplete(i)
        BY <1>7, <2>1
        DEF FinishOk, At, SpoolInv, WorkerProgressKnown, ClaimInv, ClaimExclusive
    <2>3. UNCHANGED <<report, raw, decoded>>
        BY <1>7 DEF FinishOk, spool
    <2>4. CASE job' = job
        BY <2>3, <2>4, NoneFinished, LifeRests DEF Lives, Stutters
    <2>5. CASE job' = [job EXCEPT ![j].state = "done"]
        <3>1. /\ job'[j].state = "done" /\ job'[j].report = i
              /\ \A k \in JobIds \ {j} : job'[k] = job[k]
            BY <1>1, <2>1, <2>5, TypeFacts DEF JobRow
        <3>2. Finished(i)' /\ ~Finished(i)
            BY <2>1, <2>2, <3>1 DEF Finished
        <3>3. \A k \in Ids \ {i} : Finished(k)' <=> Finished(k)
            BY <2>1, <3>1 DEF Finished
        <3>4. StageOf(i) = "open" /\ StageOf(i)' = "closed"
            BY <1>1, <2>1, <2>3, <3>2, StageFacts, StageNext
        <3>5. stages' = [stages EXCEPT ![i] = "closed"]
            BY <2>3, <3>3, <3>4, OthersLive
        <3>6. kept' = kept /\ texts' = texts
            BY <2>3 DEF kept, texts, TextOf
        <3>7. stages[i] = "open" /\ texts[i] # Null
            BY <2>2, <3>4, LifeFacts DEF stages, texts
        <3>8. Life!Close(i)
            BY <3>5, <3>6, <3>7 DEF Life!Close, stages, kept, texts
        <3> QED
            BY <3>8, LifeMoves
    <2> QED
        BY <1>7, <2>1, <2>4, <2>5 DEF FinishOk, SetJobState
<1>8. CASE MarkFailed(w)
    <2>1. PICK j \in JobIds, i \in Ids :
              /\ j = worker[w].job /\ i = Report(w) /\ job[j].report = i
              /\ report[i].state \notin {"absent", "failed"}
              /\ \A k \in JobIds : job[k].report = i => k = j
        BY <1>4, <1>8 DEF MarkFailed, Claim, At
    <2>2. job[j].state \in {"running", "failed"} /\ raw[i] # Null
        BY <1>8, <2>1
        DEF MarkFailed, At, SpoolInv, RawWhileOpen, ClaimInv, ClaimExclusive
    <2>3. UNCHANGED <<job, raw, decoded>>
        BY <1>8 DEF MarkFailed, spool
    <2>4. CASE report' = report
        BY <2>3, <2>4, NoneFinished, LifeRests DEF Lives, Stutters
    <2>5. CASE report' = [report EXCEPT ![i].state = "failed"]
        <3>1. /\ report'[i].state = "failed"
              /\ \A k \in Ids \ {i} : report'[k] = report[k]
            BY <1>1, <2>5, TypeFacts DEF ReportRow
        <3>2. \A k \in Ids : Finished(k)' <=> Finished(k)
            BY <2>3, NoneFinished
        <3>3. ~Finished(i)
            BY <2>1, <2>2 DEF Finished
        <3>4. StageOf(i) = "open" /\ StageOf(i)' \in {"failed", "expired"}
            BY <1>1, <2>1, <3>1, <3>2, <3>3, StageFacts, StageNext
        <3>5. TextOf(i)' = Null
            BY <3>1 DEF TextOf
        <3>6. /\ stages' = [stages EXCEPT ![i] = StageOf(i)']
              /\ texts' = [texts EXCEPT ![i] = Null]
            BY <2>3, <3>1, <3>2, <3>5, OthersLive
        <3>7. kept' = kept /\ i \in kept /\ stages[i] = "open"
            BY <2>2, <2>3, <3>4 DEF kept, stages
        <3>8. Life!Fail(i)
            BY <3>4, <3>6, <3>7 DEF Life!Fail, stages, kept, texts
        <3> QED
            BY <3>8, LifeMoves
    <2> QED
        BY <1>8, <2>1, <2>4, <2>5 DEF MarkFailed
<1> QED
    BY <1>2, <1>3, <1>5, <1>6, <1>7, <1>8, LifeAttempt DEF WorkerStep

LEMMA LifeRetention ==
    ASSUME SpoolInv, SpoolInv', RetentionNext, UNCHANGED <<ingestVars, worker>>
    PROVE  Lives
<1>1. TypeInv /\ TypeInv'
    BY DEF SpoolInv, ClaimInv
<1>2. ASSUME NEW p \in Collectors, GcSelect(p) \/ GcMark(p) PROVE Lives
    <2>1. UNCHANGED <<job, raw, decoded>>
        BY <1>2 DEF GcSelect, GcMark, tables, spool
    <2>2. \A k \in Ids : /\ report'[k].state = report[k].state
                         /\ report'[k].group = report[k].group
                         /\ report'[k].aged = report[k].aged
        <3>1. CASE report' = report
            BY <3>1
        <3>2. CASE GcSelect(p)
            BY <3>1, <3>2 DEF GcSelect, tables
        <3>3. CASE report' = [report EXCEPT ![gc[p].removed].rawDeleted = TRUE]
            BY <1>1, <3>3, TypeFacts DEF ReportRow
        <3> QED
            BY <1>2, <3>1, <3>2, <3>3 DEF GcMark
    <2> QED
        BY <2>1, <2>2, NoneFinished, LifeRests DEF Lives, Stutters
<1>3. ASSUME NEW p \in Collectors, GcRemove(p) PROVE Lives
    <2>1. PICK i \in gc[p].todo :
              raw' = [raw EXCEPT ![i] = Null] \/ raw' = raw
        BY <1>3 DEF GcRemove
    <2>2. i \in Ids /\ UNCHANGED <<report, decoded, job>>
        BY <1>1, <1>3, TypeFacts DEF GcRemove, tables
    <2>3. report[i].state = "failed" /\ report[i].aged
        BY DEF SpoolInv, SelectionStands
    <2>4. StageOf(i) = "expired"
        BY <1>1, <2>2, <2>3, LifeFacts, StageFacts
    <2>5. /\ \A k \in Ids \ {i} : raw'[k] = raw[k]
          /\ raw'[i] = Null \/ raw'[i] = raw[i]
        BY <1>1, <2>1, <2>2, TypeFacts
    <2> QED
        BY <2>2, <2>4, <2>5, LifeDiscard
<1>4. ASSUME NEW i \in Ids, Age(i) PROVE Lives
    <2>1. /\ report[i].state # "absent" /\ UNCHANGED <<job, raw, decoded>>
          /\ \A k \in Ids \ {i} : report'[k] = report[k]
          /\ report'[i].state = report[i].state /\ report'[i].group = report[i].group
          /\ report'[i].aged
        BY <1>1, <1>4, TypeFacts DEF Age, ReportRow, spool
    <2>2. \A k \in Ids : Finished(k)' <=> Finished(k)
        BY <2>1, NoneFinished
    <2>3. kept' = kept /\ texts' = texts
        <3>1. \A k \in Ids : TextOf(k)' = TextOf(k)
            BY <2>1 DEF TextOf
        <3> QED
            BY <2>1, <3>1 DEF kept, texts
    <2>4. stages' = [stages EXCEPT ![i] = StageOf(i)']
        BY <2>1, <2>2, OthersLive
    <2>5. CASE report[i].state = "failed" /\ ~report[i].aged
        <3>1. StageOf(i) = "failed" /\ StageOf(i)' = "expired"
            BY <1>1, <2>1, <2>2, <2>5, LifeFacts, StageFacts, StageNext
        <3>2. stages[i] = "failed"
            BY <3>1 DEF stages
        <3>3. Life!Expire(i)
            BY <2>3, <2>4, <3>1, <3>2 DEF Life!Expire, stages, kept, texts
        <3> QED
            BY <3>3, LifeMoves
    <2>6. CASE report[i].state # "failed" \/ report[i].aged
        <3>1. StageOf(i)' = StageOf(i)
            BY <1>1, <2>1, <2>2, <2>6, StageFacts, StageNext
        <3>2. stages' = stages
            BY <2>4, <3>1 DEF stages
        <3> QED
            BY <2>3, <3>2 DEF Lives, Stutters
    <2> QED
        BY <2>5, <2>6
<1> QED
    BY <1>2, <1>3, <1>4 DEF RetentionNext, GcStep

LEMMA LifeProceeds ==
    ASSUME SpoolInv, [Next]_pipelineVars
    PROVE  Lives
<1>1. SpoolInv'
    BY SpoolStep
<1>2. ASSUME NEW w \in Workers, Crash(w) PROVE Lives
    <2>1. UNCHANGED <<report, job, raw, decoded>>
        BY <1>2 DEF Crash, tables, spool
    <2> QED
        BY <2>1, NoneFinished, LifeRests DEF Lives, Stutters
<1>3. ASSUME UNCHANGED pipelineVars PROVE Lives
    <2>1. UNCHANGED <<report, job, raw, decoded>>
        BY <1>3 DEF pipelineVars, tables, spool
    <2> QED
        BY <2>1, NoneFinished, LifeRests DEF Lives, Stutters
<1> QED
    BY <1>1, <1>2, <1>3, LifeRequest, LifeDecoder, LifeRetention
    DEF Next, DecoderNext

LEMMA LifeStepped ==
    ASSUME SpoolInv, [Next]_pipelineVars
    PROVE  [Life!LifeNext]_(Life!lifeVars)
BY LifeProceeds DEF Lives, Stutters, Life!lifeVars, stages, kept, texts

\* The pipeline implements the life of a report, for any number of clients,
\* decoders, jobs and attempts and with every failure: in particular a report
\* whose job is done keeps its text for ever, and one that failed stays failed.
THEOREM LifeImplemented == Spec => ImplementsLife
BY LifeStarts, LifeStepped, SpoolAlways, PTL DEF Spec, ImplementsLife, Life!LifeSpec
-----------------------------------------------------------------------------
\* A closed report stays closed in the life, so its row and file stay as they are.
LEMMA LifeOver ==
    ASSUME Lives, NEW i \in Ids, stages[i] = "closed"
    PROVE  stages'[i] = "closed" /\ texts'[i] = texts[i]
<1>1. CASE Stutters
    BY <1>1 DEF Stutters
<1>2. CASE Life!LifeNext
    <2>1. PICK k \in Ids :
              \/ Life!Upload(k) \/ Life!Receive(k) \/ Life!Attempt(k)
              \/ Life!Discard(k) \/ Life!Close(k) \/ Life!Fail(k) \/ Life!Expire(k)
        BY <1>2 DEF Life!LifeNext
    <2>2. DOMAIN stages = Ids /\ DOMAIN texts = Ids
        BY DEF stages, texts
    <2>3. CASE Life!Upload(k) \/ Life!Discard(k)
        BY <2>3 DEF Life!Upload, Life!Discard, stages, texts
    <2>4. CASE Life!Receive(k) \/ Life!Close(k) \/ Life!Expire(k)
        BY <2>4 DEF Life!Receive, Life!Close, Life!Expire, stages, texts
    <2>5. CASE Life!Attempt(k) \/ Life!Fail(k)
        BY <2>5 DEF Life!Attempt, Life!Fail, stages, texts
    <2> QED
        BY <2>1, <2>3, <2>4, <2>5
<1> QED
    BY <1>1, <1>2 DEF Lives

LEMMA DoneStays ==
    ASSUME SpoolInv, [Next]_pipelineVars, NEW i \in Ids, Finished(i)
    PROVE  Finished(i)' /\ report'[i].group = report[i].group
<1>1. SpoolInv' /\ TypeInv /\ TypeInv'
    BY SpoolStep DEF SpoolInv, ClaimInv
<1>2. DecodedComplete(i)
    BY LifeFacts
<1>3. stages[i] = "closed" /\ texts[i] = report[i].group /\ texts[i] # Null
    BY <1>1, <1>2, LifeFacts, StageFacts DEF DecodedComplete, TextOf, stages, texts
<1>4. stages'[i] = "closed" /\ texts'[i] = texts[i]
    BY <1>3, LifeProceeds, LifeOver
<1>5. StageOf(i)' = "closed" /\ TextOf(i)' = texts[i]
    BY <1>4 DEF stages, texts
<1>6. report'[i].state = "decoded" /\ report'[i].group = texts[i]
    BY <1>3, <1>5 DEF TextOf
<1>7. Finished(i)'
    BY <1>1, <1>5, <1>6, StageNext
<1> QED
    BY <1>3, <1>6, <1>7

\* DoneIsShown speaks of the last read; before it, what the first statement
\* settled is still so, and the next read looks there.
PageInv ==
    /\ \A i \in page.settled : i \in Ids /\ Finished(i) /\ report[i].group = page.group
    /\ page.pc = "row" => \E i \in Ids : page.found = {i} /\ page.settled \subseteq {i}
    /\ DoneIsShown

LEMMA PageStepped ==
    ASSUME SpoolInv, PageInv, [PagesNext]_pagesVars
    PROVE  PageInv'
<1>1. CASE Next /\ UNCHANGED page
    BY <1>1, DoneStays DEF PageInv, DoneIsShown
<1>2. CASE UNCHANGED pagesVars
    <2>1. [Next]_pipelineVars /\ UNCHANGED page
        BY <1>2 DEF pagesVars
    <2> QED
        BY <2>1, DoneStays DEF PageInv, DoneIsShown
<1>3. ASSUME UNCHANGED pipelineVars
      PROVE  UNCHANGED <<report, decoded, groups>> /\ \A i \in Ids : Finished(i)' <=> Finished(i)
    BY <1>3 DEF pipelineVars, tables, spool, Finished
<1>4. ASSUME NEW i \in Ids, SelectReport(i), UNCHANGED pipelineVars PROVE PageInv'
    BY <1>3, <1>4 DEF SelectReport, PageInv, DoneIsShown
<1>5. ASSUME NEW g \in Payloads, CountGroup(g), UNCHANGED pipelineVars PROVE PageInv'
    BY <1>3, <1>5 DEF CountGroup, NoPage, InGroup, PageInv, DoneIsShown
<1>6. CASE ReadText /\ UNCHANGED pipelineVars
    <2>1. PICK i \in Ids : page.found = {i} /\ page.settled \subseteq {i}
        BY <1>6 DEF ReadText, PageInv
    <2>2. page.settled # {} => Finished(i) /\ report[i].group = page.group
        BY <2>1 DEF PageInv
    <2>3. page.settled # {} => decoded[i] = page.group /\ page.group # Null
        BY <2>2, LifeFacts DEF DecodedComplete, TextOf
    <2>4. page'.pc = "text" /\ page'.settled = page.settled /\ page'.group = page.group
        BY <1>6 DEF ReadText
    <2> QED
        BY <1>3, <1>6, <2>1, <2>3, <2>4 DEF ReadText, PageInv, DoneIsShown
<1>7. CASE ListGroup /\ UNCHANGED pipelineVars
    BY <1>3, <1>7 DEF ListGroup, InGroup, PageInv, DoneIsShown
<1>8. CASE SendPage /\ UNCHANGED pipelineVars
    BY <1>3, <1>8 DEF SendPage, NoPage, PageInv, DoneIsShown
<1> QED
    BY <1>1, <1>2, <1>4, <1>5, <1>6, <1>7, <1>8 DEF PagesNext, PageStep

\* A page made of several reads shows whole what was done when it began, for any
\* number of clients and decoders and with every failure in between.
THEOREM PagesShowDone == PagesSpec => []DoneIsShown
<1>1. PagesInit => SpoolInv /\ PageInv
    BY SpoolInitially DEF PagesInit, NoPage, PageInv, DoneIsShown
<1>2. SpoolInv /\ PageInv /\ [PagesNext]_pagesVars => SpoolInv' /\ PageInv'
    <2>1. [PagesNext]_pagesVars => [Next]_pipelineVars
        BY DEF PagesNext, pagesVars
    <2> QED
        BY <2>1, SpoolStep, PageStepped
<1>3. PageInv => DoneIsShown
    BY DEF PageInv
<1> QED
    BY <1>1, <1>2, <1>3, PTL DEF PagesSpec
=============================================================================
