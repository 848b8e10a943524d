------------------------------- MODULE Ingest -------------------------------
(***************************************************************************)
(* POST /api/v1/reports (ucrs-server, api.rs post_report).  Any number of  *)
(* requests run concurrently; every await between two statements is a      *)
(* place where the others proceed, and where the request may end.          *)
(***************************************************************************)
EXTENDS Store

CONSTANT Requests           \* requests in flight at one time (a bound)

VARIABLES
    req,                    \* the local state of each request
    acked                   \* history: the 200 responses, as <<upload, id>>

ingestVars == <<req, acked>>

NoRequest == [pc |-> "idle", upload |-> Null, id |-> Null]

RequestState ==
    [pc : {"idle", "lookup", "write", "writing", "insert", "enqueue"},
     upload : Uploads \cup {Null},
     id : Ids \cup {Null}]

IngestInit ==
    /\ req = [r \in Requests |-> NoRequest]
    /\ acked = {}

IngestTypeOK ==
    /\ req \in [Requests -> RequestState]
    /\ acked \subseteq Uploads \X Ids

Goto(r, pc) == req' = [req EXCEPT ![r].pc = pc]
Stop(r)     == req' = [req EXCEPT ![r] = NoRequest]

\* The trust-on-first-use upsert; an unsigned upload has no device.
Register(d) == device' = device \cup ({d} \ {Null})

\* authenticate_device, then everything that is checked without a statement.
Authenticate(r, up) ==
    /\ req[r].pc = "idle"
    /\ Register(up.dev)
    /\ req' = [req EXCEPT ![r] = [pc |-> "lookup", upload |-> up,
                                  id |-> up.uuid]]
    /\ UNCHANGED <<report, raw, decoded, groups, job, acked>>

\* A malformed upload is refused after its key has been registered.
RejectUpload(d) ==
    /\ Register(d)
    /\ UNCHANGED <<report, raw, decoded, groups, job, ingestVars>>

\* Mutations: any row of that id is taken for this device's; none is.
SameOwnerAnyone(row, up) == row.upload # Null
SameOwnerNever(row, up) == FALSE
\* "idempotent re-upload by the same device"
SameOwner(row, up) ==
    row.upload # Null /\ up.dev # Null /\ row.upload.dev = up.dev

\* A row of this id exists, and it is this device's: answer with its id.
LookupAck(r) ==
    /\ req[r].pc = "lookup"
    /\ SameOwner(report[req[r].id], req[r].upload)
    /\ acked' = acked \cup {<<req[r].upload, req[r].id>>}
    /\ Stop(r)
    /\ UNCHANGED <<tables, spool>>

\* Ids that no row, file or running request has: what a random uuid is.
UnusedFreshIds ==
    {i \in FreshIds : /\ report[i].state = "absent"
                      /\ raw[i] = Null
                      /\ \A q \in Requests : req[q].id # i}

\* The row is another's or anonymous: "assign a fresh id".
LookupCollision(r) ==
    /\ req[r].pc = "lookup"
    /\ report[req[r].id].state # "absent"
    /\ ~SameOwner(report[req[r].id], req[r].upload)
    /\ \E i \in UnusedFreshIds :
          req' = [req EXCEPT ![r].pc = "write", ![r].id = i]
    /\ UNCHANGED <<tables, spool, acked>>

LookupNew(r) ==
    /\ req[r].pc = "lookup"
    /\ report[req[r].id].state = "absent"
    /\ Goto(r, "write")
    /\ UNCHANGED <<tables, spool, acked>>

\* tokio::fs::write creates or truncates the file ...
OpenRaw(r) ==
    /\ req[r].pc = "write"
    /\ raw' = [raw EXCEPT ![req[r].id] = Torn]
    /\ Goto(r, "writing")
    /\ UNCHANGED <<tables, decoded, acked>>

\* ... and then fills it: nothing lands if the file was unlinked meanwhile,
\* and two different payloads written over each other may leave a mixture.
Written(content, up) ==
    CASE content = Null -> {Null}
      [] content \in {Torn, up} -> {up}
      [] OTHER -> {up, Torn}

WriteRaw(r) ==
    /\ req[r].pc = "writing"
    /\ \E c \in Written(raw[req[r].id], req[r].upload) :
          raw' = [raw EXCEPT ![req[r].id] = c]
    /\ Goto(r, "insert")
    /\ UNCHANGED <<tables, decoded, acked>>

InsertReport(r) ==
    /\ req[r].pc = "insert"
    /\ report[req[r].id].state = "absent"
    /\ report' = [report EXCEPT ![req[r].id] =
                     [NoReport EXCEPT !.state = "received",
                                      !.upload = req[r].upload]]
    /\ Goto(r, "enqueue")
    /\ UNCHANGED <<device, groups, job, spool, acked>>

\* Mutation: ON CONFLICT DO NOTHING, and on to the job.
InsertConflictIgnored(r) ==
    /\ req[r].pc = "insert"
    /\ report[req[r].id].state # "absent"
    /\ Goto(r, "enqueue")
    /\ UNCHANGED <<tables, spool, acked>>

\* The primary key is taken: the statement fails, the answer is a 500.
InsertConflict(r) ==
    /\ req[r].pc = "insert"
    /\ report[req[r].id].state # "absent"
    /\ Stop(r)
    /\ UNCHANGED <<tables, spool, acked>>

JobCount == Cardinality({j \in JobIds : job[j].state # "absent"})

\* The job id is a fresh random uuid: any unused one.
InsertJob(r) ==
    /\ req[r].pc = "enqueue"
    /\ \E j \in JobIds :
          /\ job[j].state = "absent"
          /\ job' = [job EXCEPT ![j] =
                        [NoJob EXCEPT !.state = "pending",
                                      !.report = req[r].id,
                                      !.rowid = JobCount + 1]]
    /\ acked' = acked \cup {<<req[r].upload, req[r].id>>}
    /\ Stop(r)
    /\ UNCHANGED <<device, report, groups, spool>>

\* The request ends where it stands.  A client that hangs up during the file
\* write does not stop it (spawn_blocking), which is an Abort after WriteRaw;
\* a full disk or a stop of the server does, and leaves the file torn.
Abort(r) ==
    /\ "abort" \in Faults
    /\ req[r].pc # "idle"
    /\ Stop(r)
    /\ UNCHANGED <<tables, spool, acked>>

RequestStep(r) ==
    \/ \E up \in Uploads : Authenticate(r, up)
    \/ LookupAck(r) \/ LookupCollision(r) \/ LookupNew(r)
    \/ OpenRaw(r) \/ WriteRaw(r)
    \/ InsertReport(r) \/ InsertConflict(r) \/ InsertJob(r)
    \/ Abort(r)

IngestNext ==
    \/ \E r \in Requests : RequestStep(r)
    \/ \E d \in Submitters : RejectUpload(d)
=============================================================================
