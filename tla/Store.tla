------------------------------- MODULE Store -------------------------------
(***************************************************************************)
(* What the server and the decoder share: the SQLite tables of             *)
(* migrations/0001_init.sql that the report pipeline reads and writes, and *)
(* the spool directories data/raw and data/decoded.  Both programs change  *)
(* them through single SQL statements and single file system calls, and    *)
(* no transaction spans two of them: every one is an atomic step here.     *)
(***************************************************************************)
EXTENDS Naturals, FiniteSets

CONSTANTS
    Devices,        \* signing keys, each of them one row of table device
    Uuids,          \* report uuids a client may put into its metadata
    FreshIds,       \* ids new_id() may still hand out (a bound)
    JobIds,         \* random job ids: naturals, for ORDER BY id (a bound)
    MaxAttempts,    \* decode.rs MAX_ATTEMPTS
    Undecodable,    \* the uploads payload::decode rejects
    Faults,         \* the kinds of failure that may happen
    Null,           \* SQL NULL, a missing file, no device, no job
    Torn            \* the content of a payload file that is not complete

(***************************************************************************)
(* "abort"  a request dies between two statements: the client hangs up and *)
(*          axum drops the handler, a statement fails, the server stops    *)
(* "crash"  a decoder process stops between two steps                      *)
(* "error"  a step of decode_report returns Err                            *)
(* "lost"   a statement whose error is ignored (let _ = ...) has no effect *)
(***************************************************************************)
FaultKinds == {"abort", "crash", "error", "lost"}

Submitters == Devices \cup {Null}

\* An upload stands for its payload, the decoded text and the signature.
Uploads  == [dev : Submitters, uuid : Uuids]
Payloads == Uploads \cup {Torn}
Ids      == Uuids \cup FreshIds

ASSUME NullAssumption ==
    /\ Null \notin Devices /\ Null \notin Ids /\ Null \notin Payloads
    /\ Null \notin JobIds
ASSUME TornAssumption == Torn \notin Uploads
ASSUME IdsAssumption == Uuids \cap FreshIds = {}
ASSUME JobIdsAssumption == JobIds \subseteq Nat /\ IsFiniteSet(JobIds)
ASSUME MaxAttemptsAssumption == MaxAttempts \in Nat \ {0}
ASSUME UndecodableAssumption == Undecodable \subseteq Uploads
ASSUME FaultsAssumption == Faults \subseteq FaultKinds

VARIABLES
    device,         \* rows of table device
    report,         \* table report
    raw,            \* data/raw/<id>
    decoded,        \* data/decoded/<id>: its text, once it is complete
    groups,         \* rows of table crash_group, by signature
    job             \* table decode_job

tables == <<device, report, groups, job>>
spool  == <<raw, decoded>>

ReportRow ==
    [state : {"absent", "received", "decoded", "failed"},
     upload : Uploads \cup {Null},    \* device_id, and what was sent
     group : Payloads \cup {Null},    \* group_id
     rawDeleted : BOOLEAN,            \* raw_deleted_at IS NOT NULL
     aged : BOOLEAN]                  \* received_at is past the retention

JobRow ==
    [state : {"absent", "pending", "running", "done", "failed"},
     report : Ids \cup {Null},
     attempts : Nat,
     rowid : Nat]                     \* SQLite's own, in order of insertion

NoReport == [state |-> "absent", upload |-> Null, group |-> Null,
             rawDeleted |-> FALSE, aged |-> FALSE]
NoJob    == [state |-> "absent", report |-> Null, attempts |-> 0,
             rowid |-> 0]

StoreInit ==
    /\ device = {}
    /\ report = [i \in Ids |-> NoReport]
    /\ raw = [i \in Ids |-> Null]
    /\ decoded = [i \in Ids |-> Null]
    /\ groups = {}
    /\ job = [j \in JobIds |-> NoJob]

StoreTypeOK ==
    /\ device \subseteq Devices
    /\ report \in [Ids -> ReportRow]
    /\ raw \in [Ids -> Payloads \cup {Null}]
    /\ decoded \in [Ids -> Payloads \cup {Null}]
    /\ groups \subseteq Payloads
    /\ job \in [JobIds -> JobRow]

PendingJobs == {j \in JobIds : job[j].state = "pending"}
=============================================================================
