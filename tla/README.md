# A verification of ucrashreport-server

The repository is a crash report collector for routers: devices upload kernel
crash logs, a server spools them, a decoder turns them into grouped, annotated
texts, developers and owners look at them. Two programs share one SQLite
database and one data directory:

- `ucrs-server` (axum): uploads, device login, visibility, a dashboard, and a
  debuginfod endpoint; one process, many concurrent requests.
- `ucrs-decoder`: a loop that claims decode jobs, plus an hourly task of its
  own; usually one process, `--once` runs may be started beside it.

`ucrs-common` holds what both use (configuration, types, signatures of crashes,
usign, build-id lookup). Nothing but single SQL statements and single file
system calls keeps the actors apart: there are no transactions, no file locks,
and several results are ignored on purpose (`let _ = ...`). That is what the
modules in this directory are about.

## 1. Inventory

| component (source) | state | operations | what makes it correct |
|---|---|---|---|
| Report ingest (`api.rs` `post_report`) | rows `device`, `report`, `decode_job`; `data/raw/<id>` | register key, look the uuid up, write payload, insert report, insert job | an acknowledged upload is the row's upload, has one job, a repetition makes no second row |
| Decode queue (`decode_job`) | state, attempts | enqueue, claim, settle | one holder at a time, a bounded number of attempts, every job is settled in the end |
| Decoder worker (`decode.rs`, `main.rs`) | local state of the loop; `data/raw`, `data/decoded`, `crash_group`, `report` | claim, read, write text, upsert group, update report, unlink, settle | the crash is never lost, whatever step it stops at; job and report agree |
| Payload retention (`gc_failed_raw`) | ids selected | select, unlink, mark | only failed and expired payloads go |
| Symbol pool (`symbols.rs`) | trees of vmlinux and modules, `.build-id` links, `last_used` stamps | check, drop, download, verify, unpack, index, stamp, gc | symbols of another build are never used; what is unused goes |
| Symbolizer (`symbols.rs`) | the tree it opened | load, check, open, annotate | locations belong to the reported kernel |
| debuginfod endpoint (`api.rs`, `buildid.rs`) | link resolved | resolve, open, send | the file asked for is sent |
| Crash signature (`signature.rs`) | three local variables of `parse_oops` | parse, normalise, fold | the same crash, the same group |
| Device login (`api.rs`) | nonces in memory, tokens in the database | challenge, login, lookup | single use, expiry |
| Developer sessions (`auth.rs`) | `dev_user`, `dev_session` | adduser, login, logout, lookup | expiry |
| Server cleanup (`main.rs`) | the time of its tick | delete expired sessions, then tokens | takes all that expired and nothing that is valid |
| Visibility (`api.rs`, `web.rs`) | `visibility`, `publish_slug` | publish, unpublish, public page | a link leads to its own report or nowhere |
| Database schema (`migrations/`) | - | - | the columns that control flow depends on are in the modules |
| Admission of a request (`api.rs`, `usign.rs`, `types.rs`), decompression (`payload.rs`) | local variables of one request or job | verify, take fields, check; read to a cap | exactly what conforms is taken; the whole text or none |
| Pages (`web.rs`, `api.rs`) | what a page has read so far | select a row, read its file; count, list | what was done when a page began is shown whole |
| Scrubbing, aggregation of the dashboard, configuration | none of their own | - | pure, or one read-only statement: not modelled (section 8) |

How they interact. Ingest, worker and retention meet in the tables and in the
spool (module `Store`), the queue is how ingest hands work to the worker. The
worker calls the symbol pool once per report; the pool's collector runs in the
same process, the debuginfod endpoint in the other one, and all three meet in
the files. The worker calls the signature functions with the annotated text.
Login, sessions and visibility share tokens. The hard behaviours are listed,
each at its line, under `hazards` in `PROJECT.json`: interleaved requests with
the same uuid; a request dropped between two statements (a client hangs up and
axum drops the handler); a decoder stopped between two steps; errors that are
ignored; the collector and a fetch in one tree; two builds under one version
string; a check and a use with an await or a second open between them; expiry
compared in opposite directions.

## 2. Modules

| module | models | composed of |
|---|---|---|
| `Store` | tables and spool, as constants, variables and row types | |
| `Ingest` | `post_report`, any number of requests | `Store` |
| `Decoder` | `claim_job`, `decode_report`, `process_job`, any number of decoders | `Store` |
| `Retention` | `gc_failed_raw`, the clock | `Store` |
| `Pipeline` | the three over one store, process crashes, fairness, properties | all of the above, `DecodeQueue`, `ReportLife` |
| `DecodeQueue` | the abstract job queue | |
| `ReportLife` | the abstract life of a report | |
| `Pages` | the pages of a report and of a group beside the pipeline | `Pipeline` |
| `PipelineClaims` | what documents say and the code does not do | `Pipeline` |
| `SymbolPool` | `ensure_kernel`, `Symbolizer`, `gc()` | |
| `Symbols` | the pool beside the debuginfod endpoint, properties | `SymbolPool` |
| `Signature` | `parse_oops`, `compute`, as operators over abstract lines | |
| `CrashText` | a text that grows line by line beside the parser, properties | `Signature` |
| `Admission` | signature check, fields and limits of an upload, decompression to a cap | |
| `DeviceLogin` | challenge, login, accounts, sessions, cleanup, restarts | |
| `Visibility` | `set_visibility` and its callers | `DeviceLogin` |
| `MC*` | instances for TLC | |
| `PromiseProofs` | theorems about the two abstractions | `DecodeQueue`, `ReportLife` |
| `PipelineTypeProofs`, `TableProofs`, `SpoolProofs` | theorems about the pipeline, each on top of the one before: types, the tables, the files | `Pipeline` |
| `LifeRefinementProofs` | the refinement of `ReportLife`, the pages | `SpoolProofs`, `Pages` |
| `SymbolProofs`, `InputProofs`, `AccessProofs` | theorems about the other modules | `Symbols`; `CrashText`, `Admission`; `Visibility` |

### State and actions against the code

**Pipeline.** A row is a record, a table a function from ids; a row that does
not exist is `absent`. One action is one SQL statement or one file system call:
`post_report` is `Authenticate` (upsert of the key, everything checked without a
statement), `LookupAck` / `LookupCollision` / `LookupNew` (the SELECT and its
three outcomes), `OpenRaw` and `WriteRaw` (`tokio::fs::write` truncates, then
fills), `InsertReport` / `InsertConflict`, `InsertJob` and the answer. An
`Upload` stands for its payload, its decoded text and its signature at once, so
that "this text" and "this group" can be compared. `Written` is what a file
holds after two writers: nothing if it was unlinked meanwhile, one payload, or a
mixture (`Torn`). `decode_report` is `ReadRaw` / `ReadRawFails`, `OpenDecoded`,
`WriteDecoded`, `UpsertGroup`, `UpdateReport` (state, group and
`raw_deleted_at` in one UPDATE), `RemoveRaw` (a missing file is an error), and
`process_job` adds `FinishOk`, `FinishRetry`, `FinishFailed`, `MarkFailed`.
Time is one flag per report, `aged`: its retention has passed.

Failures are switched on by the constant `Faults`: `abort` (a request ends where
it stands), `crash` (a decoder process stops, with its hourly task; it comes
back idle), `error` (a step of `decode_report` returns `Err`), `lost` (a
statement whose error is ignored has no effect).

**Pages.** A page changes nothing and is several reads: the row of a report and
then its file (`SelectReport`, `ReadText`), or the counts of a group and then its
lists (`CountGroup`, `ListGroup`), with every other step of both programs in
between. One page is enough, since pages do not disturb each other. What the
first statement found done is remembered in the history `settled`.

**Life of a report.** `ReportLife` knows a stage, a payload and a text per
report. The mapping (`StageOf`, `TextOf`) takes a report for `closed` once its job
is done, for `open` while an attempt may still come or is under way, for
`failed` and `expired` by its row and its age; a text counts when the row refers
to the group made of it, so the truncation of a second attempt is an `Attempt`
that takes the text away while the payload is there.

**Symbol pool.** A tree has two files, vmlinux and one module, a stamp, and a
build is the content of both. A fetch unpacks file by file (created empty, then
filled), a removal comes to each entry once and may give up (`lost`), a link of
the build-id index is removed and made anew in two steps. A file that is not
complete is named for the decoder that is filling it and stays so when the
decoder stops; it has no readable build-id. `Symbolizer::new` opens vmlinux
twice (`Load`, `Open`), modules are opened on demand (`Annotate`). What a report
was annotated from is collected in `used`. The source of tarballs is external:
`Publish` puts another build under the version of a snapshot. A kernel that
somebody built of a release's sources is a build of that tree that is reported
and never published (`SelfBuilt`).

**Signature.** A line is a record of what parser and fold tell apart: a marker
(with the place it names, if any), the head of a call trace, the end mark, a
frame with its function, offset, module and question mark. The letters of names
are not modelled: `normalize_symbol` and `normalize_exception` are what they
leave of a line. `Annotate` is what symbols do to a line. `AnyLine` is what a
line can be at all, before or after `Annotate`; a text is a sequence of `Lines`
out of it.

**Admission.** A body grows field by field beside the accumulators of
`parse_multipart`; a document, a blob, a key and a signature are records of what
is compared (a blob is its own SHA-256, a signature tells who made it and
whether the body is the one it was made for). `post_report` of this module is
everything up to the first statement on table `report`; `decode` gives the
length of the text the decoder reads, or an error.

**Access.** `nonces` is the map in the server's memory (gone on `Restart`),
`known` the rows of `device` and `dev_user`, `ticket` both token tables by
secret; random values are drawn from a finite set, each at most once. A login is
a check and an INSERT with any other step between them. The cleanup task reads
the time once and then runs two DELETEs, either of which may fail without
notice. `set_visibility` is a SELECT and an UPDATE with any other
request between them, then the answer.

## 3. Runs

| run | asks | bounds, and why they are enough |
|---|---|---|
| `races` | `TypeOK`, `NothingLost`, `JobAndReportAgree`, `RawDropJustified`, `DoneIsShown`, `ImplementsLife` | 1 uuid, 1 key and anonymous, 2 requests, 2 decoders, 1 job, 2 attempts, all failures, the collector in one decoder, 1 page. The races are about one report; two requests make every pair of steps of `post_report`, two decoders and two attempts (a retry and a last one) every pair of `process_job` |
| `uploads` | `OneJobPerReport`, `AckedIsStored`, `SignedUploadsDeduplicated` | 2 keys and anonymous, 1 uuid, 1 fresh id, 2 requests, 2 jobs: the collision branch needs a second owner and one fresh id |
| `queue` | `ClaimExclusive`, `AttemptBudget`, `PendingSettles`, `ImplementsQueue` | 2 jobs (one undecodable), 2 attempts, 2 decoders, all failures: one job in work while the other waits, retries and giving up |
| `debuginfod` | `SymbolsTypeOK`, `ReleaseServedRight`, `ReleasePinned`, `KernelLocationsRight` | 2 snapshot builds under one version, 1 release, 1 self-built kernel under its version, all failures, one decoder with its collector, requests for the release's kernel; no modules, to keep it small |
| `sweeping` | `ModuleLocationsRight`, `UnusedSnapshotGoes`, `DanglingLinkGoes` | 2 snapshot builds, both with the module, no failures (see the third divergence of section 5) |
| `texts` | `ComputeMatchesProtocol`, `StableAcrossBuilds`, `SignatureWithoutSymbols`, `LastSectionWins`, `OneCrashOnly`, `ConformingAdmitted`, `WholeTextOrNone` | all texts of up to 7 lines over 8 kinds of line, of the markers one with a place and one without (two sections with a trace each fit), `SIGNATURE_FRAMES` 2 instead of 5, so that the limit is reached; all bodies of up to 4 fields over 15 kinds (both names twice), 9 headers, sizes below, at and above each limit |
| `logins` | `VisibilityTypeOK`, `TokenPerNonce`, `LateLoginRefused`, `LiveNonceKept`, `LiveTicketKept`, `ExpiredTicketGoes` | 2 keys, 1 developer, 2 nonces, 2 secrets, 2 concurrent logins, 3 instants, TTLs 2 and 1: each ticket lives, expires and is collected, and times on both sides of each comparison occur |
| `visibility` | `LinksLeadHome`, `ChangedByOwner` | 1 owned and 1 anonymous report, an owner and a developer, 2 requests at a time, 2 slugs, tickets that expire |

Every bound is a constant in the `.cfg`: sets of keys, uuids, requests, jobs,
builds, nonces, secrets, slugs; `MaxAttempts`, `MaxLines`, `MaxTime`. Symmetry
is used in safety runs only. `queue`, `sweeping` and `logins` check liveness and
use none. Deadlock is checked everywhere except in the two text runs, where an
input ends after `MaxLines` lines or `MaxFields` fields. In the other modules a step of the
environment (the next request, the clock, the collector's next tick) is always
possible.

What the invariants say, beyond the comment at each:

- `NothingLost` is the promise of the whole system: until a failed report's
  retention has passed there is a payload, or a complete text of a decoded report
  in a group that exists. It is the order of five statements in `decode_report`,
  the order in `process_job`, the choice of `gc_failed_raw` and the write before
  the INSERT in `post_report`, together.
- `ImplementsQueue` maps the job table and the decoders' local state to
  `DecodeQueue`: a decoder that has only `MarkFailed` left holds nothing. The
  mapping carries fairness too. A job whose holder vanishes is `Drop`ped and
  never comes back: that is the queue the code has, not the one the plan
  describes (section 5).
- `ImplementsLife` maps the whole pipeline to `ReportLife`: what is closed keeps
  its text for ever, what was given up is not taken up again, and in between the
  payload or the text is there.
- `DoneIsShown` needs more than `NothingLost`: a page reads the file after the
  row, so no decoder may open the file again once a job is done, however the jobs,
  crashes and lost statements fell before.
- `OneCrashOnly` is about every text, also those that are no sequence of complete
  sections (half a trace, a marker without one): the exception and the frames that
  are grouped are of one crash.
- `ReleasePinned` and `ReleaseServedRight` together: reports of a self-built kernel
  do drop the release's tree, each time; what comes back is the release, and
  `KernelLocationsRight` keeps its files away from the other kernel's frames.
- `KernelLocationsRight` holds with every failure, since `Symbolizer::new`
  compares the build-id of what it has loaded once more; with one decoder and its
  collector no other build can come between `Load` and `Open`.
- `ModuleLocationsRight` holds although nothing compares a module's build-id,
  because a tree is removed whole before it is filled again. That argument breaks
  as soon as a fetch stops half-way.

## 4. Fairness

Weak fairness of a decoder's next step (`WorkerProgress`): the loop of `main.rs`
polls every 5 seconds, drains the queue without sleeping and has no other way
out; a crash is followed by a restart (`deploy/docker-compose.yml`, `restart:
unless-stopped`), which is why `Crash` leads back to `Idle`. Weak fairness of the
hourly tasks (`GcProgress`, `SweepStep`, `CleanupTick`): `interval.tick()` in an
endless loop. Strong fairness of the two DELETEs of the server's cleanup: each
may fail, or be cut off by a restart, any number of times, but not every time. Weak fairness of `FetchStep` in the pool, the worker loop again.
Nothing is assumed of clients, of the clock, of the artifact source, or of
failures and their absence. A statement that is ignored may be lost every time:
`PendingSettles` therefore ends in `Settled` or `Stranded`.

## 5. Where code and documents differ

Four divergences are kept as runs that TLC must refute.

1. `AckedIsEnqueued` (`claim_acked_enqueued`). A request inserts its report and
   ends before it inserts the job (the client hangs up, the server stops). The
   device sends the report again, `LookupAck` finds its row and answers 200. The
   report has no job and never gets one.
2. `StartedIsSettled` (`claim_started_settled`). A decoder claims a job and
   stops. The job is `running`; only the process that claimed it would have
   changed that. After the restart nobody looks at it again, its report stays
   `received`, no attempt is counted as failed.
3. `NoWrongLocations` (`claim_no_wrong_locations`). The decoder unpacks a
   snapshot, and is restarted when the module is there and vmlinux is not. The
   next build is published, has no such module, and is unpacked beside the old
   one, since a tree without vmlinux is not dropped. Frames of the module are
   resolved in the old build's file: `README.md` says stale snapshot symbols can
   never produce wrong source locations.
4. `CrashTraceKept` (`claim_trace_kept`). A complete oops is followed by a line
   that contains a marker ("Kernel panic - not syncing: Oops: Fatal exception"):
   the frames are cleared, and the report is grouped without any.

Met while modelling, by reading and by earlier TLC runs, and not kept as runs;
the modules have the behaviour, no property forbids it:

- A payload may outlive its decoding: a second upload of the same report writes
  the file again after the decoder has removed it and then fails at the INSERT;
  or the decoder stops between `UpdateReport` and `RemoveRaw`, when
  `raw_deleted_at` is already set.
- For the same reason a report that fails after `UpdateReport` is never selected
  by `gc_failed_raw`.
- `claim_job` says "oldest pending job" and takes the smallest id; ids are random.
- Of two uploads that race with one uuid, the row may be one client's and the
  payload the other's; of two racing uploads of one device the second is answered
  500, not 200; and a device whose uuid was taken by somebody else makes another
  row each time it sends the report again.
- Links of a snapshot's previous build survive a refetch and serve the next
  build's file under the old build-id.
- The collector counts a tree without a stamp as never used, and removes one that
  is being unpacked.
- A vmlinux that was cut short counts as a cache hit and is never replaced.
- A WARNING that names its place keeps the offset, and the source location if
  there is one, in its exception: the signature changes with build and symbols.
  `StableAcrossBuilds` and `SignatureWithoutSymbols` therefore ask for the same
  frames of every text, and for the same group where no place is named
  (`SameGroup`).
- With a source location behind it, the name of a frame's module is not
  recognised (`junk` in module `Signature`).
- A second challenge for a key replaces a nonce that is not used yet.
- Two publish requests at once draw two slugs and the first answer's link dies; a
  publish that has read the slug before an unpublish writes it back.

## 6. What is proved

TLAPS checks the following for every value of the constants. Every invariant
and every action property that a passing run checks is a theorem; TLC shows it
on a small instance, the theorem for any number of requests, decoders, jobs,
attempts, builds, trees, lines and fields. The assumptions are named in the
modules that declare the constants:

- `Store`, `Pipeline`: `Null` is nobody's value, jobs are a finite set of
  naturals, `MaxAttempts` is at least 1, fresh ids are not uuids;
- `DeviceLogin`, `Visibility`: lifetimes are positive, keys are not names, an
  owner is a key or nobody;
- `SymbolPool`: `Null` is nobody's value, a build is of one tree, snapshots are
  trees;
- `Signature`, `CrashText`: machinery is names, the limit of frames is positive,
  `None` is no name and no line, lines are of the forms of `AnyLine`;
- `Admission`: limits and sizes are naturals, fields that count have a value,
  header fields are absent, malformed, or made by the constructors.

| theorem | module | argument |
|---|---|---|
| `TypeCorrect` | `PipelineTypeProofs` | `TypeInv`: `TypeOK`, and that local state has its type where the code reads it |
| `ClaimsCorrect`, `BudgetKept` | `TableProofs` | `ClaimInv`: exclusiveness and budget, and that a decoder's copy of `attempts` is the row's, because nobody else attempts a job that is running |
| `QueueImplemented` | `TableProofs` | from `ClaimInv`, every step is a step of `DecodeQueue` or a stutter: the safety part of `ImplementsQueue` |
| `AcksCorrect`, `OneJobKept` | `TableProofs` | `IngestInv`: between its two INSERTs a request owns its row, so a second job has nobody to make it |
| `RetriesDeduplicated` | `TableProofs` | `DedupInv`: a row or a running request has the id its device chose, or the row of that id is somebody else's (`Elsewhere`), which it stays |
| `QueueSafe`, `LifeSafe` | `PromiseProofs` | what the abstract queue guarantees (type, one holder, attempts within the budget), and the abstract life (always readable, over for good) |
| `SpoolCorrect`, `JobsAgree`, `DropsCorrect` | `SpoolProofs` | `SpoolInv`, on top of the two others |
| `LifeImplemented` | `LifeRefinementProofs` | from `SpoolInv` and the invariants below it, every step is a step of `ReportLife` or a stutter: `ImplementsLife` |
| `PagesShowDone` | `LifeRefinementProofs` | `PageInv`, from the refinement: a report that is done stays so (`DoneStays`) |
| `SymbolsTypeCorrect` | `SymbolProofs` | `ShapeInv`: the type, and what of a fetch is there where it is read |
| `ReleasesServed`, `ReleasesPinned` | `SymbolProofs` | `HomeInv`: what a release tree holds and what links lead there |
| `KernelFramesRight`, `ModuleFramesRight` | `SymbolProofs` | `KernelInv`, `ModuleInv`, for one decoder |
| `AdmissionRight`, `TextsWhole` | `InputProofs` | `PartsInv`: a part is the value of the last field of its name, unless some field was too large |
| `LastSectionGrouped`, `OneCrashGrouped` | `InputProofs` | `SectionInv`, `CrashInv`: which lines of the text exception and frames are |
| `ProtocolComputed`, `RebuiltGrouped`, `UnsymbolizedGrouped` | `InputProofs` | induction over the frames and over the lines |
| `AccessTypeCorrect`, `NonceSingleUse`, `NoLateLogin`, `PendingLoginsKept`, `LiveTicketsKept` | `AccessProofs` | `NonceInv` and `LoginHasHolder` |
| `LinksCorrect`, `OwnersChange` | `AccessProofs` | `LinkInv` |

**Spool.** `NothingLost` alone is not inductive: whether a step may take the
payload depends on how far the decoder that takes it has come
(`WorkerProgressKnown`), on nobody else working on that report (`ClaimInv`: one
decoder per job; `IngestInv`: one job per report), on the payload of every open
report being there (`RawWhileOpen`, `RawBeforeRow`), and on a failed report never
being worked on again (`FailedIsOver`, `SelectionStands`). `SpoolLocal` reduces
each step of a decoder to the one job and report it is about.

**Life.** `LifeImplemented` goes through the actions one by one and says which
step of a life each is: the payload file of an id is written (`Upload`), the row
appears (`Receive`), a decoder touches text, group or row (`Attempt`, of a job
that is running, whose report `SpoolInv` knows to be open with its payload
there), the payload is unlinked (`Discard`), the job is set done (`Close`), the
report set failed (`Fail`), its retention passes (`Expire`). A step that changes
one report leaves the stage of all others alone because a job has one report and
a report one job. What `PagesShowDone` needs of the pipeline is read off the
abstract life: a report that is closed stays so and keeps its text (`LifeOver`).

**Symbols.** `HomeInv` says where builds are at home: every complete file in a
tree, every build that is published, on its way into a tree, or named by a link,
is one of that tree, and in a release tree the one release that is published there
(`Home`). So whatever the endpoint resolves and opens, in two steps, is right for
a release; and a fetch that is about to drop a release tree does it for another
kernel (`FetchHome`). It holds for any number of decoders, collectors and
failures. For snapshots it says no more than that they share a tree, which is
where their links go wrong (section 5).

`KernelFramesRight` has the hypothesis `OneDecoder`, and needs it: between `Load`
and `Open`, the two reads of vmlinux, a second decoder can swap the tree. TLC
finds that with two decoders and no failure at all (the hazard at
`symbols.rs:314`; the deployment has one decoder). `ModuleFramesRight` needs in
addition that no fetch stops half-way and that every published build has the
module; without these it is the third divergence of section 5. A failing removal
(`lost`) is allowed: what it leaves is overwritten before it is read.

**Texts.** `OneCrashGrouped` is about any text: `CrashInv` has the position of the
exception's line, and that the frames are the lines of open traces from there on,
in order. `LastSectionGrouped` follows, with the same lemma about one step of the
parser (`LineParsed`), from `SectionInv`: where the section begins in which the
text is, where its trace begins, and what of it was parsed. `ProtocolComputed` is
proved by induction over the frames (`FrameComputed` is its step), the other two
by induction over two texts at once whose lines are alike (`AlikeLines`, which
`Rebuilt` and `Annotate` keep): parsing keeps them alike (`AlikeParsed`), and
alike frames fold to the same signature (`AlikeComputed`).

The library's rules of induction take a predicate as a parameter, which the
provers cannot instantiate. Here the predicate is a set (`NatBuilt`,
`SequencesBuilt`), and the least element of its complement (`LeastExists`, of the
well-founded order of the naturals) does the work. `FoldUnique` and `FoldExists`
show by it that what `FoldLeft` chooses is there and is one function; from that
come `ParseSteps` and `ComputeSteps`, the two equations by which the proofs know
`parse_oops` and `compute`.

**Access.** `TokenPerNonce` needs to know that a nonce that is pending, under way
in a login, or answered by a secret was handed out once (`GivenOnce`,
`PendingGiven`, `AnsweredGiven`) and is in one of the three places only. That a
login is of a row the database has rests on `PendingKnown`: the challenge looks
the key up, and no row of `device` goes. `LinksLeadHome` follows from
`SlugsApart`: whoever has a slug, be it a row, a request between SELECT and
UPDATE, or the reader of an answer, has it for one and the same report, since
only `Select` draws, and it draws what nobody has.

## 7. What is only model-checked

Liveness and fairness: `PendingSettles`, the fair part of `ImplementsQueue`,
`UnusedSnapshotGoes`, `DanglingLinkGoes`, `ExpiredTicketGoes`. Fairness is about
which steps are enabled, and of that the provers know nothing. The four
divergences of section 5 are counterexamples, which TLC finds.

## 8. What is not modelled

Scrubbing and the DWARF lookup work character by character or inside a library;
so do the framing of multipart, JSON, base64, Ed25519, Argon2 and the
decompressors, of which the modules have the outcomes. The dashboard's list of
groups is one SELECT over what `Pages` shows step by step; templates are layout.
Configuration is read once, its values are constants. Rate limiting is planned,
not written. Descriptive columns, `last_seen`, and the words of answers are left
out. SQLite is taken to execute a statement as a whole; a statement that
fails (a busy database) is a fault of the module it is in.

## 9. Plan

Done, in this order: `Store`, `Ingest`, `Decoder`, `Retention`, `Pipeline`; the
abstract queue; the proofs about both; `SymbolPool` and `Symbols`; `Signature`
and `CrashText`; `DeviceLogin` and `Visibility`; `ReportLife` and its
refinement; `Pages`; `Admission`; the proofs about the pool, the pages, the texts
and the admission.

To do:

1. `SymbolPool` with two decoders: what can be said of the frames when downloads
   of two processes meet, in place of the hypothesis `OneDecoder`.
2. Abstract specifications of single-use nonces and of published links, with
   refinements from `DeviceLogin` and `Visibility` and their proofs.
3. The links of the build-id index under a collector (the hazard at
   `symbols.rs:159`): which builds lose theirs, and that the next fetch brings
   them back.
