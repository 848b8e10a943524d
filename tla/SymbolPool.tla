----------------------------- MODULE SymbolPool -----------------------------
(***************************************************************************)
(* The symbol pool of the decoder (ucrs-decoder, symbols.rs): the trees    *)
(* data/symbols/kernel/<version>/<target>, the build-id index beside them, *)
(* ensure_kernel with the Symbolizer that reads a tree after it, and the   *)
(* hourly garbage collection.  Nothing locks a tree: the worker loop, the  *)
(* collector of the same process and other decoders meet in the files.     *)
(***************************************************************************)
EXTENDS Naturals, FiniteSets

CONSTANTS
    Trees,          \* (version, target) pairs
    Snapshots,      \* the ones of version SNAPSHOT: only these are collected
    Builds,         \* kernel builds; one stands for the build-ids of its files
    TreeOf,         \* the tree each build is reported and published under
    SelfBuilt,      \* the builds that are reported and never published
    WithModule,     \* the builds whose tarball has the module
    Fetchers,       \* decoder processes
    Collectors,     \* the ones that run without --once
    PoolFaults,     \* the kinds of failure that may happen
    Null

PoolFaultKinds ==
    {"crash",       \* a decoder process stops between two steps
     "error",       \* a step of a fetch returns Err
     "lost"}        \* remove_dir_all gives up half way, and nobody looks

ASSUME PoolTreesAssumption ==
    Snapshots \subseteq Trees /\ TreeOf \in [Builds -> Trees]
ASSUME PoolBuildsAssumption ==
    WithModule \cup SelfBuilt \subseteq Builds /\ Builds \cap Fetchers = {}
ASSUME PoolCollectorsAssumption == Collectors \subseteq Fetchers
ASSUME PoolFaultsAssumption == PoolFaults \subseteq PoolFaultKinds
ASSUME PoolNullAssumption == Null \notin Builds \cup Trees \cup Fetchers

VARIABLES
    published,      \* the build the artifact source has for a tree
    file,           \* debug/vmlinux and a module debug/modules/m.ko of a tree
    stamp,          \* last_used: no file, within the retention, past it
    link,           \* .build-id/xx/yyyy.debug -> that file of a tree
    fetcher,        \* ensure_kernel and Symbolizer of each decoder
    sweep           \* gc() of each collector

pool == <<published, file, stamp, link>>
poolVars == <<pool, fetcher, sweep>>

Parts == {"vmlinux", "module"}
Ids   == Parts \X Builds
Entries == Parts \cup {"last_used"}

\* A complete file is a build's; one that tar has created and not yet filled
\* is named for the decoder that does it, and stays so when it stops.
Content == Builds \cup Fetchers \cup {Null}

Idle == [pc |-> "idle", tree |-> Null, expected |-> Null, build |-> Null,
         todo |-> {}, part |-> Null, used |-> {}]
Resting == [pc |-> "rest", trees |-> {}, todo |-> {}, links |-> {}, at |-> Null]

FetchPcs ==
    {"idle", "check", "drop", "download", "verify", "extract", "unpack", "index",
     "symlink", "stamp", "load", "open", "annotate", "annotated"}
FetcherState ==
    [pc : FetchPcs, tree : Trees \cup {Null}, expected : Builds \cup {Null},
     build : Builds \cup {Null}, todo : SUBSET Entries,
     part : Parts \cup {Null}, used : SUBSET Ids]
SweepState ==
    [pc : {"rest", "trees", "remove", "links", "unlink"},
     trees : SUBSET Snapshots, todo : SUBSET Entries, links : SUBSET Ids,
     at : Snapshots \cup Ids \cup {Null}]

PoolTypeOK ==
    /\ published \in [Trees -> Builds \cup {Null}]
    /\ file \in [Trees -> [Parts -> Content]]
    /\ stamp \in [Trees -> {"none", "fresh", "old"}]
    /\ link \in [Ids -> Trees \cup {Null}]
    /\ fetcher \in [Fetchers -> FetcherState]
    /\ sweep \in [Collectors -> SweepState]

PoolInit ==
    /\ published \in [Trees -> (Builds \ SelfBuilt) \cup {Null}]
    /\ \A t \in Trees : published[t] # Null => TreeOf[published[t]] = t
    /\ file = [t \in Trees |-> [p \in Parts |-> Null]]
    /\ stamp = [t \in Trees |-> "none"]
    /\ link = [x \in Ids |-> Null]
    /\ fetcher = [f \in Fetchers |-> Idle]
    /\ sweep = [c \in Collectors |-> Resting]

Exists(t) == stamp[t] # "none" \/ \E p \in Parts : file[t][p] # Null

\* A new snapshot build is published under the same version string.
Publish(t) ==
    /\ t \in Snapshots
    /\ \E b \in Builds \ SelfBuilt :
          TreeOf[b] = t /\ published' = [published EXCEPT ![t] = b]
    /\ UNCHANGED <<file, stamp, link, fetcher, sweep>>

\* The tree has not been used for retention_weeks.
Retire(t) ==
    /\ stamp[t] = "fresh"
    /\ stamp' = [stamp EXCEPT ![t] = "old"]
    /\ UNCHANGED <<published, file, link, fetcher, sweep>>

\* Two ways on from a step of a fetch: to the next one, or to the report
\* without symbols (every error of the pool ends there).
At(f, pc)  == fetcher[f].pc = pc
To(f, pc)  == fetcher' = [fetcher EXCEPT ![f].pc = pc]
GiveUp(f)  == fetcher' = [fetcher EXCEPT ![f] = Idle]
Vmlinux(f) == file[fetcher[f].tree]["vmlinux"]

\* A report of this tree, with or without its kernel's build-id.
Start(f) ==
    /\ At(f, "idle")
    /\ \E t \in Trees :
       \E e \in {b \in Builds : TreeOf[b] = t} \cup {Null} :
          fetcher' = [fetcher EXCEPT ![f] =
                         [Idle EXCEPT !.pc = "check", !.tree = t, !.expected = e]]
    /\ UNCHANGED <<pool, sweep>>

\* Both build-ids are known and differ: a truncated vmlinux has none.
Stale(f) ==
    /\ fetcher[f].expected # Null
    /\ Vmlinux(f) \in Builds \ {fetcher[f].expected}

CheckCache(f) ==
    /\ At(f, "check")
    /\ \/ Vmlinux(f) # Null /\ ~Stale(f) /\ To(f, "stamp")
       \/ /\ Stale(f)
          /\ fetcher' = [fetcher EXCEPT ![f].pc = "drop", ![f].todo = Entries]
       \/ Vmlinux(f) = Null /\ To(f, "download")
    /\ UNCHANGED <<pool, sweep>>

\* remove_dir_all comes to each entry of the tree once, in the order of the
\* directories; what tar puts there behind its back stays (rmdir fails then).
Remove(t, e) ==
    IF e = "last_used"
    THEN stamp' = [stamp EXCEPT ![t] = "none"] /\ UNCHANGED file
    ELSE file' = [file EXCEPT ![t][e] = Null] /\ UNCHANGED stamp

DropStale(f) ==
    /\ At(f, "drop")
    /\ \E e \in fetcher[f].todo :
          /\ Remove(fetcher[f].tree, e)
          /\ fetcher' = [fetcher EXCEPT ![f].todo = @ \ {e}]
    /\ UNCHANGED <<published, link, sweep>>

\* let _ = remove_dir_all(dest).
Dropped(f) ==
    /\ At(f, "drop")
    /\ fetcher[f].todo = {} \/ "lost" \in PoolFaults
    /\ fetcher' = [fetcher EXCEPT ![f].pc = "download", ![f].todo = {}]
    /\ UNCHANGED <<pool, sweep>>

\* Mutation: the {target} of the url is not replaced.
DownloadAnyTarget(f) ==
    /\ At(f, "download")
    /\ \E t \in Trees :
          /\ published[t] # Null
          /\ fetcher' = [fetcher EXCEPT ![f].pc = "verify", ![f].build = published[t]]
    /\ UNCHANGED <<pool, sweep>>

Download(f) ==
    LET b == published[fetcher[f].tree] IN
    /\ At(f, "download")
    /\ IF b = Null THEN GiveUp(f)
       ELSE fetcher' = [fetcher EXCEPT ![f].pc = "verify", ![f].build = b]
    /\ UNCHANGED <<pool, sweep>>

\* sha256sums is fetched after the tarball, which may be replaced in between;
\* a file:// source and a mirror without the sums are not verified.
Verify(f) ==
    /\ At(f, "verify")
    /\ \/ fetcher' = [fetcher EXCEPT ![f].pc = "extract", ![f].todo =
              {"vmlinux"} \cup {p \in {"module"} : fetcher[f].build \in WithModule}]
       \/ published[fetcher[f].tree] # fetcher[f].build /\ GiveUp(f)
    /\ UNCHANGED <<pool, sweep>>

\* tar creates a member anew, in the order of the tarball ...
Unpack(f) ==
    /\ At(f, "extract")
    /\ \E p \in fetcher[f].todo :
          /\ file' = [file EXCEPT ![fetcher[f].tree][p] = f]
          /\ fetcher' = [fetcher EXCEPT ![f].pc = "unpack", ![f].part = p]
    /\ UNCHANGED <<published, stamp, link, sweep>>

\* ... and fills it; it is nobody's if it was removed or replaced meanwhile.
\* (If the directory is removed under tar, it may fail: that is a FetchError.)
Unpacked(f) ==
    LET t == fetcher[f].tree  p == fetcher[f].part IN
    /\ At(f, "unpack")
    /\ file' = IF file[t][p] = f
               THEN [file EXCEPT ![t][p] = fetcher[f].build] ELSE file
    /\ fetcher' = [fetcher EXCEPT ![f].pc = "extract", ![f].part = Null,
                                  ![f].todo = @ \ {p}]
    /\ UNCHANGED <<published, stamp, link, sweep>>

FinishExtract(f) ==
    /\ At(f, "extract") /\ fetcher[f].todo = {}
    /\ IF Vmlinux(f) = Null THEN GiveUp(f)
       ELSE fetcher' = [fetcher EXCEPT ![f].pc = "index", ![f].todo =
                {p \in Parts : file[fetcher[f].tree][p] # Null}]
    /\ UNCHANGED <<pool, sweep>>

\* index_build_ids: files without a readable build-id are skipped; the old
\* link is removed ...
Index(f) ==
    LET t == fetcher[f].tree IN
    /\ At(f, "index")
    /\ \/ \E p \in fetcher[f].todo :
             \/ /\ file[t][p] \in Builds
                /\ link' = [link EXCEPT ![<<p, file[t][p]>>] = Null]
                /\ fetcher' = [fetcher EXCEPT ![f].pc = "symlink", ![f].part = p,
                                              ![f].build = file[t][p]]
             \/ /\ file[t][p] \notin Builds
                /\ fetcher' = [fetcher EXCEPT ![f].todo = @ \ {p}]
                /\ UNCHANGED link
       \/ fetcher[f].todo = {} /\ To(f, "stamp") /\ UNCHANGED link
    /\ UNCHANGED <<published, file, stamp, sweep>>

Indexed(f) == <<fetcher[f].part, fetcher[f].build>>

\* ... and made anew; a file that is gone or a link that is there is an Err,
\* which ends the indexing and is logged.
Symlink(f) ==
    LET t == fetcher[f].tree  x == Indexed(f) IN
    /\ At(f, "symlink")
    /\ IF file[t][fetcher[f].part] # Null /\ link[x] = Null
       THEN /\ link' = [link EXCEPT ![x] = t]
            /\ fetcher' = [fetcher EXCEPT ![f].pc = "index", ![f].part = Null,
                                          ![f].todo = @ \ {fetcher[f].part}]
       ELSE /\ fetcher' = [fetcher EXCEPT ![f].pc = "stamp", ![f].part = Null,
                                          ![f].todo = {}]
            /\ UNCHANGED link
    /\ UNCHANGED <<published, file, stamp, sweep>>

\* let _ = fs::write(stamp): fails without the directory.
Stamp(f) ==
    LET t == fetcher[f].tree IN
    /\ At(f, "stamp")
    /\ stamp' = IF Exists(t) THEN [stamp EXCEPT ![t] = "fresh"] ELSE stamp
    /\ To(f, "load")
    /\ UNCHANGED <<published, file, link, sweep>>

\* Binary::load reads vmlinux for its symbols and its build-id ...
Load(f) ==
    /\ At(f, "load")
    /\ IF Vmlinux(f) \in Builds
       THEN fetcher' = [fetcher EXCEPT ![f].pc = "open", ![f].build = Vmlinux(f)]
       ELSE GiveUp(f)
    /\ UNCHANGED <<pool, sweep>>

\* Mutation: the second build-id check is left to the first one.
MatchesAlways(f) == TRUE
Matches(f) == fetcher[f].expected \in {Null, fetcher[f].build}

\* ... and opens it a second time for its line table.
Open(f) ==
    /\ At(f, "open")
    /\ IF Vmlinux(f) \in Builds /\ Matches(f)
       THEN fetcher' = [fetcher EXCEPT ![f].pc = "annotate", ![f].used =
                {<<"vmlinux", b>> : b \in {fetcher[f].build, Vmlinux(f)}}]
       ELSE GiveUp(f)
    /\ UNCHANGED <<pool, sweep>>

\* annotate: the module is looked up when the first frame names it.
Annotate(f) ==
    LET m == file[fetcher[f].tree]["module"] IN
    /\ At(f, "annotate")
    /\ fetcher' = [fetcher EXCEPT ![f].pc = "annotated", ![f].used =
                      @ \cup {<<"module", b>> : b \in {m} \cap Builds}]
    /\ UNCHANGED <<pool, sweep>>

Annotated(f) == At(f, "annotated") /\ GiveUp(f) /\ UNCHANGED <<pool, sweep>>

FetchError(f) ==
    /\ "error" \in PoolFaults
    /\ fetcher[f].pc \in {"download", "verify", "extract", "unpack"}
    /\ GiveUp(f)
    /\ UNCHANGED <<pool, sweep>>

FetchStep(f) ==
    \/ CheckCache(f) \/ DropStale(f) \/ Dropped(f)
    \/ Download(f) \/ Verify(f) \/ Unpack(f) \/ Unpacked(f)
    \/ FinishExtract(f) \/ Index(f) \/ Symlink(f) \/ Stamp(f)
    \/ Load(f) \/ Open(f) \/ Annotate(f) \/ Annotated(f)

-----------------------------------------------------------------------------
\* Mutation: gc() walks all trees.
SweepStartAll(c) ==
    /\ sweep[c].pc = "rest"
    /\ sweep' = [sweep EXCEPT ![c].pc = "trees",
                              ![c].trees = {t \in Trees : Exists(t)}]
    /\ UNCHANGED <<pool, fetcher>>

\* gc(): first the snapshot trees ...
SweepStart(c) ==
    /\ sweep[c].pc = "rest"
    /\ sweep' = [sweep EXCEPT ![c].pc = "trees",
                              ![c].trees = {t \in Snapshots : Exists(t)}]
    /\ UNCHANGED <<pool, fetcher>>

\* Mutation: the comparison with the cutoff turned round.
ExpiredYoung(t) == stamp[t] = "fresh"
\* A tree without a readable last_used counts as never used.
Expired(t) == stamp[t] # "fresh"

SweepTree(c) ==
    /\ sweep[c].pc = "trees"
    /\ \E t \in sweep[c].trees :
          sweep' = IF Expired(t)
                   THEN [sweep EXCEPT ![c].pc = "remove", ![c].at = t,
                                      ![c].todo = Entries]
                   ELSE [sweep EXCEPT ![c].trees = @ \ {t}]
    /\ UNCHANGED <<pool, fetcher>>

SweepRemove(c) ==
    /\ sweep[c].pc = "remove"
    /\ \E e \in sweep[c].todo :
          /\ Remove(sweep[c].at, e)
          /\ sweep' = [sweep EXCEPT ![c].todo = @ \ {e}]
    /\ UNCHANGED <<published, link, fetcher>>

SweepRemoved(c) ==
    /\ sweep[c].pc = "remove"
    /\ sweep[c].todo = {} \/ "lost" \in PoolFaults
    /\ sweep' = [sweep EXCEPT ![c].pc = "trees", ![c].at = Null, ![c].todo = {},
                              ![c].trees = @ \ {sweep[c].at}]
    /\ UNCHANGED <<pool, fetcher>>

\* ... then the links whose target vanished.
SweepLinks(c) ==
    /\ sweep[c].pc = "trees" /\ sweep[c].trees = {}
    /\ sweep' = [sweep EXCEPT ![c].pc = "links",
                              ![c].links = {x \in Ids : link[x] # Null}]
    /\ UNCHANGED <<pool, fetcher>>

\* Mutation: the ! of !path.exists() is forgotten.
DanglingInverted(x) == link[x] # Null /\ file[link[x]][x[1]] # Null
Dangling(x) == link[x] # Null /\ file[link[x]][x[1]] = Null

SweepLink(c) ==
    /\ sweep[c].pc = "links"
    /\ \E x \in sweep[c].links :
          sweep' = IF Dangling(x)
                   THEN [sweep EXCEPT ![c].pc = "unlink", ![c].at = x]
                   ELSE [sweep EXCEPT ![c].links = @ \ {x}]
    /\ UNCHANGED <<pool, fetcher>>

SweepUnlink(c) ==
    /\ sweep[c].pc = "unlink"
    /\ link' = [link EXCEPT ![sweep[c].at] = Null]
    /\ sweep' = [sweep EXCEPT ![c].pc = "links", ![c].at = Null,
                              ![c].links = @ \ {sweep[c].at}]
    /\ UNCHANGED <<published, file, stamp, fetcher>>

SweepEnd(c) ==
    /\ sweep[c].pc = "links" /\ sweep[c].links = {}
    /\ sweep' = [sweep EXCEPT ![c] = Resting]
    /\ UNCHANGED <<pool, fetcher>>

SweepStep(c) ==
    \/ SweepStart(c) \/ SweepTree(c) \/ SweepRemove(c) \/ SweepRemoved(c)
    \/ SweepLinks(c) \/ SweepLink(c) \/ SweepUnlink(c) \/ SweepEnd(c)

-----------------------------------------------------------------------------
\* A decoder process stops: its worker loop and its collector go.
PoolCrash(f) ==
    /\ "crash" \in PoolFaults
    /\ GiveUp(f)
    /\ sweep' = [c \in Collectors |-> IF c = f THEN Resting ELSE sweep[c]]
    /\ UNCHANGED pool

PoolNext ==
    \/ \E t \in Trees : Publish(t) \/ Retire(t)
    \/ \E f \in Fetchers :
          Start(f) \/ FetchStep(f) \/ FetchError(f) \/ PoolCrash(f)
    \/ \E c \in Collectors : SweepStep(c)
=============================================================================
