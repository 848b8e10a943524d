---------------------------- MODULE SymbolProofs ----------------------------
(***************************************************************************)
(* The symbol pool for any trees, builds, decoders and kinds of failure:   *)
(* release files are the ones they are asked for as and stay while their   *)
(* kernel is wanted; and, where one decoder runs, what a report is         *)
(* annotated with is its own kernel's.                                     *)
(***************************************************************************)
EXTENDS Symbols, TLAPS

\* The fields of a fetch that the code reads where it is.
FetchShape(r) ==
    /\ r.pc # "idle" => r.tree \in Trees
    /\ r.pc \in {"extract", "unpack", "index", "symlink"} => r.todo \subseteq Parts
    /\ r.pc \in {"unpack", "symlink"} => r.part \in Parts
    /\ r.pc \in {"verify", "extract", "unpack", "symlink", "open"} => r.build \in Builds

SweepShape(r) ==
    /\ r.pc = "remove" => r.at \in Snapshots
    /\ r.pc = "unlink" => r.at \in Ids

\* SymbolsTypeOK is not inductive: a step writes what the local state says.
ShapeInv ==
    /\ SymbolsTypeOK
    /\ \A f \in Fetchers : FetchShape(fetcher[f])
    /\ \A c \in Collectors : SweepShape(sweep[c])
    /\ request.pc # "rest" => request.asked \in Ids

-----------------------------------------------------------------------------
\* Build b belongs into tree t; a release has but the one build it is published as.
Home(b, t) ==
    /\ b \in Builds /\ TreeOf[b] = t
    /\ t \notin Snapshots => published[t] = b

FetchHome(r) ==
    /\ r.pc \in {"verify", "extract", "unpack", "symlink"} => Home(r.build, r.tree)
    /\ r.pc = "drop" /\ r.tree \notin Snapshots =>
          r.expected \notin {Null, published[r.tree]}

PublishedHome == \A t \in Trees : published[t] # Null => TreeOf[published[t]] = t
FilesHome ==
    \A t \in Trees, p \in Parts : file[t][p] \in Builds => Home(file[t][p], t)
LinksHome == \A x \in Ids : link[x] # Null => Home(x[2], link[x])

\* What is sent is right because whatever lies in a tree, is on its way there
\* or leads there is at home there.
HomeInv ==
    /\ ShapeInv
    /\ PublishedHome /\ FilesHome /\ LinksHome
    /\ \A f \in Fetchers : FetchHome(fetcher[f])
    /\ ReleaseServedRight

-----------------------------------------------------------------------------
\* Where every complete file is of build b.
OnlyOf(t, P, b) == \A p \in P : file[t][p] \in Builds => file[t][p] = b

OpenedIsLoaded ==
    \A f \in Fetchers :
        fetcher[f].pc = "open" => OnlyOf(fetcher[f].tree, {"vmlinux"}, fetcher[f].build)

KernelInv == ShapeInv /\ OpenedIsLoaded /\ KernelLocationsRight

\* A tree is of one build unless a tarball is just being unpacked into it; then
\* so is what has been unpacked.
Unpacking(r, t) == r.pc \in {"extract", "unpack"} /\ r.tree = t
Coherent(t) == \E b \in Builds \cup {Null} : OnlyOf(t, Parts, b)
TreesCoherent ==
    \A t \in Trees :
        (\A f \in Fetchers : ~Unpacking(fetcher[f], t)) => Coherent(t)

FetchCoherent(r) ==
    /\ r.pc \in {"verify", "extract", "unpack"} => r.build \notin SelfBuilt
    /\ r.pc \in {"extract", "unpack"} => OnlyOf(r.tree, Parts \ r.todo, r.build)
    /\ r.pc = "unpack" => r.part \in r.todo /\ file[r.tree][r.part] \notin Builds
    /\ r.pc \in {"open", "annotate"} => OnlyOf(r.tree, Parts, r.build)
    /\ r.pc = "annotate" => r.expected \in {Null, r.build}

ModuleInv ==
    /\ ShapeInv
    /\ published \in [Trees -> (Builds \ SelfBuilt) \cup {Null}]
    /\ TreesCoherent
    /\ \A f \in Fetchers : FetchCoherent(fetcher[f])
    /\ ModuleLocationsRight

-----------------------------------------------------------------------------
USE PoolTreesAssumption, PoolBuildsAssumption, PoolCollectorsAssumption,
    PoolNullAssumption, ServedAssumption

LEMMA ShapeInitially == Init => ShapeInv
<1> SUFFICES ASSUME Init PROVE ShapeInv
    OBVIOUS
<1>1. PoolInit /\ request = NoFetch
    BY DEF Init
<1>2. Idle \in FetcherState /\ FetchShape(Idle)
    BY DEF Idle, FetcherState, FetchPcs, FetchShape
<1>3. Resting \in SweepState /\ SweepShape(Resting)
    BY DEF Resting, SweepState, SweepShape
<1>4. PoolTypeOK
    <2>1. fetcher \in [Fetchers -> FetcherState] /\ sweep \in [Collectors -> SweepState]
        BY <1>1, <1>2, <1>3 DEF PoolInit
    <2> QED
        BY <1>1, <2>1 DEF PoolInit, PoolTypeOK, Content
<1>5. /\ \A f \in Fetchers : FetchShape(fetcher[f])
      /\ \A c \in Collectors : SweepShape(sweep[c])
    BY <1>1, <1>2, <1>3 DEF PoolInit
<1> QED
    BY <1>1, <1>4, <1>5 DEF ShapeInv, SymbolsTypeOK, NoFetch, Content

-----------------------------------------------------------------------------
(***************************************************************************)
(* What the steps do to the record of a decoder, field by field.           *)
(***************************************************************************)
\* The step of one fetch: the tree and the report's build-id are kept.
Went(f, pc, build, todo, part, used) ==
    /\ fetcher' \in [Fetchers -> FetcherState]
    /\ \A g \in Fetchers : g # f => fetcher'[g] = fetcher[g]
    /\ fetcher'[f].tree = fetcher[f].tree
    /\ fetcher'[f].expected = fetcher[f].expected
    /\ fetcher'[f].pc = pc /\ fetcher'[f].build = build
    /\ fetcher'[f].todo = todo /\ fetcher'[f].part = part
    /\ fetcher'[f].used = used

\* A fetch is over, or its process is.
Rested(f) ==
    /\ fetcher' \in [Fetchers -> FetcherState]
    /\ \A g \in Fetchers : g # f => fetcher'[g] = fetcher[g]
    /\ fetcher'[f] = Idle

PoolTypes ==
    /\ published \in [Trees -> Builds \cup {Null}]
    /\ file \in [Trees -> [Parts -> Content]]
    /\ link \in [Ids -> Trees \cup {Null}]
    /\ stamp \in [Trees -> {"none", "fresh", "old"}]

LEMMA ShapeFacts ==
    ASSUME ShapeInv
    PROVE  /\ PoolTypes
           /\ fetcher \in [Fetchers -> FetcherState]
           /\ \A f \in Fetchers : FetchShape(fetcher[f])
           /\ sweep \in [Collectors -> SweepState]
           /\ \A c \in Collectors : SweepShape(sweep[c])
BY DEF ShapeInv, SymbolsTypeOK, PoolTypeOK, PoolTypes

LEMMA PcWritten ==
    ASSUME fetcher \in [Fetchers -> FetcherState], NEW f \in Fetchers,
           NEW r \in FetcherState, r = fetcher[f],
           NEW pc \in FetchPcs,
           fetcher' = [fetcher EXCEPT ![f].pc = pc]
    PROVE  Went(f, pc, r.build, r.todo, r.part, r.used)
BY DEF FetcherState, Went
LEMMA LeftWritten ==
    ASSUME fetcher \in [Fetchers -> FetcherState], NEW f \in Fetchers,
           NEW r \in FetcherState, r = fetcher[f],
           NEW todo \in SUBSET Entries,
           fetcher' = [fetcher EXCEPT ![f].todo = todo]
    PROVE  Went(f, r.pc, r.build, todo, r.part, r.used)
BY DEF FetcherState, Went
LEMMA TodoWritten ==
    ASSUME fetcher \in [Fetchers -> FetcherState], NEW f \in Fetchers,
           NEW r \in FetcherState, r = fetcher[f],
           NEW pc \in FetchPcs, NEW todo \in SUBSET Entries,
           fetcher' = [fetcher EXCEPT ![f].pc = pc, ![f].todo = todo]
    PROVE  Went(f, pc, r.build, todo, r.part, r.used)
BY DEF FetcherState, Went
LEMMA BuildWritten ==
    ASSUME fetcher \in [Fetchers -> FetcherState], NEW f \in Fetchers,
           NEW r \in FetcherState, r = fetcher[f],
           NEW pc \in FetchPcs, NEW build \in Builds \cup {Null},
           fetcher' = [fetcher EXCEPT ![f].pc = pc, ![f].build = build]
    PROVE  Went(f, pc, build, r.todo, r.part, r.used)
BY DEF FetcherState, Went
LEMMA UsedWritten ==
    ASSUME fetcher \in [Fetchers -> FetcherState], NEW f \in Fetchers,
           NEW r \in FetcherState, r = fetcher[f],
           NEW pc \in FetchPcs, NEW used \in SUBSET Ids,
           fetcher' = [fetcher EXCEPT ![f].pc = pc, ![f].used = used]
    PROVE  Went(f, pc, r.build, r.todo, r.part, used)
BY DEF FetcherState, Went
LEMMA PartWritten ==
    ASSUME fetcher \in [Fetchers -> FetcherState], NEW f \in Fetchers,
           NEW r \in FetcherState, r = fetcher[f],
           NEW pc \in FetchPcs, NEW part \in Parts \cup {Null},
           fetcher' = [fetcher EXCEPT ![f].pc = pc, ![f].part = part]
    PROVE  Went(f, pc, r.build, r.todo, part, r.used)
BY DEF FetcherState, Went
LEMMA PartLeftWritten ==
    ASSUME fetcher \in [Fetchers -> FetcherState], NEW f \in Fetchers,
           NEW r \in FetcherState, r = fetcher[f],
           NEW pc \in FetchPcs, NEW part \in Parts \cup {Null}, NEW todo \in SUBSET Entries,
           fetcher' = [fetcher EXCEPT ![f].pc = pc, ![f].part = part, ![f].todo = todo]
    PROVE  Went(f, pc, r.build, todo, part, r.used)
BY DEF FetcherState, Went
LEMMA PartBuildWritten ==
    ASSUME fetcher \in [Fetchers -> FetcherState], NEW f \in Fetchers,
           NEW r \in FetcherState, r = fetcher[f],
           NEW pc \in FetchPcs, NEW part \in Parts \cup {Null}, NEW build \in Builds \cup {Null},
           fetcher' = [fetcher EXCEPT ![f].pc = pc, ![f].part = part, ![f].build = build]
    PROVE  Went(f, pc, build, r.todo, part, r.used)
BY DEF FetcherState, Went

LEMMA CheckCacheDoes ==
    ASSUME ShapeInv, NEW f \in Fetchers, CheckCache(f), NEW r, r = fetcher[f]
    PROVE  /\ r.pc = "check" /\ UNCHANGED pool
           /\ \/ Went(f, "stamp", r.build, r.todo, r.part, r.used)
              \/ Stale(f) /\ Went(f, "drop", r.build, Entries, r.part, r.used)
              \/ Went(f, "download", r.build, r.todo, r.part, r.used)
<1>1. {"stamp", "drop", "download"} \subseteq FetchPcs
    BY DEF FetchPcs
<1>2. fetcher \in [Fetchers -> FetcherState]
    BY ShapeFacts
<1>3. To(f, "stamp") => Went(f, "stamp", r.build, r.todo, r.part, r.used)
    BY <1>1, <1>2, PcWritten DEF To
<1>4. To(f, "download") => Went(f, "download", r.build, r.todo, r.part, r.used)
    BY <1>1, <1>2, PcWritten DEF To
<1>5. fetcher' = [fetcher EXCEPT ![f].pc = "drop", ![f].todo = Entries]
         => Went(f, "drop", r.build, Entries, r.part, r.used)
    BY <1>1, <1>2, TodoWritten
<1> QED
    BY <1>3, <1>4, <1>5 DEF CheckCache, At

LEMMA DropStaleDoes ==
    ASSUME ShapeInv, NEW f \in Fetchers, DropStale(f), NEW r, r = fetcher[f]
    PROVE  /\ r.pc = "drop" /\ UNCHANGED <<published, link>>
           /\ \E e \in r.todo :
                /\ Remove(r.tree, e)
                /\ Went(f, "drop", r.build, r.todo \ {e}, r.part, r.used)
<1>1. fetcher \in [Fetchers -> FetcherState] /\ r \in FetcherState
    BY ShapeFacts
<1>2. PICK e \in r.todo :
          Remove(r.tree, e) /\ fetcher' = [fetcher EXCEPT ![f].todo = r.todo \ {e}]
    BY DEF DropStale
<1>3. r.todo \ {e} \in SUBSET Entries
    BY <1>1 DEF FetcherState
<1>4. Went(f, r.pc, r.build, r.todo \ {e}, r.part, r.used)
    BY <1>1, <1>2, <1>3, LeftWritten
<1> QED
    BY <1>2, <1>4 DEF DropStale, At

LEMMA DroppedDoes ==
    ASSUME ShapeInv, NEW f \in Fetchers, Dropped(f), NEW r, r = fetcher[f]
    PROVE  /\ r.pc = "drop" /\ UNCHANGED pool
           /\ Went(f, "download", r.build, {}, r.part, r.used)
<1>1. fetcher \in [Fetchers -> FetcherState] /\ r \in FetcherState
    BY ShapeFacts
<1>2. "download" \in FetchPcs /\ {} \in SUBSET Entries
    BY DEF FetchPcs
<1>3. fetcher' = [fetcher EXCEPT ![f].pc = "download", ![f].todo = {}]
    BY DEF Dropped
<1>4. Went(f, "download", r.build, {}, r.part, r.used)
    BY <1>1, <1>2, <1>3, TodoWritten
<1> QED
    BY <1>4 DEF Dropped, At

LEMMA GiveUpDoes ==
    ASSUME ShapeInv, NEW f \in Fetchers, GiveUp(f)
    PROVE  Rested(f)
<1>1. fetcher \in [Fetchers -> FetcherState]
    BY ShapeFacts
<1>2. Idle \in FetcherState
    BY DEF Idle, FetcherState, FetchPcs
<1> QED
    BY <1>1, <1>2 DEF GiveUp, Rested

LEMMA DownloadDoes ==
    ASSUME ShapeInv, NEW f \in Fetchers, Download(f), NEW r, r = fetcher[f]
    PROVE  /\ r.pc = "download" /\ UNCHANGED pool
           /\ \/ Rested(f)
              \/ /\ published[r.tree] # Null
                 /\ Went(f, "verify", published[r.tree], r.todo, r.part, r.used)
<1>1. fetcher \in [Fetchers -> FetcherState] /\ r \in FetcherState
    BY ShapeFacts
<1>2. "verify" \in FetchPcs
    BY DEF FetchPcs
<1>3. r.pc = "download" /\ UNCHANGED pool
    BY DEF Download, At
<1>4. published[r.tree] \in Builds \cup {Null}
    BY <1>3, ShapeFacts DEF FetchShape, PoolTypes
<1>5. CASE published[r.tree] = Null
    BY <1>3, <1>5, GiveUpDoes DEF Download
<1>6. CASE published[r.tree] # Null
    <2>1. fetcher' = [fetcher EXCEPT ![f].pc = "verify", ![f].build = published[r.tree]]
        BY <1>6 DEF Download
    <2>2. Went(f, "verify", published[r.tree], r.todo, r.part, r.used)
        BY <1>1, <1>2, <1>4, <2>1, BuildWritten
    <2> QED
        BY <1>3, <1>6, <2>2
<1> QED
    BY <1>5, <1>6

LEMMA VerifyDoes ==
    ASSUME ShapeInv, NEW f \in Fetchers, Verify(f), NEW r, r = fetcher[f]
    PROVE  /\ r.pc = "verify" /\ UNCHANGED pool
           /\ \/ Rested(f)
              \/ \E todo \in SUBSET Parts :
                    /\ r.build \in WithModule => todo = Parts
                    /\ Went(f, "extract", r.build, todo, r.part, r.used)
<1>1. fetcher \in [Fetchers -> FetcherState] /\ r \in FetcherState
    BY ShapeFacts
<1>2. "extract" \in FetchPcs
    BY DEF FetchPcs
<1> DEFINE todo == {"vmlinux"} \cup {p \in {"module"} : r.build \in WithModule}
<1>3. todo \in SUBSET Parts /\ (r.build \in WithModule => todo = Parts)
    BY DEF Parts
<1>4. r.pc = "verify" /\ UNCHANGED pool
    BY DEF Verify, At
<1>5. GiveUp(f) \/ fetcher' = [fetcher EXCEPT ![f].pc = "extract", ![f].todo = todo]
    BY DEF Verify
<1> HIDE DEF todo
<1>6. todo \in SUBSET Entries
    BY <1>3 DEF Entries
<1>7. fetcher' = [fetcher EXCEPT ![f].pc = "extract", ![f].todo = todo]
          => Went(f, "extract", r.build, todo, r.part, r.used)
    BY <1>1, <1>2, <1>6, TodoWritten
<1> QED
    BY <1>3, <1>4, <1>5, <1>7, GiveUpDoes

LEMMA UnpackDoes ==
    ASSUME ShapeInv, NEW f \in Fetchers, Unpack(f), NEW r, r = fetcher[f]
    PROVE  /\ r.pc = "extract" /\ UNCHANGED <<published, stamp, link>>
           /\ \E p \in r.todo :
                /\ file' = [file EXCEPT ![r.tree][p] = f]
                /\ Went(f, "unpack", r.build, r.todo, p, r.used)
<1>1. fetcher \in [Fetchers -> FetcherState] /\ r \in FetcherState
    BY ShapeFacts
<1>2. r.pc = "extract" /\ UNCHANGED <<published, stamp, link>>
    BY DEF Unpack, At
<1>3. PICK p \in r.todo :
          /\ file' = [file EXCEPT ![r.tree][p] = f]
          /\ fetcher' = [fetcher EXCEPT ![f].pc = "unpack", ![f].part = p]
    BY DEF Unpack
<1>4. p \in Parts \cup {Null} /\ "unpack" \in FetchPcs
    BY <1>2, ShapeFacts DEF FetchShape, FetchPcs
<1>5. Went(f, "unpack", r.build, r.todo, p, r.used)
    BY <1>1, <1>3, <1>4, PartWritten
<1> QED
    BY <1>2, <1>3, <1>5

LEMMA UnpackedDoes ==
    ASSUME ShapeInv, NEW f \in Fetchers, Unpacked(f), NEW r, r = fetcher[f]
    PROVE  /\ r.pc = "unpack" /\ UNCHANGED <<published, stamp, link>>
           /\ file' = IF file[r.tree][r.part] = f
                      THEN [file EXCEPT ![r.tree][r.part] = r.build] ELSE file
           /\ Went(f, "extract", r.build, r.todo \ {r.part}, Null, r.used)
<1>1. fetcher \in [Fetchers -> FetcherState] /\ r \in FetcherState
    BY ShapeFacts
<1> DEFINE left == r.todo \ {r.part}
<1>2. left \in SUBSET Entries /\ "extract" \in FetchPcs
    BY <1>1 DEF FetcherState, FetchPcs
<1>3. fetcher' = [fetcher EXCEPT ![f].pc = "extract", ![f].part = Null, ![f].todo = left]
    BY DEF Unpacked
<1> HIDE DEF left
<1>4. Went(f, "extract", r.build, left, Null, r.used)
    BY <1>1, <1>2, <1>3, PartLeftWritten
<1> QED
    BY <1>4 DEF Unpacked, At, left

LEMMA FinishExtractDoes ==
    ASSUME ShapeInv, NEW f \in Fetchers, FinishExtract(f), NEW r, r = fetcher[f]
    PROVE  /\ r.pc = "extract" /\ r.todo = {} /\ UNCHANGED pool
           /\ \/ Rested(f)
              \/ \E todo \in SUBSET Parts :
                    Went(f, "index", r.build, todo, r.part, r.used)
<1>1. fetcher \in [Fetchers -> FetcherState] /\ r \in FetcherState
    BY ShapeFacts
<1> DEFINE todo == {p \in Parts : file[r.tree][p] # Null}
<1>2. todo \in SUBSET Parts /\ todo \in SUBSET Entries /\ "index" \in FetchPcs
    BY DEF Entries, FetchPcs
<1>3. GiveUp(f) \/ fetcher' = [fetcher EXCEPT ![f].pc = "index", ![f].todo = todo]
    BY DEF FinishExtract
<1> HIDE DEF todo
<1>4. fetcher' = [fetcher EXCEPT ![f].pc = "index", ![f].todo = todo]
          => Went(f, "index", r.build, todo, r.part, r.used)
    BY <1>1, <1>2, TodoWritten
<1>5. r.pc = "extract" /\ r.todo = {} /\ UNCHANGED pool
    BY DEF FinishExtract, At
<1> QED
    BY <1>2, <1>3, <1>4, <1>5, GiveUpDoes

LEMMA IndexDoes ==
    ASSUME ShapeInv, NEW f \in Fetchers, Index(f), NEW r, r = fetcher[f]
    PROVE  /\ r.pc = "index" /\ UNCHANGED <<published, file, stamp>>
           /\ \/ \E p \in r.todo, b \in Builds :
                    /\ file[r.tree][p] = b /\ link' = [link EXCEPT ![<<p, b>>] = Null]
                    /\ Went(f, "symlink", b, r.todo, p, r.used)
              \/ \E p \in r.todo :
                    UNCHANGED link /\ Went(f, "index", r.build, r.todo \ {p}, r.part, r.used)
              \/ UNCHANGED link /\ Went(f, "stamp", r.build, r.todo, r.part, r.used)
<1>1. fetcher \in [Fetchers -> FetcherState] /\ r \in FetcherState
    BY ShapeFacts
<1>2. r.pc = "index" /\ UNCHANGED <<published, file, stamp>>
    BY DEF Index, At
<1>3. {"index", "symlink", "stamp"} \subseteq FetchPcs /\ r.todo \subseteq Parts
    BY <1>2, ShapeFacts DEF FetchPcs, FetchShape
<1>4. CASE To(f, "stamp") /\ UNCHANGED link
    <2>1. Went(f, "stamp", r.build, r.todo, r.part, r.used)
        BY <1>1, <1>3, <1>4, PcWritten DEF To
    <2> QED
        BY <1>2, <1>4, <2>1
<1>5. ASSUME NEW p \in r.todo, file[r.tree][p] \in Builds,
             link' = [link EXCEPT ![<<p, file[r.tree][p]>>] = Null],
             fetcher' = [fetcher EXCEPT ![f].pc = "symlink", ![f].part = p,
                                        ![f].build = file[r.tree][p]]
      PROVE  \E b \in Builds :
                 /\ file[r.tree][p] = b /\ link' = [link EXCEPT ![<<p, b>>] = Null]
                 /\ Went(f, "symlink", b, r.todo, p, r.used)
    <2>1. p \in Parts \cup {Null}
        BY <1>3
    <2>2. Went(f, "symlink", file[r.tree][p], r.todo, p, r.used)
        BY <1>1, <1>3, <1>5, <2>1, PartBuildWritten
    <2> QED
        BY <1>5, <2>2
<1>6. ASSUME NEW p \in r.todo, UNCHANGED link,
             fetcher' = [fetcher EXCEPT ![f].todo = r.todo \ {p}]
      PROVE  Went(f, "index", r.build, r.todo \ {p}, r.part, r.used)
    <2>1. r.todo \ {p} \in SUBSET Entries
        BY <1>1 DEF FetcherState
    <2>2. Went(f, r.pc, r.build, r.todo \ {p}, r.part, r.used)
        BY <1>1, <1>6, <2>1, LeftWritten
    <2> QED
        BY <1>2, <2>2
<1>7. \/ To(f, "stamp") /\ UNCHANGED link
      \/ \E p \in r.todo :
            /\ file[r.tree][p] \in Builds
            /\ link' = [link EXCEPT ![<<p, file[r.tree][p]>>] = Null]
            /\ fetcher' = [fetcher EXCEPT ![f].pc = "symlink", ![f].part = p,
                                          ![f].build = file[r.tree][p]]
      \/ \E p \in r.todo :
            UNCHANGED link /\ fetcher' = [fetcher EXCEPT ![f].todo = r.todo \ {p}]
    BY DEF Index
<1> QED
    BY <1>2, <1>4, <1>5, <1>6, <1>7

LEMMA SymlinkDoes ==
    ASSUME ShapeInv, NEW f \in Fetchers, Symlink(f), NEW r, r = fetcher[f]
    PROVE  /\ r.pc = "symlink" /\ UNCHANGED <<published, file, stamp>>
           /\ \/ /\ link' = [link EXCEPT ![<<r.part, r.build>>] = r.tree]
                 /\ Went(f, "index", r.build, r.todo \ {r.part}, Null, r.used)
              \/ /\ UNCHANGED link
                 /\ Went(f, "stamp", r.build, {}, Null, r.used)
<1>1. fetcher \in [Fetchers -> FetcherState] /\ r \in FetcherState
    BY ShapeFacts
<1> DEFINE left == r.todo \ {r.part}
<1>2. left \in SUBSET Entries /\ {} \in SUBSET Entries
      /\ {"index", "stamp"} \subseteq FetchPcs
    BY <1>1 DEF FetcherState, FetchPcs
<1>3. r.pc = "symlink" /\ UNCHANGED <<published, file, stamp>>
    BY DEF Symlink, At
<1>4. \/ /\ link' = [link EXCEPT ![<<r.part, r.build>>] = r.tree]
         /\ fetcher' = [fetcher EXCEPT ![f].pc = "index", ![f].part = Null,
                                       ![f].todo = left]
      \/ /\ UNCHANGED link
         /\ fetcher' = [fetcher EXCEPT ![f].pc = "stamp", ![f].part = Null,
                                       ![f].todo = {}]
    BY DEF Symlink, Indexed
<1> HIDE DEF left
<1>5. fetcher' = [fetcher EXCEPT ![f].pc = "index", ![f].part = Null, ![f].todo = left]
          => Went(f, "index", r.build, left, Null, r.used)
    BY <1>1, <1>2, PartLeftWritten
<1>6. fetcher' = [fetcher EXCEPT ![f].pc = "stamp", ![f].part = Null, ![f].todo = {}]
          => Went(f, "stamp", r.build, {}, Null, r.used)
    BY <1>1, <1>2, PartLeftWritten
<1> QED
    BY <1>3, <1>4, <1>5, <1>6 DEF left

LEMMA StampDoes ==
    ASSUME ShapeInv, NEW f \in Fetchers, Stamp(f), NEW r, r = fetcher[f]
    PROVE  /\ r.pc = "stamp" /\ UNCHANGED <<published, file, link>>
           /\ stamp' \in {stamp, [stamp EXCEPT ![r.tree] = "fresh"]}
           /\ Went(f, "load", r.build, r.todo, r.part, r.used)
<1>1. fetcher \in [Fetchers -> FetcherState] /\ r \in FetcherState
    BY ShapeFacts
<1>2. "load" \in FetchPcs /\ fetcher' = [fetcher EXCEPT ![f].pc = "load"]
    BY DEF Stamp, To, FetchPcs
<1>3. Went(f, "load", r.build, r.todo, r.part, r.used)
    BY <1>1, <1>2, PcWritten
<1> QED
    BY <1>3 DEF Stamp, At

LEMMA LoadDoes ==
    ASSUME ShapeInv, NEW f \in Fetchers, Load(f), NEW r, r = fetcher[f]
    PROVE  /\ r.pc = "load" /\ UNCHANGED pool
           /\ \/ Rested(f)
              \/ /\ Vmlinux(f) \in Builds
                 /\ Went(f, "open", Vmlinux(f), r.todo, r.part, r.used)
<1>1. fetcher \in [Fetchers -> FetcherState] /\ r \in FetcherState
    BY ShapeFacts
<1>2. r.pc = "load" /\ UNCHANGED pool
    BY DEF Load, At
<1>3. GiveUp(f) \/ /\ Vmlinux(f) \in Builds
                   /\ fetcher' = [fetcher EXCEPT ![f].pc = "open", ![f].build = Vmlinux(f)]
    BY DEF Load
<1>4. "open" \in FetchPcs
    BY DEF FetchPcs
<1>5. Vmlinux(f) \in Builds
      /\ fetcher' = [fetcher EXCEPT ![f].pc = "open", ![f].build = Vmlinux(f)]
          => Went(f, "open", Vmlinux(f), r.todo, r.part, r.used)
    BY <1>1, <1>4, BuildWritten
<1> QED
    BY <1>2, <1>3, <1>5, GiveUpDoes

LEMMA OpenDoes ==
    ASSUME ShapeInv, NEW f \in Fetchers, Open(f), NEW r, r = fetcher[f]
    PROVE  /\ r.pc = "open" /\ UNCHANGED pool
           /\ \/ Rested(f)
              \/ /\ Vmlinux(f) \in Builds /\ Matches(f)
                 /\ Went(f, "annotate", r.build, r.todo, r.part,
                         {<<"vmlinux", b>> : b \in {r.build, Vmlinux(f)}})
<1>1. fetcher \in [Fetchers -> FetcherState] /\ r \in FetcherState
    BY ShapeFacts
<1> DEFINE used == {<<"vmlinux", b>> : b \in {r.build, Vmlinux(f)}}
<1>2. r.pc = "open" /\ UNCHANGED pool
    BY DEF Open, At
<1>3. GiveUp(f) \/ /\ Vmlinux(f) \in Builds /\ Matches(f)
                   /\ fetcher' = [fetcher EXCEPT ![f].pc = "annotate", ![f].used = used]
    BY DEF Open
<1>4. r.build \in Builds
    BY <1>2, ShapeFacts DEF FetchShape
<1>5. Vmlinux(f) \in Builds => used \in SUBSET Ids
    BY <1>4 DEF Ids, Parts
<1>6. "annotate" \in FetchPcs
    BY DEF FetchPcs
<1> HIDE DEF used
<1>7. used \in SUBSET Ids
      /\ fetcher' = [fetcher EXCEPT ![f].pc = "annotate", ![f].used = used]
          => Went(f, "annotate", r.build, r.todo, r.part, used)
    BY <1>1, <1>6, UsedWritten
<1> QED
    BY <1>2, <1>3, <1>5, <1>7, GiveUpDoes DEF used

LEMMA AnnotateDoes ==
    ASSUME ShapeInv, NEW f \in Fetchers, Annotate(f), NEW r, r = fetcher[f],
           NEW m, m = file[r.tree]["module"]
    PROVE  /\ r.pc = "annotate" /\ UNCHANGED pool
           /\ Went(f, "annotated", r.build, r.todo, r.part,
                   r.used \cup {<<"module", b>> : b \in {m} \cap Builds})
<1>1. fetcher \in [Fetchers -> FetcherState] /\ r \in FetcherState
    BY ShapeFacts
<1> DEFINE used == r.used \cup {<<"module", b>> : b \in {m} \cap Builds}
<1>2. r.pc = "annotate" /\ UNCHANGED pool
    BY DEF Annotate, At
<1>3. fetcher' = [fetcher EXCEPT ![f].pc = "annotated", ![f].used = used]
    BY DEF Annotate
<1>4. used \in SUBSET Ids
    BY <1>1 DEF Ids, Parts, FetcherState
<1>5. "annotated" \in FetchPcs
    BY DEF FetchPcs
<1> HIDE DEF used
<1>6. Went(f, "annotated", r.build, r.todo, r.part, used)
    BY <1>1, <1>3, <1>4, <1>5, UsedWritten
<1> QED
    BY <1>2, <1>6 DEF used

\* A report comes in: the fields of the last fetch are forgotten.
LEMMA StartDoes ==
    ASSUME ShapeInv, NEW f \in Fetchers, Start(f)
    PROVE  /\ UNCHANGED pool
           /\ fetcher' \in [Fetchers -> FetcherState]
           /\ \A g \in Fetchers : g # f => fetcher'[g] = fetcher[g]
           /\ fetcher'[f].tree \in Trees
           /\ fetcher'[f].pc = "check" /\ fetcher'[f].used = {}
<1>1. fetcher \in [Fetchers -> FetcherState]
    BY ShapeFacts
<1>2. PICK t \in Trees, e \in Builds \cup {Null} :
          fetcher' = [fetcher EXCEPT ![f] =
                         [Idle EXCEPT !.pc = "check", !.tree = t, !.expected = e]]
    BY DEF Start
<1> DEFINE new == [Idle EXCEPT !.pc = "check", !.tree = t, !.expected = e]
<1>3. new \in FetcherState /\ new.tree = t /\ new.pc = "check" /\ new.used = {}
    BY DEF Idle, FetcherState, FetchPcs
<1> HIDE DEF new
<1>4. fetcher' = [fetcher EXCEPT ![f] = new]
    BY <1>2 DEF new
<1> QED
    BY <1>1, <1>3, <1>4 DEF Start

-----------------------------------------------------------------------------
(***************************************************************************)
(* What the steps do to the files and links.                               *)
(***************************************************************************)
WroteFile(t, p, v) ==
    /\ file' \in [Trees -> [Parts -> Content]]
    /\ \A u \in Trees, q \in Parts :
          file'[u][q] = IF u = t /\ q = p THEN v ELSE file[u][q]

WroteLink(x, v) ==
    /\ link' \in [Ids -> Trees \cup {Null}]
    /\ \A y \in Ids : link'[y] = IF y = x THEN v ELSE link[y]

LEMMA FileWritten ==
    ASSUME PoolTypes, NEW t \in Trees, NEW p \in Parts, NEW v \in Content,
           file' = [file EXCEPT ![t][p] = v]
    PROVE  WroteFile(t, p, v)
BY DEF PoolTypes, WroteFile

LEMMA LinkWritten ==
    ASSUME PoolTypes, NEW x \in Ids, NEW v \in Trees \cup {Null},
           link' = [link EXCEPT ![x] = v]
    PROVE  WroteLink(x, v)
BY DEF PoolTypes, WroteLink

\* remove_dir_all takes one file away, or the stamp.
LEMMA RemoveDoes ==
    ASSUME PoolTypes, NEW t \in Trees, NEW e \in Entries, Remove(t, e)
    PROVE  /\ stamp' \in [Trees -> {"none", "fresh", "old"}]
           /\ file' = file \/ \E p \in Parts : WroteFile(t, p, Null)
<1>1. CASE e = "last_used"
    BY <1>1 DEF Remove, PoolTypes
<1>2. CASE e # "last_used"
    <2>1. e \in Parts /\ Null \in Content
        BY <1>2 DEF Entries, Content
    <2>2. file' = [file EXCEPT ![t][e] = Null] /\ stamp' = stamp
        BY <1>2 DEF Remove
    <2> QED
        BY <2>1, <2>2, FileWritten DEF PoolTypes
<1> QED
    BY <1>1, <1>2

LEMMA SweeperMoves ==
    ASSUME ShapeInv, NEW c \in Collectors, NEW s \in SweepState, SweepShape(s),
           sweep' = [sweep EXCEPT ![c] = s]
    PROVE  /\ sweep' \in [Collectors -> SweepState]
           /\ \A d \in Collectors : SweepShape(sweep'[d])
<1>1. /\ sweep \in [Collectors -> SweepState]
      /\ \A d \in Collectors : SweepShape(sweep[d])
    BY ShapeFacts
<1> QED
    BY <1>1

\* The collector removes from snapshot trees, and links; it adds nothing.
LEMMA SweepDoes ==
    ASSUME ShapeInv, NEW c \in Collectors, SweepStep(c)
    PROVE  /\ sweep' \in [Collectors -> SweepState]
           /\ \A d \in Collectors : SweepShape(sweep'[d])
           /\ UNCHANGED <<published, fetcher>>
           /\ \/ UNCHANGED pool
              \/ \E t \in Snapshots, e \in Entries : Remove(t, e) /\ UNCHANGED link
              \/ \E x \in Ids : WroteLink(x, Null) /\ UNCHANGED <<file, stamp>>
<1> DEFINE Moved == /\ sweep' \in [Collectors -> SweepState]
                    /\ \A d \in Collectors : SweepShape(sweep'[d])
<1>1. /\ sweep \in [Collectors -> SweepState] /\ sweep[c] \in SweepState
      /\ SweepShape(sweep[c]) /\ PoolTypes
    BY ShapeFacts
<1>2. ASSUME NEW s \in SweepState, SweepShape(s), sweep' = [sweep EXCEPT ![c] = s]
      PROVE  Moved
    BY <1>2, SweeperMoves
<1> HIDE DEF Moved
<1>3. CASE SweepStart(c)
    <2> DEFINE s == [sweep[c] EXCEPT !.pc = "trees", !.trees = {t \in Snapshots : Exists(t)}]
    <2>1. s \in SweepState /\ SweepShape(s)
        BY <1>1 DEF SweepState, SweepShape
    <2>2. sweep' = [sweep EXCEPT ![c] = s] /\ UNCHANGED <<pool, fetcher>>
        BY <1>3 DEF SweepStart
    <2> HIDE DEF s
    <2> QED
        BY <2>1, <2>2, <1>2 DEF Moved, pool
<1>4. CASE SweepTree(c)
    <2>1. PICK t \in sweep[c].trees :
              sweep' = IF Expired(t)
                       THEN [sweep EXCEPT ![c].pc = "remove", ![c].at = t,
                                          ![c].todo = Entries]
                       ELSE [sweep EXCEPT ![c].trees = @ \ {t}]
        BY <1>4 DEF SweepTree
    <2> DEFINE s1 == [sweep[c] EXCEPT !.pc = "remove", !.at = t, !.todo = Entries]
               s2 == [sweep[c] EXCEPT !.trees = @ \ {t}]
    <2>2. sweep[c].pc = "trees" /\ t \in Snapshots
        BY <1>1, <1>4 DEF SweepTree, SweepState
    <2>3. s1 \in SweepState /\ SweepShape(s1)
        BY <1>1, <2>2 DEF SweepState, SweepShape
    <2>4. s2 \in SweepState /\ SweepShape(s2)
        BY <1>1, <2>2 DEF SweepState, SweepShape
    <2>5. sweep' = [sweep EXCEPT ![c] = s1] \/ sweep' = [sweep EXCEPT ![c] = s2]
        BY <2>1
    <2> HIDE DEF s1, s2
    <2>6. Moved
        BY <2>3, <2>4, <2>5, <1>2
    <2> QED
        BY <1>4, <2>6 DEF SweepTree, Moved, pool
<1>5. CASE SweepRemove(c)
    <2>1. PICK e \in sweep[c].todo :
              Remove(sweep[c].at, e) /\ sweep' = [sweep EXCEPT ![c].todo = @ \ {e}]
        BY <1>5 DEF SweepRemove
    <2> DEFINE s == [sweep[c] EXCEPT !.todo = @ \ {e}]
    <2>2. sweep[c].at \in Snapshots /\ e \in Entries
        BY <1>1, <1>5 DEF SweepRemove, SweepShape, SweepState
    <2>3. s \in SweepState /\ SweepShape(s)
        BY <1>1, <1>5 DEF SweepRemove, SweepState, SweepShape
    <2>4. sweep' = [sweep EXCEPT ![c] = s]
        BY <2>1
    <2> HIDE DEF s
    <2>5. Moved
        BY <2>3, <2>4, <1>2
    <2> QED
        BY <1>5, <2>1, <2>2, <2>5 DEF SweepRemove, Moved
<1>6. CASE SweepRemoved(c)
    <2> DEFINE s == [sweep[c] EXCEPT !.pc = "trees", !.at = Null, !.todo = {},
                                     !.trees = @ \ {sweep[c].at}]
    <2>1. s \in SweepState /\ SweepShape(s)
        BY <1>1 DEF SweepState, SweepShape
    <2>2. sweep' = [sweep EXCEPT ![c] = s] /\ UNCHANGED <<pool, fetcher>>
        BY <1>6 DEF SweepRemoved
    <2> HIDE DEF s
    <2> QED
        BY <2>1, <2>2, <1>2 DEF Moved, pool
<1>7. CASE SweepLinks(c)
    <2> DEFINE s == [sweep[c] EXCEPT !.pc = "links", !.links = {x \in Ids : link[x] # Null}]
    <2>1. s \in SweepState /\ SweepShape(s)
        BY <1>1 DEF SweepState, SweepShape
    <2>2. sweep' = [sweep EXCEPT ![c] = s] /\ UNCHANGED <<pool, fetcher>>
        BY <1>7 DEF SweepLinks
    <2> HIDE DEF s
    <2> QED
        BY <2>1, <2>2, <1>2 DEF Moved, pool
<1>8. CASE SweepLink(c)
    <2>1. PICK x \in sweep[c].links :
              sweep' = IF Dangling(x)
                       THEN [sweep EXCEPT ![c].pc = "unlink", ![c].at = x]
                       ELSE [sweep EXCEPT ![c].links = @ \ {x}]
        BY <1>8 DEF SweepLink
    <2> DEFINE s1 == [sweep[c] EXCEPT !.pc = "unlink", !.at = x]
               s2 == [sweep[c] EXCEPT !.links = @ \ {x}]
    <2>2. sweep[c].pc = "links" /\ x \in Ids
        BY <1>1, <1>8 DEF SweepLink, SweepState
    <2>3. s1 \in SweepState /\ SweepShape(s1)
        BY <1>1, <2>2 DEF SweepState, SweepShape
    <2>4. s2 \in SweepState /\ SweepShape(s2)
        BY <1>1, <2>2 DEF SweepState, SweepShape
    <2>5. sweep' = [sweep EXCEPT ![c] = s1] \/ sweep' = [sweep EXCEPT ![c] = s2]
        BY <2>1
    <2> HIDE DEF s1, s2
    <2>6. Moved
        BY <2>3, <2>4, <2>5, <1>2
    <2> QED
        BY <1>8, <2>6 DEF SweepLink, Moved, pool
<1>9. CASE SweepUnlink(c)
    <2> DEFINE s == [sweep[c] EXCEPT !.pc = "links", !.at = Null,
                                     !.links = @ \ {sweep[c].at}]
    <2>1. s \in SweepState /\ SweepShape(s)
        BY <1>1 DEF SweepState, SweepShape
    <2>2. sweep' = [sweep EXCEPT ![c] = s]
        BY <1>9 DEF SweepUnlink
    <2> HIDE DEF s
    <2>3. Moved
        BY <2>1, <2>2, <1>2
    <2>4. sweep[c].at \in Ids /\ link' = [link EXCEPT ![sweep[c].at] = Null]
        BY <1>1, <1>9 DEF SweepUnlink, SweepShape
    <2>5. WroteLink(sweep[c].at, Null)
        BY <1>1, <2>4, LinkWritten
    <2> QED
        BY <1>9, <2>3, <2>4, <2>5 DEF SweepUnlink, Moved
<1>10. CASE SweepEnd(c)
    <2>1. Resting \in SweepState /\ SweepShape(Resting)
        BY DEF Resting, SweepState, SweepShape
    <2> QED
        BY <1>10, <2>1, <1>2 DEF SweepEnd, Moved, pool
<1> QED
    BY <1>3, <1>4, <1>5, <1>6, <1>7, <1>8, <1>9, <1>10 DEF SweepStep

-----------------------------------------------------------------------------
\* The fields a fetch needs where it now is.
LEMMA WentInShape ==
    ASSUME ShapeInv, NEW f \in Fetchers,
           NEW pc, NEW build, NEW todo, NEW part, NEW used,
           Went(f, pc, build, todo, part, used),
           fetcher[f].pc # "idle",
           pc \in {"extract", "unpack", "index", "symlink"} => todo \subseteq Parts,
           pc \in {"unpack", "symlink"} => part \in Parts,
           pc \in {"verify", "extract", "unpack", "symlink", "open"} => build \in Builds
    PROVE  /\ fetcher' \in [Fetchers -> FetcherState]
           /\ \A g \in Fetchers : FetchShape(fetcher'[g])
<1>1. \A g \in Fetchers : FetchShape(fetcher[g])
    BY ShapeFacts
<1>2. FetchShape(fetcher'[f])
    BY <1>1 DEF Went, FetchShape
<1> QED
    BY <1>1, <1>2 DEF Went

LEMMA RestedInShape ==
    ASSUME ShapeInv, NEW f \in Fetchers, Rested(f)
    PROVE  /\ fetcher' \in [Fetchers -> FetcherState]
           /\ \A g \in Fetchers : FetchShape(fetcher'[g])
<1>1. FetchShape(Idle)
    BY DEF Idle, FetchShape
<1> QED
    BY <1>1, ShapeFacts DEF Rested

LEMMA ShapeFetch ==
    ASSUME ShapeInv, NEW f \in Fetchers, FetchStep(f)
    PROVE  /\ PoolTypes'
           /\ fetcher' \in [Fetchers -> FetcherState]
           /\ \A g \in Fetchers : FetchShape(fetcher'[g])
           /\ UNCHANGED <<published, sweep>>
<1> DEFINE Typed == PoolTypes'
           Shaped == /\ fetcher' \in [Fetchers -> FetcherState]
                     /\ \A g \in Fetchers : FetchShape(fetcher'[g])
<1>0. PICK r : r = fetcher[f]
    OBVIOUS
<1>1. PoolTypes /\ FetchShape(r) /\ r \in FetcherState
    BY <1>0, ShapeFacts, Zenon
<1>2. UNCHANGED <<published, sweep>>
    BY Zenon DEF FetchStep, CheckCache, DropStale, Dropped, Download, Verify, Unpack,
           Unpacked, FinishExtract, Index, Symlink, Stamp, Load, Open, Annotate,
           Annotated, pool
<1> SUFFICES Typed /\ Shaped
    BY <1>2
<1>3. UNCHANGED pool => Typed
    BY <1>1 DEF PoolTypes, pool
<1>4. Rested(f) => Shaped
    BY RestedInShape
<1>5. ASSUME r.pc # "idle", NEW pc, NEW build, NEW todo, NEW part, NEW used,
             Went(f, pc, build, todo, part, used),
             pc \in {"extract", "unpack", "index", "symlink"} => todo \subseteq Parts,
             pc \in {"unpack", "symlink"} => part \in Parts,
             pc \in {"verify", "extract", "unpack", "symlink", "open"} => build \in Builds
      PROVE  Shaped
    BY <1>0, <1>5, WentInShape
<1> HIDE DEF Shaped, Typed
<1>6. CASE CheckCache(f)
    BY <1>0, <1>1, <1>3, <1>5, <1>6, CheckCacheDoes
<1>7. CASE DropStale(f)
    <2>1. PICK e \in r.todo : /\ Remove(r.tree, e)
                              /\ Went(f, "drop", r.build, r.todo \ {e}, r.part, r.used)
        BY <1>0, <1>7, DropStaleDoes
    <2>2. r.pc = "drop" /\ UNCHANGED <<published, link>>
        BY <1>0, <1>7, DropStaleDoes
    <2>3. r.tree \in Trees /\ e \in Entries
        BY <1>1, <2>2 DEF FetchShape, FetcherState
    <2>4. Typed
        BY <1>1, <2>1, <2>2, <2>3, RemoveDoes DEF Typed, PoolTypes, WroteFile
    <2> QED
        BY <1>5, <2>1, <2>2, <2>4
<1>8. CASE Dropped(f)
    BY <1>0, <1>3, <1>5, <1>8, DroppedDoes
<1>9. CASE Download(f)
    <2>1. r.pc = "download" /\ UNCHANGED pool
        BY <1>0, <1>9, DownloadDoes
    <2>2. published[r.tree] \in Builds \cup {Null}
        BY <1>1, <2>1 DEF FetchShape, PoolTypes
    <2> QED
        BY <1>0, <1>3, <1>4, <1>5, <1>9, <2>1, <2>2, DownloadDoes
<1>10. CASE Verify(f)
    BY <1>0, <1>1, <1>3, <1>4, <1>5, <1>10, VerifyDoes DEF FetchShape
<1>11. CASE Unpack(f)
    <2>1. r.pc = "extract" /\ UNCHANGED <<published, stamp, link>>
        BY <1>0, <1>11, UnpackDoes
    <2>2. PICK p \in r.todo : /\ file' = [file EXCEPT ![r.tree][p] = f]
                              /\ Went(f, "unpack", r.build, r.todo, p, r.used)
        BY <1>0, <1>11, UnpackDoes
    <2>3. /\ r.tree \in Trees /\ r.todo \subseteq Parts /\ p \in Parts
          /\ r.build \in Builds /\ f \in Content
        BY <1>1, <2>1 DEF FetchShape, Content
    <2>4. Typed
        BY <1>1, <2>1, <2>2, <2>3, FileWritten DEF Typed, PoolTypes, WroteFile
    <2> QED
        BY <1>5, <2>1, <2>2, <2>3, <2>4
<1>12. CASE Unpacked(f)
    <2>1. /\ r.pc = "unpack" /\ UNCHANGED <<published, stamp, link>>
          /\ file' = IF file[r.tree][r.part] = f
                     THEN [file EXCEPT ![r.tree][r.part] = r.build] ELSE file
          /\ Went(f, "extract", r.build, r.todo \ {r.part}, Null, r.used)
        BY <1>0, <1>12, UnpackedDoes
    <2>2. /\ r.tree \in Trees /\ r.todo \subseteq Parts /\ r.part \in Parts
          /\ r.build \in Builds /\ r.build \in Content
        BY <1>1, <2>1 DEF FetchShape, Content
    <2>3. Typed
        BY <1>1, <2>1, <2>2, FileWritten DEF Typed, PoolTypes, WroteFile
    <2> QED
        BY <1>5, <2>1, <2>2, <2>3
<1>13. CASE FinishExtract(f)
    BY <1>0, <1>3, <1>4, <1>5, <1>13, FinishExtractDoes
<1>14. CASE Index(f)
    <2>1. r.pc = "index" /\ UNCHANGED <<published, file, stamp>>
        BY <1>0, <1>14, IndexDoes
    <2>2. r.todo \subseteq Parts
        BY <1>1, <2>1 DEF FetchShape
    <2>3. ASSUME UNCHANGED link,
                 \/ Went(f, "stamp", r.build, r.todo, r.part, r.used)
                 \/ \E p \in r.todo :
                       Went(f, "index", r.build, r.todo \ {p}, r.part, r.used)
          PROVE  Typed /\ Shaped
        <3>1. Typed
            BY <1>1, <2>1, <2>3 DEF Typed, PoolTypes
        <3> QED
            BY <1>5, <2>1, <2>2, <2>3, <3>1
    <2>4. ASSUME NEW p \in r.todo, NEW b \in Builds,
                 link' = [link EXCEPT ![<<p, b>>] = Null],
                 Went(f, "symlink", b, r.todo, p, r.used)
          PROVE  Typed /\ Shaped
        <3>1. <<p, b>> \in Ids
            BY <2>2 DEF Ids
        <3>2. WroteLink(<<p, b>>, Null)
            BY <1>1, <2>4, <3>1, LinkWritten
        <3>3. Typed
            BY <1>1, <2>1, <3>2 DEF Typed, PoolTypes, WroteLink
        <3> QED
            BY <1>5, <2>1, <2>2, <2>4, <3>3
    <2>5. \/ /\ UNCHANGED link
             /\ \/ Went(f, "stamp", r.build, r.todo, r.part, r.used)
                \/ \E p \in r.todo :
                      Went(f, "index", r.build, r.todo \ {p}, r.part, r.used)
          \/ \E p \in r.todo, b \in Builds :
                /\ link' = [link EXCEPT ![<<p, b>>] = Null]
                /\ Went(f, "symlink", b, r.todo, p, r.used)
        BY <1>0, <1>14, IndexDoes
    <2> QED
        BY <2>3, <2>4, <2>5
<1>15. CASE Symlink(f)
    <2>1. r.pc = "symlink" /\ UNCHANGED <<published, file, stamp>>
        BY <1>0, <1>15, SymlinkDoes
    <2>2. r.todo \subseteq Parts /\ <<r.part, r.build>> \in Ids /\ r.tree \in Trees
        BY <1>1, <2>1 DEF FetchShape, Ids
    <2>3. \/ link' = link
          \/ link' = [link EXCEPT ![<<r.part, r.build>>] = r.tree]
        BY <1>0, <1>15, SymlinkDoes
    <2>4. Typed
        BY <1>1, <2>1, <2>2, <2>3, LinkWritten DEF Typed, PoolTypes, WroteLink
    <2>5. \/ Went(f, "index", r.build, r.todo \ {r.part}, Null, r.used)
          \/ Went(f, "stamp", r.build, {}, Null, r.used)
        BY <1>0, <1>15, SymlinkDoes
    <2> QED
        BY <1>5, <2>1, <2>2, <2>4, <2>5
<1>16. CASE Stamp(f)
    <2>1. /\ UNCHANGED <<published, file, link>>
          /\ stamp' \in {stamp, [stamp EXCEPT ![r.tree] = "fresh"]}
        BY <1>0, <1>16, StampDoes
    <2>2. r.pc = "stamp" /\ Went(f, "load", r.build, r.todo, r.part, r.used)
        BY <1>0, <1>16, StampDoes
    <2>3. Typed
        BY <1>1, <2>1 DEF Typed, PoolTypes
    <2> QED
        BY <1>5, <2>2, <2>3
<1>17. CASE Load(f)
    BY <1>0, <1>3, <1>4, <1>5, <1>17, LoadDoes
<1>18. CASE Open(f)
    BY <1>0, <1>3, <1>4, <1>5, <1>18, OpenDoes
<1>19. CASE Annotate(f)
    <2>1. PICK used : /\ r.pc = "annotate" /\ UNCHANGED pool
                      /\ Went(f, "annotated", r.build, r.todo, r.part, used)
        BY <1>0, <1>19, AnnotateDoes
    <2> QED
        BY <1>3, <1>5, <2>1
<1>20. CASE Annotated(f)
    BY <1>3, <1>4, <1>20, GiveUpDoes DEF Annotated
<1> QED
    BY <1>6, <1>7, <1>8, <1>9, <1>10, <1>11, <1>12, <1>13, <1>14, <1>15,
       <1>16, <1>17, <1>18, <1>19, <1>20 DEF FetchStep

LEMMA ShapeCrash ==
    ASSUME ShapeInv, NEW f \in Fetchers, PoolCrash(f)
    PROVE  /\ fetcher' \in [Fetchers -> FetcherState]
           /\ \A g \in Fetchers : FetchShape(fetcher'[g])
           /\ sweep' \in [Collectors -> SweepState]
           /\ \A d \in Collectors : SweepShape(sweep'[d])
<1>1. Rested(f)
    BY GiveUpDoes DEF PoolCrash
<1>2. Resting \in SweepState /\ SweepShape(Resting)
    BY DEF Resting, SweepState, SweepShape
<1>3. /\ sweep \in [Collectors -> SweepState]
      /\ \A c \in Collectors : SweepShape(sweep[c])
    BY ShapeFacts
<1>4. sweep' = [c \in Collectors |-> IF c = f THEN Resting ELSE sweep[c]]
    BY DEF PoolCrash
<1>5. /\ sweep' \in [Collectors -> SweepState]
      /\ \A c \in Collectors : SweepShape(sweep'[c])
    BY <1>2, <1>3, <1>4
<1> QED
    BY <1>1, <1>5, RestedInShape

\* What PoolNext keeps, whoever takes the step.
LEMMA ShapePool ==
    ASSUME ShapeInv, PoolNext
    PROVE  /\ PoolTypes'
           /\ fetcher' \in [Fetchers -> FetcherState]
           /\ \A f \in Fetchers : FetchShape(fetcher'[f])
           /\ sweep' \in [Collectors -> SweepState]
           /\ \A c \in Collectors : SweepShape(sweep'[c])
<1> DEFINE Kept == /\ fetcher' \in [Fetchers -> FetcherState]
                   /\ \A f \in Fetchers : FetchShape(fetcher'[f])
                   /\ sweep' \in [Collectors -> SweepState]
                   /\ \A c \in Collectors : SweepShape(sweep'[c])
<1>1. /\ PoolTypes
      /\ fetcher \in [Fetchers -> FetcherState]
      /\ \A f \in Fetchers : FetchShape(fetcher[f])
      /\ sweep \in [Collectors -> SweepState]
      /\ \A c \in Collectors : SweepShape(sweep[c])
    BY ShapeFacts
<1>2. ASSUME NEW t \in Trees, Publish(t) \/ Retire(t) PROVE PoolTypes' /\ Kept
    <2>1. UNCHANGED <<file, link, fetcher, sweep>>
        BY <1>2 DEF Publish, Retire
    <2>2. /\ published' \in [Trees -> Builds \cup {Null}]
          /\ stamp' \in [Trees -> {"none", "fresh", "old"}]
        <3>1. CASE Publish(t)
            BY <1>1, <3>1 DEF Publish, PoolTypes
        <3>2. CASE Retire(t)
            BY <1>1, <3>2 DEF Retire, PoolTypes
        <3> QED
            BY <1>2, <3>1, <3>2
    <2> QED
        BY <1>1, <2>1, <2>2 DEF PoolTypes
<1>3. UNCHANGED pool => PoolTypes'
    BY <1>1 DEF PoolTypes, pool
<1>4. ASSUME NEW f \in Fetchers, Start(f) PROVE PoolTypes' /\ Kept
    <2>1. FetchShape(fetcher'[f])
        BY <1>4, StartDoes DEF FetchShape
    <2>2. sweep' = sweep
        BY <1>4 DEF Start
    <2> QED
        BY <1>1, <1>3, <1>4, <2>1, <2>2, StartDoes
<1>5. ASSUME NEW f \in Fetchers, FetchStep(f) PROVE PoolTypes' /\ Kept
    BY <1>1, <1>5, ShapeFetch
<1>6. ASSUME NEW f \in Fetchers, FetchError(f) PROVE PoolTypes' /\ Kept
    <2>1. GiveUp(f) /\ UNCHANGED <<pool, sweep>>
        BY <1>6 DEF FetchError
    <2> QED
        BY <1>1, <1>3, <2>1, GiveUpDoes, RestedInShape
<1>7. ASSUME NEW f \in Fetchers, PoolCrash(f) PROVE PoolTypes' /\ Kept
    BY <1>3, <1>7, ShapeCrash DEF PoolCrash
<1>8. ASSUME NEW c \in Collectors, SweepStep(c) PROVE PoolTypes' /\ Kept
    <2>1. /\ sweep' \in [Collectors -> SweepState]
          /\ \A d \in Collectors : SweepShape(sweep'[d])
          /\ UNCHANGED <<published, fetcher>>
          /\ \/ UNCHANGED pool
             \/ \E t \in Snapshots, e \in Entries : Remove(t, e) /\ UNCHANGED link
             \/ \E x \in Ids : WroteLink(x, Null) /\ UNCHANGED <<file, stamp>>
        BY <1>8, SweepDoes
    <2>2. Kept
        BY <1>1, <2>1
    <2>3. ASSUME NEW t \in Snapshots, NEW e \in Entries, Remove(t, e), UNCHANGED link
          PROVE  PoolTypes'
        <3>1. t \in Trees
            OBVIOUS
        <3>2. /\ stamp' \in [Trees -> {"none", "fresh", "old"}]
              /\ file' = file \/ \E p \in Parts : WroteFile(t, p, Null)
            BY <1>1, <2>3, <3>1, RemoveDoes
        <3> QED
            BY <1>1, <2>1, <2>3, <3>2 DEF PoolTypes, WroteFile
    <2>4. ASSUME NEW x \in Ids, WroteLink(x, Null), UNCHANGED <<file, stamp>>
          PROVE  PoolTypes'
        BY <1>1, <2>1, <2>4 DEF PoolTypes, WroteLink
    <2> QED
        BY <1>3, <2>1, <2>2, <2>3, <2>4
<1> QED
    BY <1>2, <1>4, <1>5, <1>6, <1>7, <1>8 DEF PoolNext

LEMMA ShapeStep == ShapeInv /\ [Next]_symbolVars => ShapeInv'
<1> SUFFICES ASSUME ShapeInv, [Next]_symbolVars PROVE ShapeInv'
    OBVIOUS
<1> DEFINE Asked == /\ request' \in [pc : {"rest", "resolved", "served"},
                                     asked : Ids \cup {Null}, content : Content]
                    /\ request'.pc # "rest" => request'.asked \in Ids
<1>1. /\ request \in [pc : {"rest", "resolved", "served"},
                       asked : Ids \cup {Null}, content : Content]
      /\ request.pc # "rest" => request.asked \in Ids
      /\ PoolTypes
    BY ShapeFacts DEF ShapeInv, SymbolsTypeOK
<1>2. ASSUME PoolNext, UNCHANGED request PROVE ShapeInv'
    BY <1>1, <1>2, ShapePool DEF ShapeInv, SymbolsTypeOK, PoolTypeOK, PoolTypes
<1>3. ASSUME UNCHANGED poolVars, Asked PROVE ShapeInv'
    BY <1>3 DEF ShapeInv, SymbolsTypeOK, PoolTypeOK, poolVars, pool
<1>4. ASSUME NEW x \in Served, Resolve(x) PROVE Asked
    <2>1. x \in Ids
        OBVIOUS
    <2> QED
        BY <1>1, <1>4, <2>1 DEF Resolve
<1>5. ASSUME Serve PROVE Asked
    <2>1. /\ request.asked \in Ids
          /\ \/ request' = NoFetch
             \/ /\ link[request.asked] # Null
                /\ request' = [request EXCEPT !.pc = "served",
                       !.content = file[link[request.asked]][request.asked[1]]]
        BY <1>1, <1>5 DEF Serve
    <2>2. link[request.asked] # Null
              => file[link[request.asked]][request.asked[1]] \in Content
        BY <1>1, <2>1 DEF PoolTypes, Ids
    <2>3. CASE request' = NoFetch
        BY <2>3 DEF NoFetch, Content
    <2>4. ASSUME NEW content \in Content,
                 request' = [request EXCEPT !.pc = "served", !.content = content]
          PROVE  Asked
        BY <1>1, <2>1, <2>4
    <2> QED
        BY <2>1, <2>2, <2>3, <2>4
<1>6. ASSUME Sent PROVE Asked
    BY <1>6 DEF Sent, NoFetch, Content
<1>7. CASE UNCHANGED symbolVars
    BY <1>1, <1>3, <1>7 DEF symbolVars
<1>8. (\E x \in Served : Resolve(x)) \/ Serve \/ Sent => UNCHANGED poolVars
    BY DEF Resolve, Serve, Sent
<1> HIDE DEF Asked
<1> QED
    BY <1>2, <1>3, <1>4, <1>5, <1>6, <1>7, <1>8 DEF Next

\* Every tree, link, fetch, sweep and download has its type: what symbols.rs
\* and api.rs read where they are is there.
THEOREM SymbolsTypeCorrect == Spec => []SymbolsTypeOK
<1>1. Spec => []ShapeInv
    BY ShapeInitially, ShapeStep, PTL DEF Spec
<1>2. ShapeInv => SymbolsTypeOK
    BY DEF ShapeInv
<1> QED
    BY <1>1, <1>2, PTL

-----------------------------------------------------------------------------
(***************************************************************************)
(* Releases: everything is at home in its tree.                            *)
(***************************************************************************)
\* An artifact source gets a new build only of a snapshot, and one that belongs
\* there.
LEMMA PublishedSteps ==
    ASSUME ShapeInv, PoolNext
    PROVE  UNCHANGED published \/ \E t \in Trees : Publish(t)
<1>1. ASSUME NEW f \in Fetchers, Start(f) \/ FetchError(f) \/ PoolCrash(f)
      PROVE  UNCHANGED published
    BY <1>1 DEF Start, FetchError, PoolCrash, pool
<1>2. ASSUME NEW t \in Trees, Retire(t) PROVE UNCHANGED published
    BY <1>2 DEF Retire
<1> QED
    BY <1>1, <1>2, ShapeFetch, SweepDoes DEF PoolNext

LEMMA HomeStays ==
    ASSUME ShapeInv, PublishedHome, PoolNext
    PROVE  /\ PublishedHome'
           /\ \A t \in Trees \ Snapshots : published'[t] = published[t]
           /\ \A t \in Trees : \A b : Home(b, t) => Home(b, t)'
<1>1. published \in [Trees -> Builds \cup {Null}]
    BY ShapeFacts DEF PoolTypes
<1>2. CASE UNCHANGED published
    BY <1>2 DEF PublishedHome, Home
<1>3. ASSUME NEW t \in Trees, Publish(t)
      PROVE  /\ PublishedHome'
             /\ \A u \in Trees \ Snapshots : published'[u] = published[u]
    <2>1. PICK b \in Builds : /\ TreeOf[b] = t /\ t \in Snapshots
                              /\ published' = [published EXCEPT ![t] = b]
        BY <1>3 DEF Publish
    <2> QED
        BY <1>1, <2>1 DEF PublishedHome
<1>4. ASSUME \A u \in Trees \ Snapshots : published'[u] = published[u]
      PROVE  \A t \in Trees : \A b : Home(b, t) => Home(b, t)'
    BY <1>4 DEF Home
<1> QED
    BY <1>2, <1>3, <1>4, PublishedSteps

LEMMA FilesFrame ==
    ASSUME FilesHome, UNCHANGED published,
           \/ file' = file
           \/ \E t \in Trees, p \in Parts, v \in Content :
                 WroteFile(t, p, v) /\ (v \in Builds => Home(v, t))
    PROVE  FilesHome'
<1>1. CASE file' = file
    BY <1>1 DEF FilesHome, Home
<1>2. ASSUME NEW t \in Trees, NEW p \in Parts, NEW v \in Content,
             WroteFile(t, p, v), v \in Builds => Home(v, t)
      PROVE  FilesHome'
    BY <1>2 DEF FilesHome, Home, WroteFile
<1> QED
    BY <1>1, <1>2

LEMMA LinksFrame ==
    ASSUME LinksHome, UNCHANGED published,
           \/ link' = link
           \/ \E x \in Ids, v \in Trees \cup {Null} :
                 WroteLink(x, v) /\ (v # Null => Home(x[2], v))
    PROVE  LinksHome'
<1>1. CASE link' = link
    BY <1>1 DEF LinksHome, Home
<1>2. ASSUME NEW x \in Ids, NEW v \in Trees \cup {Null},
             WroteLink(x, v), v # Null => Home(x[2], v)
      PROVE  LinksHome'
    BY <1>2 DEF LinksHome, Home, WroteLink
<1> QED
    BY <1>1, <1>2

LEMMA HomeFetch ==
    ASSUME HomeInv, NEW f \in Fetchers, FetchStep(f)
    PROVE  FilesHome' /\ LinksHome' /\ \A g \in Fetchers : FetchHome(fetcher'[g])
<1> DEFINE Fetched == \A g \in Fetchers : FetchHome(fetcher'[g])
<1> SUFFICES FilesHome' /\ LinksHome' /\ Fetched
    OBVIOUS
<1>0. PICK r : r = fetcher[f]
    OBVIOUS
<1>1. /\ ShapeInv /\ FilesHome /\ LinksHome
      /\ \A g \in Fetchers : FetchHome(fetcher[g])
    BY DEF HomeInv
<1>2. PoolTypes /\ FetchShape(r) /\ r \in FetcherState /\ FetchHome(r)
    BY <1>0, <1>1, ShapeFacts, Zenon
<1>3. UNCHANGED published
    BY <1>1, ShapeFetch, Zenon
<1>4. file' = file => FilesHome'
    BY <1>1, <1>3, FilesFrame
<1>5. link' = link => LinksHome'
    BY <1>1, <1>3, LinksFrame
<1>6. UNCHANGED pool => FilesHome' /\ LinksHome'
    BY <1>4, <1>5 DEF pool
<1>7. Rested(f) => Fetched
    BY <1>1 DEF Rested, FetchHome, Idle
<1>8. ASSUME NEW pc, NEW build, NEW todo, NEW part, NEW used,
             Went(f, pc, build, todo, part, used),
             pc \in {"verify", "extract", "unpack", "symlink"} => Home(build, r.tree),
             pc # "drop"
      PROVE  Fetched
    <2>1. FetchHome(fetcher'[f])
        BY <1>0, <1>8 DEF Went, FetchHome
    <2> QED
        BY <1>1, <1>8, <2>1 DEF Went
<1>9. ASSUME NEW build, NEW todo, NEW part, NEW used,
             Went(f, "drop", build, todo, part, used),
             r.tree \notin Snapshots => r.expected \notin {Null, published[r.tree]}
      PROVE  Fetched
    <2>1. FetchHome(fetcher'[f])
        BY <1>0, <1>9 DEF Went, FetchHome
    <2> QED
        BY <1>1, <1>9, <2>1 DEF Went
<1> HIDE DEF Fetched
<1>10. CASE CheckCache(f)
    <2>1. /\ r.pc = "check" /\ UNCHANGED pool
          /\ \/ Went(f, "stamp", r.build, r.todo, r.part, r.used)
             \/ Stale(f) /\ Went(f, "drop", r.build, Entries, r.part, r.used)
             \/ Went(f, "download", r.build, r.todo, r.part, r.used)
        BY <1>0, <1>1, <1>10, CheckCacheDoes
    <2>2. r.tree \in Trees /\ "vmlinux" \in Parts
        BY <1>2, <2>1 DEF FetchShape, Parts
    <2>3. Stale(f) /\ r.tree \notin Snapshots
              => r.expected \notin {Null, published[r.tree]}
        BY <1>0, <1>1, <2>2 DEF Stale, Vmlinux, FilesHome, Home
    <2> QED
        BY <1>6, <1>8, <1>9, <2>1, <2>3
<1>11. CASE DropStale(f)
    <2>1. PICK e \in r.todo : /\ Remove(r.tree, e)
                              /\ Went(f, "drop", r.build, r.todo \ {e}, r.part, r.used)
        BY <1>0, <1>1, <1>11, DropStaleDoes
    <2>2. r.pc = "drop" /\ UNCHANGED <<published, link>>
        BY <1>0, <1>1, <1>11, DropStaleDoes
    <2>3. r.tree \in Trees /\ e \in Entries /\ Null \in Content /\ Null \notin Builds
        BY <1>2, <2>2 DEF FetchShape, FetcherState, Content
    <2>4. file' = file \/ \E p \in Parts : WroteFile(r.tree, p, Null)
        BY <1>2, <2>1, <2>3, RemoveDoes
    <2>5. FilesHome'
        BY <1>1, <1>3, <2>3, <2>4, FilesFrame
    <2>6. r.tree \notin Snapshots => r.expected \notin {Null, published[r.tree]}
        BY <1>2, <2>2 DEF FetchHome
    <2> QED
        BY <1>5, <1>9, <2>1, <2>2, <2>5, <2>6
<1>12. CASE Dropped(f)
    <2>1. UNCHANGED pool /\ Went(f, "download", r.build, {}, r.part, r.used)
        BY <1>0, <1>1, <1>12, DroppedDoes
    <2> QED
        BY <1>6, <1>8, <2>1
<1>13. CASE Download(f)
    <2>1. /\ r.pc = "download" /\ UNCHANGED pool
          /\ \/ Rested(f)
             \/ /\ published[r.tree] # Null
                /\ Went(f, "verify", published[r.tree], r.todo, r.part, r.used)
        BY <1>0, <1>1, <1>13, DownloadDoes
    <2>2. published[r.tree] # Null => Home(published[r.tree], r.tree)
        BY <1>2, <2>1 DEF HomeInv, PublishedHome, Home, FetchShape, PoolTypes
    <2> QED
        BY <1>6, <1>7, <1>8, <2>1, <2>2
<1>14. CASE Verify(f)
    <2>1. /\ r.pc = "verify" /\ UNCHANGED pool
          /\ \/ Rested(f)
             \/ \E todo : Went(f, "extract", r.build, todo, r.part, r.used)
        BY <1>0, <1>1, <1>14, VerifyDoes
    <2>2. Home(r.build, r.tree)
        BY <1>2, <2>1 DEF FetchHome
    <2> QED
        BY <1>6, <1>7, <1>8, <2>1, <2>2
<1>15. CASE Unpack(f)
    <2>1. r.pc = "extract" /\ UNCHANGED <<published, stamp, link>>
        BY <1>0, <1>1, <1>15, UnpackDoes
    <2>2. PICK p \in r.todo : /\ file' = [file EXCEPT ![r.tree][p] = f]
                              /\ Went(f, "unpack", r.build, r.todo, p, r.used)
        BY <1>0, <1>1, <1>15, UnpackDoes
    <2>3. /\ r.tree \in Trees /\ p \in Parts /\ f \in Content /\ f \notin Builds
          /\ Home(r.build, r.tree)
        BY <1>2, <2>1 DEF FetchShape, FetchHome, Content
    <2>4. WroteFile(r.tree, p, f)
        BY <1>2, <2>2, <2>3, FileWritten
    <2>5. FilesHome'
        BY <1>1, <1>3, <2>3, <2>4, FilesFrame
    <2> QED
        BY <1>5, <1>8, <2>1, <2>2, <2>3, <2>5
<1>16. CASE Unpacked(f)
    <2>1. /\ r.pc = "unpack" /\ UNCHANGED <<published, stamp, link>>
          /\ file' = IF file[r.tree][r.part] = f
                     THEN [file EXCEPT ![r.tree][r.part] = r.build] ELSE file
          /\ Went(f, "extract", r.build, r.todo \ {r.part}, Null, r.used)
        BY <1>0, <1>1, <1>16, UnpackedDoes
    <2>2. /\ r.tree \in Trees /\ r.part \in Parts /\ r.build \in Content
          /\ Home(r.build, r.tree)
        BY <1>2, <2>1 DEF FetchShape, FetchHome, Content
    <2>3. file' = file \/ WroteFile(r.tree, r.part, r.build)
        BY <1>2, <2>1, <2>2, FileWritten
    <2>4. FilesHome'
        BY <1>1, <1>3, <2>2, <2>3, FilesFrame
    <2> QED
        BY <1>5, <1>8, <2>1, <2>2, <2>4
<1>17. CASE FinishExtract(f)
    <2>1. /\ UNCHANGED pool
          /\ \/ Rested(f)
             \/ \E todo : Went(f, "index", r.build, todo, r.part, r.used)
        BY <1>0, <1>1, <1>17, FinishExtractDoes
    <2> QED
        BY <1>6, <1>7, <1>8, <2>1
<1>18. CASE Index(f)
    <2>1. r.pc = "index" /\ UNCHANGED <<published, file, stamp>>
        BY <1>0, <1>1, <1>18, IndexDoes
    <2>2. r.todo \subseteq Parts /\ r.tree \in Trees
        BY <1>2, <2>1 DEF FetchShape
    <2>3. ASSUME NEW p \in r.todo, NEW b \in Builds, file[r.tree][p] = b,
                 link' = [link EXCEPT ![<<p, b>>] = Null],
                 Went(f, "symlink", b, r.todo, p, r.used)
          PROVE  LinksHome' /\ Fetched
        <3>1. <<p, b>> \in Ids
            BY <2>2 DEF Ids
        <3>2. WroteLink(<<p, b>>, Null)
            BY <1>2, <2>3, <3>1, LinkWritten
        <3>3. LinksHome'
            BY <1>1, <1>3, <3>1, <3>2, LinksFrame
        <3>4. Home(b, r.tree)
            BY <1>1, <2>2, <2>3 DEF FilesHome
        <3> QED
            BY <1>8, <2>3, <3>3, <3>4
    <2>4. \/ /\ UNCHANGED link
             /\ \/ Went(f, "stamp", r.build, r.todo, r.part, r.used)
                \/ \E p \in r.todo :
                      Went(f, "index", r.build, r.todo \ {p}, r.part, r.used)
          \/ \E p \in r.todo, b \in Builds :
                /\ file[r.tree][p] = b
                /\ link' = [link EXCEPT ![<<p, b>>] = Null]
                /\ Went(f, "symlink", b, r.todo, p, r.used)
        BY <1>0, <1>1, <1>18, IndexDoes
    <2> QED
        BY <1>4, <1>5, <1>8, <2>1, <2>3, <2>4
<1>19. CASE Symlink(f)
    <2>1. r.pc = "symlink" /\ UNCHANGED <<published, file, stamp>>
        BY <1>0, <1>1, <1>19, SymlinkDoes
    <2>2. <<r.part, r.build>> \in Ids /\ r.tree \in Trees /\ Home(r.build, r.tree)
        BY <1>2, <2>1 DEF FetchShape, FetchHome, Ids
    <2>3. link' = link \/ link' = [link EXCEPT ![<<r.part, r.build>>] = r.tree]
        BY <1>0, <1>1, <1>19, SymlinkDoes
    <2>4. link' = link \/ WroteLink(<<r.part, r.build>>, r.tree)
        BY <1>2, <2>2, <2>3, LinkWritten
    <2>5. LinksHome'
        BY <1>1, <1>3, <2>2, <2>4, LinksFrame
    <2>6. \/ Went(f, "index", r.build, r.todo \ {r.part}, Null, r.used)
          \/ Went(f, "stamp", r.build, {}, Null, r.used)
        BY <1>0, <1>1, <1>19, SymlinkDoes
    <2> QED
        BY <1>4, <1>8, <2>1, <2>5, <2>6
<1>20. CASE Stamp(f)
    <2>1. /\ UNCHANGED <<published, file, link>>
          /\ Went(f, "load", r.build, r.todo, r.part, r.used)
        BY <1>0, <1>1, <1>20, StampDoes
    <2> QED
        BY <1>4, <1>5, <1>8, <2>1
<1>21. CASE Load(f)
    <2>1. /\ UNCHANGED pool
          /\ Rested(f) \/ Went(f, "open", Vmlinux(f), r.todo, r.part, r.used)
        BY <1>0, <1>1, <1>21, LoadDoes
    <2> QED
        BY <1>6, <1>7, <1>8, <2>1
<1>22. CASE Open(f)
    <2>1. /\ UNCHANGED pool
          /\ Rested(f) \/ \E used : Went(f, "annotate", r.build, r.todo, r.part, used)
        BY <1>0, <1>1, <1>22, OpenDoes
    <2> QED
        BY <1>6, <1>7, <1>8, <2>1
<1>23. CASE Annotate(f)
    <2>1. PICK used : /\ UNCHANGED pool
                      /\ Went(f, "annotated", r.build, r.todo, r.part, used)
        BY <1>0, <1>1, <1>23, AnnotateDoes
    <2> QED
        BY <1>6, <1>8, <2>1
<1>24. CASE Annotated(f)
    <2>1. UNCHANGED pool /\ Rested(f)
        BY <1>1, <1>24, GiveUpDoes DEF Annotated
    <2> QED
        BY <1>6, <1>7, <2>1
<1> QED
    BY <1>10, <1>11, <1>12, <1>13, <1>14, <1>15, <1>16, <1>17, <1>18, <1>19,
       <1>20, <1>21, <1>22, <1>23, <1>24 DEF FetchStep

LEMMA HomeInitially == Init => HomeInv
<1> SUFFICES ASSUME Init PROVE HomeInv
    OBVIOUS
<1>1. ShapeInv
    BY ShapeInitially
<1>2. /\ \A t \in Trees, p \in Parts : file[t][p] = Null
      /\ \A x \in Ids : link[x] = Null
      /\ \A f \in Fetchers : fetcher[f] = Idle
      /\ PublishedHome /\ request = NoFetch
    BY DEF Init, PoolInit, PublishedHome
<1>3. \A f \in Fetchers : FetchHome(fetcher[f])
    BY <1>2 DEF FetchHome, Idle
<1> QED
    BY <1>1, <1>2, <1>3
    DEF HomeInv, FilesHome, LinksHome, ReleaseServedRight, NoFetch

\* What lies in the trees and on the way there, after any step of the pool.
LEMMA HomePool ==
    ASSUME HomeInv, PoolNext
    PROVE  /\ PublishedHome' /\ FilesHome' /\ LinksHome'
           /\ (\A f \in Fetchers : FetchHome(fetcher[f]))'
<1>1. /\ ShapeInv /\ PublishedHome /\ FilesHome /\ LinksHome
      /\ \A f \in Fetchers : FetchHome(fetcher[f])
    BY DEF HomeInv
<1>2. /\ PublishedHome'
      /\ \A t \in Trees \ Snapshots : published'[t] = published[t]
      /\ \A t \in Trees : \A b : Home(b, t) => Home(b, t)'
    BY <1>1, HomeStays
<1>3. /\ PoolTypes /\ PoolTypes'
      /\ \A f \in Fetchers : FetchShape(fetcher[f])
      /\ \A f \in Fetchers : FetchShape(fetcher'[f])
    BY <1>1, ShapeFacts, ShapePool
<1>4. ASSUME \A f \in Fetchers : FetchHome(fetcher'[f])
      PROVE  (\A f \in Fetchers : FetchHome(fetcher[f]))'
    BY <1>2, <1>3, <1>4 DEF FetchHome, FetchShape
<1> SUFFICES /\ FilesHome' /\ LinksHome'
             /\ \A f \in Fetchers : FetchHome(fetcher'[f])
    BY <1>2, <1>4
<1>5. ASSUME UNCHANGED <<file, link>> PROVE FilesHome' /\ LinksHome'
    BY <1>1, <1>2, <1>3, <1>5 DEF FilesHome, LinksHome, PoolTypes
<1>6. ASSUME UNCHANGED fetcher PROVE \A f \in Fetchers : FetchHome(fetcher'[f])
    BY <1>1, <1>6
<1>7. ASSUME NEW f \in Fetchers, Rested(f)
      PROVE  \A g \in Fetchers : FetchHome(fetcher'[g])
    BY <1>1, <1>7 DEF Rested, FetchHome, Idle
<1>8. ASSUME NEW t \in Trees, Publish(t) \/ Retire(t)
      PROVE  UNCHANGED <<file, link, fetcher>>
    BY <1>8 DEF Publish, Retire
<1>9. ASSUME NEW f \in Fetchers, Start(f)
      PROVE  /\ UNCHANGED <<file, link>>
             /\ \A g \in Fetchers : FetchHome(fetcher'[g])
    BY <1>1, <1>9, StartDoes DEF pool, FetchHome
<1>10. ASSUME NEW f \in Fetchers, FetchError(f) \/ PoolCrash(f)
       PROVE  Rested(f) /\ UNCHANGED <<file, link>>
    BY <1>1, <1>10, GiveUpDoes DEF FetchError, PoolCrash, pool
<1>11. ASSUME NEW c \in Collectors, SweepStep(c)
       PROVE  FilesHome' /\ LinksHome' /\ UNCHANGED fetcher
    <2>1. /\ UNCHANGED <<published, fetcher>>
          /\ \/ UNCHANGED pool
             \/ \E t \in Snapshots, e \in Entries : Remove(t, e) /\ UNCHANGED link
             \/ \E x \in Ids : WroteLink(x, Null) /\ UNCHANGED <<file, stamp>>
        BY <1>1, <1>11, SweepDoes
    <2>2. Null \notin Builds /\ Null \in Content
        BY DEF Content
    <2>3. ASSUME NEW t \in Snapshots, NEW e \in Entries, Remove(t, e), UNCHANGED link
          PROVE  FilesHome' /\ LinksHome'
        <3>1. t \in Trees
            OBVIOUS
        <3>2. file' = file \/ \E p \in Parts : WroteFile(t, p, Null)
            BY <1>3, <2>3, <3>1, RemoveDoes
        <3> QED
            BY <1>1, <2>1, <2>2, <2>3, <3>1, <3>2, FilesFrame, LinksFrame
    <2>4. ASSUME NEW x \in Ids, WroteLink(x, Null), UNCHANGED <<file, stamp>>
          PROVE  FilesHome' /\ LinksHome'
        BY <1>1, <2>1, <2>4, FilesFrame, LinksFrame
    <2>5. UNCHANGED pool => UNCHANGED <<file, link>>
        BY DEF pool
    <2> QED
        BY <1>5, <2>1, <2>3, <2>4, <2>5
<1>12. ASSUME NEW f \in Fetchers, FetchStep(f)
       PROVE  /\ FilesHome' /\ LinksHome'
              /\ \A g \in Fetchers : FetchHome(fetcher'[g])
    BY <1>12, HomeFetch
<1> QED
    BY <1>5, <1>6, <1>7, <1>8, <1>9, <1>10, <1>11, <1>12 DEF PoolNext

LEMMA HomeStep == HomeInv /\ [Next]_symbolVars => HomeInv'
<1> SUFFICES ASSUME HomeInv, [Next]_symbolVars PROVE HomeInv'
    OBVIOUS
<1> DEFINE Pooled == /\ PublishedHome /\ FilesHome /\ LinksHome
                     /\ \A f \in Fetchers : FetchHome(fetcher[f])
<1>1. ShapeInv /\ ShapeInv' /\ Pooled /\ ReleaseServedRight
    BY ShapeStep DEF HomeInv
<1> SUFFICES Pooled' /\ ReleaseServedRight'
    BY <1>1 DEF HomeInv
<1>2. CASE PoolNext /\ UNCHANGED request
    BY <1>1, <1>2, HomePool DEF ReleaseServedRight
<1>3. UNCHANGED poolVars => Pooled'
    BY <1>1 DEF PublishedHome, FilesHome, LinksHome, FetchHome, Home, poolVars, pool
<1>4. request.pc # "rest" => request.asked \in Ids
    BY <1>1 DEF ShapeInv
<1>5. request \in [pc : {"rest", "resolved", "served"}, asked : Ids \cup {Null},
                   content : Content]
    BY <1>1 DEF ShapeInv, SymbolsTypeOK
<1>6. ASSUME NEW x \in Served, Resolve(x) PROVE Pooled' /\ ReleaseServedRight'
    <2>1. request'.pc = "resolved" /\ UNCHANGED poolVars
        BY <1>5, <1>6 DEF Resolve
    <2> QED
        BY <1>3, <2>1 DEF ReleaseServedRight
<1>7. CASE Serve
    <2> DEFINE x == request.asked
               t == link[x]
               v == file[t][x[1]]
    <2>1. UNCHANGED poolVars /\ x \in Ids
        BY <1>4, <1>7 DEF Serve
    <2>2. CASE request' = NoFetch
        BY <1>3, <2>1, <2>2 DEF NoFetch, ReleaseServedRight
    <2>3. CASE /\ t # Null /\ v # Null
               /\ request' = [request EXCEPT !.pc = "served", !.content = v]
        <3>1. t \in Trees /\ x[1] \in Parts /\ x[2] \in Builds /\ v \in Content
            BY <1>1, <2>1, <2>3, ShapeFacts DEF PoolTypes, Ids
        <3>2. Home(x[2], t)
            BY <1>1, <2>1, <2>3 DEF LinksHome
        <3>3. v \in Builds => Home(v, t)
            BY <1>1, <3>1 DEF FilesHome
        <3>4. TreeOf[x[2]] \notin Snapshots => v \in {x[2]} \cup Fetchers
            BY <2>3, <3>1, <3>2, <3>3 DEF Home, Content
        <3>5. request'.asked = x /\ request'.content = v
            BY <1>5, <2>3
        <3> QED
            BY <1>3, <2>1, <3>4, <3>5 DEF ReleaseServedRight
    <2> QED
        BY <1>7, <2>2, <2>3 DEF Serve
<1>8. CASE Sent
    BY <1>3, <1>8 DEF Sent, NoFetch, ReleaseServedRight
<1>9. CASE UNCHANGED symbolVars
    BY <1>1, <1>3, <1>9 DEF symbolVars, ReleaseServedRight
<1> QED
    BY <1>2, <1>6, <1>7, <1>8, <1>9 DEF Next

LEMMA HomeAlways == Spec => []HomeInv
BY HomeInitially, HomeStep, PTL DEF Spec

\* Asked for a file of a release kernel, debuginfod sends that file, however many
\* decoders fetch and collect meanwhile (buildid.rs resolve and File::open follow
\* the link twice).
THEOREM ReleasesServed == Spec => []ReleaseServedRight
<1>1. HomeInv => ReleaseServedRight
    BY DEF HomeInv
<1> QED
    BY <1>1, HomeAlways, PTL

\* Only DropStale and the collector take files away, and the collector works in
\* snapshot trees.
LEMMA PinnedStep == HomeInv /\ [Next]_symbolVars => [DropIsForAnother]_symbolVars
<1> SUFFICES ASSUME HomeInv, Next PROVE DropIsForAnother
    BY DEF symbolVars
<1>1. /\ ShapeInv /\ FilesHome
      /\ \A f \in Fetchers : FetchHome(fetcher[f])
    BY DEF HomeInv
<1>2. PoolTypes /\ \A f \in Fetchers : FetchShape(fetcher[f])
    BY <1>1, ShapeFacts
<1> SUFFICES ASSUME NEW t \in Trees \ Snapshots, NEW p \in Parts,
                    file[t][p] \in Builds, file'[t][p] = Null
             PROVE  \E f \in Fetchers :
                        /\ fetcher[f].pc = "drop" /\ fetcher[f].tree = t
                        /\ fetcher[f].expected \notin {Null, file[t][p]}
    BY DEF DropIsForAnother
<1>3. file' # file /\ published[t] = file[t][p]
    BY <1>1 DEF FilesHome, Home
<1>4. ASSUME NEW c \in Collectors, SweepStep(c) PROVE FALSE
    <2>1. PICK u \in Snapshots, e \in Entries : Remove(u, e)
        BY <1>1, <1>3, <1>4, SweepDoes DEF pool
    <2>2. file' = [file EXCEPT ![u][e] = Null]
        BY <1>3, <2>1 DEF Remove
    <2> QED
        BY <1>2, <1>3, <2>2 DEF PoolTypes
<1>5. PICK f \in Fetchers : DropStale(f) \/ Unpack(f) \/ Unpacked(f)
    <2>1. \A f \in Fetchers :
              FetchStep(f) => DropStale(f) \/ Unpack(f) \/ Unpacked(f)
        BY <1>3, Zenon DEF FetchStep, CheckCache, Dropped, Download, Verify, FinishExtract,
           Index, Symlink, Stamp, Load, Open, Annotate, Annotated, pool
    <2>2. \A f \in Fetchers : ~Start(f) /\ ~FetchError(f) /\ ~PoolCrash(f)
        BY <1>3 DEF Start, FetchError, PoolCrash, pool
    <2>3. /\ \A u \in Trees : ~Publish(u) /\ ~Retire(u)
          /\ \A x \in Served : ~Resolve(x)
          /\ ~Serve /\ ~Sent
        BY <1>3 DEF Publish, Retire, Resolve, Serve, Sent, poolVars, pool
    <2> QED
        BY <1>4, <2>1, <2>2, <2>3 DEF Next, PoolNext
<1>6. PICK r : r = fetcher[f]
    OBVIOUS
<1>7. FetchShape(r) /\ FetchHome(r)
    BY <1>1, <1>2, <1>6
<1>8. CASE DropStale(f)
    <2>1. PICK e \in r.todo : /\ Remove(r.tree, e)
                              /\ Went(f, "drop", r.build, r.todo \ {e}, r.part, r.used)
        BY <1>1, <1>6, <1>8, DropStaleDoes
    <2>2. r.pc = "drop"
        BY <1>1, <1>6, <1>8, DropStaleDoes
    <2>3. file' = [file EXCEPT ![r.tree][e] = Null]
        BY <1>3, <2>1 DEF Remove
    <2>4. r.tree = t
        BY <1>2, <1>3, <2>3 DEF PoolTypes
    <2> QED
        BY <1>3, <1>6, <1>7, <2>2, <2>4 DEF FetchHome
<1>9. CASE Unpack(f)
    <2>1. r.pc = "extract"
        BY <1>1, <1>6, <1>9, UnpackDoes
    <2>2. PICK q \in r.todo : file' = [file EXCEPT ![r.tree][q] = f]
        BY <1>1, <1>6, <1>9, UnpackDoes
    <2>3. WroteFile(r.tree, q, f) /\ f # Null
        BY <1>2, <1>7, <2>1, <2>2, FileWritten DEF FetchShape, Content
    <2> QED
        BY <2>3 DEF WroteFile
<1>10. CASE Unpacked(f)
    <2>1. /\ r.pc = "unpack"
          /\ file' = [file EXCEPT ![r.tree][r.part] = r.build]
        BY <1>1, <1>3, <1>6, <1>10, UnpackedDoes
    <2>2. WroteFile(r.tree, r.part, r.build) /\ r.build # Null
        BY <1>2, <1>7, <2>1, FileWritten DEF FetchShape, Content
    <2> QED
        BY <2>2 DEF WroteFile
<1> QED
    BY <1>5, <1>8, <1>9, <1>10

\* "releases are pinned": a file of a release goes only for a report of another
\* kernel under its version, and never by the collector.
THEOREM ReleasesPinned == Spec => ReleasePinned
<1>1. Spec => [][DropIsForAnother]_symbolVars
    BY HomeAlways, PinnedStep, PTL DEF Spec
<1> QED
    BY <1>1 DEF ReleasePinned

-----------------------------------------------------------------------------
(***************************************************************************)
(* One decoder: what it annotates a report with.                           *)
(***************************************************************************)
OneDecoder == \A f, g \in Fetchers : f = g

Uses(r, p) == \A x \in r.used : x[1] = p /\ r.expected # Null => x[2] = r.expected
Opened(r) == r.pc = "open" => OnlyOf(r.tree, {"vmlinux"}, r.build)

\* Files go or are nobody's yet, or stay what they are.
Shrank ==
    \A t \in Trees, p \in Parts :
        file'[t][p] = file[t][p] \/ file'[t][p] \notin Builds

LEMMA OnlyShrinks ==
    ASSUME Shrank, NEW t \in Trees, NEW P \in SUBSET Parts, NEW b, OnlyOf(t, P, b)
    PROVE  OnlyOf(t, P, b)'
BY DEF OnlyOf, Shrank

LEMMA RemoveShrinks ==
    ASSUME PoolTypes, NEW t \in Trees, NEW e \in Entries, Remove(t, e)
    PROVE  Shrank
<1>1. Null \notin Builds
    OBVIOUS
<1> QED
    BY <1>1, RemoveDoes DEF Shrank, WroteFile

LEMMA SweepShrinks ==
    ASSUME ShapeInv, NEW c \in Collectors, SweepStep(c)
    PROVE  Shrank /\ UNCHANGED <<published, fetcher>>
<1>1. PoolTypes
    BY ShapeFacts
<1>2. file' = file => Shrank
    BY DEF Shrank
<1>3. ASSUME NEW t \in Snapshots, NEW e \in Entries, Remove(t, e) PROVE Shrank
    <2>1. t \in Trees
        OBVIOUS
    <2> QED
        BY <1>1, <1>3, <2>1, RemoveShrinks
<1>4. UNCHANGED pool => file' = file
    BY DEF pool
<1> QED
    BY <1>2, <1>3, <1>4, SweepDoes

LEMMA KernelFetch ==
    ASSUME KernelInv, NEW f \in Fetchers, FetchStep(f)
    PROVE  /\ fetcher'[f].pc = "open"
                => file' = file /\ OnlyOf(fetcher'[f].tree, {"vmlinux"}, fetcher'[f].build)
           /\ Uses(fetcher'[f], "vmlinux")
<1> DEFINE Goal == /\ fetcher'[f].pc = "open"
                        => /\ file' = file
                           /\ OnlyOf(fetcher'[f].tree, {"vmlinux"}, fetcher'[f].build)
                   /\ Uses(fetcher'[f], "vmlinux")
<1> SUFFICES Goal
    OBVIOUS
<1>0. PICK r : r = fetcher[f]
    OBVIOUS
<1>1. ShapeInv /\ Opened(r) /\ Uses(r, "vmlinux")
    BY <1>0 DEF KernelInv, OpenedIsLoaded, KernelLocationsRight, UsedIsReported,
       Opened, Uses
<1>2. Rested(f) => Goal
    BY DEF Rested, Idle, Uses
<1>3. ASSUME NEW pc, NEW build, NEW todo, NEW part,
             Went(f, pc, build, todo, part, r.used), pc # "open"
      PROVE  Goal
    BY <1>0, <1>1, <1>3 DEF Went, Uses
<1> HIDE DEF Goal
<1>4. CASE CheckCache(f)
    BY <1>0, <1>1, <1>3, <1>4, CheckCacheDoes
<1>5. CASE DropStale(f)
    BY <1>0, <1>1, <1>3, <1>5, DropStaleDoes
<1>6. CASE Dropped(f)
    BY <1>0, <1>1, <1>3, <1>6, DroppedDoes
<1>7. CASE Download(f)
    BY <1>0, <1>1, <1>2, <1>3, <1>7, DownloadDoes
<1>8. CASE Verify(f)
    BY <1>0, <1>1, <1>2, <1>3, <1>8, VerifyDoes
<1>9. CASE Unpack(f)
    BY <1>0, <1>1, <1>3, <1>9, UnpackDoes
<1>10. CASE Unpacked(f)
    BY <1>0, <1>1, <1>3, <1>10, UnpackedDoes
<1>11. CASE FinishExtract(f)
    BY <1>0, <1>1, <1>2, <1>3, <1>11, FinishExtractDoes
<1>12. CASE Index(f)
    BY <1>0, <1>1, <1>3, <1>12, IndexDoes
<1>13. CASE Symlink(f)
    BY <1>0, <1>1, <1>3, <1>13, SymlinkDoes
<1>14. CASE Stamp(f)
    BY <1>0, <1>1, <1>3, <1>14, StampDoes
<1>15. CASE Load(f)
    <2>1. /\ UNCHANGED pool
          /\ \/ Rested(f)
             \/ Went(f, "open", Vmlinux(f), r.todo, r.part, r.used)
        BY <1>0, <1>1, <1>15, LoadDoes
    <2>2. CASE Went(f, "open", Vmlinux(f), r.todo, r.part, r.used)
        BY <1>0, <1>1, <2>1, <2>2 DEF Goal, Went, OnlyOf, Vmlinux, Uses, pool
    <2> QED
        BY <1>2, <2>1, <2>2
<1>16. CASE Open(f)
    <2> DEFINE used == {<<"vmlinux", b>> : b \in {r.build, Vmlinux(f)}}
    <2>1. /\ r.pc = "open"
          /\ \/ Rested(f)
             \/ /\ Vmlinux(f) \in Builds /\ Matches(f)
                /\ Went(f, "annotate", r.build, r.todo, r.part, used)
        BY <1>0, <1>1, <1>16, OpenDoes
    <2>2. CASE /\ Vmlinux(f) \in Builds /\ Matches(f)
               /\ Went(f, "annotate", r.build, r.todo, r.part, used)
        <3>1. Vmlinux(f) = r.build /\ r.expected \in {Null, r.build}
            BY <1>0, <1>1, <2>1, <2>2 DEF Opened, OnlyOf, Vmlinux, Matches
        <3>2. \A x \in used : x[2] = r.build
            BY <3>1
        <3> HIDE DEF used
        <3> QED
            BY <1>0, <2>2, <3>1, <3>2 DEF Goal, Went, Uses
    <2> QED
        BY <1>2, <2>1, <2>2
<1>17. CASE Annotate(f)
    <2> DEFINE m == file[r.tree]["module"]
               used == r.used \cup {<<"module", b>> : b \in {m} \cap Builds}
    <2>1. Went(f, "annotated", r.build, r.todo, r.part, used)
        BY <1>0, <1>1, <1>17, AnnotateDoes
    <2>2. \A x \in used : x[1] = "vmlinux" => x \in r.used
        OBVIOUS
    <2> HIDE DEF used
    <2> QED
        BY <1>0, <1>1, <2>1, <2>2 DEF Goal, Went, Uses
<1>18. CASE Annotated(f)
    BY <1>1, <1>2, <1>18, GiveUpDoes DEF Annotated
<1> QED
    BY <1>4, <1>5, <1>6, <1>7, <1>8, <1>9, <1>10, <1>11, <1>12, <1>13, <1>14,
       <1>15, <1>16, <1>17, <1>18 DEF FetchStep

LEMMA KernelStep ==
    ASSUME OneDecoder
    PROVE  KernelInv /\ [Next]_symbolVars => KernelInv'
<1> SUFFICES ASSUME KernelInv, [Next]_symbolVars PROVE KernelInv'
    OBVIOUS
<1>1. /\ ShapeInv /\ ShapeInv' /\ PoolTypes
      /\ \A f \in Fetchers : FetchShape(fetcher[f])
      /\ \A f \in Fetchers : Opened(fetcher[f]) /\ Uses(fetcher[f], "vmlinux")
    BY ShapeStep, ShapeFacts
    DEF KernelInv, OpenedIsLoaded, KernelLocationsRight, UsedIsReported, Opened, Uses
<1>2. ASSUME NEW f \in Fetchers,
             fetcher'[f].pc = "open"
                => file' = file /\ OnlyOf(fetcher'[f].tree, {"vmlinux"}, fetcher'[f].build),
             Uses(fetcher'[f], "vmlinux")
      PROVE  KernelInv'
    <2>1. \A g \in Fetchers : g = f
        BY DEF OneDecoder
    <2>2. OpenedIsLoaded'
        BY <1>2, <2>1 DEF OpenedIsLoaded, OnlyOf
    <2>3. KernelLocationsRight'
        BY <1>2, <2>1 DEF KernelLocationsRight, UsedIsReported, Uses
    <2> QED
        BY <1>1, <2>2, <2>3 DEF KernelInv
<1>3. ASSUME NEW f \in Fetchers, Rested(f) PROVE KernelInv'
    BY <1>2, <1>3 DEF Rested, Idle, Uses
<1>4. ASSUME NEW f \in Fetchers, Start(f) PROVE KernelInv'
    BY <1>1, <1>2, <1>4, StartDoes DEF Uses
<1>5. ASSUME NEW f \in Fetchers, FetchStep(f) PROVE KernelInv'
    BY <1>2, <1>5, KernelFetch
<1>6. ASSUME NEW f \in Fetchers, FetchError(f) \/ PoolCrash(f) PROVE KernelInv'
    BY <1>1, <1>3, <1>6, GiveUpDoes DEF FetchError, PoolCrash
<1>7. ASSUME Shrank, UNCHANGED fetcher PROVE KernelInv'
    <2>1. ASSUME NEW f \in Fetchers, fetcher[f].pc = "open"
          PROVE  OnlyOf(fetcher[f].tree, {"vmlinux"}, fetcher[f].build)'
        <3>1. fetcher[f].tree \in Trees /\ {"vmlinux"} \in SUBSET Parts
            BY <1>1, <2>1 DEF FetchShape, Parts
        <3>2. OnlyOf(fetcher[f].tree, {"vmlinux"}, fetcher[f].build)
            BY <1>1, <2>1 DEF Opened
        <3> QED
            BY <1>7, <3>1, <3>2 DEF OnlyOf, Shrank
    <2> QED
        BY <1>1, <1>7, <2>1
        DEF KernelInv, OpenedIsLoaded, KernelLocationsRight, UsedIsReported, Uses
<1>8. file' = file => Shrank
    BY DEF Shrank
<1>9. ASSUME \/ \E t \in Trees : Publish(t) \/ Retire(t)
             \/ (\E x \in Served : Resolve(x)) \/ Serve \/ Sent
             \/ UNCHANGED symbolVars
      PROVE  file' = file /\ UNCHANGED fetcher
    BY <1>9 DEF Publish, Retire, Resolve, Serve, Sent, symbolVars, poolVars, pool
<1>10. ASSUME NEW c \in Collectors, SweepStep(c) PROVE KernelInv'
    BY <1>1, <1>7, <1>10, SweepShrinks
<1> QED
    BY <1>4, <1>5, <1>6, <1>7, <1>8, <1>9, <1>10 DEF Next, PoolNext

\* With one decoder, frames of the kernel proper get no location of another
\* build than the reported one, whatever is published, collected, left half
\* unpacked or given up: ensure_kernel's check and Symbolizer::new's suffice.
THEOREM KernelFramesRight == ASSUME OneDecoder PROVE Spec => []KernelLocationsRight
<1>1. Init => KernelInv
    <2>1. Init => \A f \in Fetchers : fetcher[f] = Idle
        BY DEF Init, PoolInit
    <2> QED
        BY <2>1, ShapeInitially
        DEF KernelInv, OpenedIsLoaded, KernelLocationsRight, UsedIsReported, Idle
<1>2. Spec => []KernelInv
    BY <1>1, KernelStep, PTL DEF Spec
<1>3. KernelInv => KernelLocationsRight
    BY DEF KernelInv
<1> QED
    BY <1>2, <1>3, PTL

LEMMA ShrankCoherent ==
    ASSUME ShapeInv, Shrank, NEW f \in Fetchers, FetchCoherent(fetcher[f]),
           fetcher'[f] = fetcher[f]
    PROVE  FetchCoherent(fetcher[f])'
<1>1. PICK r : r = fetcher[f]
    OBVIOUS
<1>2. FetchShape(r) /\ FetchCoherent(r)
    BY <1>1, ShapeFacts
<1>3. FetchCoherent(r)'
    BY <1>2 DEF FetchCoherent, FetchShape, OnlyOf, Shrank
<1> QED
    BY <1>1, <1>3

LEMMA ShrankTrees ==
    ASSUME Shrank, NEW t \in Trees, Coherent(t)
    PROVE  Coherent(t)'
BY DEF Coherent, OnlyOf, Shrank

\* The decoder's step keeps its tree of one build, or on the way to it.
LEMMA ModuleFetch ==
    ASSUME OneDecoder, Builds \ SelfBuilt \subseteq WithModule,
           ModuleInv, NEW f \in Fetchers, FetchStep(f)
    PROVE  /\ FetchCoherent(fetcher[f])'
           /\ Uses(fetcher'[f], "module")
           /\ \A t \in Trees : ~Unpacking(fetcher'[f], t) => Coherent(t)'
<1> DEFINE Goal == /\ FetchCoherent(fetcher[f])'
                   /\ Uses(fetcher'[f], "module")
                   /\ \A t \in Trees : ~Unpacking(fetcher'[f], t) => Coherent(t)'
<1> SUFFICES Goal
    OBVIOUS
<1>0. PICK r : r = fetcher[f]
    OBVIOUS
<1>s. PICK s : s = fetcher'[f]
    OBVIOUS
<1>1. /\ ShapeInv /\ FetchCoherent(r) /\ Uses(r, "module")
      /\ published \in [Trees -> (Builds \ SelfBuilt) \cup {Null}]
    BY <1>0 DEF ModuleInv, ModuleLocationsRight, UsedIsReported, Uses
<1>2. PoolTypes /\ FetchShape(r)
    BY <1>0, <1>1, ShapeFacts, Zenon
<1>3. \A t \in Trees : ~Unpacking(r, t) => Coherent(t)
    BY <1>0 DEF ModuleInv, TreesCoherent, OneDecoder
<1>4. Uses(s, "module") /\ FetchCoherent(s)'
      /\ (\A t \in Trees : ~Unpacking(s, t) => Coherent(t)') => Goal
    BY <1>s
<1>5. file' = file => Shrank
    BY DEF Shrank
<1>6. ASSUME Shrank, \A t \in Trees : Unpacking(r, t) => Unpacking(s, t) \/ Coherent(t)
      PROVE  \A t \in Trees : ~Unpacking(s, t) => Coherent(t)'
    BY <1>3, <1>6, ShrankTrees
<1>7. ASSUME UNCHANGED pool, Rested(f), r.pc \notin {"extract", "unpack"} \/ r.todo = {}
      PROVE  Goal
    <2>1. s = Idle
        BY <1>s, <1>7 DEF Rested
    <2>2. Uses(s, "module") /\ FetchCoherent(s)'
        BY <2>1 DEF Idle, Uses, FetchCoherent
    <2>3. ASSUME NEW t \in Trees, Unpacking(r, t) PROVE Coherent(t)
        <3>1. r.tree = t /\ r.build \in Builds /\ OnlyOf(r.tree, Parts \ r.todo, r.build)
            BY <1>1, <1>2, <2>3 DEF Unpacking, FetchCoherent, FetchShape
        <3>2. r.todo = {}
            BY <1>7, <2>3 DEF Unpacking
        <3>3. Parts \ r.todo = Parts
            BY <3>2
        <3> QED
            BY <3>1, <3>3 DEF Coherent
    <2> QED
        BY <1>4, <1>5, <1>6, <1>7, <2>2, <2>3 DEF pool
<1>8. ASSUME NEW pc, NEW build, NEW todo, NEW part,
             Went(f, pc, build, todo, part, r.used)
      PROVE  /\ Uses(s, "module") /\ s.pc = pc /\ s.build = build /\ s.todo = todo
             /\ s.part = part /\ s.tree = r.tree /\ s.expected = r.expected
    BY <1>0, <1>s, <1>1, <1>8 DEF Went, Uses
<1>9. ASSUME Shrank, r.pc \notin {"extract", "unpack"},
             NEW pc, NEW build, NEW todo, NEW part,
             Went(f, pc, build, todo, part, r.used),
             pc \notin {"verify", "extract", "unpack", "open", "annotate"}
      PROVE  Goal
    <2>1. Uses(s, "module") /\ s.pc = pc
        BY <1>8, <1>9
    <2>2. FetchCoherent(s)'
        BY <1>9, <2>1 DEF FetchCoherent
    <2> QED
        BY <1>4, <1>6, <1>9, <2>1, <2>2 DEF Unpacking
<1> HIDE DEF Goal
<1>10. CASE CheckCache(f)
    <2>1. /\ r.pc = "check" /\ UNCHANGED pool
          /\ \/ Went(f, "stamp", r.build, r.todo, r.part, r.used)
             \/ Went(f, "drop", r.build, Entries, r.part, r.used)
             \/ Went(f, "download", r.build, r.todo, r.part, r.used)
        BY <1>0, <1>1, <1>10, CheckCacheDoes
    <2> QED
        BY <1>5, <1>9, <2>1 DEF pool
<1>11. CASE DropStale(f)
    <2>1. PICK e \in r.todo : /\ Remove(r.tree, e)
                              /\ Went(f, "drop", r.build, r.todo \ {e}, r.part, r.used)
        BY <1>0, <1>1, <1>11, DropStaleDoes
    <2>2. r.pc = "drop"
        BY <1>0, <1>1, <1>11, DropStaleDoes
    <2>3. r.tree \in Trees /\ e \in Entries
        BY <1>0, <1>1, <1>2, <2>2, ShapeFacts DEF FetchShape, FetcherState
    <2>4. Shrank
        BY <1>2, <2>1, <2>3, RemoveShrinks
    <2> QED
        BY <1>9, <2>1, <2>2, <2>4
<1>12. CASE Dropped(f)
    <2>1. /\ r.pc = "drop" /\ UNCHANGED pool
          /\ Went(f, "download", r.build, {}, r.part, r.used)
        BY <1>0, <1>1, <1>12, DroppedDoes
    <2> QED
        BY <1>5, <1>9, <2>1 DEF pool
<1>13. CASE Download(f)
    <2>1. /\ r.pc = "download" /\ UNCHANGED pool
          /\ \/ Rested(f)
             \/ /\ published[r.tree] # Null
                /\ Went(f, "verify", published[r.tree], r.todo, r.part, r.used)
        BY <1>0, <1>1, <1>13, DownloadDoes
    <2>2. CASE /\ published[r.tree] # Null
               /\ Went(f, "verify", published[r.tree], r.todo, r.part, r.used)
        <3>1. published[r.tree] \notin SelfBuilt
            BY <1>1, <1>2, <2>1, <2>2 DEF FetchShape
        <3>2. Uses(s, "module") /\ s.pc = "verify" /\ s.build = published[r.tree]
            BY <1>8, <2>2
        <3>3. FetchCoherent(s)'
            BY <3>1, <3>2 DEF FetchCoherent
        <3> QED
            BY <1>4, <1>5, <1>6, <2>1, <3>2, <3>3 DEF Unpacking, pool
    <2> QED
        BY <1>7, <2>1, <2>2
<1>14. CASE Verify(f)
    <2>1. /\ r.pc = "verify" /\ UNCHANGED pool
          /\ \/ Rested(f)
             \/ \E todo : /\ r.build \in WithModule => todo = Parts
                          /\ Went(f, "extract", r.build, todo, r.part, r.used)
        BY <1>0, <1>1, <1>14, VerifyDoes
    <2>2. r.build \in WithModule /\ r.build \notin SelfBuilt
        BY <1>1, <1>2, <2>1 DEF FetchCoherent, FetchShape
    <2>3. CASE Went(f, "extract", r.build, Parts, r.part, r.used)
        <3>1. /\ Uses(s, "module") /\ s.pc = "extract" /\ s.build = r.build
              /\ s.todo = Parts
            BY <1>8, <2>3
        <3>2. FetchCoherent(s)'
            BY <2>2, <3>1 DEF FetchCoherent, OnlyOf
        <3> QED
            BY <1>4, <1>5, <1>6, <2>1, <3>1, <3>2 DEF Unpacking, pool
    <2> QED
        BY <1>7, <2>1, <2>2, <2>3
<1>15. CASE Unpack(f)
    <2>1. r.pc = "extract"
        BY <1>0, <1>1, <1>15, UnpackDoes
    <2>2. PICK p \in r.todo : /\ file' = [file EXCEPT ![r.tree][p] = f]
                              /\ Went(f, "unpack", r.build, r.todo, p, r.used)
        BY <1>0, <1>1, <1>15, UnpackDoes
    <2>3. r.tree \in Trees /\ p \in Parts /\ f \in Content /\ f \notin Builds
        BY <1>2, <2>1 DEF FetchShape, Content
    <2>4. WroteFile(r.tree, p, f)
        BY <1>2, <2>2, <2>3, FileWritten
    <2>5. Shrank /\ file'[r.tree][p] \notin Builds
        BY <2>3, <2>4 DEF WroteFile, Shrank
    <2>6. /\ Uses(s, "module") /\ s.pc = "unpack" /\ s.build = r.build
          /\ s.todo = r.todo /\ s.part = p /\ s.tree = r.tree
        BY <1>8, <2>2
    <2>7. OnlyOf(r.tree, Parts \ r.todo, r.build)'
        BY <1>1, <2>1, <2>3, <2>5 DEF FetchCoherent, OnlyOf, Shrank
    <2>8. FetchCoherent(s)'
        BY <1>1, <2>1, <2>5, <2>6, <2>7 DEF FetchCoherent
    <2>9. \A t \in Trees : Unpacking(r, t) => Unpacking(s, t)
        BY <2>6 DEF Unpacking
    <2> QED
        BY <1>4, <1>6, <2>5, <2>6, <2>8, <2>9
<1>16. CASE Unpacked(f)
    <2>1. /\ r.pc = "unpack"
          /\ file' = IF file[r.tree][r.part] = f
                     THEN [file EXCEPT ![r.tree][r.part] = r.build] ELSE file
          /\ Went(f, "extract", r.build, r.todo \ {r.part}, Null, r.used)
        BY <1>0, <1>1, <1>16, UnpackedDoes
    <2>2. /\ r.tree \in Trees /\ r.part \in Parts /\ r.build \in Content
          /\ file[r.tree][r.part] \notin Builds /\ r.part \in r.todo
          /\ OnlyOf(r.tree, Parts \ r.todo, r.build) /\ r.build \notin SelfBuilt
        BY <1>1, <1>2, <2>1 DEF FetchShape, FetchCoherent, Content
    <2>3. file' = file \/ WroteFile(r.tree, r.part, r.build)
        BY <1>2, <2>1, <2>2, FileWritten
    <2>4. /\ Uses(s, "module") /\ s.pc = "extract" /\ s.build = r.build
          /\ s.todo = r.todo \ {r.part} /\ s.tree = r.tree
        BY <1>8, <2>1
    <2>5. OnlyOf(r.tree, Parts \ (r.todo \ {r.part}), r.build)'
        BY <2>2, <2>3 DEF OnlyOf, WroteFile
    <2>6. FetchCoherent(s)'
        BY <2>2, <2>4, <2>5 DEF FetchCoherent
    <2>7. ASSUME NEW t \in Trees, ~Unpacking(s, t) PROVE Coherent(t)'
        <3>1. t # r.tree
            BY <2>4, <2>7 DEF Unpacking
        <3>2. \A p \in Parts : file'[t][p] = file[t][p]
            BY <2>3, <3>1 DEF WroteFile
        <3>3. Coherent(t)
            BY <1>3, <3>1 DEF Unpacking
        <3> QED
            BY <3>2, <3>3 DEF Coherent, OnlyOf
    <2> QED
        BY <1>4, <2>4, <2>6, <2>7
<1>17. CASE FinishExtract(f)
    <2>1. /\ r.pc = "extract" /\ r.todo = {} /\ UNCHANGED pool
          /\ \/ Rested(f)
             \/ \E todo : Went(f, "index", r.build, todo, r.part, r.used)
        BY <1>0, <1>1, <1>17, FinishExtractDoes
    <2>2. ASSUME NEW todo, Went(f, "index", r.build, todo, r.part, r.used) PROVE Goal
        <3>1. Uses(s, "module") /\ s.pc = "index"
            BY <1>8, <2>2
        <3>2. FetchCoherent(s)'
            BY <3>1 DEF FetchCoherent
        <3>3. \A t \in Trees : Unpacking(r, t) => Coherent(t)
            BY <1>1, <1>2, <2>1 DEF Unpacking, Coherent, FetchCoherent, FetchShape
        <3> QED
            BY <1>4, <1>5, <1>6, <2>1, <3>1, <3>2, <3>3 DEF pool
    <2> QED
        BY <1>7, <2>1, <2>2
<1>18. CASE Index(f)
    <2>1. /\ r.pc = "index" /\ file' = file
          /\ \E build, todo, part : \E pc \in {"symlink", "index", "stamp"} :
                Went(f, pc, build, todo, part, r.used)
        BY <1>0, <1>1, <1>18, IndexDoes
    <2> QED
        BY <1>5, <1>9, <2>1
<1>19. CASE Symlink(f)
    <2>1. /\ r.pc = "symlink" /\ file' = file
          /\ \/ Went(f, "index", r.build, r.todo \ {r.part}, Null, r.used)
             \/ Went(f, "stamp", r.build, {}, Null, r.used)
        BY <1>0, <1>1, <1>19, SymlinkDoes
    <2> QED
        BY <1>5, <1>9, <2>1
<1>20. CASE Stamp(f)
    <2>1. /\ r.pc = "stamp" /\ file' = file
          /\ Went(f, "load", r.build, r.todo, r.part, r.used)
        BY <1>0, <1>1, <1>20, StampDoes
    <2> QED
        BY <1>5, <1>9, <2>1
<1>21. CASE Load(f)
    <2>1. /\ r.pc = "load" /\ UNCHANGED pool
          /\ \/ Rested(f)
             \/ /\ Vmlinux(f) \in Builds
                /\ Went(f, "open", Vmlinux(f), r.todo, r.part, r.used)
        BY <1>0, <1>1, <1>21, LoadDoes
    <2>2. CASE /\ Vmlinux(f) \in Builds
               /\ Went(f, "open", Vmlinux(f), r.todo, r.part, r.used)
        <3>1. /\ Uses(s, "module") /\ s.pc = "open" /\ s.build = Vmlinux(f)
              /\ s.tree = r.tree
            BY <1>8, <2>2
        <3>2. r.tree \in Trees /\ "vmlinux" \in Parts
            BY <1>2, <2>1 DEF FetchShape, Parts
        <3>3. Coherent(r.tree)
            BY <1>3, <2>1, <3>2 DEF Unpacking
        <3>4. OnlyOf(r.tree, Parts, Vmlinux(f))
            BY <1>0, <2>2, <3>2, <3>3 DEF Coherent, OnlyOf, Vmlinux
        <3>5. FetchCoherent(s)'
            BY <2>1, <3>1, <3>4 DEF FetchCoherent, OnlyOf, pool
        <3> QED
            BY <1>4, <1>5, <1>6, <2>1, <3>1, <3>5 DEF Unpacking, pool
    <2> QED
        BY <1>7, <2>1, <2>2
<1>22. CASE Open(f)
    <2> DEFINE used == {<<"vmlinux", b>> : b \in {r.build, Vmlinux(f)}}
    <2>1. /\ r.pc = "open" /\ UNCHANGED pool
          /\ \/ Rested(f)
             \/ Matches(f) /\ Went(f, "annotate", r.build, r.todo, r.part, used)
        BY <1>0, <1>1, <1>22, OpenDoes
    <2>2. CASE Matches(f) /\ Went(f, "annotate", r.build, r.todo, r.part, used)
        <3>1. \A x \in used : x[1] # "module"
            OBVIOUS
        <3> HIDE DEF used
        <3>2. /\ Uses(s, "module") /\ s.pc = "annotate" /\ s.build = r.build
              /\ s.tree = r.tree /\ s.expected = r.expected
            BY <1>0, <1>s, <2>2, <3>1 DEF Went, Uses
        <3>3. OnlyOf(r.tree, Parts, r.build) /\ r.expected \in {Null, r.build}
            BY <1>0, <1>1, <2>1, <2>2 DEF FetchCoherent, Matches
        <3>4. FetchCoherent(s)'
            BY <2>1, <3>2, <3>3 DEF FetchCoherent, OnlyOf, pool
        <3> QED
            BY <1>4, <1>5, <1>6, <2>1, <3>2, <3>4 DEF Unpacking, pool
    <2> QED
        BY <1>7, <2>1, <2>2
<1>23. CASE Annotate(f)
    <2> DEFINE m == file[r.tree]["module"]
               used == r.used \cup {<<"module", b>> : b \in {m} \cap Builds}
    <2>1. /\ r.pc = "annotate" /\ UNCHANGED pool
          /\ Went(f, "annotated", r.build, r.todo, r.part, used)
        BY <1>0, <1>1, <1>23, AnnotateDoes
    <2>2. /\ m \in Builds => m = r.build
          /\ r.expected \in {Null, r.build}
        BY <1>1, <2>1 DEF FetchCoherent, OnlyOf, Parts
    <2>3. \A x \in used : x \in r.used \/ x[2] = r.build
        BY <2>2
    <2> HIDE DEF used, m
    <2>4. Uses(s, "module") /\ s.pc = "annotated"
        BY <1>0, <1>s, <1>1, <2>1, <2>2, <2>3 DEF Went, Uses
    <2>5. FetchCoherent(s)'
        BY <2>4 DEF FetchCoherent
    <2> QED
        BY <1>4, <1>5, <1>6, <2>1, <2>4, <2>5 DEF Unpacking, pool
<1>24. CASE Annotated(f)
    <2>1. r.pc = "annotated" /\ UNCHANGED pool /\ Rested(f)
        BY <1>0, <1>1, <1>24, GiveUpDoes DEF Annotated, At
    <2> QED
        BY <1>7, <2>1
<1> QED
    BY <1>10, <1>11, <1>12, <1>13, <1>14, <1>15, <1>16, <1>17, <1>18, <1>19,
       <1>20, <1>21, <1>22, <1>23, <1>24 DEF FetchStep

LEMMA ModuleStep ==
    ASSUME OneDecoder, Builds \ SelfBuilt \subseteq WithModule,
           "crash" \notin PoolFaults, "error" \notin PoolFaults
    PROVE  ModuleInv /\ [Next]_symbolVars => ModuleInv'
<1> SUFFICES ASSUME ModuleInv, [Next]_symbolVars PROVE ModuleInv'
    OBVIOUS
<1> DEFINE Pub == published \in [Trees -> (Builds \ SelfBuilt) \cup {Null}]
<1>1. /\ ShapeInv /\ ShapeInv' /\ Pub /\ TreesCoherent
      /\ \A f \in Fetchers : FetchCoherent(fetcher[f]) /\ Uses(fetcher[f], "module")
    BY ShapeStep DEF ModuleInv, ModuleLocationsRight, UsedIsReported, Uses
<1>2. ASSUME NEW f \in Fetchers, UNCHANGED published,
             FetchCoherent(fetcher[f])', Uses(fetcher'[f], "module"),
             \A t \in Trees : ~Unpacking(fetcher'[f], t) => Coherent(t)'
      PROVE  ModuleInv'
    <2>1. \A g \in Fetchers : g = f
        BY DEF OneDecoder
    <2>2. TreesCoherent'
        BY <1>2 DEF TreesCoherent
    <2>3. ModuleLocationsRight' /\ (\A g \in Fetchers : FetchCoherent(fetcher[g]))'
        BY <1>2, <2>1 DEF ModuleLocationsRight, UsedIsReported, Uses
    <2> QED
        BY <1>1, <1>2, <2>2, <2>3 DEF ModuleInv
<1>3. ASSUME NEW f \in Fetchers, FetchStep(f) PROVE ModuleInv'
    <2>1. UNCHANGED published
        BY <1>1, <1>3, ShapeFetch, Zenon
    <2> QED
        BY <1>2, <1>3, <2>1, ModuleFetch
<1>4. ASSUME NEW f \in Fetchers, Start(f) PROVE ModuleInv'
    <2>1. /\ UNCHANGED pool /\ fetcher[f].pc = "idle"
          /\ fetcher'[f].pc = "check" /\ fetcher'[f].used = {}
        BY <1>1, <1>4, StartDoes DEF Start, At
    <2>2. FetchCoherent(fetcher[f])' /\ Uses(fetcher'[f], "module")
        BY <2>1 DEF FetchCoherent, Uses
    <2>3. \A t \in Trees : Coherent(t)
        BY <1>1, <2>1 DEF TreesCoherent, Unpacking, OneDecoder
    <2>4. \A t \in Trees : Coherent(t)'
        BY <2>1, <2>3 DEF Coherent, OnlyOf, pool
    <2> QED
        BY <1>2, <2>1, <2>2, <2>4 DEF pool
<1>5. ASSUME Shrank, Pub', UNCHANGED fetcher PROVE ModuleInv'
    <2>1. TreesCoherent'
        BY <1>1, <1>5, ShrankTrees DEF TreesCoherent
    <2>2. (\A f \in Fetchers : FetchCoherent(fetcher[f]))'
        BY <1>1, <1>5, ShrankCoherent
    <2>3. ModuleLocationsRight'
        BY <1>1, <1>5 DEF ModuleLocationsRight, UsedIsReported, Uses
    <2> QED
        BY <1>1, <1>5, <2>1, <2>2, <2>3 DEF ModuleInv
<1>6. file' = file => Shrank
    BY DEF Shrank
<1>7. ASSUME \/ \E t \in Trees : Retire(t)
             \/ (\E x \in Served : Resolve(x)) \/ Serve \/ Sent
             \/ UNCHANGED symbolVars
      PROVE  UNCHANGED <<file, published, fetcher>>
    BY <1>7 DEF Retire, Resolve, Serve, Sent, symbolVars, poolVars, pool
<1>8. ASSUME NEW t \in Trees, Publish(t) PROVE Pub' /\ UNCHANGED <<file, fetcher>>
    BY <1>1, <1>8 DEF Publish
<1>9. ASSUME NEW c \in Collectors, SweepStep(c) PROVE ModuleInv'
    BY <1>1, <1>5, <1>9, SweepShrinks
<1>10. \A f \in Fetchers : ~FetchError(f) /\ ~PoolCrash(f)
    BY DEF FetchError, PoolCrash
<1> QED
    BY <1>1, <1>3, <1>4, <1>5, <1>6, <1>7, <1>8, <1>9, <1>10 DEF Next, PoolNext

\* With one decoder whose fetches neither fail nor are cut off, of builds that all
\* have the module, frames of modules get no location of another build either,
\* although nothing checks a module's build-id: a tree is removed, also only in
\* part, and written whole before it is read.
THEOREM ModuleFramesRight ==
    ASSUME OneDecoder, Builds \ SelfBuilt \subseteq WithModule,
           "crash" \notin PoolFaults, "error" \notin PoolFaults
    PROVE  Spec => []ModuleLocationsRight
<1>1. ASSUME Init PROVE ModuleInv
    <2>1. /\ \A f \in Fetchers : fetcher[f] = Idle
          /\ \A t \in Trees, p \in Parts : file[t][p] = Null
          /\ published \in [Trees -> (Builds \ SelfBuilt) \cup {Null}]
        BY <1>1 DEF Init, PoolInit
    <2>2. TreesCoherent
        BY <2>1 DEF TreesCoherent, Coherent, OnlyOf
    <2>3. \A f \in Fetchers : FetchCoherent(fetcher[f])
        BY <2>1 DEF FetchCoherent, Idle
    <2>4. ModuleLocationsRight
        BY <2>1 DEF ModuleLocationsRight, UsedIsReported, Idle
    <2> QED
        BY <1>1, <2>1, <2>2, <2>3, <2>4, ShapeInitially DEF ModuleInv
<1>2. Spec => []ModuleInv
    BY <1>1, ModuleStep, PTL DEF Spec
<1>3. ModuleInv => ModuleLocationsRight
    BY DEF ModuleInv
<1> QED
    BY <1>2, <1>3, PTL
=============================================================================
