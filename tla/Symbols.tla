------------------------------- MODULE Symbols -------------------------------
(***************************************************************************)
(* The symbol pool beside its reader: the debuginfod endpoint of           *)
(* ucrs-server (api.rs, ucrs-common buildid.rs) follows the links that the *)
(* decoder's fetches and its garbage collection rewrite.                   *)
(***************************************************************************)
EXTENDS SymbolPool

CONSTANT Served             \* the files that are asked for (a bound)
ASSUME ServedAssumption == Served \subseteq Ids

VARIABLE request            \* GET /buildid/<id>/debuginfo, one at a time

symbolVars == <<poolVars, request>>

NoFetch == [pc |-> "rest", asked |-> Null, content |-> Null]

SymbolsTypeOK ==
    /\ PoolTypeOK
    /\ request \in [pc : {"rest", "resolved", "served"},
                    asked : Ids \cup {Null}, content : Content]

\* buildid::resolve: the link is there and its target exists; else a 404.
Resolve(x) ==
    /\ request.pc = "rest"
    /\ link[x] # Null /\ file[link[x]][x[1]] # Null
    /\ request' = [request EXCEPT !.pc = "resolved", !.asked = x]
    /\ UNCHANGED poolVars

\* File::open follows the link once more; what it opens is what is sent.
Serve ==
    LET x == request.asked IN
    /\ request.pc = "resolved"
    /\ request' = IF link[x] # Null /\ file[link[x]][x[1]] # Null
                  THEN [request EXCEPT !.pc = "served",
                                       !.content = file[link[x]][x[1]]]
                  ELSE NoFetch
    /\ UNCHANGED poolVars

Sent ==
    /\ request.pc = "served"
    /\ request' = NoFetch
    /\ UNCHANGED poolVars

Init == PoolInit /\ request = NoFetch

Next ==
    \/ PoolNext /\ UNCHANGED request
    \/ \E x \in Served : Resolve(x)
    \/ Serve \/ Sent

Spec == Init /\ [][Next]_symbolVars

\* The collector of a running decoder ticks on, and so does its worker loop.
FairSpec ==
    /\ Spec
    /\ \A c \in Collectors : WF_symbolVars(SweepStep(c) /\ UNCHANGED request)
    /\ \A f \in Fetchers : WF_symbolVars(FetchStep(f) /\ UNCHANGED request)

-----------------------------------------------------------------------------
\* What is used of a part for a report whose kernel is known is that kernel's.
UsedIsReported(p) ==
    \A f \in Fetchers : \A x \in fetcher[f].used :
        x[1] = p /\ fetcher[f].expected # Null => x[2] = fetcher[f].expected

\* Frames of the kernel proper get no location from another build than the
\* reported one: ensure_kernel's check, the refetch and Symbolizer::new's own
\* check, with the collector at work, failing fetches and restarts.
KernelLocationsRight == UsedIsReported("vmlinux")

\* The same for frames of modules, which nothing checks at all: they are right
\* because a tree is removed whole before another build is put into it.
ModuleLocationsRight == UsedIsReported("module")

\* Asked for a file of a release kernel, debuginfod sends that file, though
\* possibly not yet all of it: a release tree only ever holds one build.
ReleaseServedRight ==
    request.pc = "served" /\ TreeOf[request.asked[2]] \notin Snapshots =>
        request.content \in {request.asked[2]} \cup Fetchers

\* "releases are pinned" (config.rs): the collector leaves them alone, and a file
\* of a release goes only for a report of another kernel under its version.
DropIsForAnother ==
    \A t \in Trees \ Snapshots, p \in Parts :
        file[t][p] \in Builds /\ file'[t][p] = Null =>
            \E f \in Fetchers :
                /\ fetcher[f].pc = "drop" /\ fetcher[f].tree = t
                /\ fetcher[f].expected \notin {Null, file[t][p]}
ReleasePinned == [][DropIsForAnother]_symbolVars

\* A snapshot tree that is out of use is removed, if no report asks for it.
UnusedSnapshotGoes ==
    \A t \in Snapshots : stamp[t] = "old" ~> stamp[t] # "old"

\* A link whose target is gone is removed, or its target is back.
LeadsSomewhere(x) == link[x] # Null => file[link[x]][x[1]] # Null
DanglingLinkGoes == \A x \in Ids : ~LeadsSomewhere(x) ~> LeadsSomewhere(x)

-----------------------------------------------------------------------------
(***************************************************************************)
(* What the documents say and the code does not do.                        *)
(***************************************************************************)
\* README.md: "stale snapshot symbols can never produce wrong source locations".
NoWrongLocations == KernelLocationsRight /\ ModuleLocationsRight
=============================================================================
