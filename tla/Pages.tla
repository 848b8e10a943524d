------------------------------- MODULE Pages -------------------------------
(***************************************************************************)
(* The pages of ucrs-server over the pipeline (web.rs report_view,         *)
(* public_report, group_detail; api.rs my_report_detail): they change      *)
(* nothing, but they are made of several reads, of rows and then of files  *)
(* or of other rows, with the programs going on in between.                *)
(***************************************************************************)
EXTENDS Pipeline

\* The page that is being made: one, since pages do not disturb each other.
VARIABLE page

pagesVars == <<pipelineVars, page>>

\* "row" and "text" are steps of a report's page, "counts" and "list" of a
\* group's; found is the report, then its text, or the reports of the list.
\* settled is history: the reports the first statement found with a job done.
NoPage == [pc |-> "idle", group |-> Null, settled |-> {}, found |-> {}]

PagesInit == Init /\ page = NoPage

\* SELECT r.* ... WHERE r.id = ?, or by publish_slug: a row or a 404.
SelectReport(i) ==
    /\ page.pc = "idle"
    /\ report[i].state # "absent"
    /\ page' = [pc |-> "row", group |-> report[i].group, found |-> {i},
                settled |-> {k \in {i} : Finished(k)}]

\* read_to_string(...).unwrap_or_default(): no file is an empty text, and so is
\* one that is being written again.
ReadText ==
    /\ page.pc = "row"
    /\ page' = [page EXCEPT !.pc = "text",
                            !.found = {decoded[i] : i \in @} \ {Null}]

InGroup(g) == {i \in Ids : report[i].group = g}

\* The row of crash_group, and in a later statement COUNT(*), both or neither.
CountGroup(g) ==
    /\ page.pc = "idle"
    /\ g \in groups
    /\ page' = [NoPage EXCEPT !.pc = "counts", !.group = g,
                              !.settled = {i \in InGroup(g) : Finished(i)}]

\* Three breakdowns and the reports: statements over the same WHERE, the first 20
\* rows of each (an instance has fewer).
ListGroup ==
    /\ page.pc = "counts"
    /\ page' = [page EXCEPT !.pc = "list", !.found = InGroup(page.group)]

SendPage ==
    /\ page.pc \in {"text", "list"}
    /\ page' = NoPage

PageStep ==
    \/ \E i \in Ids : SelectReport(i)
    \/ \E g \in Payloads : CountGroup(g)
    \/ ReadText \/ ListGroup \/ SendPage

PagesNext ==
    \/ Next /\ UNCHANGED page
    \/ PageStep /\ UNCHANGED pipelineVars

PagesSpec == PagesInit /\ [][PagesNext]_pagesVars

-----------------------------------------------------------------------------
\* What was done when a page's first statement ran is shown whole, whatever is
\* decoded while the page is made: a report's page has the complete text that its
\* group was made of, although row and text are read apart and the file is
\* truncated whenever a decoder writes it; and a group's page still lists the
\* reports that it counted.
DoneIsShown ==
    page.settled # {} =>
        /\ page.pc = "text" => page.found = {page.group}
        /\ page.pc = "list" => page.settled \subseteq page.found
=============================================================================
