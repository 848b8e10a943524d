----------------------------- MODULE Visibility -----------------------------
(***************************************************************************)
(* Publishing reports (api.rs set_visibility and its callers there and in  *)
(* web.rs): a SELECT and an UPDATE with an await between them, for any     *)
(* number of requests of the owner and of developers at the same time.     *)
(***************************************************************************)
EXTENDS DeviceLogin

CONSTANTS
    Reports,
    OwnerOf,        \* report.device_id: a key, or Null for an anonymous one
    Slugs,          \* random slugs still to be handed out (a bound)
    Changes         \* publish and unpublish requests at one time (a bound)

ASSUME OwnerAssumption == OwnerOf \in [Reports -> Keys \cup {Null}]
ASSUME SlugsAssumption == Null \notin Slugs \cup Reports

VARIABLES
    row,            \* report: visibility and publish_slug
    change,         \* set_visibility, per request
    drawn,          \* history: the slugs new_secret has made
    links           \* history: the links that were answered

visVars == <<row, change, drawn, links>>
accessVars == <<loginVars, visVars>>

NoChange == [pc |-> "idle", report |-> Null, public |-> FALSE, slug |-> Null,
             by |-> Null]

VisibilityTypeOK ==
    /\ LoginTypeOK
    /\ row \in [Reports -> [public : BOOLEAN, slug : Slugs \cup {Null}]]
    /\ change \in [Changes ->
          [pc : {"idle", "select", "update", "answer"},
           report : Reports \cup {Null}, public : BOOLEAN,
           slug : Slugs \cup {Null}, by : Keys \cup Users \cup {Null}]]
    /\ drawn \subseteq Slugs
    /\ links \subseteq Reports \X Slugs

Init ==
    /\ LoginInit
    /\ row = [i \in Reports |-> [public |-> FALSE, slug |-> Null]]
    /\ change = [c \in Changes |-> NoChange]
    /\ drawn = {} /\ links = {}

\* Mutation: owned_report without "AND device_id = ?".
MayChangeAny(holder, i) == TRUE
\* A device its own reports (owned_report), a developer any.
MayChange(holder, i) == holder \in Users \/ OwnerOf[i] = holder

Begin(c) ==
    /\ change[c] = NoChange
    /\ \E s \in Secrets, i \in Reports, public \in BOOLEAN :
          /\ Valid(s)
          /\ MayChange(ticket[s].holder, i)
          /\ change' = [change EXCEPT ![c] =
                 [pc |-> "select", report |-> i, public |-> public,
                  slug |-> Null, by |-> ticket[s].holder]]
    /\ UNCHANGED <<loginVars, row, drawn, links>>

KeptSlug(i) == row[i].slug

Select(c) ==
    LET kept == KeptSlug(change[c].report) IN
    /\ change[c].pc = "select"
    /\ \E s \in IF ~change[c].public THEN {Null}
                ELSE IF kept # Null THEN {kept} ELSE Slugs \ drawn :
          /\ change' = [change EXCEPT ![c].pc = "update", ![c].slug = s]
          /\ drawn' = drawn \cup ({s} \ {Null})
    /\ UNCHANGED <<loginVars, row, links>>

\* Mutation: unpublish leaves the slug in its column.
NewRowKeepsSlug(c) ==
    [public |-> change[c].public,
     slug |-> IF change[c].public THEN change[c].slug ELSE KeptSlug(change[c].report)]
NewRow(c) == [public |-> change[c].public, slug |-> change[c].slug]

Update(c) ==
    LET i == change[c].report IN
    /\ change[c].pc = "update"
    /\ row' = [row EXCEPT ![i] = NewRow(c)]
    /\ change' = [change EXCEPT ![c].pc = "answer"]
    /\ UNCHANGED <<loginVars, drawn, links>>

Answer(c) ==
    /\ change[c].pc = "answer"
    /\ links' = links \cup
          (IF change[c].public THEN {<<change[c].report, change[c].slug>>} ELSE {})
    /\ change' = [change EXCEPT ![c] = NoChange]
    /\ UNCHANGED <<loginVars, row, drawn>>

\* The client hangs up and axum drops the handler: the row may have changed and
\* nobody is told.
ChangeAborted(c) ==
    /\ change[c] # NoChange
    /\ change' = [change EXCEPT ![c] = NoChange]
    /\ UNCHANGED <<loginVars, row, drawn, links>>

Visibility(c) ==
    Begin(c) \/ Select(c) \/ Update(c) \/ Answer(c) \/ ChangeAborted(c)

\* GET /r/<slug>: public_report's WHERE.
Serves(s, i) == row[i].public /\ row[i].slug = s

\* The server stops and starts again: all its requests are gone.
ServerRestart ==
    /\ Restart
    /\ change' = [c \in Changes |-> NoChange]
    /\ UNCHANGED <<row, drawn, links>>

Next ==
    \/ LoginStep /\ UNCHANGED visVars
    \/ ServerRestart
    \/ \E c \in Changes : Visibility(c)

Spec == Init /\ [][Next]_accessVars

\* The cleanup task ticks on, and the database does not fail for ever.
FairSpec ==
    /\ Spec
    /\ WF_accessVars(CleanupTick /\ UNCHANGED visVars)
    /\ SF_accessVars(DeleteSessions /\ UNCHANGED visVars)
    /\ SF_accessVars(DeleteTokens /\ UNCHANGED visVars)

-----------------------------------------------------------------------------
\* However requests interleave, a report is public if and only if it has a slug,
\* and a slug leads to the report it was drawn for, or nowhere.
LinksLeadHome ==
    /\ \A i \in Reports : row[i].public <=> row[i].slug # Null
    /\ \A l \in links, i \in Reports : Serves(l[2], i) => i = l[1]

\* A report changes its visibility for its owner and for developers only.
ChangeStep ==
    \A i \in Reports :
        row'[i] # row[i] =>
            \E c \in Changes :
                /\ change[c].report = i
                /\ change[c].by \in Users \cup ({OwnerOf[i]} \ {Null})
ChangedByOwner == [][ChangeStep]_accessVars
=============================================================================
