----------------------------- MODULE ReportLife -----------------------------
(***************************************************************************)
(* What the report pipeline promises its users: the life of a report,      *)
(* without requests, jobs, retries, files and SQL.  A report that was      *)
(* received stays readable or decodable until it is closed with its text,  *)
(* or given up and past its retention; and then it is over.                *)
(***************************************************************************)
CONSTANTS Reports, Texts, None

VARIABLES
    stage,          \* how far each report has come
    payloads,       \* the reports whose payload is kept
    text            \* the text each report's group was made of

lifeVars == <<stage, payloads, text>>

LifeTypeOK ==
    /\ stage \in [Reports -> {"unknown", "open", "closed", "failed", "expired"}]
    /\ payloads \subseteq Reports
    /\ text \in [Reports -> Texts \cup {None}]

LifeInit ==
    /\ stage = [i \in Reports |-> "unknown"]
    /\ payloads = {}
    /\ text = [i \in Reports |-> None]

\* Clients send a report as often as they like, also when it is over.
Upload(i) ==
    /\ payloads' = payloads \cup {i}
    /\ UNCHANGED <<stage, text>>

Receive(i) ==
    /\ stage[i] = "unknown" /\ i \in payloads
    /\ stage' = [stage EXCEPT ![i] = "open"]
    /\ UNCHANGED <<payloads, text>>

\* Attempts at decoding come and go, and their texts, while the payload is kept.
Attempt(i) ==
    /\ stage[i] = "open" /\ i \in payloads
    /\ \E t \in Texts \cup {None} : text' = [text EXCEPT ![i] = t]
    /\ UNCHANGED <<stage, payloads>>

\* The payload goes when its text is there, or when nobody will decode it.
Discard(i) ==
    /\ \/ stage[i] = "open" /\ text[i] # None
       \/ stage[i] = "expired"
    /\ payloads' = payloads \ {i}
    /\ UNCHANGED <<stage, text>>

Close(i) ==
    /\ stage[i] = "open" /\ text[i] # None
    /\ stage' = [stage EXCEPT ![i] = "closed"]
    /\ UNCHANGED <<payloads, text>>

\* Given up, for the developers to look into while the retention lasts.
Fail(i) ==
    /\ stage[i] = "open" /\ i \in payloads
    /\ \E s \in {"failed", "expired"} : stage' = [stage EXCEPT ![i] = s]
    /\ text' = [text EXCEPT ![i] = None]
    /\ UNCHANGED payloads

Expire(i) ==
    /\ stage[i] = "failed"
    /\ stage' = [stage EXCEPT ![i] = "expired"]
    /\ UNCHANGED <<payloads, text>>

LifeNext ==
    \E i \in Reports :
        \/ Upload(i) \/ Receive(i)
        \/ Attempt(i) \/ Discard(i)
        \/ Close(i) \/ Fail(i) \/ Expire(i)

LifeSpec == LifeInit /\ [][LifeNext]_lifeVars

-----------------------------------------------------------------------------
\* A received report is there: as payload, or as text, or both.
AlwaysReadable ==
    \A i \in Reports :
        /\ stage[i] \in {"open", "failed"} => i \in payloads \/ text[i] # None
        /\ stage[i] = "closed" => text[i] # None

\* A report that is closed keeps its text for ever; one that was given up is
\* not taken up again.
OverStep ==
    \A i \in Reports :
        /\ stage[i] = "closed" =>
              stage'[i] = "closed" /\ text'[i] = text[i]
        /\ stage[i] \in {"failed", "expired"} =>
              stage'[i] \in {stage[i], "expired"}
OverForGood == [][OverStep]_lifeVars
=============================================================================
