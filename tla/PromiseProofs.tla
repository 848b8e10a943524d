---------------------------- MODULE PromiseProofs ----------------------------
(***************************************************************************)
(* What the two abstract specifications promise, for any values of their   *)
(* constants: the decode queue hands out its jobs safely, and the life of  *)
(* a report keeps it readable.                                             *)
(***************************************************************************)
EXTENDS DecodeQueue, ReportLife, TLAPS

\* The type bounds tries by the budget, and only TriesLeft keeps Take within it.
QueueInv == QueueTypeOK /\ HeldOnce /\ TriesLeft

LEMMA QueueInitially ==
    ASSUME Budget \in Nat \ {0}, QueueInit
    PROVE  QueueInv
BY DEF QueueInit, QueueInv, QueueTypeOK, HeldOnce, TriesLeft

LEMMA QueueStep ==
    ASSUME Nobody \notin Jobs, Budget \in Nat \ {0},
           QueueInv, [QueueNext]_queueVars
    PROVE  QueueInv'
<1> USE DEF QueueInv, QueueTypeOK, HeldOnce, TriesLeft
<1>1. ASSUME NEW j \in Jobs, Enqueue(j) PROVE QueueInv'
    BY <1>1 DEF Enqueue
<1>2. ASSUME NEW h \in Holders, NEW j \in Jobs, Take(h, j) PROVE QueueInv'
    BY <1>2 DEF Take
<1>3. ASSUME NEW h \in Holders, Settle(h) PROVE QueueInv'
    BY <1>3 DEF Settle
<1>4. ASSUME NEW h \in Holders, Drop(h) PROVE QueueInv'
    BY <1>4 DEF Drop
<1>5. CASE UNCHANGED queueVars
    BY <1>5 DEF queueVars
<1> QED
    BY <1>1, <1>2, <1>3, <1>4, <1>5 DEF QueueNext

\* In every behaviour of the queue no job is held twice, what is held is
\* running, and no job is handed out more often than the budget allows.
THEOREM QueueSafe ==
    ASSUME Nobody \notin Jobs, Budget \in Nat \ {0}
    PROVE  QueueSpec => [](QueueTypeOK /\ HeldOnce /\ TriesLeft)
<1>1. QueueInit => QueueInv
    BY QueueInitially
<1>2. QueueInv /\ [QueueNext]_queueVars => QueueInv'
    BY QueueStep
<1>3. QueueSpec => []QueueInv
    BY <1>1, <1>2, PTL DEF QueueSpec
<1> QED
    BY <1>3, PTL DEF QueueInv

-----------------------------------------------------------------------------
LifeInv == LifeTypeOK /\ AlwaysReadable

LEMMA LifeInitially == LifeInit => LifeInv
BY DEF LifeInit, LifeInv, LifeTypeOK, AlwaysReadable

\* One report moves, in its stage, its payload or its text.
LEMMA LifeStep == LifeInv /\ [LifeNext]_lifeVars => LifeInv' /\ [OverStep]_lifeVars
<1> SUFFICES ASSUME LifeInv, [LifeNext]_lifeVars
             PROVE  LifeInv' /\ [OverStep]_lifeVars
    OBVIOUS
<1> USE DEF LifeInv, LifeTypeOK, AlwaysReadable, OverStep
<1>1. ASSUME NEW i \in Reports, Upload(i) PROVE LifeInv' /\ OverStep
    BY <1>1 DEF Upload
<1>2. ASSUME NEW i \in Reports, Receive(i) PROVE LifeInv' /\ OverStep
    BY <1>2 DEF Receive
<1>3. ASSUME NEW i \in Reports, Attempt(i) PROVE LifeInv' /\ OverStep
    BY <1>3 DEF Attempt
<1>4. ASSUME NEW i \in Reports, Discard(i) PROVE LifeInv' /\ OverStep
    BY <1>4 DEF Discard
<1>5. ASSUME NEW i \in Reports, Close(i) PROVE LifeInv' /\ OverStep
    BY <1>5 DEF Close
<1>6. ASSUME NEW i \in Reports, Fail(i) PROVE LifeInv' /\ OverStep
    BY <1>6 DEF Fail
<1>7. ASSUME NEW i \in Reports, Expire(i) PROVE LifeInv' /\ OverStep
    BY <1>7 DEF Expire
<1>8. CASE UNCHANGED lifeVars
    BY <1>8 DEF lifeVars
<1> QED
    BY <1>1, <1>2, <1>3, <1>4, <1>5, <1>6, <1>7, <1>8 DEF LifeNext

\* In every behaviour of the abstract pipeline a received report can be read or
\* decoded, and what is closed or given up stays so, a closed text unchanged.
THEOREM LifeSafe == LifeSpec => []AlwaysReadable /\ OverForGood
<1>1. LifeSpec => []LifeInv /\ [][OverStep]_lifeVars
    BY LifeInitially, LifeStep, PTL DEF LifeSpec
<1>2. LifeInv => AlwaysReadable
    BY DEF LifeInv
<1> QED
    BY <1>1, <1>2, PTL DEF OverForGood
=============================================================================
