----------------------------- MODULE InputProofs -----------------------------
(***************************************************************************)
(* What the server admits of an upload's body, field by field, and what    *)
(* parse_oops and compute make of a text, line by line, whatever comes in. *)
(***************************************************************************)
EXTENDS CrashText, Admission, FiniteSetTheorems, TLAPS

-----------------------------------------------------------------------------
(* The body of an upload                                                   *)

Counted == {"metadata", "payload"}
Values  == {f.value : f \in Fields} \cup {Absent}

\* m is where the last field of that name stands.
IsLast(name, m) ==
    /\ m \in DOMAIN body /\ body[m].name = name
    /\ \A i \in DOMAIN body : body[i].name = name => i <= m
None_(name) == \A i \in DOMAIN body : body[i].name # name

\* Which part a name has got so far.
Holds(name) ==
    \/ None_(name) /\ parts[name] = Absent
    \/ \E m \in DOMAIN body : IsLast(name, m) /\ parts[name] = body[m].value

Oversized(f) == f.name \in Counted /\ TooLarge(f)

PartsInv ==
    /\ body \in Seq(Fields)
    /\ parts \in [metadata : Values, payload : Values, failed : BOOLEAN]
    /\ parts.failed <=> \E i \in DOMAIN body : Oversized(body[i])
    /\ ~parts.failed => \A name \in Counted : Holds(name)

LEMMA PartsInitially == AdmissionInit => PartsInv
BY DEF AdmissionInit, PartsInit, PartsInv, Values, Holds, None_, Counted

LEMMA PartsStep == PartsInv /\ [AdmissionNext]_bodyVars => PartsInv'
<1> SUFFICES ASSUME PartsInv, [AdmissionNext]_bodyVars PROVE PartsInv'
    OBVIOUS
<1>1. CASE UNCHANGED bodyVars
    BY <1>1 DEF bodyVars, PartsInv, Holds, IsLast, None_, Oversized, TooLarge, Cap
<1>2. ASSUME NEW f \in Fields, NextField(f) PROVE PartsInv'
    <2>1. PICK n \in Nat \ {0} :
              /\ body \in Seq(Fields) /\ body' \in Seq(Fields)
              /\ DOMAIN body = 1 .. n - 1 /\ DOMAIN body' = 1 .. n
              /\ body'[n] = f /\ \A i \in DOMAIN body : body'[i] = body[i]
        <3>1. body \in Seq(Fields) /\ body' = Append(body, f)
            BY <1>2 DEF PartsInv, NextField
        <3>2. Len(body) + 1 \in Nat \ {0}
            BY <3>1
        <3> QED
            BY <3>1, <3>2
    <2>2. parts \in [metadata : Values, payload : Values, failed : BOOLEAN]
        BY DEF PartsInv
    <2>3. (\E i \in DOMAIN body' : Oversized(body'[i]))
              <=> (\E i \in DOMAIN body : Oversized(body[i])) \/ Oversized(f)
        BY <2>1
    <2>4. CASE parts.failed
        BY <1>2, <2>1, <2>2, <2>3, <2>4 DEF PartsInv, NextField, TakeField, Oversized
    <2>5. CASE ~parts.failed /\ Oversized(f)
        BY <1>2, <2>1, <2>2, <2>3, <2>5 DEF PartsInv, NextField, TakeField, Oversized, Counted
    <2>6. CASE ~parts.failed /\ ~Oversized(f)
        <3>1. \A name \in Counted : Holds(name)
            BY <2>6 DEF PartsInv
        <3>2. \/ parts' = parts
              \/ parts' = [parts EXCEPT !.metadata = f.value]
              \/ parts' = [parts EXCEPT !.payload = f.value]
            <4>1. CASE f.name \notin Counted
                BY <1>2, <4>1 DEF NextField, TakeField, Counted
            <4>2. CASE f.name \in Counted
                <5>1. parts' = [parts EXCEPT ![f.name] = f.value]
                    BY <1>2, <2>6, <4>2 DEF NextField, TakeField, Oversized, Counted
                <5> QED
                    BY <4>2, <5>1 DEF Counted
            <4> QED
                BY <4>1, <4>2
        <3>3. parts' \in [metadata : Values, payload : Values, failed : BOOLEAN]
            <4>1. f.value \in Values
                BY DEF Values
            <4> QED
                BY <2>2, <3>2, <4>1
        <3>4. ~parts'.failed
            BY <2>2, <2>6, <3>2
        <3>5. ASSUME NEW name \in Counted PROVE Holds(name)'
            <4>1. CASE f.name = name
                <5>1. parts'[name] = f.value
                    BY <1>2, <2>2, <2>6, <4>1 DEF NextField, TakeField, Oversized, Counted
                <5>2. IsLast(name, n)'
                    BY <2>1, <4>1 DEF IsLast
                <5> QED
                    BY <2>1, <5>1, <5>2 DEF Holds
            <4>2. CASE f.name # name
                <5>1. parts'[name] = parts[name]
                    BY <1>2, <2>2, <2>6, <4>2 DEF NextField, TakeField, Oversized, Counted
                <5>2. None_(name) => None_(name)'
                    BY <2>1, <4>2 DEF None_
                <5>3. \A m \in DOMAIN body : IsLast(name, m) => IsLast(name, m)'
                    BY <2>1, <4>2 DEF IsLast
                <5> QED
                    BY <2>1, <3>1, <5>1, <5>2, <5>3 DEF Holds
            <4> QED
                BY <4>1, <4>2
        <3>6. ~\E i \in DOMAIN body' : Oversized(body'[i])
            BY <2>3, <2>6 DEF PartsInv
        <3> QED
            BY <2>1, <3>3, <3>4, <3>5, <3>6 DEF PartsInv, Oversized, TooLarge, Cap
    <2> QED
        BY <2>4, <2>5, <2>6
<1> QED
    BY <1>1, <1>2 DEF AdmissionNext

\* LastOf of protocol.md's conditions is where the last field of that name stands.
LEMMA LastOfFacts ==
    ASSUME body \in Seq(Fields), NEW name
    PROVE  /\ None_(name) => LastOf(name) = 0
           /\ \A m \in DOMAIN body : IsLast(name, m) => LastOf(name) = m
<1> DEFINE I == {i \in 1 .. Len(body) : body[i].name = name}
<1>1. LastOf(name) = IF I # {} THEN Max(I) ELSE 0
    BY DEF LastOf, SelectLastInSeq
<1>2. DOMAIN body = 1 .. Len(body) /\ Len(body) \in Nat
    OBVIOUS
<1>3. None_(name) => I = {}
    BY <1>2 DEF None_
<1>4. ASSUME NEW m \in DOMAIN body, IsLast(name, m) PROVE LastOf(name) = m
    <2>1. m \in I /\ \A i \in I : m >= i
        BY <1>2, <1>4 DEF IsLast
    <2>2. \A k \in I : (\A i \in I : k >= i) => k = m
        BY <1>2, <2>1
    <2>3. Max(I) = m
        BY <2>1, <2>2 DEF Max
    <2> QED
        BY <1>1, <2>1, <2>3
<1> QED
    BY <1>1, <1>3, <1>4

\* Header fields that make authenticate_device go on, and the answer of the rest.
Signed(h) ==
    /\ h.signature \notin {Absent, Malformed} /\ h.signature.intact
    /\ [keynum |-> h.signature.keynum, key |-> h.signature.by] = h.pubkey

LEMMA Authenticated ==
    ASSUME NEW h \in Headers
    PROVE  /\ authenticate_device(h) = 200 <=> h.pubkey = Absent \/ Signed(h)
           /\ h.pubkey \notin {Absent, Malformed} /\ ~Signed(h) =>
                 authenticate_device(h) = 401
<1>1. CASE h.pubkey = Absent
    BY <1>1 DEF authenticate_device
<1>2. CASE h.pubkey # Absent /\ h.signature = Absent
    BY <1>2 DEF authenticate_device, Signed
<1>3. CASE h.pubkey = Malformed /\ h.pubkey # Absent
    <2>1. ~Signed(h)
        <3>1. DOMAIN Malformed = {"keynum"}
            BY DEF Malformed
        <3>2. \A a, b : DOMAIN [keynum |-> a, key |-> b] = {"keynum", "key"}
            OBVIOUS
        <3>3. {"keynum"} # {"keynum", "key"}
            OBVIOUS
        <3> QED
            BY <1>3, <3>1, <3>2, <3>3 DEF Signed
    <2> QED
        BY <1>3, <2>1 DEF authenticate_device
<1>4. CASE h.pubkey \notin {Absent, Malformed} /\ h.signature # Absent
    <2>1. PICK n, k : h.pubkey = [keynum |-> n, key |-> k]
        BY <1>4, HeadersAssumption DEF PublicKey
    <2>2. verify(h.pubkey, h.signature) <=> Signed(h)
        BY <1>4, <2>1 DEF verify, Signed
    <2> QED
        BY <1>4, <2>2 DEF authenticate_device
<1> QED
    BY <1>1, <1>2, <1>3, <1>4

\* The parts pass the checks of post_report exactly when the body conforms.
Passes(p) ==
    /\ ~p.failed
    /\ Absent \notin {p.metadata, p.payload}
    /\ p.metadata.format = FORMAT_VERSION
    /\ p.metadata.payload_sha256 = p.payload
    /\ p.metadata.uuid # Absent

LEMMA Conforming ==
    ASSUME PartsInv
    PROVE  /\ Passes(parts) <=> Conforms
           /\ Passes(parts) => parts.payload = body[LastOf("payload")].value
<1>1. /\ body \in Seq(Fields) /\ DOMAIN body = 1 .. Len(body)
      /\ \A i \in DOMAIN body : body[i] \in Fields
    BY DEF PartsInv
<1>2. parts.failed <=>
          ~\A f \in ToSet(body) : f.name \in {"metadata", "payload"} => f.size <= Cap(f.name)
    <2>1. \A i \in DOMAIN body :
              Oversized(body[i]) <=> ~(body[i].name \in {"metadata", "payload"}
                                          => body[i].size <= Cap(body[i].name))
        BY <1>1, FieldsAssumption, CapsAssumption DEF Oversized, TooLarge, Counted, Cap
    <2>2. ToSet(body) = {body[i] : i \in DOMAIN body}
        BY DEF ToSet
    <2> QED
        BY <2>1, <2>2 DEF PartsInv
<1>3. CASE parts.failed
    BY <1>2, <1>3 DEF Passes, Conforms
<1>4. CASE ~parts.failed
    <2>1. ASSUME NEW name \in Counted
          PROVE  /\ parts[name] = Absent <=> LastOf(name) = 0
                 /\ LastOf(name) # 0 => parts[name] = body[LastOf(name)].value
        <3>1. CASE None_(name) /\ parts[name] = Absent
            BY <1>1, <3>1, LastOfFacts
        <3>2. ASSUME NEW m \in DOMAIN body, IsLast(name, m), parts[name] = body[m].value
              PROVE  LastOf(name) = m /\ m # 0 /\ parts[name] # Absent
            <4>1. body[m].value # Absent
                BY <1>1, <3>2, FieldsAssumption DEF IsLast, Counted
            <4> QED
                BY <1>1, <3>2, <4>1, LastOfFacts
        <3> QED
            BY <1>4, <3>1, <3>2 DEF PartsInv, Holds
    <2>2. {"metadata", "payload"} \subseteq Counted
        BY DEF Counted
    <2>3. /\ parts.metadata = Absent <=> LastOf("metadata") = 0
          /\ LastOf("metadata") # 0 => parts.metadata = body[LastOf("metadata")].value
          /\ parts.payload = Absent <=> LastOf("payload") = 0
          /\ LastOf("payload") # 0 => parts.payload = body[LastOf("payload")].value
        BY <2>1, <2>2
    <2> QED
        BY <1>2, <1>4, <2>3 DEF Passes, Conforms
<1> QED
    BY <1>3, <1>4

LEMMA Answered ==
    ASSUME NEW h
    PROVE  LET answer == post_report(h, parts)
           IN /\ answer.status = 200 <=> authenticate_device(h) = 200 /\ Passes(parts)
              /\ authenticate_device(h) # 200 => answer.status = authenticate_device(h)
              /\ answer.status = 200 =>
                    /\ answer.device = h.pubkey /\ answer.payload = parts.payload
                    /\ answer.encoding = parts.metadata.payload_encoding
<1>1. CASE authenticate_device(h) # 200
    BY <1>1 DEF post_report, Refused
<1>2. CASE authenticate_device(h) = 200 /\ ~Passes(parts)
    BY <1>2 DEF post_report, Refused, Passes
<1>3. CASE authenticate_device(h) = 200 /\ Passes(parts)
    BY <1>3 DEF post_report, Passes
<1> QED
    BY <1>1, <1>2, <1>3

\* Of any body in any order of fields and any headers, the server takes exactly
\* what conforms and is signed when it names a key (post_report).
THEOREM AdmissionRight == AdmissionSpec => []ConformingAdmitted
<1>1. AdmissionSpec => []PartsInv
    BY PartsInitially, PartsStep, PTL DEF AdmissionSpec
<1>2. PartsInv => ConformingAdmitted
    <2> SUFFICES ASSUME PartsInv, NEW h \in Headers
                 PROVE  LET answer == post_report(h, parts)
                        IN /\ answer.status = 200 <=>
                                 Conforms /\ (h.pubkey = Absent \/ Signed(h))
                           /\ answer.status = 200 =>
                                 /\ answer.device = h.pubkey
                                 /\ answer.payload = body[LastOf("payload")].value
                           /\ h.pubkey \notin {Absent, Malformed} /\ ~Signed(h) =>
                                 answer.status = 401
        BY DEF ConformingAdmitted, Signed
    <2> QED
        BY Authenticated, Conforming, Answered
<1> QED
    BY <1>1, <1>2, PTL

\* Whatever payload is admitted, payload.rs decodes it whole or not at all.
THEOREM TextsWhole == AdmissionSpec => []WholeTextOrNone
<1>1. WholeTextOrNone
    <2>1. MAX_DECODED_SIZE \in Nat
        BY CapsAssumption
    <2>2. \A length : read_capped(length) \in {Absent, length}
        BY <2>1 DEF read_capped, Taken
    <2> QED
        BY <2>2 DEF WholeTextOrNone, decode
<1> QED
    BY <1>1, PTL

-----------------------------------------------------------------------------
(* Folds over sequences                                                    *)
(* The library's induction rules take a predicate for a parameter; here it *)
(* is a set, and the least element of its complement does the same.        *)

LEMMA LeastExists ==
    ASSUME NEW T \in SUBSET Nat, T # {}
    PROVE  \E x \in T : \A y \in T : x <= y
<1> DEFINE R == OpToRel(<, Nat)
<1>1. IsWellFoundedOn(R, Nat)
    BY NatLessThanWellFounded
<1>2. PICK x \in T : \A y \in T : ~(<<y, x>> \in R)
    <2> HIDE DEF R
    <2> QED
        BY <1>1, WFMin, Zenon
<1>3. \A y \in T : ~(y < x)
    BY <1>2 DEF OpToRel
<1> QED
    BY <1>3

LEMMA NatBuilt ==
    ASSUME NEW Good, 0 \in Good, \A n \in Nat : n \in Good => n + 1 \in Good
    PROVE  \A n \in Nat : n \in Good
<1> DEFINE Bad == {n \in Nat : n \notin Good}
<1> SUFFICES ASSUME NEW m \in Nat, m \notin Good PROVE FALSE
    BY Zenon
<1>0. Bad # {}
    OBVIOUS
<1>1. PICK x \in Bad : \A y \in Bad : x <= y
    <2> HIDE DEF Bad
    <2>1. Bad \in SUBSET Nat
        BY DEF Bad
    <2> QED
        BY <1>0, <2>1, LeastExists
<1>2. x # 0 /\ x - 1 \in Nat /\ x - 1 \in Good
    BY <1>1
<1> QED
    BY <1>1, <1>2

LEMMA SequencesBuilt ==
    ASSUME NEW S, NEW Good, <<>> \in Good,
           \A s \in Seq(S) : \A x \in S : s \in Good => Append(s, x) \in Good
    PROVE  \A s \in Seq(S) : s \in Good
<1> DEFINE G == {n \in Nat : \A s \in Seq(S) : Len(s) = n => s \in Good}
<1>1. 0 \in G
    OBVIOUS
<1>2. ASSUME NEW n \in Nat, n \in G PROVE n + 1 \in G
    <2> SUFFICES ASSUME NEW s \in Seq(S), Len(s) = n + 1 PROVE s \in Good
        OBVIOUS
    <2>1. PICK t : t = SubSeq(s, 1, n)
        OBVIOUS
    <2>2. /\ t \in Seq(S) /\ Len(t) = n /\ s[n + 1] \in S
          /\ s = Append(t, s[n + 1])
        BY <2>1
    <2> QED
        BY <1>2, <2>2
<1>3. \A n \in Nat : n \in G
    <2> HIDE DEF G
    <2> QED
        BY <1>1, <1>2, NatBuilt
<1> QED
    BY <1>3

\* A set of positions has its greatest.
LEMMA MaxIn ==
    ASSUME NEW n \in Nat, NEW t \in SUBSET (1 .. n), t # {}
    PROVE  Max(t) \in t
<1> DEFINE U == {k \in Nat : \A i \in t : i <= k}
<1>1. n \in U /\ U \in SUBSET Nat
    OBVIOUS
<1>2. PICK k \in U : \A y \in U : k <= y
    <2> HIDE DEF U
    <2> QED
        BY <1>1, LeastExists
<1>3. k \in t
    <2> SUFFICES ASSUME k \notin t PROVE FALSE
        OBVIOUS
    <2>1. \A i \in t : i \in 1 .. n /\ i <= k /\ i # k
        BY <1>2
    <2>2. k \in Nat /\ k # 0
        <3>1. PICK i \in t : TRUE
            OBVIOUS
        <3> QED
            BY <1>2, <2>1, <3>1
    <2>3. k - 1 \in U
        BY <2>1, <2>2
    <2> QED
        BY <1>2, <2>2, <2>3
<1>4. \E x \in t : \A y \in t : x >= y
    BY <1>2, <1>3
<1> QED
    BY <1>4 DEF Max

LEMMA MaxLast ==
    ASSUME NEW n \in Nat, NEW t \in SUBSET (1 .. n + 1), n + 1 \in t
    PROVE  Max(t) = n + 1
<1>1. \A y \in t : n + 1 >= y
    OBVIOUS
<1>2. \A x \in t : (\A y \in t : x >= y) => x = n + 1
    OBVIOUS
<1> QED
    BY <1>1, <1>2 DEF Max

\* The two folds of signature.rs, for one argument about both.
Folding(pass, acc, x) ==
    IF pass = "parse_oops" THEN ParseLine(acc, x) ELSE ComputeFrame(acc, x)

\* What the definition of FoldLeft chooses.
FoldsTo(pass, base, s, g) ==
    g = [t \in SUBSET (DOMAIN s) |->
            IF t = {} THEN base ELSE Folding(pass, g[t \ {Max(t)}], s[Max(t)])]

LEMMA FoldUnique ==
    ASSUME NEW pass, NEW base, NEW s, NEW n \in Nat, DOMAIN s = 1 .. n,
           NEW g, FoldsTo(pass, base, s, g), NEW h, FoldsTo(pass, base, s, h)
    PROVE  g = h
<1> DEFINE Good == {k \in Nat : k <= n => \A t \in SUBSET (1 .. k) : g[t] = h[t]}
<1>0. /\ g = [t \in SUBSET (1 .. n) |-> g[t]] /\ h = [t \in SUBSET (1 .. n) |-> h[t]]
      /\ \A t \in SUBSET (1 .. n) : t # {} =>
            /\ g[t] = Folding(pass, g[t \ {Max(t)}], s[Max(t)])
            /\ h[t] = Folding(pass, h[t \ {Max(t)}], s[Max(t)])
      /\ g[{}] = base /\ h[{}] = base
    BY DEF FoldsTo
<1>1. 0 \in Good
    <2>1. \A t \in SUBSET (1 .. 0) : t = {}
        OBVIOUS
    <2> QED
        BY <1>0, <2>1
<1>2. ASSUME NEW k \in Nat, k \in Good PROVE k + 1 \in Good
    <2> SUFFICES ASSUME k + 1 <= n, NEW t \in SUBSET (1 .. k + 1) PROVE g[t] = h[t]
        OBVIOUS
    <2>1. CASE k + 1 \notin t
        <3>1. t \in SUBSET (1 .. k)
            BY <2>1
        <3> QED
            BY <1>2, <3>1
    <2>2. CASE k + 1 \in t
        <3>1. Max(t) = k + 1
            BY <2>2, MaxLast
        <3>2. t \ {k + 1} \in SUBSET (1 .. k) /\ t \in SUBSET (1 .. n) /\ t # {}
            BY <2>2
        <3>3. g[t \ {k + 1}] = h[t \ {k + 1}]
            BY <1>2, <3>2
        <3>4. /\ g[t] = Folding(pass, g[t \ {k + 1}], s[k + 1])
              /\ h[t] = Folding(pass, h[t \ {k + 1}], s[k + 1])
            BY <1>0, <3>1, <3>2, Zenon
        <3> QED
            BY <3>3, <3>4, Zenon
    <2> QED
        BY <2>1, <2>2
<1>3. n \in Good
    <2> HIDE DEF Good
    <2> QED
        BY <1>1, <1>2, NatBuilt
<1>4. \A t \in SUBSET (1 .. n) : g[t] = h[t]
    BY <1>3
<1> QED
    BY <1>0, <1>4

LEMMA FoldExists ==
    ASSUME NEW pass, NEW base, NEW s, NEW m \in Nat, DOMAIN s = 1 .. m
    PROVE  \E g : FoldsTo(pass, base, s, g)
<1> DEFINE Good == {n \in Nat : \E g :
               g = [t \in SUBSET (1 .. n) |->
                       IF t = {} THEN base ELSE Folding(pass, g[t \ {Max(t)}], s[Max(t)])]}
<1>1. 0 \in Good
    <2> DEFINE g == [t \in SUBSET (1 .. 0) |-> base]
    <2>1. \A t \in SUBSET (1 .. 0) : t = {}
        OBVIOUS
    <2>2. g = [t \in SUBSET (1 .. 0) |->
                  IF t = {} THEN base ELSE Folding(pass, g[t \ {Max(t)}], s[Max(t)])]
        BY <2>1
    <2> QED
        BY <2>2
<1>2. ASSUME NEW n \in Nat, n \in Good PROVE n + 1 \in Good
    <2>1. PICK g : g = [t \in SUBSET (1 .. n) |->
                   IF t = {} THEN base ELSE Folding(pass, g[t \ {Max(t)}], s[Max(t)])]
        BY <1>2
    <2>2. \A t \in SUBSET (1 .. n) :
              g[t] = IF t = {} THEN base ELSE Folding(pass, g[t \ {Max(t)}], s[Max(t)])
        BY <2>1
    <2> DEFINE h == [t \in SUBSET (1 .. n + 1) |->
                        IF n + 1 \in t THEN Folding(pass, g[t \ {n + 1}], s[n + 1]) ELSE g[t]]
    <2>3. ASSUME NEW t \in SUBSET (1 .. n + 1)
          PROVE  h[t] = IF t = {} THEN base ELSE Folding(pass, h[t \ {Max(t)}], s[Max(t)])
        <3>1. CASE n + 1 \in t
            <4>1. Max(t) = n + 1 /\ t # {}
                BY <3>1, MaxLast
            <4>2. t \ {n + 1} \in SUBSET (1 .. n + 1) /\ n + 1 \notin t \ {n + 1}
                OBVIOUS
            <4>3. h[t \ {n + 1}] = g[t \ {n + 1}]
                BY <4>2
            <4> QED
                BY <3>1, <4>1, <4>3
        <3>2. CASE n + 1 \notin t
            <4>1. t \in SUBSET (1 .. n) /\ h[t] = g[t]
                BY <3>2
            <4>2. CASE t = {}
                BY <2>2, <4>1, <4>2
            <4>3. CASE t # {}
                <5>1. Max(t) \in t
                    BY <4>1, <4>3, MaxIn
                <5>2. t \ {Max(t)} \in SUBSET (1 .. n + 1) /\ n + 1 \notin t \ {Max(t)}
                    BY <3>2
                <5>3. h[t \ {Max(t)}] = g[t \ {Max(t)}]
                    BY <5>2
                <5> HIDE DEF h
                <5> QED
                    BY <2>2, <4>1, <4>3, <5>3
            <4> QED
                BY <4>2, <4>3
        <3> QED
            BY <3>1, <3>2
    <2>4. h = [t \in SUBSET (1 .. n + 1) |-> h[t]]
        OBVIOUS
    <2>5. PICK k : k = h
        OBVIOUS
    <2>6. \A t \in SUBSET (1 .. n + 1) :
              k[t] = IF t = {} THEN base ELSE Folding(pass, k[t \ {Max(t)}], s[Max(t)])
        BY <2>3, <2>5
    <2>7. k = [t \in SUBSET (1 .. n + 1) |-> k[t]]
        BY <2>4, <2>5
    <2>8. k = [t \in SUBSET (1 .. n + 1) |->
                  IF t = {} THEN base ELSE Folding(pass, k[t \ {Max(t)}], s[Max(t)])]
        BY <2>6, <2>7, Zenon
    <2>9. n + 1 \in Nat
        OBVIOUS
    <2> QED
        BY <2>8, <2>9, Zenon
<1>3. m \in Good
    <2> HIDE DEF Good
    <2> QED
        BY <1>1, <1>2, NatBuilt
<1> QED
    BY <1>3, Zenon DEF FoldsTo

LEMMA FoldAppends ==
    ASSUME NEW pass, NEW base, NEW S, NEW s \in Seq(S), NEW x \in S,
           NEW g, FoldsTo(pass, base, Append(s, x), g), NEW h, FoldsTo(pass, base, s, h)
    PROVE  g[DOMAIN Append(s, x)] = Folding(pass, h[DOMAIN s], x)
<1>1. PICK n \in Nat, u \in Seq(S) :
          /\ u = Append(s, x) /\ DOMAIN s = 1 .. n /\ DOMAIN u = 1 .. n + 1
          /\ u[n + 1] = x /\ \A i \in 1 .. n : u[i] = s[i]
    <2>1. PICK n \in Nat, u \in Seq(S) : n = Len(s) /\ u = Append(s, x)
        BY Len(s) \in Nat, Append(s, x) \in Seq(S), Zenon
    <2>2. /\ DOMAIN s = 1 .. n /\ DOMAIN u = 1 .. n + 1
          /\ u[n + 1] = x /\ \A i \in 1 .. n : u[i] = s[i]
        BY <2>1
    <2> QED
        BY <2>1, <2>2
<1>2. /\ \A t \in SUBSET (1 .. n + 1) : t # {} =>
            g[t] = Folding(pass, g[t \ {Max(t)}], u[Max(t)])
      /\ g[{}] = base
    <2>1. g = [t \in SUBSET (1 .. n + 1) |->
                  IF t = {} THEN base ELSE Folding(pass, g[t \ {Max(t)}], u[Max(t)])]
        BY <1>1 DEF FoldsTo
    <2> QED
        BY <2>1
<1>3. PICK k : k = [t \in SUBSET (1 .. n) |-> g[t]]
    OBVIOUS
<1>4. k = h
    <2>1. ASSUME NEW t \in SUBSET (1 .. n)
          PROVE  k[t] = IF t = {} THEN base ELSE Folding(pass, k[t \ {Max(t)}], s[Max(t)])
        <3>1. CASE t = {}
            BY <1>2, <1>3, <3>1
        <3>2. CASE t # {}
            <4>1. Max(t) \in t
                BY <3>2, MaxIn
            <4>2. k[t] = g[t] /\ t \in SUBSET (1 .. n + 1) /\ s[Max(t)] = u[Max(t)]
                <5>1. 1 .. n \subseteq 1 .. n + 1
                    OBVIOUS
                <5>2. t \in SUBSET (1 .. n + 1) /\ Max(t) \in 1 .. n
                    BY <4>1, <5>1, Zenon
                <5> QED
                    BY <1>1, <1>3, <5>2
            <4>3. t \ {Max(t)} \in SUBSET (1 .. n)
                OBVIOUS
            <4>4. k[t \ {Max(t)}] = g[t \ {Max(t)}]
                BY <1>3, <4>3
            <4> QED
                BY <1>2, <3>2, <4>2, <4>4
        <3> QED
            BY <3>1, <3>2
    <2>2. k = [t \in SUBSET (1 .. n) |-> k[t]]
        BY <1>3
    <2>3. k = [t \in SUBSET (1 .. n) |->
                  IF t = {} THEN base ELSE Folding(pass, k[t \ {Max(t)}], s[Max(t)])]
        BY <2>1, <2>2, Zenon
    <2>4. FoldsTo(pass, base, s, k)
        BY <1>1, <2>3, Zenon DEF FoldsTo
    <2> QED
        BY <1>1, <2>4, FoldUnique
<1>5. h[1 .. n] = g[1 .. n]
    BY <1>3, <1>4
<1>6. Max(1 .. n + 1) = n + 1 /\ (1 .. n + 1) \ {n + 1} = 1 .. n /\ 1 .. n + 1 # {}
    <2>1. n + 1 \in 1 .. n + 1
        OBVIOUS
    <2>2. Max(1 .. n + 1) = n + 1
        BY <2>1, MaxLast
    <2> QED
        BY <2>1, <2>2
<1>7. g[1 .. n + 1] = Folding(pass, g[1 .. n], u[n + 1])
    BY <1>2, <1>6
<1> QED
    BY <1>1, <1>5, <1>7

LEMMA ParseFolds ==
    ASSUME NEW S, NEW s \in Seq(S)
    PROVE  \E g : /\ FoldsTo("parse_oops", ParserInit, s, g)
                  /\ parse_oops(s) = g[DOMAIN s]
<1>1. PICK g : FoldsTo("parse_oops", ParserInit, s, g)
    <2>1. PICK n \in Nat : DOMAIN s = 1 .. n
        BY DOMAIN s = 1 .. Len(s), Len(s) \in Nat
    <2>2. \E g : FoldsTo("parse_oops", ParserInit, s, g)
        BY <2>1, FoldExists
    <2> QED
        BY <2>2, Zenon
<1> DEFINE Is(h) == h = [t \in SUBSET (DOMAIN s) |->
               IF t = {} THEN ParserInit ELSE ParseLine(h[t \ {Max(t)}], s[Max(t)])]
<1>2. \A h : Is(h) <=> FoldsTo("parse_oops", ParserInit, s, h)
    BY Zenon DEF FoldsTo, Folding
<1>3. \A h : Is(h) <=> h = g
    <2>1. DOMAIN s = 1 .. Len(s) /\ Len(s) \in Nat
        OBVIOUS
    <2> HIDE DEF Is
    <2> QED
        BY <1>1, <1>2, <2>1, FoldUnique
<1>4. (CHOOSE h : Is(h)) = g
    <2> HIDE DEF Is
    <2> QED
        BY <1>3
<1>5. parse_oops(s) = (CHOOSE h : Is(h))[DOMAIN s]
    BY Zenon DEF parse_oops, FoldLeft, MapThenFoldSet
<1> QED
    BY <1>1, <1>4, <1>5, Zenon

Compute(s) == FoldLeft(ComputeFrame, ComputeInit, s)

LEMMA ComputeFolds ==
    ASSUME NEW S, NEW s \in Seq(S)
    PROVE  \E g : /\ FoldsTo("compute", ComputeInit, s, g)
                  /\ Compute(s) = g[DOMAIN s]
<1>1. PICK g : FoldsTo("compute", ComputeInit, s, g)
    <2>1. PICK n \in Nat : DOMAIN s = 1 .. n
        BY DOMAIN s = 1 .. Len(s), Len(s) \in Nat
    <2>2. \E g : FoldsTo("compute", ComputeInit, s, g)
        BY <2>1, FoldExists
    <2> QED
        BY <2>2, Zenon
<1> DEFINE Is(h) == h = [t \in SUBSET (DOMAIN s) |->
               IF t = {} THEN ComputeInit ELSE ComputeFrame(h[t \ {Max(t)}], s[Max(t)])]
<1>2. \A h : Is(h) <=> FoldsTo("compute", ComputeInit, s, h)
    <2>1. "compute" # "parse_oops"
        OBVIOUS
    <2> QED
        BY <2>1, Zenon DEF FoldsTo, Folding
<1>3. \A h : Is(h) <=> h = g
    <2>1. DOMAIN s = 1 .. Len(s) /\ Len(s) \in Nat
        OBVIOUS
    <2> HIDE DEF Is
    <2> QED
        BY <1>1, <1>2, <2>1, FoldUnique
<1>4. (CHOOSE h : Is(h)) = g
    <2> HIDE DEF Is
    <2> QED
        BY <1>3
<1>5. Compute(s) = (CHOOSE h : Is(h))[DOMAIN s]
    BY Zenon DEF Compute, FoldLeft, MapThenFoldSet
<1> QED
    BY <1>1, <1>4, <1>5, Zenon

\* What the folds of signature.rs do with the next line or frame.
LEMMA ParseSteps ==
    /\ parse_oops(<<>>) = ParserInit
    /\ \A S : \A s \in Seq(S), x \in S :
          parse_oops(Append(s, x)) = ParseLine(parse_oops(s), x)
<1>1. parse_oops(<<>>) = ParserInit
    <2>1. PICK g : /\ FoldsTo("parse_oops", ParserInit, <<>>, g)
                   /\ parse_oops(<<>>) = g[DOMAIN <<>>]
        BY ParseFolds, <<>> \in Seq({})
    <2>2. DOMAIN <<>> = {} /\ {} \in SUBSET {}
        OBVIOUS
    <2> QED
        BY <2>1, <2>2 DEF FoldsTo
<1>2. ASSUME NEW S, NEW s \in Seq(S), NEW x \in S
      PROVE  parse_oops(Append(s, x)) = ParseLine(parse_oops(s), x)
    <2>1. PICK u \in Seq(S) : u = Append(s, x)
        BY Append(s, x) \in Seq(S), Zenon
    <2>2. PICK g : /\ FoldsTo("parse_oops", ParserInit, u, g)
                   /\ parse_oops(u) = g[DOMAIN u]
        BY <2>1, ParseFolds
    <2>3. PICK h : /\ FoldsTo("parse_oops", ParserInit, s, h)
                   /\ parse_oops(s) = h[DOMAIN s]
        BY ParseFolds
    <2>4. g[DOMAIN u] = Folding("parse_oops", h[DOMAIN s], x)
        BY <2>1, <2>2, <2>3, FoldAppends
    <2> QED
        BY <2>1, <2>2, <2>3, <2>4 DEF Folding
<1> QED
    BY <1>1, <1>2

LEMMA ComputeSteps ==
    /\ Compute(<<>>) = ComputeInit
    /\ \A S : \A s \in Seq(S), x \in S :
          Compute(Append(s, x)) = ComputeFrame(Compute(s), x)
<1>1. Compute(<<>>) = ComputeInit
    <2>1. PICK g : /\ FoldsTo("compute", ComputeInit, <<>>, g)
                   /\ Compute(<<>>) = g[DOMAIN <<>>]
        BY ComputeFolds, <<>> \in Seq({})
    <2>2. DOMAIN <<>> = {} /\ {} \in SUBSET {}
        OBVIOUS
    <2> QED
        BY <2>1, <2>2 DEF FoldsTo
<1>2. ASSUME NEW S, NEW s \in Seq(S), NEW x \in S
      PROVE  Compute(Append(s, x)) = ComputeFrame(Compute(s), x)
    <2>1. PICK u \in Seq(S) : u = Append(s, x)
        BY Append(s, x) \in Seq(S), Zenon
    <2>2. PICK g : FoldsTo("compute", ComputeInit, u, g) /\ Compute(u) = g[DOMAIN u]
        BY <2>1, ComputeFolds
    <2>3. PICK h : FoldsTo("compute", ComputeInit, s, h) /\ Compute(s) = h[DOMAIN s]
        BY ComputeFolds
    <2>4. g[DOMAIN u] = Folding("compute", h[DOMAIN s], x)
        BY <2>1, <2>2, <2>3, FoldAppends
    <2> QED
        BY <2>1, <2>2, <2>3, <2>4 DEF Folding
<1> QED
    BY <1>1, <1>2

-----------------------------------------------------------------------------
(* The lines of a text                                                     *)

LEMMA NoneIsNoLine == None \notin Lines
BY LinesAssumption

FrameLines == {AsFrame(l) : l \in Lines}

\* The local variables of parse_oops, of a text of such lines.
Parsers(L) ==
    [exception : L \cup {None}, frames : Seq({AsFrame(l) : l \in L}), inTrace : BOOLEAN]

\* A line starts a section, or counts as a frame behind those before it.
StartsIn(p, line) ==
    line.kind = "marker" /\ (p.frames # <<>> \/ p.exception = None)
CountsIn(p, line) == p.inTrace /\ HasOffset(line)
BeforeIn(p, line) == IF StartsIn(p, line) THEN <<>> ELSE p.frames

LEMMA LineParsed ==
    ASSUME NEW L, NEW old \in Parsers(L), NEW line \in L
    PROVE  LET p == ParseLine(old, line)
           IN /\ p \in Parsers(L)
              /\ p.exception = IF StartsIn(old, line) THEN line ELSE old.exception
              /\ p.frames = IF CountsIn(old, line)
                            THEN Append(BeforeIn(old, line), AsFrame(line))
                            ELSE BeforeIn(old, line)
              /\ p.inTrace <=> \/ line.kind = "calltrace"
                               \/ old.inTrace /\ HasOffset(line)
<1> DEFINE F == {AsFrame(l) : l \in L}
<1>1. PICK q : q = NewSection(old, line)
    OBVIOUS
<1>2. /\ q \in [exception : L \cup {None}, frames : Seq(F), inTrace : BOOLEAN]
      /\ q.exception = IF StartsIn(old, line) THEN line ELSE old.exception
      /\ q.frames = BeforeIn(old, line) /\ q.inTrace = old.inTrace
    <2>1. <<>> \in Seq(F)
        OBVIOUS
    <2>2. CASE StartsIn(old, line)
        <3>1. q = [old EXCEPT !.frames = <<>>, !.exception = line]
            BY <1>1, <2>2 DEF NewSection, StartsIn
        <3> QED
            BY <2>1, <2>2, <3>1 DEF Parsers, BeforeIn
    <2>3. CASE ~StartsIn(old, line)
        <3>1. q = old
            BY <1>1, <2>3 DEF NewSection, StartsIn
        <3> QED
            BY <2>3, <3>1 DEF Parsers, BeforeIn
    <2> QED
        BY <2>2, <2>3
<1>3. AsFrame(line) \in F
    OBVIOUS
<1>4. HasOffset(line) => line.kind # "calltrace"
    BY DEF HasOffset
<1>5. CASE line.kind = "calltrace"
    <2>1. ParseLine(old, line) = [q EXCEPT !.inTrace = TRUE]
        BY <1>1, <1>5 DEF ParseLine, InTrace
    <2> QED
        BY <1>2, <1>4, <1>5, <2>1 DEF CountsIn, Parsers
<1>6. CASE line.kind # "calltrace" /\ ~q.inTrace
    <2>1. ParseLine(old, line) = q
        BY <1>1, <1>6 DEF ParseLine, InTrace
    <2> QED
        BY <1>2, <1>6, <2>1 DEF CountsIn, Parsers
<1>7. CASE line.kind # "calltrace" /\ q.inTrace /\ HasOffset(line)
    <2>1. ParseLine(old, line) = [q EXCEPT !.frames = Append(@, AsFrame(line))]
        BY <1>1, <1>7 DEF ParseLine, InTrace
    <2>2. Append(q.frames, AsFrame(line)) \in Seq(F)
        BY <1>2, <1>3
    <2> QED
        BY <1>2, <1>7, <2>1, <2>2 DEF CountsIn, Parsers
<1>8. CASE line.kind # "calltrace" /\ q.inTrace /\ ~HasOffset(line)
    <2>1. ParseLine(old, line) = [q EXCEPT !.inTrace = FALSE]
        BY <1>1, <1>8 DEF ParseLine, InTrace
    <2> QED
        BY <1>2, <1>8, <2>1 DEF CountsIn, Parsers
<1> QED
    BY <1>2, <1>5, <1>6, <1>7, <1>8

\* The same of the model's parser.
ParserType    == parser \in Parsers(Lines)
Starts(line)  == StartsIn(parser, line)
Counts(line)  == CountsIn(parser, line)
Before(line)  == BeforeIn(parser, line)

LEMMA Parsed ==
    ASSUME ParserType, NEW line \in Lines
    PROVE  LET p == ParseLine(parser, line)
           IN /\ p \in Parsers(Lines)
              /\ p.exception = IF Starts(line) THEN line ELSE parser.exception
              /\ p.frames = IF Counts(line) THEN Append(Before(line), AsFrame(line))
                            ELSE Before(line)
              /\ p.inTrace <=> \/ line.kind = "calltrace"
                               \/ parser.inTrace /\ HasOffset(line)
BY LineParsed DEF ParserType, Starts, Counts, Before

\* The lines that are there keep their place in the trace.
LEMMA Lengthened ==
    ASSUME text \in Seq(Lines), NEW line \in Lines, text' = Append(text, line),
           NEW n \in Nat, n = Len(text) + 1
    PROVE  /\ text' \in Seq(Lines) /\ Len(text') = n
           /\ DOMAIN text = 1 .. n - 1 /\ DOMAIN text' = 1 .. n
           /\ text'[n] = line /\ \A j \in 1 .. n - 1 : text'[j] = text[j]
           /\ TraceOpenAt(n + 1)' <=> \/ line.kind = "calltrace"
                                      \/ TraceOpenAt(n) /\ HasOffset(line)
           /\ \A i \in 1 .. n :
                 FramesFrom(i)' = IF HasOffset(line) /\ TraceOpenAt(n)
                                  THEN FramesFrom(i) \cup {n} ELSE FramesFrom(i)
           /\ FramesFrom(n) = {}
<1>1. /\ text' \in Seq(Lines) /\ Len(text') = n /\ Len(text) = n - 1 /\ n >= 1
      /\ DOMAIN text = 1 .. n - 1 /\ DOMAIN text' = 1 .. n
      /\ text'[n] = line /\ \A j \in 1 .. n - 1 : text'[j] = text[j]
    OBVIOUS
<1>2. \A j \in 1 .. n : TraceOpenAt(j)' <=> TraceOpenAt(j)
    BY <1>1 DEF TraceOpenAt
<1>3. TraceOpenAt(n + 1)' <=> line.kind = "calltrace" \/ (TraceOpenAt(n) /\ HasOffset(line))
    <2>1. ASSUME NEW c \in 1 .. n - 1
          PROVE  (\A k \in c .. n : text'[k].kind = "calltrace" \/ HasOffset(text'[k]))
                    <=> /\ \A k \in c .. n - 1 : text[k].kind = "calltrace" \/ HasOffset(text[k])
                        /\ line.kind = "calltrace" \/ HasOffset(line)
        <3>1. \A k \in c .. n : k \in c .. n - 1 \/ k = n
            OBVIOUS
        <3>2. c .. n - 1 \subseteq 1 .. n - 1 /\ c .. n - 1 \subseteq c .. n /\ n \in c .. n
            OBVIOUS
        <3> QED
            BY <1>1, <3>1, <3>2
    <2>2. TraceOpenAt(n + 1)' <=>
              \E c \in 1 .. n :
                  /\ text'[c].kind = "calltrace"
                  /\ \A k \in c .. n : text'[k].kind = "calltrace" \/ HasOffset(text'[k])
        BY DEF TraceOpenAt
    <2>3. CASE line.kind = "calltrace"
        <3>1. n \in 1 .. n /\ \A k \in n .. n : k = n
            BY <1>1
        <3> QED
            BY <1>1, <2>2, <2>3, <3>1
    <2>4. CASE line.kind # "calltrace"
        <3>1. \A c \in 1 .. n : text'[c].kind = "calltrace" =>
                  c \in 1 .. n - 1 /\ text[c].kind = "calltrace"
            BY <1>1, <2>4
        <3>2. 1 .. n - 1 \subseteq 1 .. n
            OBVIOUS
        <3> QED
            BY <1>1, <2>1, <2>2, <2>4, <3>1, <3>2 DEF TraceOpenAt
    <2> QED
        BY <2>3, <2>4
<1>4. ASSUME NEW i \in 1 .. n
      PROVE  FramesFrom(i)' = IF HasOffset(line) /\ TraceOpenAt(n)
                              THEN FramesFrom(i) \cup {n} ELSE FramesFrom(i)
    <2>1. FramesFrom(i)' = {j \in i .. n : HasOffset(text'[j]) /\ TraceOpenAt(j)}
        BY <1>1, <1>2 DEF FramesFrom
    <2>2. FramesFrom(i) = {j \in i .. n - 1 : HasOffset(text[j]) /\ TraceOpenAt(j)}
        BY <1>1 DEF FramesFrom
    <2>3. i .. n = (i .. n - 1) \cup {n} /\ \A j \in i .. n - 1 : text'[j] = text[j]
        BY <1>1
    <2> QED
        BY <1>1, <2>1, <2>2, <2>3
<1>5. FramesFrom(n) = {}
    BY <1>1 DEF FramesFrom
<1> QED
    BY <1>1, <1>3, <1>4, <1>5

\* The frames are those of the lines from the exception's on, and none of them
\* has a marker behind it.
OfCrash(i) ==
    /\ text[i] = parser.exception
    /\ Len(parser.frames) = Cardinality(FramesFrom(i))
    /\ \A j \in FramesFrom(i) :
          /\ parser.frames[Cardinality(FramesFrom(i) \cap 1 .. j)] = AsFrame(text[j])
          /\ \A k \in j + 1 .. Len(text) : text[k].kind # "marker"

\* OneCrashOnly says nothing of the trace; whether the next line counts depends
\* on the line that ended the last one.
CrashInv ==
    /\ text \in Seq(Lines) /\ ParserType
    /\ parser.inTrace <=> TraceOpenAt(Len(text) + 1)
    /\ parser.exception # None => \E i \in DOMAIN text : OfCrash(i)

\* How many frames there are up to a line does not change.
LEMMA FramesCounted ==
    ASSUME text \in Seq(Lines), NEW i \in DOMAIN text \cup {Len(text) + 1}
    PROVE  /\ IsFiniteSet(FramesFrom(i)) /\ FramesFrom(i) \subseteq DOMAIN text
           /\ \A j \in FramesFrom(i) :
                 /\ IsFiniteSet(FramesFrom(i) \cap 1 .. j)
                 /\ Cardinality(FramesFrom(i) \cap 1 .. j) \in 1 .. Cardinality(FramesFrom(i))
<1>1. FramesFrom(i) \subseteq 1 .. Len(text) /\ DOMAIN text = 1 .. Len(text) /\ Len(text) \in Nat
    BY DEF FramesFrom
<1>2. IsFiniteSet(FramesFrom(i))
    <2>1. IsFiniteSet(1 .. Len(text))
        BY <1>1, FS_Interval
    <2> QED
        BY <1>1, <2>1, FS_Subset
<1>3. ASSUME NEW j \in FramesFrom(i)
      PROVE  /\ IsFiniteSet(FramesFrom(i) \cap 1 .. j)
             /\ Cardinality(FramesFrom(i) \cap 1 .. j) \in 1 .. Cardinality(FramesFrom(i))
    <2> DEFINE F == FramesFrom(i) \cap 1 .. j
    <2>1. j \in F /\ F \subseteq FramesFrom(i)
        BY <1>1
    <2>2. /\ IsFiniteSet(F) /\ Cardinality(F) \in Nat /\ Cardinality(FramesFrom(i)) \in Nat
          /\ Cardinality(F) <= Cardinality(FramesFrom(i))
        BY <1>2, <2>1, FS_Subset, FS_CardinalityType
    <2>3. Cardinality(F) # 0
        BY <2>1, <2>2, FS_EmptySet
    <2> QED
        BY <2>2, <2>3
<1> QED
    BY <1>1, <1>2, <1>3

\* Another line: a frame more, of the same crash, or of none.
LEMMA FrameTaken ==
    ASSUME CrashInv, ParserType', NEW line \in Lines, text' = Append(text, line),
           NEW n \in Nat, n = Len(text) + 1, NEW i \in 1 .. n,
           parser'.exception = text'[i],
           parser'.frames = IF Counts(line) THEN Append(Before(line), AsFrame(line))
                            ELSE Before(line),
           \/ i = n /\ Before(line) = <<>>
           \/ i # n /\ OfCrash(i) /\ Before(line) = parser.frames
              /\ (line.kind = "marker" => parser.frames = <<>>)
    PROVE  OfCrash(i)'
<1> DEFINE F == FramesFrom(i)
           B == Before(line)
<1>1. /\ text \in Seq(Lines) /\ ParserType /\ Len(text') = n /\ DOMAIN text = 1 .. n - 1
      /\ text'[n] = line /\ \A j \in 1 .. n - 1 : text'[j] = text[j]
      /\ F' = IF Counts(line) THEN F \cup {n} ELSE F
      /\ i = n => F = {}
    BY Lengthened DEF CrashInv, Counts, CountsIn
<1>2. /\ IsFiniteSet(F) /\ F \subseteq 1 .. n - 1 /\ Cardinality(F) \in Nat
      /\ \A j \in F : Cardinality(F \cap 1 .. j) \in 1 .. Cardinality(F)
    BY <1>1, FramesCounted, FS_CardinalityType
<1>3. /\ B \in Seq(FrameLines) /\ Len(B) = Cardinality(F)
      /\ \A j \in F : B[Cardinality(F \cap 1 .. j)] = AsFrame(text[j])
      /\ \A j \in F : \A k \in j + 1 .. n : text'[k].kind # "marker"
    <2>1. CASE i = n /\ B = <<>>
        <3>1. F = {} /\ Cardinality(F) = 0
            BY <1>1, <2>1, FS_EmptySet
        <3>2. <<>> \in Seq(FrameLines) /\ Len(<<>>) = 0
            OBVIOUS
        <3> QED
            BY <2>1, <3>1, <3>2
    <2>2. CASE /\ i # n /\ OfCrash(i) /\ B = parser.frames
               /\ (line.kind = "marker" => parser.frames = <<>>)
        <3>1. Len(text) = n - 1
            BY <1>1
        <3>2. line.kind = "marker" => F = {}
            BY <1>2, <2>2, FS_EmptySet DEF OfCrash
        <3>3. ASSUME NEW j \in F, NEW k \in j + 1 .. n PROVE text'[k].kind # "marker"
            <4>1. k = n \/ k \in j + 1 .. n - 1
                BY <1>2
            <4>2. CASE k = n
                BY <1>1, <3>2, <4>2
            <4>3. CASE k \in j + 1 .. n - 1
                <5>1. text[k].kind # "marker"
                    BY <2>2, <3>1, <4>3 DEF OfCrash
                <5>2. text'[k] = text[k]
                    BY <1>1, <1>2, <4>3
                <5> QED
                    BY <5>1, <5>2
            <4> QED
                BY <4>1, <4>2, <4>3
        <3> QED
            BY <1>1, <2>2, <3>3 DEF OfCrash, ParserType, Parsers, FrameLines
    <2> QED
        BY <2>1, <2>2
<1>4. \A j \in F : j < n /\ F' \cap 1 .. j = F \cap 1 .. j /\ text'[j] = text[j]
    BY <1>1, <1>2
<1>5. CASE ~Counts(line)
    <2>1. F' = F /\ parser'.frames = B
        BY <1>1, <1>5
    <2> HIDE DEF F, B
    <2>2. /\ Len(parser'.frames) = Cardinality(F')
          /\ \A j \in F' :
                /\ parser'.frames[Cardinality(F' \cap 1 .. j)] = AsFrame(text'[j])
                /\ \A k \in j + 1 .. Len(text') : text'[k].kind # "marker"
        BY <1>1, <1>3, <1>4, <2>1
    <2> QED
        BY <2>2 DEF OfCrash, F
<1>6. CASE Counts(line)
    <2>1. F' = F \cup {n} /\ parser'.frames = Append(B, AsFrame(line)) /\ n \notin F
        BY <1>1, <1>2, <1>6
    <2>2. Cardinality(F') = Cardinality(F) + 1
        BY <1>2, <2>1, FS_AddElement
    <2>3. F' \cap 1 .. n = F'
        BY <1>2, <2>1
    <2>4. /\ Len(parser'.frames) = Cardinality(F) + 1
          /\ parser'.frames[Cardinality(F) + 1] = AsFrame(line)
          /\ \A k \in 1 .. Cardinality(F) : parser'.frames[k] = B[k]
        <3>1. AsFrame(line) \in FrameLines
            BY DEF FrameLines
        <3>2. \A s \in Seq(FrameLines), x \in FrameLines :
                  /\ Len(Append(s, x)) = Len(s) + 1 /\ Append(s, x)[Len(s) + 1] = x
                  /\ \A k \in 1 .. Len(s) : Append(s, x)[k] = s[k]
            OBVIOUS
        <3>3. /\ Len(Append(B, AsFrame(line))) = Len(B) + 1
              /\ Append(B, AsFrame(line))[Len(B) + 1] = AsFrame(line)
              /\ \A k \in 1 .. Len(B) : Append(B, AsFrame(line))[k] = B[k]
            BY <1>3, <3>1, <3>2
        <3> QED
            BY <1>3, <2>1, <3>3
    <2>5. ASSUME NEW j \in F'
          PROVE  /\ parser'.frames[Cardinality(F' \cap 1 .. j)] = AsFrame(text'[j])
                 /\ \A k \in j + 1 .. Len(text') : text'[k].kind # "marker"
        <3>1. CASE j = n
            <4>1. Cardinality(F' \cap 1 .. j) = Cardinality(F) + 1 /\ text'[j] = line
                BY <1>1, <2>2, <2>3, <3>1
            <4>2. \A k : k \notin j + 1 .. Len(text')
                BY <1>1, <3>1
            <4> QED
                BY <2>4, <4>1, <4>2
        <3>2. CASE j \in F
            BY <1>1, <1>2, <1>3, <1>4, <2>4, <3>2
        <3> QED
            BY <2>1, <2>5, <3>1, <3>2
    <2> QED
        BY <2>2, <2>4, <2>5 DEF OfCrash
<1> QED
    BY <1>5, <1>6

LEMMA CrashStep == CrashInv /\ [Next]_textVars => CrashInv'
<1> SUFFICES ASSUME CrashInv, [Next]_textVars PROVE CrashInv'
    OBVIOUS
<1>1. CASE UNCHANGED textVars
    <2>1. text' = text /\ parser' = parser
        BY <1>1 DEF textVars
    <2>2. \A j : TraceOpenAt(j)' <=> TraceOpenAt(j)
        BY <2>1 DEF TraceOpenAt
    <2>3. \A i : FramesFrom(i)' = FramesFrom(i)
        BY <2>1, <2>2 DEF FramesFrom
    <2>4. \A i : OfCrash(i)' <=> OfCrash(i)
        BY <2>1, <2>3, Zenon DEF OfCrash
    <2>5. ParserType' /\ Len(text') + 1 = Len(text) + 1
        BY <2>1 DEF CrashInv, ParserType, Parsers, FrameLines
    <2> QED
        BY <2>1, <2>2, <2>4, <2>5 DEF CrashInv
<1>2. ASSUME NEW line \in Lines, NextLine(line) PROVE CrashInv'
    <2>1. /\ text \in Seq(Lines) /\ ParserType
          /\ text' = Append(text, line) /\ parser' = ParseLine(parser, line)
        BY <1>2 DEF CrashInv, NextLine
    <2>2. PICK n \in Nat \ {0} : n = Len(text) + 1
        BY <2>1
    <2>3. /\ text' \in Seq(Lines) /\ Len(text') = n
          /\ DOMAIN text = 1 .. n - 1 /\ DOMAIN text' = 1 .. n
          /\ text'[n] = line /\ \A j \in 1 .. n - 1 : text'[j] = text[j]
          /\ TraceOpenAt(n + 1)' <=> \/ line.kind = "calltrace"
                                     \/ TraceOpenAt(n) /\ HasOffset(line)
        BY <2>1, <2>2, Lengthened
    <2>4. /\ ParserType'
          /\ parser'.exception = IF Starts(line) THEN line ELSE parser.exception
          /\ parser'.frames = IF Counts(line) THEN Append(Before(line), AsFrame(line))
                              ELSE Before(line)
          /\ parser'.inTrace <=> \/ line.kind = "calltrace"
                                 \/ parser.inTrace /\ HasOffset(line)
        BY <2>1, Parsed DEF ParserType, Parsers, FrameLines
    <2>5. parser'.inTrace <=> TraceOpenAt(Len(text) + 1)'
        BY <2>2, <2>3, <2>4 DEF CrashInv
    <2>6. ASSUME parser'.exception # None PROVE \E i \in DOMAIN text' : OfCrash(i)'
        <3>1. CASE Starts(line)
            <4>1. n \in 1 .. n /\ parser'.exception = text'[n] /\ Before(line) = <<>>
                BY <2>3, <2>4, <3>1 DEF Starts, Before, BeforeIn, StartsIn
            <4>2. OfCrash(n)'
                BY <2>1, <2>2, <2>4, <4>1, FrameTaken
            <4> QED
                BY <2>3, <4>1, <4>2
        <3>2. CASE ~Starts(line)
            <4>1. PICK i \in 1 .. n - 1 : OfCrash(i)
                BY <2>3, <2>4, <2>6, <3>2 DEF CrashInv
            <4>2. /\ i \in 1 .. n /\ i # n /\ parser'.exception = text'[i]
                  /\ Before(line) = parser.frames
                  /\ line.kind = "marker" => parser.frames = <<>>
                BY <2>3, <2>4, <3>2, <4>1 DEF OfCrash, Before, Starts, StartsIn, BeforeIn
            <4>3. OfCrash(i)'
                BY <2>1, <2>2, <2>4, <4>1, <4>2, FrameTaken
            <4> QED
                BY <2>3, <4>2, <4>3
        <3> QED
            BY <3>1, <3>2
    <2> QED
        BY <2>3, <2>4, <2>5, <2>6 DEF CrashInv
<1> QED
    BY <1>1, <1>2 DEF Next

\* Of any text, also one cut off or with sections in each other, what is grouped is
\* the trace of one crash, complete and in order (parse_oops).
THEOREM OneCrashGrouped == Spec => []OneCrashOnly
<1>1. Init => CrashInv
    <2>1. Init => ~TraceOpenAt(Len(text) + 1)
        BY DEF Init, TraceOpenAt
    <2> QED
        BY <2>1 DEF Init, ParserInit, CrashInv, ParserType, Parsers, FrameLines
<1>2. CrashInv => OneCrashOnly
    BY DEF CrashInv, OfCrash, OneCrashOnly
<1> QED
    BY <1>1, <1>2, CrashStep, PTL DEF Spec

\* The text's last section starts at m and has its trace at c, or has none yet and
\* ends with its markers at c - 1.
SectionAt(m, c) ==
    LET n == Len(text) IN
    /\ m \in 1 .. c - 1 /\ c \in 1 .. n + 1
    /\ m # 1 => text[m - 1].kind = "end"
    /\ \A i \in m .. c - 1 : text[i].kind = "marker"
    /\ c <= n => text[c].kind = "calltrace"
    /\ \A i \in c + 1 .. n - 1 : text[i].kind = "frame"
    /\ c < n => text[n].kind \in {"frame", "end"}
    /\ c = n - 1 => text[n].kind = "frame"

\* The parser has its first marker and its frames.
SectionParsed(m, c) ==
    /\ parser.exception = text[m]
    /\ Len(parser.frames) = IF c < LastFrame THEN LastFrame - c ELSE 0
    /\ \A k \in 1 .. Len(parser.frames) : parser.frames[k] = text[c + k]
    /\ parser.inTrace <=> c <= Len(text) /\ Last(text).kind # "end"

InSection(m, c) == SectionAt(m, c) /\ SectionParsed(m, c)

SectionInv ==
    /\ text \in Seq(Lines) /\ ParserType
    /\ text = <<>> => parser = ParserInit
    /\ text # <<>> /\ InSections(text) => \E m, c \in Nat : InSection(m, c)

\* Its last line tells how far the section is.
LEMMA SectionEnds ==
    ASSUME NEW m \in Nat, NEW c \in Nat, SectionAt(m, c),
           NEW n \in Nat \ {0}, n = Len(text)
    PROVE  /\ text[n].kind = "marker" => c = n + 1
           /\ text[n].kind \in {"calltrace", "frame"} => c <= n
           /\ text[n].kind = "frame" => c < n
           /\ text[n].kind = "end" => c < n - 1
<1>1. /\ m \in 1 .. c - 1 /\ c \in 1 .. n + 1
      /\ \A i \in m .. c - 1 : text[i].kind = "marker"
      /\ c <= n => text[c].kind = "calltrace"
      /\ c < n => text[n].kind \in {"frame", "end"}
      /\ c = n - 1 => text[n].kind = "frame"
    BY DEF SectionAt
<1>2. CASE c = n + 1
    <2>1. n \in m .. c - 1
        BY <1>1, <1>2
    <2> QED
        BY <1>1, <1>2, <2>1
<1>3. CASE c = n
    BY <1>1, <1>3
<1>4. CASE c < n
    <2>1. c # n - 1 => c < n - 1
        BY <1>1, <1>4
    <2> QED
        BY <1>1, <1>4, <2>1
<1> QED
    BY <1>1, <1>2, <1>3, <1>4

\* What may come next depends on how far the section is.
LEMMA SectionStep ==
    ASSUME SectionInv, NEW line \in Lines, NextLine(line)
    PROVE  SectionInv'
<1>1. /\ text \in Seq(Lines) /\ ParserType
      /\ text' = Append(text, line) /\ parser' = ParseLine(parser, line)
    BY DEF SectionInv, NextLine
<1>2. PICK n \in Nat \ {0} : n = Len(text) + 1
    BY <1>1
<1>3. /\ text' \in Seq(Lines) /\ Len(text') = n /\ Len(text) = n - 1
      /\ DOMAIN text = 1 .. n - 1 /\ DOMAIN text' = 1 .. n
      /\ text'[n] = line /\ \A j \in 1 .. n - 1 : text'[j] = text[j]
    BY <1>1, <1>2
<1>4. /\ ParserType'
      /\ parser'.exception = IF Starts(line) THEN line ELSE parser.exception
      /\ parser'.frames = IF Counts(line) THEN Append(Before(line), AsFrame(line))
                          ELSE Before(line)
      /\ parser'.inTrace <=> \/ line.kind = "calltrace"
                             \/ parser.inTrace /\ HasOffset(line)
    BY <1>1, Parsed DEF ParserType, Parsers, FrameLines
<1>5. SUFFICES ASSUME InSections(text)'
               PROVE  \E m, c \in Nat : InSection(m, c)'
    BY <1>1, <1>3, <1>4 DEF SectionInv
<1>6. /\ May(line.kind, IF n = 1 THEN "end" ELSE text[n - 1].kind)
      /\ n # 1 => text # <<>> /\ InSections(text)
    <2>1. \A i \in 1 .. n : May(text'[i].kind, IF i = 1 THEN "end" ELSE text'[i - 1].kind)
        BY <1>3, <1>5 DEF InSections
    <2>2. May(text'[n].kind, IF n = 1 THEN "end" ELSE text'[n - 1].kind)
        BY <2>1
    <2>3. n # 1 => text'[n - 1] = text[n - 1]
        BY <1>3
    <2>4. ASSUME NEW i \in 1 .. n - 1
          PROVE  May(text[i].kind, IF i = 1 THEN "end" ELSE text[i - 1].kind)
        <3>1. i \in 1 .. n /\ text'[i] = text[i] /\ (i # 1 => text'[i - 1] = text[i - 1])
            BY <1>3
        <3> QED
            BY <2>1, <3>1
    <2> QED
        BY <1>3, <2>2, <2>3, <2>4 DEF InSections
<1>7. LastFrame = (IF text[n - 1].kind = "end" THEN n - 2 ELSE n - 1)
      /\ LastFrame' = (IF line.kind = "end" THEN n - 1 ELSE n)
    BY <1>3 DEF LastFrame, Last
<1>8. n # 1 => \E m, c \in Nat : InSection(m, c)
    BY <1>6 DEF SectionInv
<1>9. ASSUME NEW m \in 1 .. n, NEW c \in m + 1 .. n + 1,
             m # 1 => text'[m - 1].kind = "end",
             \A i \in m .. c - 1 : text'[i].kind = "marker",
             c <= n => text'[c].kind = "calltrace",
             \A i \in c + 1 .. n - 1 : text'[i].kind = "frame",
             c < n => line.kind \in {"frame", "end"},
             c = n - 1 => line.kind = "frame",
             parser'.exception = text'[m],
             parser'.inTrace <=> c <= n /\ line.kind # "end",
             \/ c >= n /\ parser'.frames = <<>>
             \/ /\ c < n
                /\ Len(parser'.frames) = (IF line.kind = "end" THEN n - 1 ELSE n) - c
                /\ \A k \in 1 .. Len(parser'.frames) : parser'.frames[k] = text'[c + k]
      PROVE  \E mm, cc \in Nat : InSection(mm, cc)'
    <2>1. m \in Nat /\ c \in Nat /\ m \in 1 .. c - 1 /\ c \in 1 .. n + 1
        OBVIOUS
    <2>2. /\ Len(parser'.frames) = IF c < LastFrame' THEN LastFrame' - c ELSE 0
          /\ \A k \in 1 .. Len(parser'.frames) : parser'.frames[k] = text'[c + k]
        <3>1. CASE c >= n /\ parser'.frames = <<>>
            BY <1>7, <2>1, <3>1
        <3>2. CASE /\ c < n
                   /\ Len(parser'.frames) = (IF line.kind = "end" THEN n - 1 ELSE n) - c
                   /\ \A k \in 1 .. Len(parser'.frames) : parser'.frames[k] = text'[c + k]
            BY <1>7, <1>9, <2>1, <3>2
        <3> QED
            BY <1>9, <3>1, <3>2
    <2>3. SectionAt(m, c)'
        BY <1>3, <1>9, <2>1 DEF SectionAt
    <2>4. SectionParsed(m, c)'
        BY <1>3, <1>9, <2>2 DEF SectionParsed, Last
    <2> QED
        BY <2>1, <2>3, <2>4 DEF InSection
<1>10. CASE line.kind = "marker" /\ (n = 1 \/ text[n - 1].kind = "end")
    <2>1. (parser.frames # <<>> \/ parser.exception = None) /\ ~parser.inTrace
        <3>1. CASE n = 1
            BY <1>3, <3>1 DEF SectionInv, ParserInit
        <3>2. CASE n # 1
            <4>1. PICK m, c \in Nat : InSection(m, c)
                BY <1>8, <3>2
            <4>2. text[n - 1].kind = "end" /\ Last(text) = text[n - 1] /\ n - 1 \in Nat \ {0}
                BY <1>3, <1>10, <3>2 DEF Last
            <4>3. c < n - 2
                <5>1. PICK k \in Nat \ {0} : k = n - 1
                    BY <4>2
                <5>2. c < k - 1
                    BY <1>3, <4>1, <4>2, <5>1, SectionEnds DEF InSection
                <5> QED
                    BY <5>1, <5>2
            <4>4. LastFrame = n - 2 /\ Len(parser.frames) = LastFrame - c /\ ~parser.inTrace
                BY <1>7, <4>1, <4>2, <4>3 DEF InSection, SectionParsed
            <4>5. Len(parser.frames) # 0
                BY <4>3, <4>4
            <4> QED
                BY <4>4, <4>5
        <3> QED
            BY <3>1, <3>2
    <2>2. parser'.exception = line /\ parser'.frames = <<>> /\ ~parser'.inTrace
        BY <1>4, <1>10, <2>1 DEF Starts, Counts, Before, StartsIn, CountsIn, BeforeIn
    <2>3. n \in 1 .. n /\ n + 1 \in n + 1 .. n + 1 /\ \A i \in n .. n + 1 - 1 : i = n
        OBVIOUS
    <2>4. \A i : i \notin n + 1 + 1 .. n - 1
        OBVIOUS
    <2> QED
        BY <1>3, <1>9, <1>10, <2>2, <2>3, <2>4
<1>11. CASE n # 1 /\ line.kind \in {"marker", "calltrace"} /\ text[n - 1].kind = "marker"
    <2>1. PICK m, c \in Nat : InSection(m, c)
        BY <1>8, <1>11
    <2>2. c = n
        BY <1>3, <1>11, <2>1, SectionEnds DEF InSection
    <2>3. /\ m \in 1 .. n - 1 /\ \A i \in m .. n - 1 : text[i].kind = "marker"
          /\ m # 1 => text[m - 1].kind = "end"
          /\ parser.exception = text[m] /\ ~parser.inTrace
          /\ Len(parser.frames) = 0
        <3>1. /\ m \in 1 .. n - 1 /\ \A i \in m .. n - 1 : text[i].kind = "marker"
              /\ m # 1 => text[m - 1].kind = "end"
            BY <2>1, <2>2 DEF InSection, SectionAt
        <3>2. ~(c <= Len(text)) /\ ~(c < LastFrame)
            BY <1>3, <1>7, <2>2
        <3> QED
            BY <2>1, <3>1, <3>2 DEF InSection, SectionParsed
    <2>4. parser.frames = <<>> /\ parser.exception # None
        BY <1>1, <1>3, <2>3, NoneIsNoLine DEF ParserType, Parsers, FrameLines
    <2>5. /\ parser'.exception = text[m] /\ parser'.frames = <<>>
          /\ parser'.inTrace <=> line.kind = "calltrace"
        BY <1>4, <2>3, <2>4 DEF Starts, Counts, Before, StartsIn, CountsIn, BeforeIn
    <2>6. /\ m \in 1 .. n /\ n \in m + 1 .. n + 1 /\ n + 1 \in m + 1 .. n + 1
          /\ m # 1 => text'[m - 1].kind = "end"
          /\ \A i \in m .. n - 1 : text'[i].kind = "marker"
          /\ text'[m] = text[m] /\ text'[n] = line
          /\ \A i : i \notin n + 1 .. n - 1 /\ i \notin n + 1 + 1 .. n - 1
        BY <1>3, <2>3
    <2>7. CASE line.kind = "marker"
        <3>1. \A i \in m .. n + 1 - 1 : text'[i].kind = "marker"
            BY <2>6, <2>7
        <3> QED
            BY <1>9, <2>5, <2>6, <2>7, <3>1
    <2>8. CASE line.kind = "calltrace"
        BY <1>9, <2>5, <2>6, <2>8
    <2> QED
        BY <1>11, <2>7, <2>8
<1>12. CASE /\ n # 1 /\ text[n - 1].kind \in {"calltrace", "frame"}
            /\ line.kind \in {"frame", "end"}
            /\ line.kind = "end" => text[n - 1].kind = "frame"
    <2>1. PICK m, c \in Nat : InSection(m, c)
        BY <1>8, <1>12
    <2>2. c <= n - 1 /\ (line.kind = "end" => c < n - 1)
        BY <1>3, <1>12, <2>1, SectionEnds DEF InSection
    <2>3. /\ m \in 1 .. c - 1 /\ c \in 1 .. n - 1
          /\ m # 1 => text[m - 1].kind = "end"
          /\ \A i \in m .. c - 1 : text[i].kind = "marker"
          /\ text[c].kind = "calltrace"
          /\ \A i \in c + 1 .. n - 1 : text[i].kind = "frame"
        <3>1. /\ m \in 1 .. c - 1 /\ c \in 1 .. n - 1
              /\ m # 1 => text[m - 1].kind = "end"
              /\ \A i \in m .. c - 1 : text[i].kind = "marker"
              /\ text[c].kind = "calltrace"
              /\ \A i \in c + 1 .. n - 2 : text[i].kind = "frame"
              /\ c < n - 1 => text[n - 1].kind \in {"frame", "end"}
            BY <1>3, <2>1, <2>2 DEF InSection, SectionAt
        <3>2. \A i \in c + 1 .. n - 1 : i \in c + 1 .. n - 2 \/ (i = n - 1 /\ c < n - 1)
            BY <3>1
        <3> QED
            BY <1>12, <3>1, <3>2
    <2>4. /\ parser.exception = text[m] /\ parser.inTrace
          /\ Len(parser.frames) = n - 1 - c
          /\ \A k \in 1 .. n - 1 - c : parser.frames[k] = text[c + k]
        <3>1. LastFrame = n - 1 /\ c <= Len(text) /\ Last(text).kind # "end"
            BY <1>3, <1>7, <1>12, <2>2 DEF Last
        <3>2. c < LastFrame \/ (~(c < LastFrame) /\ n - 1 - c = 0)
            BY <2>2, <2>3, <3>1
        <3>3. /\ parser.exception = text[m] /\ parser.inTrace
              /\ Len(parser.frames) = IF c < LastFrame THEN LastFrame - c ELSE 0
              /\ \A k \in 1 .. Len(parser.frames) : parser.frames[k] = text[c + k]
            BY <2>1, <3>1 DEF InSection, SectionParsed
        <3>4. Len(parser.frames) = n - 1 - c
            BY <3>1, <3>2, <3>3
        <3> QED
            BY <3>3, <3>4
    <2>5. /\ m \in 1 .. n /\ c \in m + 1 .. n + 1
          /\ m # 1 => text'[m - 1].kind = "end"
          /\ \A i \in m .. c - 1 : text'[i].kind = "marker"
          /\ text'[c].kind = "calltrace" /\ text'[m] = text[m]
          /\ \A i \in c + 1 .. n - 1 : text'[i].kind = "frame"
          /\ \A k \in 1 .. n - 1 - c : parser.frames[k] = text'[c + k]
        BY <1>3, <2>3, <2>4
    <2>6. CASE line.kind = "end"
        <3>1. parser'.exception = text[m] /\ parser'.frames = parser.frames /\ ~parser'.inTrace
            BY <1>4, <2>4, <2>6
            DEF Starts, Counts, Before, HasOffset, StartsIn, CountsIn, BeforeIn
        <3>2. /\ c < n /\ c # n - 1
              /\ Len(parser'.frames) = (IF line.kind = "end" THEN n - 1 ELSE n) - c
              /\ \A k \in 1 .. Len(parser'.frames) : parser'.frames[k] = text'[c + k]
            BY <2>2, <2>3, <2>4, <2>5, <2>6, <3>1
        <3>3. parser'.exception = text'[m] /\ (parser'.inTrace <=> c <= n /\ line.kind # "end")
            BY <2>5, <2>6, <3>1
        <3> QED
            BY <1>9, <2>5, <2>6, <3>2, <3>3
    <2>7. CASE line.kind = "frame"
        <3>1. /\ parser'.exception = text[m] /\ parser'.inTrace
              /\ parser'.frames = Append(parser.frames, line)
            BY <1>4, <2>4, <2>7
            DEF Starts, Counts, Before, HasOffset, AsFrame, StartsIn, CountsIn, BeforeIn
        <3>2. /\ Len(parser'.frames) = n - c /\ parser'.frames[n - c] = line
              /\ \A k \in 1 .. n - 1 - c : parser'.frames[k] = parser.frames[k]
            BY <1>1, <2>3, <2>4, <3>1 DEF ParserType, Parsers, FrameLines
        <3>3. \A k \in 1 .. n - c : parser'.frames[k] = text'[c + k]
            <4>1. \A k \in 1 .. n - c : k \in 1 .. n - 1 - c \/ (k = n - c /\ c + k = n)
                BY <2>3
            <4> QED
                BY <1>3, <2>5, <3>2, <4>1
        <3>4. /\ c < n
              /\ Len(parser'.frames) = (IF line.kind = "end" THEN n - 1 ELSE n) - c
              /\ \A k \in 1 .. Len(parser'.frames) : parser'.frames[k] = text'[c + k]
            BY <2>3, <2>7, <3>2, <3>3
        <3>5. parser'.exception = text'[m] /\ (parser'.inTrace <=> c <= n /\ line.kind # "end")
            BY <2>3, <2>5, <2>7, <3>1
        <3> QED
            BY <1>9, <2>5, <2>7, <3>4, <3>5
    <2> QED
        BY <1>12, <2>6, <2>7
<1> QED
    BY <1>6, <1>10, <1>11, <1>12 DEF May

LEMMA SectionAlways == Spec => []SectionInv
<1>1. Init => SectionInv
    BY DEF Init, ParserInit, SectionInv, ParserType, Parsers, FrameLines
<1>2. ASSUME SectionInv, UNCHANGED textVars PROVE SectionInv'
    <2>1. text' = text /\ parser' = parser
        BY <1>2 DEF textVars
    <2>2. \A m, c : InSection(m, c)' <=> InSection(m, c)
        BY <2>1 DEF InSection, SectionAt, SectionParsed, LastFrame, Last
    <2>3. InSections(text)' <=> InSections(text)
        BY <2>1
    <2> QED
        BY <1>2, <2>1, <2>2, <2>3 DEF SectionInv, ParserType, Parsers, FrameLines
<1>3. SectionInv /\ [Next]_textVars => SectionInv'
    BY <1>2, SectionStep DEF Next
<1> QED
    BY <1>1, <1>3, PTL DEF Spec

\* Where the section of InSection is, the property looks.
LEMMA SectionFound ==
    ASSUME text \in Seq(Lines), NEW m \in Nat, NEW c \in Nat, InSection(m, c),
           text # <<>>, Last(text).kind \in {"frame", "end"}
    PROVE  LastTrace = c /\ LastMarker = m
<1>1. /\ DOMAIN text = 1 .. Len(text) /\ Len(text) \in Nat \ {0}
      /\ text[Len(text)].kind \in {"frame", "end"}
    BY DEF Last
<1>2. /\ m \in 1 .. c - 1 /\ c \in 1 .. Len(text) + 1
      /\ m # 1 => text[m - 1].kind = "end"
      /\ \A i \in m .. c - 1 : text[i].kind = "marker"
      /\ c <= Len(text) => text[c].kind = "calltrace"
      /\ \A i \in c + 1 .. Len(text) - 1 : text[i].kind = "frame"
    BY DEF InSection, SectionAt
<1>3. c <= Len(text)
    BY <1>1, <1>2
<1>4. LastTrace = c
    <2> DEFINE I == {i \in DOMAIN text : text[i].kind = "calltrace"}
    <2>1. c \in I
        BY <1>1, <1>2, <1>3
    <2>2. ASSUME NEW i \in I PROVE c >= i
        <3>1. i \in c + 1 .. Len(text) - 1 \/ i = Len(text) \/ c >= i
            BY <1>1, <1>2
        <3> QED
            BY <1>1, <1>2, <3>1
    <2>3. \A k \in I : (\A i \in I : k >= i) => k = c
        BY <1>1, <1>2, <2>1, <2>2
    <2>4. Max(I) = c
        BY <2>1, <2>2, <2>3 DEF Max
    <2> QED
        BY <2>4 DEF LastTrace
<1>5. LastMarker = m
    <2> DEFINE I == {i \in 1 .. c - 1 : \A j \in i .. c - 1 : text[j].kind = "marker"}
    <2>1. m \in I
        BY <1>2
    <2>2. ASSUME NEW i \in I PROVE m <= i
        <3>1. ASSUME i < m PROVE FALSE
            <4>1. m - 1 \in i .. c - 1 /\ m # 1
                BY <1>2, <3>1
            <4> QED
                BY <1>2, <4>1
        <3> QED
            BY <1>2, <3>1
    <2>3. ASSUME NEW k \in I, \A i \in I : k =< i PROVE k = m
        <3>1. k =< m /\ m <= k
            BY <2>1, <2>2, <2>3
        <3>2. m \in Int /\ k \in Int
            BY <1>2
        <3> HIDE DEF I
        <3> QED
            BY <3>1, <3>2
    <2>4. Min(I) = m
        BY <2>1, <2>2, <2>3 DEF Min
    <2> QED
        BY <1>4, <2>4 DEF LastMarker
<1> QED
    BY <1>4, <1>5

\* Of any number of complete sections the last one is grouped, with its first marker
\* for the exception and its whole trace (parse_oops, "the LAST section wins").
THEOREM LastSectionGrouped == Spec => []LastSectionWins
<1>1. SectionInv => LastSectionWins
    <2> SUFFICES ASSUME SectionInv, Sections(text)
                 PROVE  /\ parser.exception = text[LastMarker]
                        /\ parser.frames = SubSeq(text, LastTrace + 1, LastFrame)
        BY DEF LastSectionWins
    <2>1. /\ text \in Seq(Lines) /\ ParserType /\ text # <<>>
          /\ Last(text).kind \in {"frame", "end"}
        BY DEF SectionInv, Sections
    <2>2. PICK m, c \in Nat : InSection(m, c)
        BY DEF SectionInv, Sections
    <2>3. LastTrace = c /\ LastMarker = m
        BY <2>1, <2>2, SectionFound
    <2>4. /\ LastFrame \in Nat /\ LastFrame <= Len(text) /\ c >= 1
          /\ Len(parser.frames) = IF c < LastFrame THEN LastFrame - c ELSE 0
          /\ \A k \in 1 .. Len(parser.frames) : parser.frames[k] = text[c + k]
        BY <2>1, <2>2 DEF InSection, SectionAt, SectionParsed, LastFrame, Last
    <2>5. parser.frames = SubSeq(text, c + 1, LastFrame)
        <3>1. parser.frames \in Seq(FrameLines)
            BY <2>1 DEF ParserType, Parsers, FrameLines
        <3>2. DOMAIN parser.frames = 1 .. LastFrame - c
            BY <2>4, <3>1
        <3> QED
            BY <2>1, <2>4, <3>1, <3>2
    <2> QED
        BY <2>2, <2>3, <2>5 DEF InSection, SectionParsed
<1> QED
    BY <1>1, SectionAlways, PTL

-----------------------------------------------------------------------------
(* The frames of a trace                                                   *)

LEMMA Smaller ==
    ASSUME NEW a \in Nat, NEW b \in Nat
    PROVE  Min({a, b}) = IF a <= b THEN a ELSE b
<1>1. \E x \in {a, b} : \A y \in {a, b} : x =< y
    OBVIOUS
<1>2. \A x \in {a, b} : (\A y \in {a, b} : x =< y) => x = IF a <= b THEN a ELSE b
    OBVIOUS
<1> QED
    BY <1>1, <1>2 DEF Min

\* What compute has made of the frames s.
Protocol(S, s, c) ==
    /\ c \in [frames : Seq({f.function : f \in S}), modules : SUBSET {f.module : f \in S},
              real : BOOLEAN]
    /\ c.real <=> Significant(s) # {}
    /\ IsProtocolFrames(c.frames, s)
    /\ c.modules = ProtocolModules(s)

LEMMA FrameComputed ==
    ASSUME NEW S, NEW s \in Seq(S), NEW x \in S, NEW c, Protocol(S, s, c)
    PROVE  Protocol(S, Append(s, x), ComputeFrame(c, x))
<1>0. PICK d : d = ComputeFrame(c, x)
    OBVIOUS
<1>1. PICK n \in Nat, u \in Seq(S) :
          /\ u = Append(s, x)
          /\ DOMAIN s = 1 .. n /\ DOMAIN u = 1 .. n + 1
          /\ u[n + 1] = x /\ \A i \in 1 .. n : u[i] = s[i]
    <2>1. PICK n \in Nat, u \in Seq(S) : n = Len(s) /\ u = Append(s, x)
        BY Len(s) \in Nat, Append(s, x) \in Seq(S), Zenon
    <2>2. /\ DOMAIN s = 1 .. n /\ DOMAIN u = 1 .. n + 1
          /\ u[n + 1] = x /\ \A i \in 1 .. n : u[i] = s[i]
        BY <2>1
    <2> QED
        BY <2>1, <2>2, Zenon
<1>2. /\ c \in [frames : Seq({f.function : f \in S}), modules : SUBSET {f.module : f \in S},
                real : BOOLEAN]
      /\ c.real <=> Significant(s) # {}
      /\ c.modules = ProtocolModules(s)
    BY DEF Protocol
<1>3. Kept(u) = IF x.questionable THEN Kept(s) ELSE Kept(s) \cup {n + 1}
    BY <1>1 DEF Kept
<1>4. Kept(s) \subseteq 1 .. n /\ Significant(s) \subseteq 1 .. n
    BY <1>1 DEF Kept, Significant
<1>5. Significant(s) # {} <=> \E j \in Kept(s) : s[j].function \notin Machinery
    BY <1>4 DEF Significant
<1>6. Significant(u) = IF x.questionable \/ (Significant(s) = {} /\ x.function \in Machinery)
                       THEN Significant(s) ELSE Significant(s) \cup {n + 1}
    <2>1. ASSUME NEW i \in 1 .. n PROVE i \in Significant(u) <=> i \in Significant(s)
        BY <1>1, <1>3, <1>4 DEF Significant
    <2>2. Significant(u) \subseteq 1 .. n + 1
        BY <1>1 DEF Kept, Significant
    <2>3. n + 1 \in Significant(u) <=>
              ~x.questionable /\ (Significant(s) # {} \/ x.function \notin Machinery)
        BY <1>1, <1>3, <1>4, <1>5 DEF Significant
    <2>4. \A i \in 1 .. n + 1 : i \in 1 .. n \/ i = n + 1
        OBVIOUS
    <2>5. \A i : i \in Significant(u) <=>
              \/ i \in Significant(s)
              \/ i = n + 1 /\ ~x.questionable
                 /\ (Significant(s) # {} \/ x.function \notin Machinery)
        BY <1>4, <2>1, <2>2, <2>3, <2>4
    <2> QED
        BY <2>5
<1>7. ProtocolModules(u) = ProtocolModules(s) \cup
          (IF x.questionable \/ x.module = None THEN {} ELSE {x.module})
    <2>4. ASSUME NEW m
          PROVE  m \in ProtocolModules(u) <=>
                     m \in ProtocolModules(s) \/ (~x.questionable /\ x.module = m /\ m # None)
        <3>1. /\ m \in ProtocolModules(u) <=> m # None /\ \E i \in Kept(u) : u[i].module = m
              /\ m \in ProtocolModules(s) <=> m # None /\ \E i \in Kept(s) : s[i].module = m
            BY DEF ProtocolModules
        <3>2. (\E i \in Kept(u) : u[i].module = m) <=>
                  (\E i \in Kept(s) : s[i].module = m) \/ (~x.questionable /\ x.module = m)
            BY <1>1, <1>3, <1>4
        <3> QED
            BY <3>1, <3>2
    <2> QED
        BY <2>4
<1>8. SUFFICES Protocol(S, u, d)
    BY <1>0, <1>1, Zenon
<1>9. IsFiniteSet(Significant(s)) /\ Cardinality(Significant(s)) \in Nat
      /\ n + 1 \notin Significant(s)
    <2>1. IsFiniteSet(1 .. n)
        BY 1 \in Int, n \in Int, FS_Interval
    <2>2. IsFiniteSet(Significant(s))
        BY <1>4, <2>1, FS_Subset
    <2>3. n + 1 \notin 1 .. n
        OBVIOUS
    <2> QED
        BY <1>4, <2>2, <2>3, FS_CardinalityType
<1>10. PICK z \in Nat : z = Cardinality(Significant(s))
    BY <1>9
<1>11. /\ Len(c.frames) = IF z <= SIGNATURE_FRAMES THEN z ELSE SIGNATURE_FRAMES
       /\ \A i \in Significant(s) :
             LET k == Cardinality(Significant(s) \cap 1 .. i)
             IN k <= SIGNATURE_FRAMES => c.frames[k] = s[i].function
    BY <1>10, FramesAssumption, Smaller DEF Protocol, IsProtocolFrames
<1>12. ASSUME NEW i \in Significant(s) PROVE Significant(u) \cap 1 .. i = Significant(s) \cap 1 .. i
    BY <1>4, <1>6
<1>13. /\ c.frames \in Seq({f.function : f \in S}) /\ x.function \in {f.function : f \in S}
       /\ x.module \in {f.module : f \in S} /\ c.real \in BOOLEAN
       /\ c.modules \in SUBSET {f.module : f \in S}
    BY <1>2
<1>14. CASE x.questionable
    <2>1. d = c /\ Significant(u) = Significant(s)
        BY <1>0, <1>6, <1>14 DEF ComputeFrame
    <2>2. IsProtocolFrames(d.frames, u)
        BY <1>1, <1>4, <2>1 DEF Protocol, IsProtocolFrames
    <2> QED
        BY <1>2, <1>7, <1>14, <2>1, <2>2 DEF Protocol
<1>15. CASE ~x.questionable /\ Skip(c, x)
    <2>1. d = [c EXCEPT !.modules = @ \cup IF x.module = None THEN {} ELSE {x.module}]
        BY <1>0, <1>15 DEF ComputeFrame
    <2>2. Significant(u) = Significant(s)
        BY <1>2, <1>6, <1>15 DEF Skip
    <2>3. /\ d.frames = c.frames /\ d.real = c.real
          /\ d.modules = c.modules \cup IF x.module = None THEN {} ELSE {x.module}
          /\ d \in [frames : Seq({f.function : f \in S}), modules : SUBSET {f.module : f \in S},
                    real : BOOLEAN]
        BY <1>2, <1>13, <2>1
    <2>4. IsProtocolFrames(d.frames, u)
        BY <1>1, <1>4, <2>2, <2>3 DEF Protocol, IsProtocolFrames
    <2> QED
        BY <1>2, <1>7, <1>15, <2>2, <2>3, <2>4 DEF Protocol
<1>16. CASE ~x.questionable /\ ~Skip(c, x)
    <2>1. d = [c EXCEPT !.modules = @ \cup IF x.module = None THEN {} ELSE {x.module},
                        !.real = TRUE,
                        !.frames = IF Len(@) < SIGNATURE_FRAMES
                                   THEN Append(@, x.function) ELSE @]
        BY <1>0, <1>16 DEF ComputeFrame, normalize_symbol
    <2>2. Significant(u) = Significant(s) \cup {n + 1}
        BY <1>2, <1>6, <1>16 DEF Skip
    <2>9. PICK w, v : /\ w = IF Len(c.frames) < SIGNATURE_FRAMES
                             THEN Append(c.frames, x.function) ELSE c.frames
                     /\ v = c.modules \cup IF x.module = None THEN {} ELSE {x.module}
        OBVIOUS
    <2>10. w \in Seq({f.function : f \in S}) /\ v \in SUBSET {f.module : f \in S}
        BY <1>13, <2>9
    <2>11. d = [c EXCEPT !.modules = v, !.real = TRUE, !.frames = w]
        BY <2>1, <2>9
    <2>3. /\ d.real = TRUE
          /\ d.frames = IF Len(c.frames) < SIGNATURE_FRAMES
                        THEN Append(c.frames, x.function) ELSE c.frames
          /\ d.modules = c.modules \cup IF x.module = None THEN {} ELSE {x.module}
          /\ d \in [frames : Seq({f.function : f \in S}), modules : SUBSET {f.module : f \in S},
                    real : BOOLEAN]
        BY <1>2, <2>9, <2>10, <2>11
    <2>4. Cardinality(Significant(u)) = z + 1
        BY <1>9, <1>10, <2>2, FS_AddElement
    <2>5. Significant(u) \cap 1 .. n + 1 = Significant(u)
        BY <1>4, <2>2
    <2>6. Len(d.frames) = IF z + 1 <= SIGNATURE_FRAMES THEN z + 1 ELSE SIGNATURE_FRAMES
        BY <1>11, <1>13, <2>3, FramesAssumption
    <2>7. ASSUME NEW i \in Significant(u), NEW k, k = Cardinality(Significant(u) \cap 1 .. i),
                 k <= SIGNATURE_FRAMES
          PROVE  d.frames[k] = u[i].function
        <3>1. CASE i = n + 1
            <4>1. k = z + 1
                BY <2>4, <2>5, <2>7, <3>1
            <4>2. z < SIGNATURE_FRAMES /\ Len(c.frames) = z
                BY <1>11, <2>7, <4>1, FramesAssumption
            <4>3. d.frames = Append(c.frames, x.function)
                BY <2>3, <4>2
            <4> QED
                BY <1>1, <1>13, <3>1, <4>1, <4>2, <4>3
        <3>2. CASE i \in Significant(s)
            <4>1. k = Cardinality(Significant(s) \cap 1 .. i) /\ u[i] = s[i]
                BY <1>1, <1>4, <1>12, <2>7, <3>2
            <4>2. k \in 1 .. z
                <5>1. IsFiniteSet(Significant(s) \cap 1 .. i)
                    BY <1>9, FS_Subset
                <5>2. k \in Nat /\ k <= z
                    BY <1>9, <1>10, <4>1, <5>1, FS_Subset, FS_CardinalityType
                <5>3. i \in Significant(s) \cap 1 .. i
                    BY <1>4, <3>2
                <5>4. k # 0
                    BY <4>1, <5>1, <5>3, FS_EmptySet
                <5> QED
                    BY <5>2, <5>4
            <4>3. c.frames[k] = s[i].function
                BY <1>11, <2>7, <3>2, <4>1
            <4>4. k \in 1 .. Len(c.frames)
                BY <1>11, <2>7, <4>2, FramesAssumption
            <4>5. d.frames[k] = c.frames[k]
                BY <1>13, <2>3, <4>4
            <4> QED
                BY <4>1, <4>3, <4>5
        <3> QED
            BY <2>2, <3>1, <3>2
    <2>8. IsProtocolFrames(d.frames, u)
        BY <2>4, <2>6, <2>7, FramesAssumption, Smaller DEF IsProtocolFrames
    <2> QED
        BY <1>2, <1>7, <1>16, <2>2, <2>3, <2>8 DEF Protocol
<1> QED
    BY <1>14, <1>15, <1>16

LEMMA FramesComputed ==
    ASSUME NEW S
    PROVE  \A s \in Seq(S) : Protocol(S, s, Compute(s))
<1> DEFINE Good == {s \in Seq(S) : Protocol(S, s, Compute(s))}
<1>1. <<>> \in Good
    <2>1. /\ Kept(<<>>) = {} /\ Significant(<<>>) = {} /\ ProtocolModules(<<>>) = {}
        BY DEF Kept, Significant, ProtocolModules
    <2>2. Min({0, SIGNATURE_FRAMES}) = 0
        BY FramesAssumption, Smaller
    <2>3. IsProtocolFrames(<<>>, <<>>)
        BY <2>1, <2>2, FS_EmptySet DEF IsProtocolFrames
    <2>4. Protocol(S, <<>>, ComputeInit)
        BY <2>1, <2>3 DEF Protocol, ComputeInit
    <2> QED
        BY <2>4, ComputeSteps
<1>2. ASSUME NEW s \in Seq(S), NEW x \in S, s \in Good PROVE Append(s, x) \in Good
    <2>1. Protocol(S, Append(s, x), ComputeFrame(Compute(s), x))
        BY <1>2, FrameComputed
    <2>2. Compute(Append(s, x)) = ComputeFrame(Compute(s), x)
        BY ComputeSteps
    <2>3. Append(s, x) \in Seq(S)
        OBVIOUS
    <2> QED
        BY <2>1, <2>2, <2>3, Zenon
<1> HIDE DEF Good
<1>3. \A s \in Seq(S) : s \in Good
    BY <1>1, <1>2, SequencesBuilt
<1> QED
    BY <1>3 DEF Good

-----------------------------------------------------------------------------
(* Two texts of one crash                                                  *)

AlikeFrames(s, t) ==
    /\ Len(s) = Len(t)
    /\ \A i \in 1 .. Len(s) :
          s[i].function = t[i].function /\ (s[i].questionable <=> t[i].questionable)

AlikeLines(a, b) ==
    /\ a.kind = b.kind
    /\ HasOffset(a) <=> HasOffset(b)
    /\ HasOffset(a) => /\ AsFrame(a).function = AsFrame(b).function
                       /\ AsFrame(a).questionable <=> AsFrame(b).questionable
    /\ a.kind = "marker" /\ a.function = None => a = b

AlikeParsers(p, q) ==
    /\ p.exception = None <=> q.exception = None
    /\ p.exception # None /\ p.exception.function = None => p.exception = q.exception
    /\ p.inTrace <=> q.inTrace
    /\ AlikeFrames(p.frames, q.frames)

AnyFrame == {AsFrame(l) : l \in AnyLine}

LEMMA AlikeLonger ==
    ASSUME NEW S, NEW s \in Seq(S), NEW t \in Seq(S), AlikeFrames(s, t),
           NEW f \in S, NEW g \in S,
           f.function = g.function, f.questionable <=> g.questionable
    PROVE  AlikeFrames(Append(s, f), Append(t, g))
<1>1. PICK n \in Nat : n = Len(s) /\ n = Len(t)
    BY DEF AlikeFrames
<1>2. PICK u, v : u = Append(s, f) /\ v = Append(t, g)
    OBVIOUS
<1>3. /\ Len(u) = n + 1 /\ Len(v) = n + 1 /\ u[n + 1] = f /\ v[n + 1] = g
      /\ \A i \in 1 .. n : u[i] = s[i] /\ v[i] = t[i]
    <2>1. \A l \in Seq(S), e \in S :
              Len(l) = n => LET k == Append(l, e)
                            IN /\ Len(k) = n + 1 /\ k[n + 1] = e
                               /\ \A i \in 1 .. n : k[i] = l[i]
        OBVIOUS
    <2> QED
        BY <1>1, <1>2, <2>1
<1>4. \A i \in 1 .. n + 1 : i \in 1 .. n \/ i = n + 1
    OBVIOUS
<1>5. AlikeFrames(u, v)
    BY <1>1, <1>3, <1>4 DEF AlikeFrames
<1> QED
    BY <1>2, <1>5

LEMMA AlikeParsed ==
    ASSUME NEW p \in Parsers(AnyLine), NEW q \in Parsers(AnyLine), AlikeParsers(p, q),
           NEW a \in AnyLine, NEW b \in AnyLine, AlikeLines(a, b)
    PROVE  AlikeParsers(ParseLine(p, a), ParseLine(q, b))
<1>1. StartsIn(p, a) <=> StartsIn(q, b)
    <2>1. p.frames = <<>> <=> q.frames = <<>>
        BY DEF AlikeParsers, AlikeFrames, Parsers
    <2> QED
        BY <2>1 DEF AlikeParsers, AlikeLines, StartsIn
<1>2. CountsIn(p, a) <=> CountsIn(q, b)
    BY DEF AlikeParsers, AlikeLines, CountsIn
<1>3. PICK r, s : r = ParseLine(p, a) /\ s = ParseLine(q, b)
    OBVIOUS
<1>4. /\ r.exception = IF StartsIn(p, a) THEN a ELSE p.exception
      /\ r.frames = IF CountsIn(p, a) THEN Append(BeforeIn(p, a), AsFrame(a))
                    ELSE BeforeIn(p, a)
      /\ r.inTrace <=> a.kind = "calltrace" \/ (p.inTrace /\ HasOffset(a))
    BY <1>3, LineParsed, Zenon
<1>5. /\ s.exception = IF StartsIn(q, b) THEN b ELSE q.exception
      /\ s.frames = IF CountsIn(q, b) THEN Append(BeforeIn(q, b), AsFrame(b))
                    ELSE BeforeIn(q, b)
      /\ s.inTrace <=> b.kind = "calltrace" \/ (q.inTrace /\ HasOffset(b))
    BY <1>3, LineParsed, Zenon
<1>6. /\ BeforeIn(p, a) \in Seq(AnyFrame) /\ BeforeIn(q, b) \in Seq(AnyFrame)
      /\ AlikeFrames(BeforeIn(p, a), BeforeIn(q, b))
    BY <1>1 DEF AlikeParsers, AlikeFrames, BeforeIn, Parsers, AnyFrame
<1>7. AlikeFrames(r.frames, s.frames)
    <2>1. CASE CountsIn(p, a)
        <3>1. AsFrame(a) \in AnyFrame /\ AsFrame(b) \in AnyFrame
            BY DEF AnyFrame
        <3>2. /\ AsFrame(a).function = AsFrame(b).function
              /\ AsFrame(a).questionable <=> AsFrame(b).questionable
            BY <2>1 DEF CountsIn, AlikeLines
        <3> QED
            BY <1>2, <1>4, <1>5, <1>6, <2>1, <3>1, <3>2, AlikeLonger
    <2> QED
        BY <1>2, <1>4, <1>5, <1>6, <2>1
<1>8. /\ r.exception = None <=> s.exception = None
      /\ r.exception # None /\ r.exception.function = None => r.exception = s.exception
    <2>1. CASE StartsIn(p, a)
        BY <1>1, <1>4, <1>5, <2>1, LinesAssumption DEF StartsIn, AlikeLines
    <2>2. CASE ~StartsIn(p, a)
        BY <1>1, <1>4, <1>5, <2>2 DEF AlikeParsers
    <2> QED
        BY <2>1, <2>2
<1>9. r.inTrace <=> s.inTrace
    BY <1>4, <1>5 DEF AlikeParsers, AlikeLines
<1> QED
    BY <1>3, <1>7, <1>8, <1>9 DEF AlikeParsers

AlikeTexts(t, u) ==
    Len(t) = Len(u) /\ \A i \in 1 .. Len(t) : AlikeLines(t[i], u[i])

LEMMA TextsParsed ==
    \A t \in Seq(AnyLine), u \in Seq(AnyLine) :
        AlikeTexts(t, u) =>
            /\ parse_oops(t) \in Parsers(AnyLine) /\ parse_oops(u) \in Parsers(AnyLine)
            /\ AlikeParsers(parse_oops(t), parse_oops(u))
<1> DEFINE Result(t, u) ==
               /\ parse_oops(t) \in Parsers(AnyLine) /\ parse_oops(u) \in Parsers(AnyLine)
               /\ AlikeParsers(parse_oops(t), parse_oops(u))
           Good == {t \in Seq(AnyLine) : \A u \in Seq(AnyLine) : AlikeTexts(t, u) => Result(t, u)}
<1>1. <<>> \in Good
    <2>1. ParserInit \in Parsers(AnyLine) /\ AlikeParsers(ParserInit, ParserInit)
        BY DEF ParserInit, Parsers, AlikeParsers, AlikeFrames
    <2>2. \A u \in Seq(AnyLine) : AlikeTexts(<<>>, u) => u = <<>>
        BY DEF AlikeTexts
    <2>3. <<>> \in Seq(AnyLine)
        OBVIOUS
    <2> QED
        BY <2>1, <2>2, <2>3, ParseSteps, Zenon
<1>2. ASSUME NEW t \in Seq(AnyLine), NEW a \in AnyLine, t \in Good
      PROVE  Append(t, a) \in Good
    <2>1. PICK s \in Seq(AnyLine) : s = Append(t, a)
        BY Append(t, a) \in Seq(AnyLine), Zenon
    <2>2. ASSUME NEW u \in Seq(AnyLine), AlikeTexts(s, u) PROVE Result(s, u)
        <3>1. PICK n \in Nat : n = Len(t)
            OBVIOUS
        <3>2. /\ Len(s) = n + 1 /\ s[n + 1] = a /\ \A i \in 1 .. n : s[i] = t[i]
            BY <2>1, <3>1
        <3>3. Len(u) = n + 1 /\ u[n + 1] \in AnyLine /\ AlikeLines(a, u[n + 1])
            <4>1. Len(u) = n + 1 /\ n + 1 \in 1 .. n + 1
                BY <2>2, <3>2 DEF AlikeTexts
            <4> QED
                BY <2>2, <3>2, <4>1 DEF AlikeTexts
        <3>4. PICK v, b : v = SubSeq(u, 1, n) /\ b = u[n + 1]
            OBVIOUS
        <3>5. v \in Seq(AnyLine) /\ Len(v) = n /\ u = Append(v, b) /\ b \in AnyLine
            BY <3>3, <3>4
        <3>6. \A i \in 1 .. n : v[i] = u[i]
            BY <3>3, <3>4
        <3>7. AlikeTexts(t, v)
            BY <2>2, <3>1, <3>2, <3>5, <3>6 DEF AlikeTexts
        <3>8. Result(t, v)
            BY <1>2, <3>5, <3>7
        <3>9. /\ parse_oops(s) = ParseLine(parse_oops(t), a)
              /\ parse_oops(u) = ParseLine(parse_oops(v), b)
            BY <2>1, <3>5, ParseSteps
        <3>10. AlikeParsers(parse_oops(s), parse_oops(u))
            BY <3>3, <3>4, <3>5, <3>8, <3>9, AlikeParsed
        <3>11. /\ parse_oops(s) \in Parsers(AnyLine) /\ parse_oops(u) \in Parsers(AnyLine)
            BY <3>5, <3>8, <3>9, LineParsed
        <3> QED
            BY <3>10, <3>11
    <2> QED
        BY <2>1, <2>2
<1>3. \A t \in Seq(AnyLine) : t \in Good
    <2> HIDE DEF Good
    <2> QED
        BY <1>1, <1>2, SequencesBuilt
<1> QED
    BY <1>3

LEMMA AlikeComputed ==
    ASSUME NEW S
    PROVE  \A s \in Seq(S), t \in Seq(S) :
               AlikeFrames(s, t) => /\ Compute(s).frames = Compute(t).frames
                                    /\ Compute(s).real = Compute(t).real
<1> DEFINE Result(s, t) == /\ Compute(s).frames = Compute(t).frames
                           /\ Compute(s).real = Compute(t).real
           Good == {s \in Seq(S) : \A t \in Seq(S) : AlikeFrames(s, t) => Result(s, t)}
<1>1. <<>> \in Good
    <2>1. \A t \in Seq(S) : AlikeFrames(<<>>, t) => t = <<>>
        BY DEF AlikeFrames
    <2>2. <<>> \in Seq(S)
        OBVIOUS
    <2> QED
        BY <2>1, <2>2, Zenon
<1>2. ASSUME NEW s \in Seq(S), NEW x \in S, s \in Good PROVE Append(s, x) \in Good
    <2>1. PICK r \in Seq(S) : r = Append(s, x)
        BY Append(s, x) \in Seq(S), Zenon
    <2>2. ASSUME NEW t \in Seq(S), AlikeFrames(r, t) PROVE Result(r, t)
        <3>1. PICK n \in Nat : n = Len(s)
            OBVIOUS
        <3>2. /\ Len(r) = n + 1 /\ r[n + 1] = x /\ \A i \in 1 .. n : r[i] = s[i]
            BY <2>1, <3>1
        <3>3. PICK v, y : v = SubSeq(t, 1, n) /\ y = t[n + 1]
            OBVIOUS
        <3>4. Len(t) = n + 1
            BY <2>2, <3>2 DEF AlikeFrames
        <3>5. v \in Seq(S) /\ Len(v) = n /\ t = Append(v, y) /\ y \in S
            BY <3>3, <3>4
        <3>6. \A i \in 1 .. n : v[i] = t[i]
            BY <3>3, <3>4
        <3>7. AlikeFrames(s, v)
            BY <2>2, <3>1, <3>2, <3>5, <3>6 DEF AlikeFrames
        <3>8. x.function = y.function /\ (x.questionable <=> y.questionable)
            BY <2>2, <3>2, <3>3 DEF AlikeFrames
        <3>9. Result(s, v)
            BY <1>2, <3>5, <3>7
        <3>10. /\ Compute(r) = ComputeFrame(Compute(s), x)
               /\ Compute(t) = ComputeFrame(Compute(v), y)
            BY <2>1, <3>5, ComputeSteps
        <3>11. PICK c, d : c = Compute(s) /\ d = Compute(v)
            OBVIOUS
        <3>12. /\ c \in [frames : Seq({f.function : f \in S}),
                         modules : SUBSET {f.module : f \in S}, real : BOOLEAN]
               /\ d \in [frames : Seq({f.function : f \in S}),
                         modules : SUBSET {f.module : f \in S}, real : BOOLEAN]
            BY <3>5, <3>11, FramesComputed DEF Protocol
        <3>13. /\ ComputeFrame(c, x).frames = ComputeFrame(d, y).frames
               /\ ComputeFrame(c, x).real = ComputeFrame(d, y).real
            BY <3>8, <3>9, <3>11, <3>12 DEF ComputeFrame, Skip, normalize_symbol
        <3> QED
            BY <3>10, <3>11, <3>13
    <2> QED
        BY <2>1, <2>2
<1>3. \A s \in Seq(S) : s \in Good
    <2> HIDE DEF Good
    <2> QED
        BY <1>1, <1>2, SequencesBuilt
<1> QED
    BY <1>3

\* The model's parser is parse_oops of the text so far.
LEMMA TextParsed == Spec => [](text \in Seq(Lines) /\ parser = parse_oops(text))
<1>1. Init => text \in Seq(Lines) /\ parser = parse_oops(text)
    BY ParseSteps DEF Init
<1>2. text \in Seq(Lines) /\ parser = parse_oops(text) /\ [Next]_textVars
          => (text \in Seq(Lines) /\ parser = parse_oops(text))'
    <2> SUFFICES ASSUME text \in Seq(Lines), parser = parse_oops(text), [Next]_textVars
                 PROVE  text' \in Seq(Lines) /\ parser' = parse_oops(text')
        OBVIOUS
    <2>1. CASE UNCHANGED textVars
        BY <2>1 DEF textVars
    <2>2. ASSUME NEW line \in Lines, NextLine(line)
          PROVE  text' \in Seq(Lines) /\ parser' = parse_oops(text')
        BY <2>2, ParseSteps DEF NextLine
    <2> QED
        BY <2>1, <2>2 DEF Next
<1> QED
    BY <1>1, <1>2, PTL DEF Spec

\* Any trace is folded into the frames and the modules that the protocol describes
\* (compute with its "real" flag against protocol.md 6).
THEOREM ProtocolComputed == Spec => []ComputeMatchesProtocol
<1>1. ParserType => ComputeMatchesProtocol
    <2> SUFFICES ASSUME ParserType, parser.exception # None
                 PROVE  /\ IsProtocolFrames(compute(parser).signature[2], parser.frames)
                        /\ compute(parser).modules = ProtocolModules(parser.frames)
        BY DEF ComputeMatchesProtocol
    <2>1. Protocol(FrameLines, parser.frames, Compute(parser.frames))
        BY FramesComputed DEF ParserType, Parsers, FrameLines
    <2>2. /\ compute(parser).signature[2] = Compute(parser.frames).frames
          /\ compute(parser).modules = Compute(parser.frames).modules
        BY DEF compute, Compute
    <2> QED
        BY <2>1, <2>2 DEF Protocol
<1>2. SectionInv => ParserType
    BY DEF SectionInv
<1> QED
    BY <1>1, <1>2, SectionAlways, PTL

\* Two texts whose lines are alike are of the same group.
LEMMA AlikeGrouped ==
    ASSUME text \in Seq(Lines), parser = parse_oops(text),
           NEW other \in Seq(AnyLine), AlikeTexts(text, other)
    PROVE  SameGroup(compute(parse_oops(other)))
<1>1. PICK p, q : p = parser /\ q = parse_oops(other)
    OBVIOUS
<1>2. /\ p \in Parsers(AnyLine) /\ q \in Parsers(AnyLine) /\ AlikeParsers(p, q)
    <2>1. text \in Seq(AnyLine)
        BY LinesAssumption
    <2> QED
        BY <1>1, <2>1, TextsParsed
<1>3. CASE p.exception = None
    <2>1. q.exception = None
        BY <1>2, <1>3 DEF AlikeParsers
    <2>2. compute(q).signature = compute(p).signature
        BY <1>3, <2>1 DEF compute
    <2> QED
        BY <1>1, <2>2 DEF SameGroup
<1>4. CASE p.exception # None
    <2>1. q.exception # None
        BY <1>2, <1>4 DEF AlikeParsers
    <2>2. Compute(p.frames).frames = Compute(q.frames).frames
        BY <1>2, AlikeComputed DEF AlikeParsers, Parsers
    <2>3. /\ compute(p).signature = <<normalize_exception(p.exception), Compute(p.frames).frames>>
          /\ compute(q).signature = <<normalize_exception(q.exception), Compute(q.frames).frames>>
        BY <1>4, <2>1 DEF compute, Compute
    <2>4. p.exception.function = None => p.exception = q.exception
        BY <1>2, <1>4 DEF AlikeParsers
    <2> QED
        BY <1>1, <1>4, <2>2, <2>3, <2>4 DEF SameGroup
<1> QED
    BY <1>3, <1>4

LEMMA RebuiltAlike ==
    ASSUME NEW o \in Offsets, NEW l \in AnyLine
    PROVE  Rebuilt(o, l) \in AnyLine /\ AlikeLines(l, Rebuilt(o, l))
<1>1. CASE l \in MarkerLines /\ HasOffset(l)
    BY <1>1 DEF Rebuilt, AnyLine, MarkerLines, AlikeLines, HasOffset, AsFrame, FrameLine
<1>2. CASE l \in TraceLines /\ HasOffset(l)
    BY <1>2 DEF Rebuilt, AnyLine, TraceLines, AlikeLines, HasOffset, AsFrame
<1>3. CASE ~HasOffset(l)
    BY <1>3 DEF Rebuilt, AlikeLines
<1>4. l \in {CallTrace, EndTrace} => ~HasOffset(l)
    BY DEF CallTrace, EndTrace, HasOffset
<1> QED
    BY <1>1, <1>2, <1>3, <1>4 DEF AnyLine

LEMMA AnnotatedAlike ==
    ASSUME NEW l \in AnyLine
    PROVE  Annotate(l) \in AnyLine /\ AlikeLines(l, Annotate(l))
<1>1. CASE l \in MarkerLines
    BY <1>1 DEF Annotate, AnyLine, MarkerLines, AlikeLines, HasOffset, AsFrame, FrameLine
<1>2. CASE l \in TraceLines
    BY <1>2 DEF Annotate, AnyLine, TraceLines, AlikeLines, HasOffset, AsFrame
<1>3. CASE l \in {CallTrace, EndTrace}
    <2>1. Annotate(l) = l
        BY <1>3 DEF Annotate, CallTrace, EndTrace
    <2> QED
        BY <2>1 DEF AlikeLines
<1> QED
    BY <1>1, <1>2, <1>3 DEF AnyLine

\* Other offsets, as of another build, leave a text in its group
\* (normalize_symbol cuts them off), but for an exception that names a place.
THEOREM RebuiltGrouped == Spec => []StableAcrossBuilds
<1>1. text \in Seq(Lines) /\ parser = parse_oops(text) => StableAcrossBuilds
    <2> SUFFICES ASSUME text \in Seq(Lines), parser = parse_oops(text), NEW o \in Offsets
                 PROVE  SameGroup(compute(parse_oops(MapLines(LAMBDA l : Rebuilt(o, l)))))
        BY DEF StableAcrossBuilds
    <2>1. PICK u : u = [i \in DOMAIN text |-> Rebuilt(o, text[i])]
        OBVIOUS
    <2>2. /\ \A i \in DOMAIN text : text[i] \in AnyLine /\ u[i] = Rebuilt(o, text[i])
          /\ DOMAIN text = 1 .. Len(text) /\ Len(text) \in Nat
        BY <2>1, LinesAssumption
    <2>3. \A i \in DOMAIN text : u[i] \in AnyLine /\ AlikeLines(text[i], u[i])
        BY <2>2, RebuiltAlike
    <2>4. u \in Seq(AnyLine) /\ Len(u) = Len(text)
        BY <2>1, <2>2, <2>3
    <2>5. SameGroup(compute(parse_oops(u)))
        BY <2>2, <2>3, <2>4, AlikeGrouped DEF AlikeTexts
    <2> QED
        BY <2>1, <2>5 DEF MapLines
<1> QED
    BY <1>1, TextParsed, PTL

\* A report decoded without symbols is in the group of those decoded with them
\* (signature.rs reads past annotate's locations), but for such an exception.
THEOREM UnsymbolizedGrouped == Spec => []SignatureWithoutSymbols
<1>1. text \in Seq(Lines) /\ parser = parse_oops(text) => SignatureWithoutSymbols
    <2> SUFFICES ASSUME text \in Seq(Lines), parser = parse_oops(text)
                 PROVE  SameGroup(compute(parse_oops(MapLines(Annotate))))
        BY DEF SignatureWithoutSymbols
    <2>1. PICK u : u = [i \in DOMAIN text |-> Annotate(text[i])]
        OBVIOUS
    <2>2. /\ \A i \in DOMAIN text : text[i] \in AnyLine /\ u[i] = Annotate(text[i])
          /\ DOMAIN text = 1 .. Len(text) /\ Len(text) \in Nat
        BY <2>1, LinesAssumption
    <2>3. \A i \in DOMAIN text : u[i] \in AnyLine /\ AlikeLines(text[i], u[i])
        BY <2>2, AnnotatedAlike
    <2>4. u \in Seq(AnyLine) /\ Len(u) = Len(text)
        BY <2>1, <2>2, <2>3
    <2>5. SameGroup(compute(parse_oops(u)))
        BY <2>2, <2>3, <2>4, AlikeGrouped DEF AlikeTexts
    <2> QED
        BY <2>1, <2>5 DEF MapLines
<1> QED
    BY <1>1, TextParsed, PTL
=============================================================================
