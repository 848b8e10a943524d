----------------------------- MODULE Admission -----------------------------
(***************************************************************************)
(* What post_report takes: the signature over the raw body (api.rs,        *)
(* usign.rs), the fields of the body in the order they come, the checks    *)
(* on the two that count, and the text the decoder gets out of the payload *)
(* (payload.rs).  Modules Ingest and Decoder have the outcomes of this.    *)
(***************************************************************************)
EXTENDS Naturals, Sequences, SequencesExt

CONSTANTS
    Fields,         \* the fields a body may have: see Field
    Headers,        \* the headers it may come with: see Header
    MaxFields,      \* the length of the bodies (a bound)
    FORMAT_VERSION, MAX_METADATA_SIZE, MAX_PAYLOAD_SIZE, MAX_DECODED_SIZE,
    Absent

VARIABLES
    body,
    parts           \* the local variables of parse_multipart after these fields

bodyVars == <<body, parts>>

ASSUME CapsAssumption ==
    {MAX_METADATA_SIZE, MAX_PAYLOAD_SIZE, MAX_DECODED_SIZE} \subseteq Nat

Field(name, size, value) == [name |-> name, size |-> size, value |-> value]

\* The value of a metadata field.  What does not parse as ReportMetadata has the
\* format Absent, and what uuid::parse_str refuses the uuid Absent.
Document(format, uuid, sha256, encoding) ==
    [format |-> format, uuid |-> uuid, payload_sha256 |-> sha256,
     payload_encoding |-> encoding]

\* The value of a payload field, which is its own SHA-256: the compression it is
\* in, its size, the length it expands to, and whether the stream is complete.
Blob(compression, size, length, complete) ==
    [compression |-> compression, size |-> size,
     length |-> length, complete |-> complete]

\* X-Ucr-Pubkey and X-Ucr-Signature; intact: the body is the one signed.  What is
\* not the base64 of an "Ed" blob of its length is Malformed.
PublicKey(keynum, key) == [keynum |-> keynum, key |-> key]
Signature(keynum, by, intact) == [keynum |-> keynum, by |-> by, intact |-> intact]
Malformed == [keynum |-> Absent]
Header(pubkey, signature) == [pubkey |-> pubkey, signature |-> signature]

\* A field that comes has a size and a value; a key that is no key is Malformed.
ASSUME FieldsAssumption ==
    \A f \in Fields :
        f.name \in {"metadata", "payload"} => f.size \in Nat /\ f.value # Absent
ASSUME HeadersAssumption ==
    \A h \in Headers :
        \/ h.pubkey \in {Absent, Malformed}
        \/ h.pubkey = PublicKey(h.pubkey.keynum, h.pubkey.key)

-----------------------------------------------------------------------------
(* PublicKey::verify and authenticate_device                               *)

verify(pubkey, signature) ==
    /\ signature # Malformed
    /\ signature.keynum = pubkey.keynum
    /\ signature.by = pubkey.key
    /\ signature.intact

\* The status, 200 for going on.  A signature without a key is not looked at, and
\* a key without a signature is refused before it is.
authenticate_device(h) ==
    IF h.pubkey = Absent THEN 200
    ELSE IF h.signature = Absent THEN 401
    ELSE IF h.pubkey = Malformed THEN 400
    ELSE IF verify(h.pubkey, h.signature) THEN 200 ELSE 401

-----------------------------------------------------------------------------
(* parse_multipart and the checks of post_report                           *)

PartsInit == [metadata |-> Absent, payload |-> Absent, failed |-> FALSE]

Cap(name) == IF name = "metadata" THEN MAX_METADATA_SIZE ELSE MAX_PAYLOAD_SIZE

\* Mutation: a cap that is reached is exceeded.
TooLargeEarly(field) == field.size >= Cap(field.name)
TooLarge(field) == field.size > Cap(field.name)

\* A field that comes again takes the place of the one before it; other names are
\* passed over, whatever their size.
TakeField(p, field) ==
    IF p.failed \/ field.name \notin {"metadata", "payload"} THEN p
    ELSE IF TooLarge(field) THEN [p EXCEPT !.failed = TRUE]
    ELSE [p EXCEPT ![field.name] = field.value]

Refused(status) == [status |-> status, device |-> Absent, id |-> Absent,
                    payload |-> Absent, encoding |-> Absent]

\* All of post_report up to its first look at table report.
post_report(h, p) ==
    LET status == authenticate_device(h)
        meta   == p.metadata
    IN IF status # 200 THEN Refused(status)
       ELSE IF \/ p.failed
               \/ Absent \in {meta, p.payload}
               \/ meta.format # FORMAT_VERSION
               \/ meta.payload_sha256 # p.payload
               \/ meta.uuid = Absent
            THEN Refused(400)
       ELSE [status |-> 200, device |-> h.pubkey, id |-> meta.uuid,
             payload |-> p.payload, encoding |-> meta.payload_encoding]

-----------------------------------------------------------------------------
(* payload.rs: decode, for the length of the text, or Absent for an error  *)

\* Mutation: without the one byte more.
TakenShort(length) == IF length > MAX_DECODED_SIZE THEN MAX_DECODED_SIZE ELSE length
\* reader.take(MAX_DECODED_SIZE + 1).read_to_end()
Taken(length) == IF length > MAX_DECODED_SIZE THEN MAX_DECODED_SIZE + 1 ELSE length

read_capped(length) ==
    IF Taken(length) > MAX_DECODED_SIZE THEN Absent ELSE Taken(length)

\* "none" takes any payload for text; a decompressor fails on another's stream,
\* and at the end of one that was cut off.
decode(blob, encoding) ==
    IF encoding = "none" THEN read_capped(blob.size)
    ELSE IF encoding = blob.compression /\ blob.complete
    THEN read_capped(blob.length) ELSE Absent

-----------------------------------------------------------------------------
AdmissionInit == body = <<>> /\ parts = PartsInit

\* The loop over next_field().
NextField(field) ==
    /\ Len(body) < MaxFields
    /\ body' = Append(body, field)
    /\ parts' = TakeField(parts, field)

AdmissionNext == \E field \in Fields : NextField(field)

AdmissionSpec == AdmissionInit /\ [][AdmissionNext]_bodyVars

-----------------------------------------------------------------------------
LastOf(name) == SelectLastInSeq(body, LAMBDA f : f.name = name)

\* protocol.md 3: the body has both fields, none of them is above its limit, and
\* the metadata is valid and speaks of the payload.
Conforms ==
    LET m == LastOf("metadata")
        p == LastOf("payload")
    IN /\ 0 \notin {m, p}
       /\ body[m].value.format = FORMAT_VERSION
       /\ body[m].value.uuid # Absent
       /\ body[m].value.payload_sha256 = body[p].value
       /\ \A f \in ToSet(body) :
             f.name \in {"metadata", "payload"} => f.size <= Cap(f.name)

\* A request is taken if and only if it conforms and, when it names a key, that
\* key has signed these bytes; "Invalid signature -> 401", also when the body
\* does not conform.  What is stored is what its own metadata vouches for.
ConformingAdmitted ==
    \A h \in Headers :
        LET answer == post_report(h, parts)
            signed == h.signature \notin {Absent, Malformed} /\ h.signature.intact
                      /\ [keynum |-> h.signature.keynum, key |-> h.signature.by] = h.pubkey
        IN /\ answer.status = 200 <=> Conforms /\ (h.pubkey = Absent \/ signed)
           /\ answer.status = 200 =>
                 /\ answer.device = h.pubkey
                 /\ answer.payload = body[LastOf("payload")].value
           /\ h.pubkey \notin {Absent, Malformed} /\ ~signed => answer.status = 401

\* The text that is annotated, grouped and shown is whole: a payload that is cut
\* off, or expands beyond the cap, or is not what its metadata says, is an error
\* of the job, never a shorter text.
WholeTextOrNone ==
    LET answer == post_report(Header(Absent, Absent), parts)
        length == decode(answer.payload, answer.encoding)
    IN answer.status = 200 /\ length # Absent =>
           IF answer.encoding = "none" THEN length = answer.payload.size
           ELSE length = answer.payload.length /\ answer.payload.complete
=============================================================================
