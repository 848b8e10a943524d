----------------------------- MODULE MCCrashText -----------------------------
\* Inputs for TLC: crash texts, a few lines of each kind, and the bodies of
\* uploads, a few fields of each kind, in every order.
EXTENDS CrashText, Admission

CONSTANTS oops, warning, f1, f2, die, m1, o1, o2, k1, k2, id

SomeLines ==
    {Marker(oops, None, None), Marker(warning, f1, o1), CallTrace, EndTrace,
     FrameLine(f1, o1, None, FALSE), FrameLine(f2, o2, m1, FALSE),
     FrameLine(die, o1, m1, FALSE), FrameLine(f2, o1, None, TRUE)}

\* One that fits exactly, two that expand to the limit and beyond, one cut off.
Plain == Blob("none", 2, 2, TRUE)
Full  == Blob("gzip", 1, 4, TRUE)
Bomb  == Blob("gzip", 1, 5, TRUE)
Cut   == Blob("gzip", 1, 4, FALSE)

SomeFields ==
    {Field("payload", b.size, b) : b \in {Plain, Full, Bomb, Cut}}
    \cup {Field("metadata", 3, Document(1, id, b, "gzip")) : b \in {Full, Bomb, Cut}}
    \cup {Field("payload", 3, Blob("none", 3, 3, TRUE)),
          Field("metadata", 2, Document(1, id, Plain, "none")),
          Field("metadata", 4, Document(1, id, Plain, "none")),
          Field("metadata", 3, Document(1, id, Full, "none")),
          Field("metadata", 3, Document(1, Absent, Plain, "none")),
          Field("metadata", 3, Document(2, id, Plain, "none")),
          Field("metadata", 1, Document(Absent, Absent, Absent, Absent)),
          Field("comment", 9, Absent)}

Good == Signature(1, k1, TRUE)
SomeHeaders ==
    {Header(PublicKey(1, k1), s) :
        s \in {Absent, Malformed, Good, [Good EXCEPT !.keynum = 2],
               [Good EXCEPT !.by = k2], [Good EXCEPT !.intact = FALSE]}}
    \cup {Header(Malformed, Good), Header(Absent, Good), Header(Absent, Absent)}

\* A text or a body, whichever is begun.
InputInit == Init /\ AdmissionInit
InputNext ==
    \/ body = <<>> /\ Next /\ UNCHANGED bodyVars
    \/ text = <<>> /\ AdmissionNext /\ UNCHANGED textVars
InputSpec == InputInit /\ [][InputNext]_<<textVars, bodyVars>>
=============================================================================
