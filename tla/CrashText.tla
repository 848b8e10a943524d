----------------------------- MODULE CrashText -----------------------------
(***************************************************************************)
(* A decoded text, line by line, and what parse_oops has made of it.       *)
(***************************************************************************)
EXTENDS Signature

CONSTANTS
    Lines,          \* the lines a text may have
    MaxLines        \* the length of the texts (a bound)

VARIABLES
    text,
    parser          \* the local variables of parse_oops after these lines

textVars == <<text, parser>>

\* What the constructors of lines make, before or after annotate.
MarkerLines ==
    [kind : {"marker"}, marker : Markers, function : Names \cup {None},
     offset : Offsets \cup {None}, located : BOOLEAN]
TraceLines ==
    [kind : {"frame"}, function : Names \cup Markers, offset : Offsets \cup {None},
     module : {None} \cup [name : Modules, junk : BOOLEAN], questionable : BOOLEAN]
AnyLine == MarkerLines \cup {CallTrace, EndTrace} \cup TraceLines

ASSUME LinesAssumption == Lines \subseteq AnyLine /\ None \notin AnyLine

Init == text = <<>> /\ parser = ParserInit

\* The loop over text.lines().
NextLine(line) ==
    /\ Len(text) < MaxLines
    /\ text' = Append(text, line)
    /\ parser' = ParseLine(parser, line)

Next == \E line \in Lines : NextLine(line)

Spec == Init /\ [][Next]_textVars

-----------------------------------------------------------------------------
\* protocol.md 6, steps 2 to 4: drop the ? frames and the leading machinery,
\* take the first names; the modules are those of all frames.
Kept(frames) == {i \in DOMAIN frames : ~frames[i].questionable}
Significant(frames) ==
    {i \in Kept(frames) :
        \E j \in Kept(frames) : j <= i /\ frames[j].function \notin Machinery}

IsProtocolFrames(names, frames) ==
    /\ Len(names) = Min({Cardinality(Significant(frames)), SIGNATURE_FRAMES})
    /\ \A i \in Significant(frames) :
          LET n == Cardinality(Significant(frames) \cap 1 .. i)
          IN n <= SIGNATURE_FRAMES => names[n] = frames[i].function

ProtocolModules(frames) == {frames[i].module : i \in Kept(frames)} \ {None}

\* The one pass of compute, with its flag and its limit, takes the frames and
\* the modules the protocol describes, of any trace.
ComputeMatchesProtocol ==
    parser.exception # None =>
        /\ IsProtocolFrames(compute(parser).signature[2], parser.frames)
        /\ compute(parser).modules = ProtocolModules(parser.frames)

\* The same crash in another build: other offsets and compiler suffixes.
Rebuilt(o, line) ==
    IF HasOffset(line)
    THEN [line EXCEPT !.offset = o] ELSE line
MapLines(op(_)) == [i \in DOMAIN text |-> op(text[i])]

\* The same frames, and the same group unless the exception's line names a place
\* ("at function+0x1c/0x24"), which normalize_exception leaves in.
SameGroup(other) ==
    /\ other.signature[2] = compute(parser).signature[2]
    /\ parser.exception = None \/ parser.exception.function = None =>
          other.signature = compute(parser).signature

\* A crash stays in its group when the kernel is built again (the test
\* signature_stable_across_addresses_and_offsets), whatever the text.
StableAcrossBuilds ==
    \A o \in Offsets : SameGroup(compute(parse_oops(MapLines(LAMBDA l : Rebuilt(o, l)))))

\* "grouping works without" symbols (decode.rs): a report decoded before its
\* symbols were there is in the group of the later ones.
SignatureWithoutSymbols == SameGroup(compute(parse_oops(MapLines(Annotate))))

\* Sections as the kernel writes them: markers, a trace, and the end mark, which
\* the last one may lack.
May(line, after) ==
    \/ line = "marker" /\ after \in {"end", "marker"}
    \/ line = "calltrace" /\ after = "marker"
    \/ line = "frame" /\ after \in {"calltrace", "frame"}
    \/ line = "end" /\ after = "frame"
InSections(t) ==
    \A i \in DOMAIN t : May(t[i].kind, IF i = 1 THEN "end" ELSE t[i - 1].kind)
Sections(t) ==
    t # <<>> /\ Last(t).kind \in {"frame", "end"} /\ InSections(t)

\* Of a text that ends in its last section, or in that one's end mark.
LastTrace  == Max({i \in DOMAIN text : text[i].kind = "calltrace"})
LastMarker == Min({i \in 1 .. LastTrace - 1 :
                      \A j \in i .. LastTrace - 1 : text[j].kind = "marker"})
LastFrame  == IF Last(text).kind = "end" THEN Len(text) - 1 ELSE Len(text)

\* "The LAST section wins": of complete sections, the last one's first marker
\* and all its frames, and nothing of the others.
LastSectionWins ==
    Sections(text) =>
        /\ parser.exception = text[LastMarker]
        /\ parser.frames = SubSeq(text, LastTrace + 1, LastFrame)

\* Line j comes while a trace is open: after "Call Trace:" all lines have "+0x".
TraceOpenAt(j) ==
    \E c \in 1 .. j - 1 :
        /\ text[c].kind = "calltrace"
        /\ \A k \in c .. j - 1 : text[k].kind = "calltrace" \/ HasOffset(text[k])

\* The lines from line i on that are frames of a trace.
FramesFrom(i) == {j \in i .. Len(text) : HasOffset(text[j]) /\ TraceOpenAt(j)}

\* What is grouped is of one crash, also in a text that is no sequence of complete
\* sections: the frames are those from the exception's line on, all of them in
\* their order, and no marker follows one of them.  (Markers without a trace may
\* stand in between.)
OneCrashOnly ==
    parser.exception # None =>
        \E i \in DOMAIN text :
            /\ text[i] = parser.exception
            /\ Len(parser.frames) = Cardinality(FramesFrom(i))
            /\ \A j \in FramesFrom(i) :
                  /\ parser.frames[Cardinality(FramesFrom(i) \cap 1 .. j)] = AsFrame(text[j])
                  /\ \A k \in j + 1 .. Len(text) : text[k].kind # "marker"

-----------------------------------------------------------------------------
(***************************************************************************)
(* What the documents say and the code does not do.                        *)
(***************************************************************************)
\* protocol.md 6, step 2: a text with a call trace of the crash is grouped by
\* its frames, also when the kernel goes on to log that it panics.
\* ("Kernel panic - not syncing: Oops: Fatal exception").
CrashTraceKept ==
    /\ text # <<>> /\ Last(text).kind = "marker"
    /\ Sections(Front(text))
    => parser.frames # <<>>
=============================================================================
