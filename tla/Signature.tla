----------------------------- MODULE Signature -----------------------------
(***************************************************************************)
(* The crash signature (ucrs-common signature.rs): parse_oops walks the    *)
(* lines of a decoded text, compute folds the frames it found.  A line is  *)
(* a record of what the two tell apart; the letters of names are not.      *)
(***************************************************************************)
EXTENDS Naturals, SequencesExt

CONSTANTS
    Names,              \* of functions, without suffix and offset
    Machinery,          \* the ones is_machinery recognises
    Modules,            \* names of kernel modules
    Markers,            \* the strings that announce a crash
    Offsets,            \* "+0xoff/0xsize", with the compiler's suffix
    SIGNATURE_FRAMES,   \* 5 in the code
    None

ASSUME MachineryAssumption == Machinery \subseteq Names
ASSUME FramesAssumption == SIGNATURE_FRAMES \in Nat \ {0}
ASSUME NoneAssumption ==
    None \notin Names \cup Modules \cup Markers \cup Offsets

-----------------------------------------------------------------------------
(***************************************************************************)
(* Lines, after strip_printk_prefix.  A module is named [name, junk]: with *)
(* annotate's " (file:line)" behind it, the bracket is not the end of the  *)
(* line and everything after it is taken for the name.                     *)
(***************************************************************************)
Clean(m) == [name |-> m, junk |-> FALSE]

\* "WARNING: CPU: 0 PID: 3157 at function+0x1c/0x24": the place is optional,
\* and annotate appends its location to it as to any other function.
Marker(k, f, o) ==
    [kind |-> "marker", marker |-> k, function |-> f, offset |-> o,
     located |-> FALSE]
CallTrace == [kind |-> "calltrace"]
\* The end mark, or any other line without "+0x".
EndTrace  == [kind |-> "end"]
FrameLine(f, o, m, q) ==
    [kind |-> "frame", function |-> f, offset |-> o,
     module |-> IF m = None THEN None ELSE Clean(m), questionable |-> q]

\* What annotate makes of a line when symbols are at hand.
Annotate(line) ==
    CASE line.kind = "marker" /\ line.function # None ->
             [line EXCEPT !.located = TRUE]
      [] line.kind = "frame" /\ line.module # None ->
             [line EXCEPT !.module.junk = TRUE]
      [] OTHER -> line

-----------------------------------------------------------------------------
\* The three local variables of parse_oops.
ParserInit == [exception |-> None, frames |-> <<>>, inTrace |-> FALSE]

\* Mutation: a new section keeps the exception of the one before.
NewSectionKeeps(p, line) ==
    IF line.kind # "marker" THEN p
    ELSE [p EXCEPT !.frames = <<>>,
                   !.exception = IF @ = None THEN line ELSE @]
\* A marker after the first frame starts another section; before it, the
\* first marker stays.
NewSection(p, line) ==
    IF line.kind = "marker" /\ (p.frames # <<>> \/ p.exception = None)
    THEN [p EXCEPT !.frames = <<>>, !.exception = line]
    ELSE p

\* A marker line that names a function has its "+0x" and passes for a frame.
AsFrame(line) ==
    IF line.kind = "frame" THEN line
    ELSE FrameLine(line.marker, line.offset, None, FALSE)
HasOffset(line) ==
    line.kind = "frame" \/ (line.kind = "marker" /\ line.function # None)

\* A line without "+0x" ends the trace.
InTrace(p, line) ==
    IF line.kind = "calltrace" THEN [p EXCEPT !.inTrace = TRUE]
    ELSE IF ~p.inTrace THEN p
    ELSE IF HasOffset(line) THEN [p EXCEPT !.frames = Append(@, AsFrame(line))]
    ELSE [p EXCEPT !.inTrace = FALSE]

ParseLine(p, line) == InTrace(NewSection(p, line), line)

\* Without an exception the result is None, whatever the frames.
parse_oops(text) == FoldLeft(ParseLine, ParserInit, text)

-----------------------------------------------------------------------------
\* Mutations: the offset is not cut off; the bracket of the module is not.
SymbolWithOffset(frame) == <<frame.function, frame.offset>>
SymbolWithModule(frame) == <<frame.function, frame.module>>
\* normalize_symbol cuts the offset and the suffix off, and leaves the name.
normalize_symbol(frame) == frame.function

\* Addresses, counters and "CPU: 1 PID: 2" are dropped; the place behind "at"
\* stays, with its offset, and so does a location in parentheses.
normalize_exception(line) ==
    [marker |-> line.marker, function |-> line.function,
     offset |-> line.offset, located |-> line.located]

ComputeInit == [frames |-> <<>>, modules |-> {}, real |-> FALSE]

\* Mutation: machinery is dropped wherever it stands.
SkipAnywhere(c, f) == f.function \in Machinery
Skip(c, f) == ~c.real /\ f.function \in Machinery

ComputeFrame(c, f) ==
    IF f.questionable THEN c
    ELSE LET m == IF f.module = None THEN {} ELSE {f.module} IN
         IF Skip(c, f) THEN [c EXCEPT !.modules = @ \cup m]
         ELSE [c EXCEPT !.modules = @ \cup m, !.real = TRUE,
                        !.frames = IF Len(@) < SIGNATURE_FRAMES
                                   THEN Append(@, normalize_symbol(f)) ELSE @]

\* The SHA-256 of kind, exception and frames is those three; a text without a
\* marker is "unclassified".
compute(p) ==
    LET c == FoldLeft(ComputeFrame, ComputeInit,
                      IF p.exception = None THEN <<>> ELSE p.frames)
        e == IF p.exception = None THEN None ELSE normalize_exception(p.exception)
    IN [signature |-> <<e, c.frames>>,
        title |-> IF c.frames = <<>> THEN e ELSE Head(c.frames),
        modules |-> c.modules]
=============================================================================
