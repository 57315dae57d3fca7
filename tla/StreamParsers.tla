---------------------------- MODULE StreamParsers ----------------------------
(***************************************************************************)
(* parseSseStream (src/streaming/sse.ts) and parseNdjsonStream             *)
(* (src/streaming/ndjson.ts): generators that cut a text into frames while *)
(* it arrives in chunks.                                                   *)
(*                                                                         *)
(* A text is a sequence of tokens: "cr" and "lf", and what lines are made  *)
(* of.  Of an SSE line the first token is the field it sets, the others    *)
(* belong to its value; an NDJSON line is a document when it is "head"     *)
(* "tail", so that half of one does not parse, and an in-band error frame  *)
(* when it is "error".                                                     *)
(***************************************************************************)
EXTENDS Integers, Sequences, SequencesExt, FiniteSetsExt

CONSTANTS
    Formats,    \* "sse", "ndjson"
    MaxLength   \* bound on the texts

ASSUME ParsersAssumption == Formats \subseteq {"sse", "ndjson"} /\ MaxLength \in Nat

Tokens(f) == {"cr", "lf"} \cup IF f = "sse" THEN {"data", "event", "id"}
                                           ELSE {"head", "tail", "error"}

VARIABLES
    format,
    text,       \* what the server sends
    arrived,    \* how much of it has been read
    buffer,
    fields,     \* what the next SSE event is made of
    frames,     \* what was yielded
    parser      \* reading, done, failed at a line, broken off by the connection,
                \* or abandoned by the consumer

parserVars == <<format, text, arrived, buffer, fields, frames, parser>>

Unset == <<>>
NoFields == [event |-> Unset, data |-> <<>>, id |-> Unset]

ParserInit ==
    /\ format \in Formats
    /\ text \in SeqOf(Tokens(format), MaxLength)
    /\ arrived = 0 /\ buffer = <<>>
    /\ fields = NoFields /\ frames = <<>> /\ parser = "reading"

-----------------------------------------------------------------------------
(* Lines in the buffer.                                                    *)

IsBreak(f, c) == c = "lf" \/ (f = "sse" /\ c = "cr")

Breaks(s) == {i \in 1 .. Len(s) : IsBreak(format, s[i])}

\* Mutant: a CR that ends a chunk ends its line at once.
HasLine_CutsCrLf == Breaks(buffer) # {}

\* A CR that ends the buffer may be the first half of a CRLF.
HasLine ==
    /\ Breaks(buffer) # {}
    /\ Breaks(buffer) = {Len(buffer)} => buffer[Len(buffer)] = "lf"

LineEnd == Min(Breaks(buffer))

\* Where the line after the one that ends at i begins.
AfterBreak(s, i) ==
    IF s[i] = "cr" /\ i < Len(s) /\ s[i + 1] = "lf" THEN i + 2 ELSE i + 1

\* trim(): nothing but a CR is blank here, and JSON takes one between its tokens.
Trimmed(line) == SelectSeq(line, LAMBDA c : c # "cr")

-----------------------------------------------------------------------------
(* What a line does.                                                       *)

\* dispatch(): an event without data is none.
Dispatched(out) ==
    IF fields.data = <<>> THEN out ELSE Append(out, fields)

\* A line that is not blank sets its field.
FieldsAfter(line) ==
    CASE line[1] = "data" -> [fields EXCEPT !.data = Append(@, line)]
      [] line[1] = "event" -> [fields EXCEPT !.event = line]
      [] line[1] = "id" -> [fields EXCEPT !.id = line]
      [] OTHER -> fields

ProcessLine(line) ==
    IF line = <<>>
    THEN /\ frames' = Dispatched(frames)
         /\ fields' = [NoFields EXCEPT !.id = fields.id]
    ELSE fields' = FieldsAfter(line) /\ UNCHANGED frames

IsDocument(line) == line = <<"head", "tail">>

\* The line is skipped, parsed and yielded, or it ends the generator.
ProcessDocument(line) ==
    /\ UNCHANGED fields
    /\ \/ line = <<>> /\ UNCHANGED <<frames, parser>>
       \/ IsDocument(line) /\ frames' = Append(frames, line) /\ UNCHANGED parser
       \/ /\ line # <<>> /\ ~IsDocument(line)
          /\ parser' = "failed" /\ UNCHANGED frames

-----------------------------------------------------------------------------
(* The generators.                                                         *)

Chunk(n) ==
    /\ parser = "reading" /\ ~HasLine
    /\ n \in 1 .. Len(text) - arrived
    /\ arrived' = arrived + n
    /\ buffer' = buffer \o SubSeq(text, arrived + 1, arrived + n)
    /\ UNCHANGED <<format, text, fields, frames, parser>>

TakeLine ==
    /\ parser = "reading" /\ HasLine
    /\ LET line == SubSeq(buffer, 1, LineEnd - 1) IN
       IF format = "sse" THEN ProcessLine(line) /\ UNCHANGED parser
                         ELSE ProcessDocument(Trimmed(line))
    /\ buffer' = SubSeq(buffer, AfterBreak(buffer, LineEnd), Len(buffer))
    /\ UNCHANGED <<format, text, arrived>>

\* What is left of an SSE text is a line, and the terminal event needs no
\* blank line after it.
EndsSse ==
    LET last == IF buffer = <<>> THEN fields ELSE FieldsAfter(buffer) IN
    /\ frames' = IF last.data = <<>> THEN frames ELSE Append(frames, last)
    /\ fields' = last
    /\ parser' = "done"

\* What is left of an NDJSON text is its last document.
EndsNdjson ==
    IF Trimmed(buffer) = <<>> \/ IsDocument(Trimmed(buffer))
    THEN /\ parser' = "done"
         /\ frames' = frames \o IF Trimmed(buffer) = <<>> THEN <<>> ELSE <<Trimmed(buffer)>>
         /\ UNCHANGED fields
    ELSE parser' = "failed" /\ UNCHANGED <<frames, fields>>

EndOfText ==
    /\ parser = "reading" /\ ~HasLine /\ arrived = Len(text)
    /\ IF format = "sse" THEN EndsSse ELSE EndsNdjson
    /\ buffer' = <<>>
    /\ UNCHANGED <<format, text, arrived>>

\* read() rejects: what the buffer holds is lost.
ReadFails ==
    /\ parser = "reading" /\ ~HasLine
    /\ parser' = "broken"
    /\ UNCHANGED <<format, text, arrived, buffer, fields, frames>>

\* The consumer returns after a frame: the reader is cancelled.
Abandon ==
    /\ parser = "reading" /\ frames # <<>>
    /\ parser' = "abandoned"
    /\ UNCHANGED <<format, text, arrived, buffer, fields, frames>>

ParserNext ==
    \/ \E n \in 1 .. MaxLength : Chunk(n)
    \/ TakeLine
    \/ EndOfText
    \/ ReadFails
    \/ Abandon

ParserSpec == ParserInit /\ [][ParserNext]_parserVars

-----------------------------------------------------------------------------
(* What a text t of the format f means, however it is cut into chunks.  A   *)
(* line is known by the place it starts at.                                *)

\* The ends of the lines: a CRLF counts once, at its LF.
LineEnds(f, t) ==
    {i \in 1 .. Len(t) :
        IsBreak(f, t[i]) /\ ~(f = "sse" /\ t[i] = "cr" /\ i < Len(t) /\ t[i + 1] = "lf")}

LineStarts(f, t) == {1} \cup {i + 1 : i \in LineEnds(f, t)}

LineFrom(f, t, i) ==
    LET end == Min({j \in LineEnds(f, t) : j >= i} \cup {Len(t) + 1})
        stop == IF end > i /\ end <= Len(t) /\ t[end] = "lf" /\ t[end - 1] = "cr" /\ f = "sse"
                THEN end - 2 ELSE end - 1
    IN  SubSeq(t, i, stop)

\* The items at these places, in their order.
ByPlace(item, places) ==
    FlattenSeq([i \in DOMAIN item |-> IF i \in places THEN <<item[i]>> ELSE <<>>])

\* The values these lines give a field.
ValuesOf(f, t, field, lines) ==
    ByPlace([l \in 1 .. Len(t) + 1 |-> LineFrom(f, t, l)],
            {l \in lines : LineFrom(f, t, l) # <<>> /\ LineFrom(f, t, l)[1] = field})

LastOr(s, default) == IF s = <<>> THEN default ELSE Last(s)

BlankLines(f, t) == {l \in LineStarts(f, t) : LineFrom(f, t, l) = <<>>}

\* The lines up to the one at p, and those of them no blank line comes after.
LinesUpTo(f, t, p) == {l \in LineStarts(f, t) : l <= p}
LinesOfEvent(f, t, p) ==
    {l \in LinesUpTo(f, t, p) : \A b \in BlankLines(f, t) : l <= b => p <= b}

EventAt(f, t, p) ==
    [event |-> LastOr(ValuesOf(f, t, "event", LinesOfEvent(f, t, p)), Unset),
     data  |-> ValuesOf(f, t, "data", LinesOfEvent(f, t, p)),
     id    |-> LastOr(ValuesOf(f, t, "id", LinesUpTo(f, t, p)), Unset)]

\* A blank line, and the last line, ends an event; one without data is none.
EventEnds(f, t) ==
    {p \in LineStarts(f, t) :
        /\ p \in BlankLines(f, t) \/ \A l \in LineStarts(f, t) : l <= p
        /\ EventAt(f, t, p).data # <<>>}

EventsOfText(f, t) ==
    ByPlace([p \in 1 .. Len(t) + 1 |-> EventAt(f, t, p)], EventEnds(f, t))

DocumentAt(f, t, l) == Trimmed(LineFrom(f, t, l))

BadLines(f, t) ==
    {l \in LineStarts(f, t) : DocumentAt(f, t, l) # <<>> /\ ~IsDocument(DocumentAt(f, t, l))}

\* The documents before the first line that is none.
GoodLines(f, t) ==
    {l \in LineStarts(f, t) : IsDocument(DocumentAt(f, t, l)) /\ \A k \in BadLines(f, t) : l < k}

DocumentsOfText(f, t) ==
    ByPlace([l \in 1 .. Len(t) + 1 |-> DocumentAt(f, t, l)], GoodLines(f, t))

Meaning(f, t) == IF f = "sse" THEN EventsOfText(f, t) ELSE DocumentsOfText(f, t)

-----------------------------------------------------------------------------
(* Properties.                                                             *)

\* The text ends in a CR: nothing tells it from the first half of a CRLF, and
\* EndsSse leaves it in the line.
EndsInCr == format = "sse" /\ text # <<>> /\ Last(text) = "cr"

\* However the text is cut into chunks, in the middle of a line or of a CRLF,
\* the consumer is given the frames of the text and, unless it turns away, all
\* of them: an NDJSON text fails at its first bad line, and not before.
ChunksDoNotMatter ==
    ~EndsInCr =>
        /\ IsPrefix(frames, Meaning(format, text))
        /\ parser \in {"done", "failed"} =>
            /\ frames = Meaning(format, text)
            /\ (parser = "failed") = (format = "ndjson" /\ BadLines(format, text) # {})

\* "Supports CRLF, CR, and LF line endings": an event that ends in a lone CR
\* is the same event.
\* It does not hold (README.md, Divergences found).
SupportsCr == parser = "done" => frames = Meaning(format, text)
===============================================================================
