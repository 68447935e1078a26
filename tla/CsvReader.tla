----------------------------- MODULE CsvReader ------------------------------
(***************************************************************************)
(* A file in CsvProcessor::handle(), from the inside: CSVIterator          *)
(* takes the columns from the first line and reads a line per step;        *)
(* CSVRow::next() splits it with a state machine over its characters and   *)
(* stores the fields in a map that lives as long as the file; the          *)
(* transformers change the map in place, and publish() reads it.           *)
(*                                                                         *)
(* What is published is compared with what the producer meant to write:    *)
(* file.rows, written by Text with quotes around the fields that need them *)
(* or around all.  The schemas and the transformers that the processor was *)
(* given are parameters: Application has those that main() made.           *)
(***************************************************************************)
EXTENDS Transformers

CONSTANTS
    Chars,      \* the characters of files and configurations
    Header,     \* the names of the columns
    Junk,       \* a name that is no column: what is behind the end of m_columns
    Files,      \* bound: what producers write
    ExcLimit,   \* bound: the exceptions that handle() bears with, 13 in the code
    NoFile

Comma == ","
Quote == "\""
NewLine == "\n"
Return == "\r"

Fields == Seq(Chars)

VARIABLES
    file,         \* what the producer wrote
    stream,       \* the text that has not been read
    eof,          \* the stream has met its end
    m_columns, m_line, m_map_data,
    pc,
    exc_count,    \* rows of this file that threw
    handed        \* history: what publish() got, row by row

rowVars == <<m_columns, m_line, m_map_data>>
streamVars == <<stream, eof>>
readerVars == <<file, streamVars, rowVars, pc, exc_count, handed>>

(* The columns that the schemas name. *)
Published(m_schemas) == UNION {Range(m_schemas[t].columns) : t \in DOMAIN m_schemas}

-----------------------------------------------------------------------------
(* The producer: RFC 4180, with names that need no quotes. *)

NeedsQuotes(v) == Range(v) \intersect {Comma, Quote} # {}
Doubled(v) == FlattenSeq([i \in DOMAIN v |-> IF v[i] = Quote THEN <<Quote, Quote>> ELSE <<v[i]>>])
Quoted(v) == <<Quote>> \o Doubled(v) \o <<Quote>>
Joined(words, sep) ==
    FlattenSeq([i \in DOMAIN words |-> IF i = Len(words) THEN words[i] ELSE words[i] \o sep])

Word(f, v) == IF f.quote = "all" \/ NeedsQuotes(v) THEN Quoted(v) ELSE v
Line(f, row) == Joined([i \in DOMAIN row |-> Word(f, row[i])], <<Comma>>)

Lines(f) == <<Joined(Header, <<Comma>>)>> \o [k \in DOMAIN f.rows |-> Line(f, f.rows[k])]
EndOfLine(f) == IF f.crlf THEN <<Return, NewLine>> ELSE <<NewLine>>
Text(f) == Joined(Lines(f), EndOfLine(f)) \o (IF f.lastNewLine THEN EndOfLine(f) ELSE <<>>)

(* A field stays in its line, and an empty row in the last line has a new   *)
(* line behind it: without one it would be no line.                         *)
FileTypes == [rows : Seq(Seq(Seq(Chars \ {NewLine, Return}))), quote : {"needed", "all"},
              crlf : BOOLEAN, lastNewLine : BOOLEAN]
EndsWithLine(f) == f.lastNewLine \/ f.rows = <<>> \/ Line(f, Last(f.rows)) # <<>>

ASSUME LimitAssumption == ExcLimit \in Nat
ASSUME CharsAssumption ==
    {Comma, Quote, NewLine, Return, "a", "BASE "} \subseteq Chars  \* two that transformers write
ASSUME ColumnsAssumption ==
    /\ Header \in Seq(Seq(Chars \ {Comma, NewLine, Return})) /\ Header # <<>>
    /\ IsInjective(Header)
    /\ Junk \in Fields \ Range(Header)
ASSUME FilesAssumption ==
    /\ Files \subseteq FileTypes /\ NoFile \notin Files
    /\ \A f \in Files : EndsWithLine(f)

-----------------------------------------------------------------------------
(* CSVRow::next(), on a line.  A parser has its state, the index i and the *)
(* text of the current field, and the map.                                 *)

Column(i) == IF i <= Len(m_columns) THEN m_columns[i] ELSE Junk
Store(p) == [p EXCEPT !.map = Assign(p.map, Column(p.i), p.field)]
EndField(p) == [state |-> "UnquotedField", i |-> p.i + 1, field |-> <<>>, map |-> Store(p).map]
PushBack(p, c) == [p EXCEPT !.field = Append(p.field, c)]

UnquotedField(p, c) ==
    CASE c = Comma -> EndField(p)
      [] c = Quote -> [p EXCEPT !.state = "QuotedField"]
      [] OTHER -> PushBack(p, c)

QuotedField(p, c) ==
    IF c = Quote THEN [p EXCEPT !.state = "QuotedQuote"] ELSE PushBack(p, c)

(* Mutant: every quote in a quoted field is its end. *)
QuoteEnds(p, c) ==
    IF c = Comma THEN EndField(p) ELSE [p EXCEPT !.state = "UnquotedField"]

(* The character behind a closing quote is dropped, unless it is a comma or *)
(* another quote.                                                           *)
QuotedQuote(p, c) ==
    CASE c = Comma -> EndField(p)
      [] c = Quote -> [PushBack(p, Quote) EXCEPT !.state = "QuotedField"]
      [] OTHER -> [p EXCEPT !.state = "UnquotedField"]

Step(p, c) ==
    CASE p.state = "UnquotedField" -> UnquotedField(p, c)
      [] p.state = "QuotedField" -> QuotedField(p, c)
      [] p.state = "QuotedQuote" -> QuotedQuote(p, c)

Start == [state |-> "UnquotedField", i |-> 1, field |-> <<>>, map |-> m_map_data]
Parsed(line) ==
    LET p[n \in 0..Len(line)] == IF n = 0 THEN Start ELSE Step(p[n - 1], line[n])
    IN Store(p[Len(line)])

(* Some field has no column: the code reads behind the end of m_columns. *)
Overruns(line) == Parsed(line).i > Len(m_columns)

-----------------------------------------------------------------------------
(* std::getline: the characters before the next new line, what is left     *)
(* behind it, and whether it met the end of the stream instead.            *)
NewLineAt == SelectInSeq(stream, LAMBDA c : c = NewLine)
GetLine == IF NewLineAt = 0 THEN stream ELSE SubSeq(stream, 1, NewLineAt - 1)
Rest == IF NewLineAt = 0 THEN <<>> ELSE SubSeq(stream, NewLineAt + 1, Len(stream))

(* Mutant: the carriage return stays in the line. *)
LineAsItIs == IF eof THEN m_line ELSE GetLine

(* A getline on a stream that met its end before leaves m_line as it is. *)
NextLine == IF eof THEN m_line ELSE Without(Return, GetLine)

Read ==
    /\ stream' = Rest
    /\ eof' = (eof \/ NewLineAt = 0)

(* The getlines with a comma: there is always a last word, that may be empty. *)
Put(words, c) ==
    IF c = Comma THEN Append(words, <<>>)
    ELSE [words EXCEPT ![Len(words)] = Append(words[Len(words)], c)]
Split(text) ==
    LET words[n \in 0..Len(text)] == IF n = 0 THEN <<<<>>>> ELSE Put(words[n - 1], text[n])
    IN words[Len(text)]

(* std::ifstream and CSVRange, with a row of their own. *)
OpenFile ==
    /\ pc = "idle" /\ pc' = "header"
    /\ file' \in Files
    /\ stream' = Text(file') /\ eof' = FALSE
    /\ exc_count' = 0
    /\ UNCHANGED <<rowVars, handed>>

(* The carriage return is taken out of every name. *)
SetColumns ==
    /\ pc = "header" /\ pc' = "line"
    /\ m_columns' = Split(Without(Return, GetLine))
    /\ Read
    /\ UNCHANGED <<file, m_line, m_map_data, exc_count, handed>>

(* CSVRow::next(), which does not look whether getline() got anything. *)
NextLineIntoRow ==
    /\ Read
    /\ m_line' = NextLine
    /\ m_map_data' = Parsed(NextLine).map
    /\ UNCHANGED <<file, m_columns, exc_count, handed>>

(* Mutant: a line that ends with the file is no line. *)
NextUnlessLast ==
    /\ pc = "line" /\ stream # <<>>
    /\ pc' = IF NewLineAt = 0 THEN "end" ELSE "transform"
    /\ NextLineIntoRow

NextRow ==
    /\ pc = "line" /\ stream # <<>>
    /\ pc' = "transform"
    /\ NextLineIntoRow

(* There is no line: the iterator is at the end, whatever the row is now. *)
EndOfStream ==
    /\ pc = "line" /\ stream = <<>>
    /\ pc' = "end"
    /\ NextLineIntoRow

(* The name that is read behind the end of m_columns is no string: the     *)
(* process dies, or an exception makes handle() give up the file.  What    *)
(* was stored before is not read any more.                                 *)
Overrun ==
    /\ pc = "line" /\ Overruns(NextLine)
    /\ pc' \in {"crashed", "unable to load"}
    /\ Read
    /\ m_line' = NextLine
    /\ UNCHANGED <<file, m_columns, m_map_data, exc_count, handed>>

Transform(m_transformers) ==
    /\ pc = "transform" /\ pc' = "publish"
    /\ m_map_data' = Operation(m_map_data, m_transformers)
    /\ UNCHANGED <<file, streamVars, m_columns, m_line, exc_count, handed>>

(* What publish() reads of a row.  It may throw, because of a value, of the *)
(* broker or of the registry: the loop goes on with the same row object,   *)
(* until there were too many exceptions in the file.                       *)
Publish(m_schemas) ==
    /\ pc = "publish"
    /\ handed' = Append(handed, [c \in Published(m_schemas) |-> Value(m_map_data, c)])
    /\ \/ pc' = "line" /\ UNCHANGED exc_count
       \/ /\ exc_count' = exc_count + 1
          /\ pc' = IF exc_count' > ExcLimit THEN "gave up" ELSE "line"
    /\ UNCHANGED <<file, streamVars, rowVars>>

ReaderInit ==
    /\ file = NoFile /\ stream = <<>> /\ eof = FALSE
    /\ m_columns = <<>> /\ m_line = <<>> /\ m_map_data = <<>>
    /\ pc = "idle" /\ exc_count = 0 /\ handed = <<>>

(* The rest of handle(), with the file open. *)
Handle(m_transformers, m_schemas) ==
    \/ SetColumns \/ NextRow \/ EndOfStream \/ Overrun
    \/ Transform(m_transformers) \/ Publish(m_schemas)

-----------------------------------------------------------------------------

ReaderTypes(m_schemas) ==
    /\ file \in Files \union {NoFile}
    /\ stream \in Fields /\ eof \in BOOLEAN
    /\ m_columns \in Seq(Fields) /\ m_line \in Seq(Chars \ {NewLine, Return})
    /\ DOMAIN m_map_data \subseteq Fields /\ m_map_data \in [DOMAIN m_map_data -> Fields]
    /\ pc \in {"idle", "header", "line", "transform", "publish", "end", "gave up", "crashed",
               "unable to load"}
    /\ exc_count \in Nat
    /\ handed \in Seq([Published(m_schemas) -> Fields])

(* A row as it should be: the fields under their names, all else empty, and *)
(* then the transforms in the order of the configuration.                   *)
Fresh(row) ==
    [c \in Range(Header) |->
        IF \E i \in DOMAIN row : i <= Len(Header) /\ Header[i] = c
        THEN row[CHOOSE i \in DOMAIN Header : Header[i] = c] ELSE <<>>]
Expected(row, transforms) ==
    LET after[n \in 0..Len(transforms)] ==
            IF n = 0 THEN Fresh(row) ELSE Apply(after[n - 1], transforms[n])
    IN after[Len(transforms)]
IsItsLine(k, transforms, m_schemas) ==
    \A c \in Published(m_schemas) : handed[k][c] = Value(Expected(file.rows[k], transforms), c)

(* What is published for a line is what the producer wrote in this line,   *)
(* however it is quoted and whatever the rows before it were, if the line  *)
(* has a field for every column.  The map is not cleared between two       *)
(* lines: where a shorter line ends, it goes on with the values of the     *)
(* line before, transformed once more.                                     *)
RowsAreLines(transforms, m_schemas) ==
    \A k \in DOMAIN handed :
        k <= Len(file.rows) /\ Len(file.rows[k]) >= Len(Header)
            => IsItsLine(k, transforms, m_schemas)

(* At the end of the file every line was handed on once, also the last one *)
(* of a file without a new line at its end, the lines whose exceptions     *)
(* were caught, and whatever was wrong with the configuration.             *)
EveryLineOnce == file # NoFile =>
    /\ Len(handed) <= Len(file.rows)
    /\ pc = "end" => Len(handed) = Len(file.rows)
=============================================================================
