-------------------------- MODULE ApplicationProofs --------------------------
(***************************************************************************)
(* Theorems about Application: what main() promises holds while files are  *)
(* read, and what is read of a file is what its producer wrote.            *)
(***************************************************************************)
EXTENDS Application, StartupProofs, CsvReaderProofs

-----------------------------------------------------------------------------
(* The application.  Its workers do not disturb main(). *)

LEMMA StepOfMain == [AppNext]_vars => [Next]_mainVars
BY DEF AppNext, vars, StartupNext, TakeFile, ReadFile, WildAge, Next

LEMMA ApplicationStarts == AppSpec => Spec
BY StepOfMain, PTL DEF AppSpec, AppInit, Spec

(* What main() promises of the configuration is true while files are read. *)
THEOREM ApplicationIsConfigured ==
    AppSpec => [](StartupTypes /\ WorkersHaveHandles /\ StartedAsConfigured /\ NoFalseAlarm)
BY ApplicationStarts, StartupKeepsTypes, StartedWithHandles, ConfigurationComesThrough,
   SoundIsNotStopped, PTL

-----------------------------------------------------------------------------
(* The chain of transformers. *)

(* The chain of a worker has the transforms of the configuration in their  *)
(* order, however many there are, unless an error was reported or "void"   *)
(* follows others.                                                         *)
THEOREM TransformsKeepOrder == AppSpec => []TransformsInOrder
<1>1. ChainInvariant => TransformsInOrder
  <2> SUFFICES ASSUME ChainInvariant, mpc = "started", sigint = {}, VoidFirst
               PROVE  chain = document.transforms
    BY DEF TransformsInOrder
  <2> DEFINE ts == document.transforms
  <2>1. chain = Chain(ts) /\ \A i \in DOMAIN ts : Complete(ts[i]) /\ ts[i].type \in Registered
    BY DEF ChainInvariant, ChainMade
  <2>2. ts \in Seq(Range(ts))
    BY InputsAssumption DEF ChainInvariant, document
  <2>3. \A i \in 2..Len(ts) : ts[i].type # "void"
    <3>1. 2..Len(ts) \subseteq DOMAIN ts
      BY <2>2
    <3> QED
      BY <2>1, <3>1 DEF VoidFirst, Complete
  <2> HIDE DEF ts
  <2>4. Chain(ts) = ts
    BY <2>1, <2>2, <2>3, ChainInOrder
  <2> QED
    BY <2>1, <2>4 DEF ts
<1> QED
  BY <1>1, ApplicationStarts, ChainInvariantHolds, PTL

(* Whatever was wrong with the transforms, those in the chain can be used. *)
LEMMA ChainIsTyped ==
    ASSUME ChainInvariant, mpc = "started"
    PROVE  \E S : chain \in Seq(S) /\ \A t \in S : Typed(t)
<1> DEFINE ts == document.transforms
           S == {t \in Range(ts) : t.type \in Registered}
<1>1. chain = Chain(ts) /\ input \in Inputs /\ \A i \in DOMAIN ts : Complete(ts[i])
  BY DEF ChainInvariant, ChainMade
<1>2. ts \in Seq(Range(ts))
  BY <1>1, InputsAssumption DEF document
<1>3. chain \in Seq(S)
  <2> HIDE DEF ts
  <2> QED
    BY <1>1, <1>2, ChainIn
<1>4. ASSUME NEW t \in S PROVE Typed(t)
  <2>1. t \in Range(ts) /\ t.type \in Registered /\ Complete(t)
    BY <1>1 DEF Range
  <2>2. /\ "column" \in DOMAIN t => t.column \in Names
        /\ "from_column" \in DOMAIN t => t.from_column \in Names
        /\ "value" \in DOMAIN t => t.value \in Fields
        /\ "type" \in DOMAIN t /\ t.type = "map" => t.lookup \in [DOMAIN t.lookup -> Fields]
    BY <1>1, <2>1, TransformsAssumption DEF document
  <2> QED
    BY <2>1, <2>2 DEF Complete, Typed, Names
<1> QED
  BY <1>3, <1>4

(* main() is done: what the workers use is not changed any more. *)
LEMMA MainIsDone ==
    ASSUME WorkersHaveHandles, mpc = "started", [Next]_mainVars
    PROVE  UNCHANGED <<input, mpc, sigint, schemas, chain, processors>>
<1>1. ~MainNext
  BY DEF MainNext, ParseArgs, LoadFile, SchemaConfigs, SchemaIds, KafkaConf, CreateProducer,
     StartKafkaPoller, BuildDirectoryPoller, BuildTransformers, MaxAge, BuildProcessor,
     StartWorkers, Goto, GoOn
<1>2. ~PollNull
  BY DEF PollNull, WorkersHaveHandles
<1> QED
  BY <1>1, <1>2 DEF Next, KafkaPollerNext, KafkaPollerEnds, SignalThread, mainVars, signalVars, builtVars

-----------------------------------------------------------------------------
(* The text of a file. *)

(* After the header and n rows the stream has the lines behind the n-th row, *)
(* and behind the next one while that is transformed and published.         *)
StreamInvariant ==
    /\ pc = "idle" => file = NoFile /\ handed = <<>> /\ m_map_data = <<>>
    /\ pc # "idle" => file \in Files /\ mpc = "started"
    /\ pc = "header" =>
          stream = Left(file)[0] /\ eof = FALSE /\ handed = <<>> /\ m_map_data = <<>>
    /\ pc \in {"line", "transform", "publish"} => m_columns = Header /\ (eof => stream = <<>>)
    /\ pc = "line" => Len(handed) <= Len(file.rows) /\ stream = Left(file)[Len(handed) + 1]
    /\ pc \in {"transform", "publish"} =>
          Len(handed) < Len(file.rows) /\ stream = Left(file)[Len(handed) + 2]
    /\ pc = "end" => Len(handed) = Len(file.rows)
    /\ pc \in {"gave up", "crashed", "unable to load"} => Len(handed) <= Len(file.rows)

(* The next line, if there is one. *)
LEMMA RowIsNext ==
    ASSUME StreamInvariant, pc = "line", Len(handed) \in Nat, stream # <<>>
    PROVE  /\ Len(handed) < Len(file.rows) /\ Rest = Left(file)[Len(handed) + 2]
           /\ NextLine = Line(file, file.rows[Len(handed) + 1])
           /\ NextLine \in Seq(Chars \ {NewLine, Return})
           /\ eof \/ NewLineAt = 0 => Rest = <<>>
<1> DEFINE n == Len(handed)
           m == Len(file.rows)
<1>1. file \in Files /\ n <= m /\ stream = Left(file)[n + 1] /\ eof # TRUE
  BY DEF StreamInvariant
<1>2. m \in Nat /\ Len(Lines(file)) = m + 1 /\ Lines(file) \in Seq(Seq(Chars \ {NewLine, Return}))
      /\ \A k \in 1..m : Lines(file)[k + 1] = Line(file, file.rows[k])
  BY <1>1, FileFacts
<1>3. Count(file) = m + 1 /\ Left(file)[Count(file)] = <<>>
  BY <1>1, LeftFacts
<1>4. n < m
  <2>1. n = m => stream = <<>>
    BY <1>1, <1>3
  <2> QED
    BY <1>1, <1>2, <2>1
<1>5. n + 2 \in 1..Count(file) /\ (n + 2) - 1 = n + 1 /\ n + 1 \in 1..m /\ (n + 1) + 1 = n + 2
      /\ n + 2 \in 1..Len(Lines(file))
  BY <1>2, <1>3, <1>4
<1>6. /\ Without(Return, GetLine) = Lines(file)[n + 2] /\ Rest = Left(file)[n + 2]
      /\ NewLineAt = 0 => Left(file)[n + 2] = <<>>
  <2> HIDE DEF n
  <2>1. stream = Left(file)[(n + 2) - 1]
    BY <1>1, <1>5
  <2> QED
    BY <1>1, <1>5, <2>1, LineIsGot
<1>7. NextLine = Lines(file)[n + 2]
  BY <1>1, <1>6 DEF NextLine
<1>8. Lines(file)[n + 2] \in Seq(Chars \ {NewLine, Return})
  BY <1>2, <1>5
<1>9. Lines(file)[n + 2] = Line(file, file.rows[n + 1])
  BY <1>2, <1>5
<1> QED
  BY <1>1, <1>4, <1>6, <1>7, <1>8, <1>9

LEMMA NothingIsNext ==
    ASSUME StreamInvariant, pc = "line", Len(handed) \in Nat, stream = <<>>,
           m_line \in Seq(Chars \ {NewLine, Return})
    PROVE  /\ Len(handed) = Len(file.rows) /\ Rest = <<>>
           /\ NextLine \in Seq(Chars \ {NewLine, Return})
<1> DEFINE n == Len(handed)
           m == Len(file.rows)
<1>1. file \in Files /\ n <= m /\ stream = Left(file)[n + 1]
  BY DEF StreamInvariant
<1>2. m \in Nat
  BY <1>1, FileFacts
<1>3. n = m
  <2>1. ASSUME n < m PROVE FALSE
    <3>1. n + 1 \in 1..m
      BY <1>2, <2>1
    <3> HIDE DEF n
    <3>2. Left(file)[n + 1] # <<>>
      BY <1>1, <3>1, SomethingIsLeft
    <3> QED
      BY <1>1, <3>2
  <2> QED
    BY <1>1, <1>2, <2>1
<1>4. stream \in Seq(Chars \ {NewLine})
  OBVIOUS
<1>5. GetLine = stream /\ Rest = <<>>
  BY <1>4, LastLineIsRead
<1>6. Without(Return, GetLine) \in Seq((Chars \ {NewLine}) \ {Return})
  BY <1>4, <1>5, WithoutIt
<1>7. (Chars \ {NewLine}) \ {Return} = Chars \ {NewLine, Return}
  OBVIOUS
<1>8. NextLine \in Seq(Chars \ {NewLine, Return})
  BY <1>6, <1>7 DEF NextLine
<1> QED
  BY <1>3, <1>5, <1>8

LEMMA HeaderIsNext ==
    ASSUME file \in Files, stream = Left(file)[0]
    PROVE  /\ Split(Without(Return, GetLine)) = Header /\ Rest = Left(file)[1]
           /\ NewLineAt = 0 => Rest = <<>>
<1>1. Len(file.rows) \in Nat /\ Lines(file)[1] = Joined(Header, <<Comma>>)
  BY FileFacts
<1>2. Count(file) = Len(file.rows) + 1
  BY LeftFacts
<1>3. 1 \in 1..Count(file) /\ 1 - 1 = 0
  BY <1>1, <1>2
<1>4. /\ Without(Return, GetLine) = Lines(file)[1] /\ Rest = Left(file)[1]
      /\ NewLineAt = 0 => Left(file)[1] = <<>>
  <2>1. stream = Left(file)[1 - 1]
    BY <1>3
  <2> QED
    BY <1>3, <2>1, LineIsGot
<1> QED
  BY <1>1, <1>4, HeaderIsSplit

(* A line is stored under the names of the columns. *)
LEMMA LineIsStored ==
    ASSUME m_columns = Header, IsRow(m_map_data), NEW line \in Seq(Chars \ {NewLine, Return})
    PROVE  /\ IsRow(Parsed(line).map)
           /\ \A c : c \notin Range(Header) /\ c # Junk =>
                        Value(Parsed(line).map, c) = Value(m_map_data, c)
<1> DEFINE M == {map \in Rows : \A c : c \notin Range(Header) /\ c # Junk =>
                                          Value(map, c) = Value(m_map_data, c)}
<1>1. line \in Fields
  <2>1. Seq(Chars \ {NewLine, Return}) \subseteq Seq(Chars)
    OBVIOUS
  <2> QED
    BY <2>1 DEF Fields
<1>2. m_map_data \in M
  BY RowsAreRows
<1>3. ASSUME NEW i \in Nat \ {0}
      PROVE  Column(i) \in Fields /\ (Column(i) \in Range(Header) \/ Column(i) = Junk)
  <2>1. i <= Len(Header) => i \in 1..Len(Header)
    BY HeaderFacts
  <2> QED
    BY <2>1, HeaderFacts, ColumnsAssumption DEF Column
<1>4. ASSUME NEW map \in M, NEW i \in Nat \ {0}, NEW w \in Fields
      PROVE  Assign(map, Column(i), w) \in M
  <2> DEFINE new == Assign(map, Column(i), w)
  <2>1. IsRow(new)
    BY <1>3, RowsAreRows, AssignIn
  <2>2. \A c : c \notin Range(Header) /\ c # Junk => Value(new, c) = Value(map, c)
    BY <1>3, AssignedValue
  <2> HIDE DEF new
  <2>3. new \in Rows
    BY <2>1, RowsAreRows
  <2> QED
    BY <2>2, <2>3 DEF new
<1> HIDE DEF M
<1>5. Parsed(line).map \in M
  BY <1>1, <1>2, <1>4, StoredIn
<1> QED
  BY <1>5, RowsAreRows DEF M

ReaderInvariant == ReaderTypes(schemas) /\ StreamInvariant

(* Steps of main(): the reader is idle, or main() is done. *)
LEMMA ReaderWaits ==
    ASSUME WorkersHaveHandles, ReaderInvariant, [Next]_mainVars, UNCHANGED readerVars
    PROVE  ReaderInvariant'
<1>1. UNCHANGED <<file, stream, eof, m_columns, m_line, m_map_data, pc, exc_count, handed>>
  BY DEF readerVars, streamVars, rowVars
<1>2. mpc = "started" => mpc' = "started" /\ schemas' = schemas
  BY MainIsDone
<1>3. StreamInvariant'
  BY <1>1, <1>2 DEF ReaderInvariant, StreamInvariant
<1>4. handed' \in Seq([Published(schemas)' -> Fields])
  <2>1. CASE pc = "idle"
    <3>1. handed' = <<>>
      BY <1>1, <2>1 DEF ReaderInvariant, StreamInvariant
    <3> QED
      BY <3>1
  <2>2. CASE pc # "idle"
    <3>1. schemas' = schemas
      BY <1>2, <2>2 DEF ReaderInvariant, StreamInvariant
    <3> QED
      BY <1>1, <3>1 DEF ReaderInvariant, ReaderTypes, Published
  <2> QED
    BY <2>1, <2>2
<1>5. ReaderTypes(schemas)'
  BY <1>1, <1>4 DEF ReaderInvariant, ReaderTypes
<1> QED
  BY <1>3, <1>5 DEF ReaderInvariant

LEMMA LeftIn == ASSUME NEW f \in Files, NEW k \in 0..Count(f) PROVE Left(f)[k] \in Fields
BY LeftFacts

LEMMA FileIsTaken ==
    ASSUME input \in Inputs, ReaderInvariant, TakeFile PROVE ReaderInvariant'
<1>1. /\ pc = "idle" /\ pc' = "header" /\ file' \in Files /\ stream' = Text(file') /\ eof' = FALSE
      /\ UNCHANGED <<m_columns, m_line, m_map_data, handed, mpc, schemas>> /\ mpc = "started"
      /\ exc_count' = 0
  BY ProducedAssumption DEF TakeFile, OpenFile, rowVars, mainVars
<1>2. PICK f \in Files : f = file'
  BY <1>1
<1>3. Left(f)[0] = Text(f) /\ Left(f)[0] \in Fields
  <2>1. 0 \in 0..Count(f)
    <3>1. Len(f.rows) \in Nat /\ Count(f) = Len(f.rows) + 1
      BY FileFacts, LeftFacts
    <3> QED
      BY <3>1
  <2> QED
    BY <2>1, LeftFacts, LeftIn
<1>4. stream' = Left(file')[0] /\ stream' \in Fields
  BY <1>1, <1>2, <1>3
<1>5. handed = <<>> /\ m_map_data = <<>>
  BY <1>1 DEF ReaderInvariant, StreamInvariant
<1>6. StreamInvariant'
  BY <1>1, <1>4, <1>5 DEF StreamInvariant
<1>7. ReaderTypes(schemas)'
  <2>1. Published(schemas)' = Published(schemas)
    BY <1>1 DEF Published
  <2> QED
    BY <1>1, <1>4, <2>1 DEF ReaderInvariant, ReaderTypes
<1> QED
  BY <1>6, <1>7 DEF ReaderInvariant

LEMMA HeaderIsTaken ==
    ASSUME ReaderInvariant, SetColumns, UNCHANGED mainVars PROVE ReaderInvariant'
<1>1. /\ pc = "header" /\ pc' = "line" /\ m_columns' = Split(Without(Return, GetLine))
      /\ stream' = Rest /\ eof' = (eof \/ NewLineAt = 0)
      /\ UNCHANGED <<file, m_line, m_map_data, exc_count, handed, mpc, schemas>>
  BY DEF SetColumns, Read, mainVars
<1>2. file \in Files /\ stream = Left(file)[0] /\ eof = FALSE /\ handed = <<>> /\ mpc = "started"
  BY <1>1 DEF ReaderInvariant, StreamInvariant
<1>3. /\ m_columns' = Header /\ stream' = Left(file)[1] /\ (eof' => stream' = <<>>)
      /\ eof' \in BOOLEAN
  BY <1>1, <1>2, HeaderIsNext
<1>4. Len(file.rows) \in Nat /\ Len(handed) = 0
  BY <1>2, FileFacts
<1>5. stream' \in Fields
  <2>1. 1 \in 0..Count(file)
    <3>1. Count(file) = Len(file.rows) + 1
      BY <1>2, LeftFacts
    <3> QED
      BY <1>4, <3>1
  <2> QED
    BY <1>2, <1>3, <2>1, LeftIn
<1>6. StreamInvariant'
  <2>1. 0 <= Len(file.rows) /\ 0 + 1 = 1
    BY <1>4
  <2> QED
    BY <1>1, <1>2, <1>3, <1>4, <2>1 DEF StreamInvariant
<1>7. m_columns' \in Seq(Fields)
  BY <1>3, ColumnsAssumption DEF Fields
<1>8. ReaderTypes(schemas)'
  <2>1. Published(schemas)' = Published(schemas)
    BY <1>1 DEF Published
  <2> QED
    BY <1>1, <1>3, <1>5, <1>7, <2>1 DEF ReaderInvariant, ReaderTypes
<1> QED
  BY <1>6, <1>8 DEF ReaderInvariant

(* Both steps that end with a line in the row, and the one that dies of it. *)
LEMMA RowIsTaken ==
    ASSUME ReaderInvariant, NextRow \/ EndOfStream \/ Overrun, UNCHANGED mainVars
    PROVE  ReaderInvariant'
<1>1. /\ pc = "line" /\ stream' = Rest /\ eof' = (eof \/ NewLineAt = 0) /\ m_line' = NextLine
      /\ UNCHANGED <<file, m_columns, exc_count, handed, mpc, schemas>>
      /\ m_map_data' = Parsed(NextLine).map \/ m_map_data' = m_map_data
  BY DEF NextRow, EndOfStream, Overrun, NextLineIntoRow, Read, mainVars
<1>2. /\ \/ stream # <<>> /\ pc' = "transform"
         \/ stream = <<>> /\ pc' = "end"
         \/ pc' = "crashed"
         \/ pc' = "unable to load"
  BY DEF NextRow, EndOfStream, Overrun
<1>3. /\ StreamInvariant /\ file \in Files /\ mpc = "started" /\ m_columns = Header
      /\ Len(handed) <= Len(file.rows)
  BY <1>1 DEF ReaderInvariant, StreamInvariant
<1>4. m_line \in Seq(Chars \ {NewLine, Return}) /\ IsRow(m_map_data) /\ Len(handed) \in Nat
  <2>1. handed \in Seq([Published(schemas) -> Fields])
    BY DEF ReaderInvariant, ReaderTypes
  <2>2. m_line \in Seq(Chars \ {NewLine, Return}) /\ IsRow(m_map_data)
    BY DEF ReaderInvariant, ReaderTypes, IsRow
  <2> QED
    BY <2>1, <2>2
<1>5. NextLine \in Seq(Chars \ {NewLine, Return})
  BY <1>1, <1>3, <1>4, RowIsNext, NothingIsNext
<1>6. IsRow(m_map_data')
  BY <1>1, <1>3, <1>4, <1>5, LineIsStored
<1>7. stream' \in Fields
  <2>1. CASE stream # <<>>
    <3>1. Len(handed) < Len(file.rows) /\ Rest = Left(file)[Len(handed) + 2]
      BY <1>1, <1>3, <1>4, <2>1, RowIsNext
    <3>2. Len(handed) + 2 \in 0..Count(file)
      <4>1. Len(file.rows) \in Nat /\ Count(file) = Len(file.rows) + 1
        BY <1>3, FileFacts, LeftFacts
      <4> QED
        BY <1>4, <3>1, <4>1
    <3> QED
      BY <1>1, <1>3, <3>1, <3>2, LeftIn
  <2>2. CASE stream = <<>>
    <3>1. stream' = <<>>
      BY <1>1, <1>3, <1>4, <2>2, NothingIsNext
    <3> QED
      BY <3>1 DEF Fields
  <2> QED
    BY <2>1, <2>2
<1>8. StreamInvariant'
  <2>1. CASE stream # <<>> /\ pc' = "transform"
    <3>1. /\ Len(handed) < Len(file.rows) /\ Rest = Left(file)[Len(handed) + 2]
          /\ eof \/ NewLineAt = 0 => Rest = <<>>
      BY <1>1, <1>3, <1>4, <2>1, RowIsNext
    <3> QED
      BY <1>1, <1>3, <2>1, <3>1 DEF StreamInvariant
  <2>2. CASE stream = <<>> /\ pc' = "end"
    <3>1. Len(handed) = Len(file.rows)
      BY <1>1, <1>3, <1>4, <2>2, NothingIsNext
    <3> QED
      BY <1>1, <1>3, <2>2, <3>1 DEF StreamInvariant
  <2>3. CASE pc' \in {"crashed", "unable to load"}
    BY <1>1, <1>3, <2>3 DEF StreamInvariant
  <2> QED
    BY <1>2, <2>1, <2>2, <2>3
<1>9. ReaderTypes(schemas)'
  <2>1. Published(schemas)' = Published(schemas)
    BY <1>1 DEF Published
  <2>2. eof' \in BOOLEAN
    BY <1>1
  <2> QED
    BY <1>1, <1>2, <1>5, <1>6, <1>7, <2>1, <2>2 DEF ReaderInvariant, ReaderTypes, IsRow
<1> QED
  BY <1>8, <1>9 DEF ReaderInvariant

(* The chain does its work on the row. *)
LEMMA OperationIn ==
    ASSUME ChainInvariant, mpc = "started", IsRow(m_map_data)
    PROVE  IsRow(Operation(m_map_data, chain))
<1>1. PICK S : chain \in Seq(S) /\ \A t \in S : Typed(t)
  BY ChainIsTyped
<1>2. Len(chain) \in Nat /\ \A i \in 1..Len(chain) : Typed(chain[i])
  BY <1>1
<1>3. \E r \in [0..Len(chain) -> Rows] : r[Len(chain)] = Operation(m_map_data, chain)
  BY <1>1, <1>2, OperationInSteps
<1>4. Len(chain) \in 0..Len(chain)
  BY <1>2
<1> QED
  BY <1>3, <1>4, RowsAreRows

LEMMA RowIsTransformed ==
    ASSUME ChainInvariant, ReaderInvariant, mpc = "started", Transform(chain), UNCHANGED mainVars
    PROVE  ReaderInvariant'
<1>1. /\ pc = "transform" /\ pc' = "publish" /\ m_map_data' = Operation(m_map_data, chain)
      /\ UNCHANGED <<file, stream, eof, m_columns, m_line, exc_count, handed, mpc, schemas>>
  BY DEF Transform, streamVars, mainVars
<1>2. IsRow(m_map_data')
  BY <1>1, OperationIn DEF ReaderInvariant, ReaderTypes, IsRow
<1>3. StreamInvariant'
  BY <1>1 DEF ReaderInvariant, StreamInvariant
<1>4. ReaderTypes(schemas)'
  <2>1. Published(schemas)' = Published(schemas)
    BY <1>1 DEF Published
  <2> QED
    BY <1>1, <1>2, <2>1 DEF ReaderInvariant, ReaderTypes, IsRow
<1> QED
  BY <1>3, <1>4 DEF ReaderInvariant

LEMMA RowIsHanded ==
    ASSUME ReaderInvariant, Publish(schemas), UNCHANGED mainVars PROVE ReaderInvariant'
<1> DEFINE record == [c \in Published(schemas) |-> Value(m_map_data, c)]
<1>1. /\ pc = "publish" /\ pc' \in {"line", "gave up"}
      /\ UNCHANGED <<file, stream, eof, m_columns, m_line, m_map_data, mpc, schemas>>
  BY DEF Publish, streamVars, rowVars, mainVars
<1>10. handed' = Append(handed, record)
  BY DEF Publish
<1>2. record \in [Published(schemas) -> Fields]
  BY ValueIn DEF ReaderInvariant, ReaderTypes, IsRow
<1>3. handed \in Seq([Published(schemas) -> Fields])
  BY DEF ReaderInvariant, ReaderTypes
<1> HIDE DEF record
<1>4. handed' \in Seq([Published(schemas) -> Fields]) /\ Len(handed') = Len(handed) + 1
      /\ Len(handed) \in Nat
  BY <1>2, <1>3, <1>10
<1>5. /\ file \in Files /\ mpc = "started" /\ m_columns = Header /\ (eof => stream = <<>>)
      /\ Len(handed) < Len(file.rows) /\ stream = Left(file)[Len(handed) + 2]
  BY <1>1 DEF ReaderInvariant, StreamInvariant
<1>6. Len(handed') <= Len(file.rows) /\ Len(handed') + 1 = Len(handed) + 2
  <2>1. Len(file.rows) \in Nat
    BY <1>5, FileFacts
  <2> QED
    BY <1>4, <1>5, <2>1
<1>7. StreamInvariant'
  BY <1>1, <1>5, <1>6 DEF StreamInvariant
<1>8. exc_count' \in Nat
  <2>1. exc_count \in Nat
    BY DEF ReaderInvariant, ReaderTypes
  <2>2. exc_count' = exc_count \/ exc_count' = exc_count + 1
    BY DEF Publish
  <2> QED
    BY <2>1, <2>2
<1>9. ReaderTypes(schemas)'
  <2>1. Published(schemas)' = Published(schemas)
    BY <1>1 DEF Published
  <2> QED
    BY <1>1, <1>4, <1>8, <2>1 DEF ReaderInvariant, ReaderTypes
<1> QED
  BY <1>7, <1>9 DEF ReaderInvariant

LEMMA AgeIsWild ==
    ASSUME ReaderInvariant, WildAge PROVE ReaderInvariant'
<1>1. /\ pc = "publish" /\ pc' = "crashed"
      /\ UNCHANGED <<file, stream, eof, m_columns, m_line, m_map_data, exc_count, handed, mpc, schemas>>
  BY DEF WildAge, streamVars, rowVars, mainVars
<1>2. StreamInvariant'
  <2>1. file \in Files /\ mpc = "started" /\ Len(handed) < Len(file.rows)
    BY <1>1 DEF ReaderInvariant, StreamInvariant
  <2>2. Len(file.rows) \in Nat
    BY <2>1, FileFacts
  <2>3. Len(handed) \in Nat
    <3>1. handed \in Seq([Published(schemas) -> Fields])
      BY DEF ReaderInvariant, ReaderTypes
    <3> QED
      BY <3>1
  <2>4. Len(handed) <= Len(file.rows)
    BY <2>1, <2>2, <2>3
  <2> QED
    BY <1>1, <2>1, <2>4 DEF StreamInvariant
<1>3. ReaderTypes(schemas)'
  <2>1. Published(schemas)' = Published(schemas)
    BY <1>1 DEF Published
  <2> QED
    BY <1>1, <2>1 DEF ReaderInvariant, ReaderTypes
<1> QED
  BY <1>2, <1>3 DEF ReaderInvariant

LEMMA StepReader ==
    ASSUME WorkersHaveHandles, ChainInvariant, ReaderInvariant, [AppNext]_vars
    PROVE  ReaderInvariant'
<1>1. CASE StartupNext \/ UNCHANGED vars
  BY <1>1, StepOfMain, ReaderWaits DEF StartupNext, vars
<1>2. CASE TakeFile
  BY <1>2, FileIsTaken DEF ChainInvariant
<1>3. CASE ReadFile
  BY <1>3, HeaderIsTaken, RowIsTaken, RowIsTransformed, RowIsHanded DEF ReadFile, Handle
<1>4. CASE WildAge
  BY <1>4, AgeIsWild
<1> QED
  BY <1>1, <1>2, <1>3, <1>4 DEF AppNext

LEMMA ReaderStarts == AppInit => ReaderInvariant
<1> SUFFICES ASSUME AppInit PROVE ReaderInvariant
  OBVIOUS
<1>1. /\ file = NoFile /\ stream = <<>> /\ eof = FALSE /\ m_columns = <<>> /\ m_line = <<>>
      /\ m_map_data = <<>> /\ pc = "idle" /\ exc_count = 0 /\ handed = <<>>
  BY DEF AppInit, ReaderInit
<1>2. StreamInvariant
  BY <1>1 DEF StreamInvariant
<1>3. <<>> \in Seq(Chars) /\ <<>> \in Seq(Fields) /\ <<>> \in Seq(Chars \ {NewLine, Return})
      /\ <<>> \in Seq([Published(schemas) -> Fields])
  OBVIOUS
<1>4. DOMAIN <<>> \subseteq Fields /\ <<>> \in [DOMAIN <<>> -> Fields]
  OBVIOUS
<1>5. ReaderTypes(schemas)
  BY <1>1, <1>3, <1>4 DEF ReaderTypes, Fields
<1> QED
  BY <1>2, <1>5 DEF ReaderInvariant

(* After each step the stream has what is left of the file behind the      *)
(* lines that were read, also behind a last line without a new line.       *)
THEOREM ReaderInvariantHolds == AppSpec => []ReaderInvariant
<1>1. AppInit /\ [][AppNext]_vars /\ []WorkersHaveHandles /\ []ChainInvariant => []ReaderInvariant
  BY ReaderStarts, StepReader, PTL
<1> QED
  BY <1>1, ApplicationStarts, StartedWithHandles, ChainInvariantHolds, PTL DEF AppSpec

(* The reader and main() keep their variables in their types, whatever is  *)
(* in the configuration and in the files.                                  *)
THEOREM TypesAreKept == AppSpec => []TypeOK
<1>1. StartupTypes /\ ReaderInvariant => TypeOK
  BY DEF TypeOK, ReaderInvariant
<1> QED
  BY <1>1, ReaderInvariantHolds, ApplicationIsConfigured, PTL

(* At the end of a file each of its lines was handed on once, whatever was *)
(* wrong with the configuration, and never more than the file has.         *)
THEOREM LinesAreReadOnce == AppSpec => []EveryLineOnce
<1>1. ReaderInvariant => EveryLineOnce
  <2> SUFFICES ASSUME ReaderInvariant, file # NoFile
               PROVE  /\ Len(handed) <= Len(file.rows)
                      /\ pc = "end" => Len(handed) = Len(file.rows)
    BY DEF EveryLineOnce
  <2>1. pc # "idle" /\ file \in Files
    BY DEF ReaderInvariant, StreamInvariant
  <2>2. pc \in {"header", "line", "transform", "publish", "end", "gave up", "crashed",
                "unable to load"}
    BY <2>1 DEF ReaderInvariant, ReaderTypes
  <2>3. Len(file.rows) \in Nat /\ Len(handed) \in Nat
    <3>1. handed \in Seq([Published(schemas) -> Fields])
      BY DEF ReaderInvariant, ReaderTypes
    <3>2. Len(handed) \in Nat
      BY <3>1
    <3> QED
      BY <2>1, <3>2, FileFacts
  <2>4. CASE pc = "header"
    <3>1. Len(handed) = 0
      BY <2>4 DEF ReaderInvariant, StreamInvariant
    <3> QED
      BY <2>3, <2>4, <3>1
  <2>5. CASE pc \in {"transform", "publish"}
    <3>1. Len(handed) < Len(file.rows)
      BY <2>5 DEF ReaderInvariant, StreamInvariant
    <3> QED
      BY <2>3, <2>5, <3>1
  <2>6. CASE pc \in {"line", "gave up", "crashed", "unable to load"}
    BY <2>6 DEF ReaderInvariant, StreamInvariant
  <2>7. CASE pc = "end"
    <3>1. Len(handed) = Len(file.rows)
      BY <2>7 DEF ReaderInvariant, StreamInvariant
    <3> QED
      BY <2>3, <3>1
  <2> QED
    BY <2>2, <2>4, <2>5, <2>6, <2>7
<1> QED
  BY <1>1, ReaderInvariantHolds, PTL

-----------------------------------------------------------------------------
(* The row, which is not cleared between two lines. *)

(* A column that is empty, and that nothing sets, is empty afterwards. *)
LEMMA EmptyStaysEmpty ==
    ASSUME NEW S, NEW ts \in Seq(S), \A i \in 1..Len(ts) : Typed(ts[i]),
           NEW row, IsRow(row), NEW c, Value(row, c) = <<>>,
           \A i \in 1..Len(ts) : ts[i].type = "set" => ts[i].column # c
    PROVE  Value(Operation(row, ts), c) = <<>>
<1> DEFINE m == Len(ts)
<1>1. m \in Nat
  OBVIOUS
<1>2. PICK r \in [0..m -> Rows] : /\ r[0] = row /\ r[m] = Operation(row, ts)
                                  /\ \A n \in 1..m : r[n] = Apply(r[n - 1], ts[n])
  BY OperationInSteps
<1> DEFINE Empty == {n \in 0..m : Value(r[n], c) = <<>>}
<1>3. 0 \in Empty
  BY <1>1, <1>2
<1>4. ASSUME NEW n \in 0..m, n \in Empty, n < m PROVE n + 1 \in Empty
  <2>1. n + 1 \in 1..m /\ n + 1 \in 0..m /\ (n + 1) - 1 = n
    BY <1>1, <1>4
  <2>2. r[n + 1] = Apply(r[n], ts[n + 1])
    BY <1>2, <2>1
  <2>3. Typed(ts[n + 1]) /\ (ts[n + 1].type = "set" => ts[n + 1].column # c)
    BY <2>1
  <2>4. Value(r[n], c) = <<>>
    BY <1>4
  <2>5. Value(r[n + 1], c) = <<>>
    BY <2>2, <2>3, <2>4, AppliedValue
  <2> QED
    BY <2>1, <2>5
<1> HIDE DEF m, Empty
<1>5. \A n \in 0..m : n \in Empty
  BY <1>1, <1>3, <1>4, Induction
<1>6. m \in Empty
  BY <1>1, <1>5
<1> QED
  BY <1>2, <1>6 DEF Empty

(* The columns whose value matters: those of files, and those that no      *)
(* transform behind the n-th one sets.                                     *)
Matters(ts, n, c) ==
    /\ c # Junk
    /\ c \in Range(Header) \/ \A j \in n + 1..Len(ts) : ts[j].type = "set" => ts[j].column # c

Same(a, b, ts, n) == \A c : Matters(ts, n, c) => Value(a, c) = Value(b, c)

LEMMA SameAfterOne ==
    ASSUME NEW ts, NEW n \in Nat, Len(ts) \in Nat, n < Len(ts), NEW a, NEW b, Same(a, b, ts, n),
           Typed(ts[n + 1]),
           \A j \in n + 2..Len(ts) : Adds(ts[n + 1]) \intersect Sets(ts[j]) = {}
    PROVE  Same(Apply(a, ts[n + 1]), Apply(b, ts[n + 1]), ts, n + 1)
<1> DEFINE t == ts[n + 1]
<1>1. n + 1 \in n + 1..Len(ts) /\ (n + 1) + 1 = n + 2
  OBVIOUS
<1>2. \A j \in n + 1..Len(ts) : j = n + 1 \/ j \in n + 2..Len(ts)
  OBVIOUS
<1> SUFFICES ASSUME NEW c, Matters(ts, n + 1, c)
             PROVE  Value(Apply(a, t), c) = Value(Apply(b, t), c)
  BY DEF Same
<1>3. c # Junk
      /\ (c \in Range(Header) \/ \A j \in n + 2..Len(ts) : ts[j].type = "set" => ts[j].column # c)
  BY <1>1 DEF Matters
<1>4. ~(c = t.column /\ t.type = "set") => Value(a, c) = Value(b, c)
  <2> SUFFICES ASSUME ~(c = t.column /\ t.type = "set") PROVE Matters(ts, n, c)
    BY DEF Same
  <2> QED
    BY <1>2, <1>3 DEF Matters
<1>5. t.type \in {"append", "prepend"} => Value(a, t.from_column) = Value(b, t.from_column)
  <2> SUFFICES ASSUME t.type \in {"append", "prepend"} PROVE Matters(ts, n, t.from_column)
    BY DEF Same
  <2>1. t.from_column # Junk
    BY DEF Typed
  <2>2. ASSUME NEW j \in n + 1..Len(ts), ts[j].type = "set", t.from_column \notin Range(Header)
        PROVE  ts[j].column # t.from_column
    <3>1. j \in n + 2..Len(ts)
      BY <1>2, <2>2
    <3>2. t.from_column \notin Sets(ts[j])
      BY <3>1 DEF Adds
    <3> QED
      BY <2>2, <3>2 DEF Sets
  <2> QED
    BY <2>1, <2>2 DEF Matters
<1> HIDE DEF t
<1>6. Typed(t)
  BY DEF t
<1>7. CASE c # t.column
  BY <1>4, <1>6, <1>7, AppliedValue
<1>8. CASE c = t.column /\ t.type = "set"
  BY <1>6, <1>8, AppliedValue
<1>9. CASE c = t.column /\ t.type # "set"
  <2>1. Value(a, c) = Value(b, c)
    BY <1>4, <1>9
  <2>2. New(Value(a, c), Value(a, t.from_column), t) = New(Value(b, c), Value(b, t.from_column), t)
    <3>1. CASE t.type \in {"append", "prepend"}
      BY <1>5, <2>1, <3>1
    <3>2. CASE t.type \notin {"append", "prepend"}
      BY <1>6, <1>9, <2>1, <3>2, NewOfOther
    <3> QED
      BY <3>1, <3>2
  <2>3. Value(Apply(a, t), c) = IF Value(a, c) = <<>> THEN <<>>
                                ELSE New(Value(a, c), Value(a, t.from_column), t)
    BY <1>6, <1>9, AppliedValue
  <2>4. Value(Apply(b, t), c) = IF Value(b, c) = <<>> THEN <<>>
                                ELSE New(Value(b, c), Value(b, t.from_column), t)
    BY <1>6, <1>9, AppliedValue
  <2> QED
    BY <2>1, <2>2, <2>3, <2>4
<1> QED
  BY <1>7, <1>8, <1>9

(* Two rows with the same values where it matters have the same values     *)
(* behind the transforms.                                                  *)
LEMMA SameAfterAll ==
    ASSUME NEW S, NEW ts \in Seq(S), \A i \in 1..Len(ts) : Typed(ts[i]),
           \A j \in 1..Len(ts) : \A i \in 1..j - 1 : Adds(ts[i]) \intersect Sets(ts[j]) = {},
           NEW a, IsRow(a), NEW b, IsRow(b), Same(a, b, ts, 0)
    PROVE  \A c : c # Junk => Value(Operation(a, ts), c) = Value(Operation(b, ts), c)
<1> DEFINE m == Len(ts)
<1>1. m \in Nat
  OBVIOUS
<1>2. PICK ra \in [0..m -> Rows] : /\ ra[0] = a /\ ra[m] = Operation(a, ts)
                                   /\ \A n \in 1..m : ra[n] = Apply(ra[n - 1], ts[n])
  BY OperationInSteps
<1>3. PICK rb \in [0..m -> Rows] : /\ rb[0] = b /\ rb[m] = Operation(b, ts)
                                   /\ \A n \in 1..m : rb[n] = Apply(rb[n - 1], ts[n])
  BY OperationInSteps
<1> DEFINE Equal == {n \in 0..m : Same(ra[n], rb[n], ts, n)}
<1>4. 0 \in Equal
  <2>1. 0 \in 0..m
    BY <1>1
  <2> QED
    BY <1>2, <1>3, <2>1
<1>5. ASSUME NEW n \in 0..m, n \in Equal, n < m PROVE n + 1 \in Equal
  <2>1. n + 1 \in 1..m /\ n + 1 \in 0..m /\ (n + 1) - 1 = n /\ n \in Nat
    BY <1>1, <1>5
  <2>2. ra[n + 1] = Apply(ra[n], ts[n + 1]) /\ rb[n + 1] = Apply(rb[n], ts[n + 1])
    BY <1>2, <1>3, <2>1
  <2>3. Typed(ts[n + 1]) /\ Same(ra[n], rb[n], ts, n)
    BY <1>5, <2>1
  <2>4. \A j \in n + 2..m : Adds(ts[n + 1]) \intersect Sets(ts[j]) = {}
    <3> SUFFICES ASSUME NEW j \in n + 2..m
                 PROVE  Adds(ts[n + 1]) \intersect Sets(ts[j]) = {}
      OBVIOUS
    <3>1. j \in 1..m /\ n + 1 \in 1..j - 1
      BY <1>1, <2>1
    <3> HIDE DEF m
    <3> QED
      BY <3>1 DEF m
  <2>5. Same(ra[n + 1], rb[n + 1], ts, n + 1)
    BY <1>1, <1>5, <2>1, <2>2, <2>3, <2>4, SameAfterOne
  <2> QED
    BY <2>1, <2>5
<1> HIDE DEF Equal
<1>6. \A n \in 0..m : n \in Equal
  <2> HIDE DEF m
  <2> QED
    BY <1>1, <1>4, <1>5, Induction
<1>7. Same(ra[m], rb[m], ts, m)
  <2>1. m \in 0..m
    BY <1>1
  <2> QED
    BY <1>6, <2>1 DEF Equal
<1>8. m + 1..m = {}
  BY <1>1
<1> QED
  BY <1>2, <1>3, <1>7, <1>8 DEF Same, Matters

(* The names that the schemas have are no junk. *)
NoJunk == \A t \in DOMAIN schemas : Junk \notin Range(schemas[t].columns)

LEMMA StepNoJunk ==
    ASSUME input \in Inputs, NoJunk, [Next]_mainVars PROVE NoJunk'
<1>1. CASE SchemaConfigs
  <2>1. schemas' = [t \in DOMAIN TopicMap |-> Config(TopicMap[t])] \/ schemas' = <<>>
    BY <1>1 DEF SchemaConfigs, If
  <2>2. CASE schemas' = <<>>
    BY <2>2 DEF NoJunk
  <2>3. CASE schemas' = [t \in DOMAIN TopicMap |-> Config(TopicMap[t])]
    <3> SUFFICES ASSUME NEW t \in DOMAIN TopicMap PROVE Junk \notin Range(Config(TopicMap[t]).columns)
      BY <2>3 DEF NoJunk
    <3>1. CASE NoMap("type_map")
      BY <3>1 DEF TopicMap
    <3>2. CASE ~NoMap("type_map")
      <4>1. TopicMap = document.type_map.map /\ document.type_map.kind = "map"
        BY <3>2 DEF TopicMap, NoMap
      <4>2. Junk \notin Range(TopicMap[t].columns)
        BY <4>1, TopicsAssumption DEF document
      <4>3. Config(TopicMap[t]).columns \in {TopicMap[t].columns, <<>>}
        BY DEF Config
      <4> QED
        BY <4>2, <4>3 DEF Range
    <3> QED
      BY <3>1, <3>2
  <2> QED
    BY <2>1, <2>2, <2>3
<1>2. CASE ~SchemaConfigs
  <2>1. schemas' = schemas
    BY <1>2 DEF Next, MainNext, KafkaPollerNext, ParseArgs, LoadFile, SchemaIds, KafkaConf,
       CreateProducer, StartKafkaPoller, BuildDirectoryPoller, BuildTransformers, MaxAge,
       BuildProcessor, StartWorkers, SignalThread, PollNull, KafkaPollerEnds, mainVars
  <2> QED
    BY <2>1 DEF NoJunk
<1> QED
  BY <1>1, <1>2

LEMMA NoJunkHolds == AppSpec => []NoJunk
<1>1. Init => NoJunk
  BY DEF Init, NoJunk
<1>2. NoJunk /\ ChainInvariant /\ [Next]_mainVars => NoJunk'
  BY StepNoJunk DEF ChainInvariant
<1> QED
  BY <1>1, <1>2, ApplicationStarts, ChainInvariantHolds, PTL DEF Spec

(* Between two lines a column that is not in files is empty, unless some   *)
(* transform sets it; the fields of a full line are there when the         *)
(* transformers get it; and behind them the row is as it should be.        *)
Unset(c) ==
    /\ c \notin Range(Header) \union {Junk}
    /\ \A i \in 1..Len(chain) : chain[i].type = "set" => chain[i].column # c
UnsetIsEmpty == \A c : Unset(c) => Value(m_map_data, c) = <<>>

ItsRow == file.rows[Len(handed) + 1]
FieldsAreRead == \A i \in 1..Len(Header) : Value(m_map_data, Header[i]) = ItsRow[i]
RowIsReady ==
    \A c : c # Junk => Value(m_map_data, c) = Value(Expected(ItsRow, document.transforms), c)

Sane == sigint = {} /\ VoidFirst /\ SetFirst
FullRow == Len(ItsRow) >= Len(Header)
RowInvariant ==
    /\ pc \in {"header", "line", "transform", "publish"} => UnsetIsEmpty
    /\ pc = "transform" /\ FullRow => FieldsAreRead
    /\ pc = "publish" /\ FullRow /\ Sane => RowIsReady
    /\ RowIsItsLine

LEMMA SaneStays == ASSUME UNCHANGED <<input, sigint>> PROVE Sane' <=> Sane
<1>1. document' = document
  BY DEF document
<1> QED
  BY <1>1 DEF Sane, VoidFirst, SetFirst, Complete, Adds, Sets

(* Nothing is handed on. *)
LEMMA LinesStay ==
    ASSUME UNCHANGED <<input, sigint, schemas, file, handed>>, RowIsItsLine PROVE RowIsItsLine'
<1>1. document' = document /\ Published(schemas)' = Published(schemas) /\ (Sane' <=> Sane)
  BY SaneStays DEF document, Published
<1>2. RowIsItsLine <=> (Sane => RowsAreLines(document.transforms, schemas))
  BY DEF RowIsItsLine, Sane
<1>3. RowIsItsLine' <=> (Sane' => RowsAreLines(document.transforms, schemas)')
  BY DEF RowIsItsLine, Sane
<1>4. RowsAreLines(document.transforms, schemas) => RowsAreLines(document.transforms, schemas)'
  BY <1>1 DEF RowsAreLines, IsItsLine
<1> QED
  BY <1>1, <1>2, <1>3, <1>4

LEMMA NothingIsHanded == ASSUME handed' = <<>> PROVE RowIsItsLine'
BY DEF RowIsItsLine, RowsAreLines

LEMMA RowWaits ==
    ASSUME WorkersHaveHandles, ReaderInvariant, RowInvariant, [Next]_mainVars, UNCHANGED readerVars
    PROVE  RowInvariant'
<1>1. UNCHANGED <<file, m_map_data, pc, handed>>
  BY DEF readerVars, streamVars, rowVars
<1>2. CASE pc = "idle"
  <2>1. handed' = <<>>
    BY <1>1, <1>2 DEF ReaderInvariant, StreamInvariant
  <2> QED
    BY <1>1, <1>2, <2>1, NothingIsHanded DEF RowInvariant
<1>3. CASE pc # "idle"
  <2>1. UNCHANGED <<input, sigint, schemas, chain>>
    BY <1>3, MainIsDone DEF ReaderInvariant, StreamInvariant
  <2>2. document' = document /\ ItsRow' = ItsRow /\ (Sane' <=> Sane)
    BY <1>1, <2>1, SaneStays DEF document, ItsRow
  <2>3. UnsetIsEmpty => UnsetIsEmpty'
    BY <1>1, <2>1 DEF UnsetIsEmpty, Unset
  <2>4. (FieldsAreRead => FieldsAreRead') /\ (FullRow' <=> FullRow)
    BY <1>1, <2>2 DEF FieldsAreRead, FullRow
  <2>5. RowIsReady => RowIsReady'
    BY <1>1, <2>2 DEF RowIsReady
  <2>6. RowIsItsLine'
    BY <1>1, <2>1, LinesStay DEF RowInvariant
  <2> QED
    BY <1>1, <2>2, <2>3, <2>4, <2>5, <2>6 DEF RowInvariant
<1> QED
  BY <1>2, <1>3

(* Steps that take nothing into the row, and come to no row. *)
LEMMA RowIsLeft ==
    ASSUME RowInvariant, UNCHANGED mainVars, UNCHANGED <<file, m_map_data, handed>>,
           pc \in {"header", "line", "transform", "publish"},
           pc' \in {"line", "end", "gave up", "crashed", "unable to load"}
    PROVE  RowInvariant'
<1>1. UNCHANGED <<input, sigint, schemas, chain>>
  BY DEF mainVars, signalVars, builtVars
<1>2. UnsetIsEmpty'
  BY <1>1 DEF RowInvariant, UnsetIsEmpty, Unset
<1>3. RowIsItsLine'
  BY <1>1, LinesStay DEF RowInvariant
<1> QED
  BY <1>2, <1>3 DEF RowInvariant

LEMMA RowOfNewFile ==
    ASSUME ReaderInvariant, TakeFile PROVE RowInvariant'
<1>1. pc' = "header" /\ m_map_data' = <<>> /\ handed' = <<>>
  BY DEF TakeFile, OpenFile, rowVars, ReaderInvariant, StreamInvariant
<1>2. UnsetIsEmpty'
  BY <1>1 DEF UnsetIsEmpty, Value
<1> QED
  BY <1>1, <1>2, NothingIsHanded DEF RowInvariant

LEMMA RowIsStored ==
    ASSUME ReaderInvariant, RowInvariant, NextRow, UNCHANGED mainVars PROVE RowInvariant'
<1>1. /\ pc = "line" /\ pc' = "transform" /\ stream # <<>> /\ m_map_data' = Parsed(NextLine).map
      /\ UNCHANGED <<file, handed, input, sigint, schemas, chain>>
  BY DEF NextRow, NextLineIntoRow, mainVars, signalVars, builtVars
<1>2. /\ StreamInvariant /\ file \in Files /\ m_columns = Header /\ IsRow(m_map_data)
      /\ handed \in Seq([Published(schemas) -> Fields])
  BY <1>1 DEF ReaderInvariant, StreamInvariant, ReaderTypes, IsRow
<1>3. Len(handed) \in Nat
  BY <1>2
<1>4. /\ Len(handed) < Len(file.rows) /\ NextLine = Line(file, ItsRow)
      /\ NextLine \in Seq(Chars \ {NewLine, Return})
  BY <1>1, <1>2, <1>3, RowIsNext DEF ItsRow
<1>5. UnsetIsEmpty'
  <2>1. \A c : c \notin Range(Header) /\ c # Junk =>
            Value(Parsed(NextLine).map, c) = Value(m_map_data, c)
    BY <1>2, <1>4, LineIsStored
  <2>2. UnsetIsEmpty
    BY <1>1 DEF RowInvariant
  <2>3. \A c : Value(m_map_data, c)' = Value(Parsed(NextLine).map, c)
    BY <1>1 DEF Value
  <2>4. \A c : Unset(c)' <=> Unset(c)
    BY <1>1 DEF Unset
  <2>5. \A c : Unset(c) => Value(Parsed(NextLine).map, c) = <<>>
    BY <2>1, <2>2 DEF UnsetIsEmpty, Unset
  <2> QED
    BY <1>1, <2>4, <2>5 DEF UnsetIsEmpty
<1>6. FullRow' => FieldsAreRead'
  <2>1. ItsRow' = ItsRow
    BY <1>1 DEF ItsRow
  <2> SUFFICES ASSUME Len(ItsRow) >= Len(Header)
               PROVE  \A i \in 1..Len(Header) : Value(Parsed(NextLine).map, Header[i]) = ItsRow[i]
    BY <1>1, <2>1 DEF FullRow, FieldsAreRead
  <2>2. ItsRow \in Seq(Fields)
    <3>1. Len(file.rows) \in Nat /\ \A k \in 1..Len(file.rows) : file.rows[k] \in Seq(Fields)
      BY <1>2, FileFacts
    <3>2. Len(handed) + 1 \in 1..Len(file.rows)
      BY <1>3, <1>4, <3>1
    <3> QED
      BY <3>1, <3>2 DEF ItsRow
  <2>3. Len(Header) \in Nat \ {0} /\ Len(ItsRow) \in Nat
    BY <2>2, HeaderFacts
  <2>4. ItsRow # <<>>
    BY <2>3
  <2>5. \A i \in 1..Len(ItsRow) : i <= Len(Header) =>
            Value(Parsed(Line(file, ItsRow)).map, Header[i]) = ItsRow[i]
    <3> HIDE DEF ItsRow
    <3> QED
      BY <1>2, <2>2, <2>4, LineIsRead
  <2>6. \A i \in 1..Len(Header) : i \in 1..Len(ItsRow) /\ i <= Len(Header)
    BY <2>3
  <2> QED
    BY <1>4, <2>5, <2>6
<1>7. RowIsItsLine'
  BY <1>1, LinesStay DEF RowInvariant
<1> QED
  BY <1>1, <1>5, <1>6, <1>7 DEF RowInvariant

(* The end of the stream: what the row is now does not matter. *)
LEMMA RowsAreOver ==
    ASSUME RowInvariant, EndOfStream \/ Overrun, UNCHANGED mainVars PROVE RowInvariant'
<1>1. /\ pc' \in {"end", "crashed", "unable to load"}
      /\ UNCHANGED <<file, handed, input, sigint, schemas>>
  BY DEF EndOfStream, Overrun, NextLineIntoRow, mainVars, signalVars
<1>2. RowIsItsLine'
  BY <1>1, LinesStay DEF RowInvariant
<1> QED
  BY <1>1, <1>2 DEF RowInvariant

LEMMA RowIsReadied ==
    ASSUME ChainInvariant, TransformsInOrder, ReaderInvariant, RowInvariant,
           Transform(chain), UNCHANGED mainVars
    PROVE  RowInvariant'
<1>1. /\ pc = "transform" /\ pc' = "publish" /\ m_map_data' = Operation(m_map_data, chain)
      /\ UNCHANGED <<file, handed, input, sigint, schemas, chain>>
  BY DEF Transform, mainVars, signalVars, builtVars
<1>2. IsRow(m_map_data) /\ file \in Files /\ mpc = "started" /\ Len(handed) < Len(file.rows)
      /\ handed \in Seq([Published(schemas) -> Fields])
  BY <1>1 DEF ReaderInvariant, StreamInvariant, ReaderTypes, IsRow
<1>3. PICK S : chain \in Seq(S) /\ \A t \in S : Typed(t)
  BY <1>2, ChainIsTyped
<1>4. Len(chain) \in Nat /\ \A i \in 1..Len(chain) : Typed(chain[i])
  BY <1>3
<1>5. UnsetIsEmpty
  BY <1>1 DEF RowInvariant
<1>6. UnsetIsEmpty'
  <2>1. \A c : Unset(c)' <=> Unset(c)
    BY <1>1 DEF Unset
  <2>2. ASSUME NEW c, Unset(c) PROVE Value(Operation(m_map_data, chain), c) = <<>>
    <3>1. Value(m_map_data, c) = <<>>
      BY <1>5, <2>2 DEF UnsetIsEmpty
    <3>2. \A i \in 1..Len(chain) : chain[i].type = "set" => chain[i].column # c
      BY <2>2 DEF Unset
    <3> QED
      BY <1>2, <1>3, <1>4, <3>1, <3>2, EmptyStaysEmpty
  <2> QED
    BY <1>1, <2>1, <2>2 DEF UnsetIsEmpty
<1>7. FullRow' /\ Sane' => RowIsReady'
  <2>1. ItsRow' = ItsRow /\ document' = document
    BY <1>1 DEF ItsRow, document
  <2> SUFFICES ASSUME FullRow, Sane
               PROVE  \A c : c # Junk => Value(Operation(m_map_data, chain), c)
                                             = Value(Expected(ItsRow, document.transforms), c)
    BY <1>1, <2>1, SaneStays DEF FullRow, RowIsReady
  <2>2. chain = document.transforms
    BY <1>2 DEF Sane, TransformsInOrder
  <2>3. ItsRow \in Seq(Fields)
    <3>1. Len(handed) \in Nat
      BY <1>2
    <3>2. Len(file.rows) \in Nat /\ \A k \in 1..Len(file.rows) : file.rows[k] \in Seq(Fields)
      BY <1>2, FileFacts
    <3>3. Len(handed) + 1 \in 1..Len(file.rows)
      BY <1>2, <3>1, <3>2
    <3> QED
      BY <3>2, <3>3 DEF ItsRow
  <2> DEFINE fresh == Fresh(ItsRow)
  <2>4. /\ IsRow(fresh) /\ \A c : c \notin Range(Header) => Value(fresh, c) = <<>>
        /\ \A i \in 1..Len(Header) : Value(fresh, Header[i]) = ItsRow[i]
    BY <2>3, FreshFacts DEF FullRow
  <2> HIDE DEF fresh
  <2>5. Same(m_map_data, fresh, chain, 0)
    <3> SUFFICES ASSUME NEW c, Matters(chain, 0, c) PROVE Value(m_map_data, c) = Value(fresh, c)
      BY DEF Same
    <3>1. CASE c \in Range(Header)
      <4>1. PICK i \in 1..Len(Header) : c = Header[i]
        BY <3>1, HeaderFacts DEF Range
      <4>2. FieldsAreRead
        BY <1>1 DEF RowInvariant
      <4> QED
        BY <2>4, <4>1, <4>2 DEF FieldsAreRead
    <3>2. CASE c \notin Range(Header)
      <4>1. Unset(c)
        <5>1. 0 + 1 = 1
          OBVIOUS
        <5> QED
          BY <3>2, <5>1 DEF Matters, Unset
      <4> QED
        BY <1>5, <2>4, <3>2, <4>1 DEF UnsetIsEmpty
    <3> QED
      BY <3>1, <3>2
  <2>6. \A j \in 1..Len(chain) : \A i \in 1..j - 1 : Adds(chain[i]) \intersect Sets(chain[j]) = {}
    <3>1. DOMAIN chain = 1..Len(chain)
      BY <1>3
    <3>2. \A i \in DOMAIN chain : Complete(chain[i])
      BY <1>2, <2>2 DEF ChainInvariant, ChainMade
    <3> SUFFICES ASSUME NEW j \in 1..Len(chain), NEW i \in 1..j - 1
                 PROVE  Adds(chain[i]) \intersect Sets(chain[j]) = {}
      OBVIOUS
    <3>3. i \in DOMAIN chain /\ j \in DOMAIN chain
      BY <1>4, <3>1
    <3> QED
      BY <2>2, <3>2, <3>3 DEF Sane, SetFirst
  <2>7. \A c : c # Junk => Value(Operation(m_map_data, chain), c) = Value(Operation(fresh, chain), c)
    BY <1>2, <1>3, <1>4, <2>4, <2>5, <2>6, SameAfterAll
  <2>8. Expected(ItsRow, document.transforms) = Operation(fresh, chain)
    BY <2>2, ExpectedIsOperation DEF fresh
  <2> QED
    BY <2>7, <2>8
<1>8. RowIsItsLine'
  BY <1>1, LinesStay DEF RowInvariant
<1> QED
  BY <1>1, <1>6, <1>7, <1>8 DEF RowInvariant

LEMMA LineIsHanded ==
    ASSUME NoJunk, ReaderInvariant, RowInvariant, Publish(schemas), UNCHANGED mainVars
    PROVE  RowInvariant'
<1> DEFINE record == [c \in Published(schemas) |-> Value(m_map_data, c)]
<1>1. /\ pc = "publish" /\ pc' \in {"line", "gave up"}
      /\ UNCHANGED <<file, m_map_data, input, sigint, schemas, chain>>
  BY DEF Publish, rowVars, mainVars, signalVars, builtVars
<1>4. handed' = Append(handed, record)
  BY DEF Publish
<1>2. UnsetIsEmpty'
  BY <1>1 DEF RowInvariant, UnsetIsEmpty, Unset
<1>3. RowIsItsLine'
  <2>1. document' = document /\ Published(schemas)' = Published(schemas) /\ (Sane' <=> Sane)
    BY <1>1, SaneStays DEF document, Published
  <2> DEFINE ts == document.transforms
  <2> SUFFICES ASSUME Sane, NEW k \in DOMAIN handed', k <= Len(file.rows),
                      Len(file.rows[k]) >= Len(Header), NEW c \in Published(schemas)
               PROVE  handed'[k][c] = Value(Expected(file.rows[k], ts), c)
    BY <1>1, <2>1 DEF RowIsItsLine, Sane, RowsAreLines, IsItsLine
  <2>2. handed \in Seq([Published(schemas) -> Fields])
    BY DEF ReaderInvariant, ReaderTypes
  <2> HIDE DEF ts, record
  <2>3. Len(handed) \in Nat /\ Len(handed') = Len(handed) + 1 /\ DOMAIN handed' = 1..Len(handed) + 1
        /\ DOMAIN handed = 1..Len(handed)
    BY <1>4, <2>2
  <2>4. k \in DOMAIN handed \/ k = Len(handed) + 1
    BY <2>3
  <2>5. CASE k \in DOMAIN handed
    <3>1. handed'[k] = handed[k]
      BY <1>4, <2>2, <2>5
    <3>2. RowsAreLines(ts, schemas)
      BY DEF RowInvariant, RowIsItsLine, Sane, ts
    <3>3. handed[k][c] = Value(Expected(file.rows[k], ts), c)
      BY <2>5, <3>2 DEF RowsAreLines, IsItsLine
    <3> QED
      BY <3>1, <3>3
  <2>6. CASE k = Len(handed) + 1
    <3>1. handed'[k] = record
      BY <1>4, <2>2, <2>6
    <3>2. c # Junk
      BY DEF Published, NoJunk
    <3>3. FullRow /\ ItsRow = file.rows[k]
      BY <2>6 DEF FullRow, ItsRow
    <3>4. RowIsReady
      BY <1>1, <3>3 DEF RowInvariant
    <3> QED
      BY <3>1, <3>2, <3>3, <3>4 DEF RowIsReady, record, ts
  <2> QED
    BY <2>4, <2>5, <2>6
<1> QED
  BY <1>1, <1>2, <1>3 DEF RowInvariant

LEMMA StepRow ==
    ASSUME WorkersHaveHandles, ChainInvariant, TransformsInOrder, NoJunk, ReaderInvariant,
           RowInvariant, [AppNext]_vars
    PROVE  RowInvariant'
<1>1. CASE StartupNext \/ UNCHANGED vars
  BY <1>1, StepOfMain, RowWaits DEF StartupNext, vars
<1>2. CASE TakeFile
  BY <1>2, RowOfNewFile
<1>3. CASE ReadFile
  <2>1. CASE SetColumns
    BY <1>3, <2>1, RowIsLeft DEF ReadFile, SetColumns
  <2>2. CASE NextRow
    BY <1>3, <2>2, RowIsStored DEF ReadFile
  <2>3. CASE EndOfStream \/ Overrun
    BY <1>3, <2>3, RowsAreOver DEF ReadFile
  <2>4. CASE Transform(chain)
    BY <1>3, <2>4, RowIsReadied DEF ReadFile
  <2>5. CASE Publish(schemas)
    BY <1>3, <2>5, LineIsHanded DEF ReadFile
  <2> QED
    BY <1>3, <2>1, <2>2, <2>3, <2>4, <2>5 DEF ReadFile, Handle
<1>4. CASE WildAge
  BY <1>4, RowIsLeft DEF WildAge, rowVars
<1> QED
  BY <1>1, <1>2, <1>3, <1>4 DEF AppNext

(* Before each line the columns that nothing sets are empty, and behind    *)
(* the transformers the row is as it should be.                            *)
THEOREM RowInvariantHolds == AppSpec => []RowInvariant
<1>1. AppInit => RowInvariant
  BY NothingIsHanded DEF AppInit, ReaderInit, RowInvariant, RowIsItsLine, RowsAreLines
<1>2. AppInit /\ [][AppNext]_vars /\ []WorkersHaveHandles /\ []ChainInvariant /\ []TransformsInOrder
      /\ []NoJunk /\ []ReaderInvariant => []RowInvariant
  BY <1>1, StepRow, PTL
<1> QED
  BY <1>2, ApplicationStarts, StartedWithHandles, ChainInvariantHolds, TransformsKeepOrder,
     NoJunkHolds, ReaderInvariantHolds, PTL DEF AppSpec

(* Each full line of a file is published as the producer wrote it, with    *)
(* the transforms of the configuration and whatever was in the lines       *)
(* before it, however long files and lines are and however they are quoted. *)
THEOREM RowsArePublishedAsWritten == AppSpec => []RowIsItsLine
<1>1. RowInvariant => RowIsItsLine
  BY DEF RowInvariant
<1> QED
  BY <1>1, RowInvariantHolds, PTL

-----------------------------------------------------------------------------
(* Files whose lines fit are read, and nobody dies of them. *)

(* The line in the row is empty, or one that a producer wrote and that has *)
(* no more fields than there are columns.                                  *)
Fits(line) ==
    line = <<>> \/ \E row \in Seq(Fields) :
        row # <<>> /\ Len(row) <= Len(Header) /\ line = Line(file, row)

(* While a file that fits is read its lines fit, also the one that is      *)
(* parsed again at the end of the stream, and only the age limit can kill. *)
FitInvariant ==
    /\ pc = "idle" => m_line = <<>>
    /\ file # NoFile /\ FileFits =>
          /\ pc \in {"header", "line", "transform", "publish"} => Fits(m_line)
          /\ pc # "unable to load"
          /\ pc = "crashed" => "wild" \in Range(processors)

LEMMA FittingIsNoOverrun ==
    ASSUME m_columns = Header, NEW line, Fits(line) PROVE ~Overruns(line)
<1>1. Len(Header) \in Nat \ {0}
  BY HeaderFacts
<1>2. CASE line = <<>>
  <2>1. Parsed(line).i = 1
    BY <1>2, NothingIsALine
  <2> QED
    BY <1>1, <2>1 DEF Overruns
<1>3. CASE line # <<>>
  <2>1. PICK row \in Seq(Fields) : row # <<>> /\ Len(row) <= Len(Header) /\ line = Line(file, row)
    BY <1>3 DEF Fits
  <2>2. Parsed(line).i = Len(row) /\ Len(row) \in Nat
    BY <2>1, LineIsRead
  <2> QED
    BY <1>1, <2>1, <2>2 DEF Overruns
<1> QED
  BY <1>2, <1>3

(* The next line of a file that fits, or what getline() leaves at its end. *)
LEMMA NextLineFits ==
    ASSUME ReaderInvariant, FitInvariant, pc = "line", FileFits
    PROVE  file # NoFile /\ m_columns = Header /\ Fits(NextLine)
<1>1. file \in Files /\ m_columns = Header /\ StreamInvariant /\ Len(handed) \in Nat
  <2>1. handed \in Seq([Published(schemas) -> Fields])
    BY DEF ReaderInvariant, ReaderTypes
  <2> QED
    BY <2>1 DEF ReaderInvariant, StreamInvariant
<1>2. file # NoFile
  BY <1>1, FilesAssumption
<1>3. CASE stream # <<>>
  <2> DEFINE n == Len(handed) + 1
  <2>1. Len(handed) < Len(file.rows) /\ NextLine = Line(file, file.rows[n])
    BY <1>1, <1>3, RowIsNext
  <2>2. Len(file.rows) \in Nat /\ \A k \in 1..Len(file.rows) : file.rows[k] \in Seq(Fields)
    BY <1>1, FileFacts
  <2>3. n \in 1..Len(file.rows)
    BY <1>1, <2>1, <2>2
  <2>4. file.rows[n] \in Seq(Fields) /\ Len(file.rows[n]) <= Len(Header)
    <3>1. file.rows \in Seq(Seq(Seq(Chars \ {NewLine, Return})))
      BY <1>1, FilesAssumption DEF FileTypes
    <3>2. n \in DOMAIN file.rows
      BY <2>3, <3>1
    <3> HIDE DEF n
    <3> QED
      BY <2>2, <2>3, <3>2 DEF FileFits, Range
  <2> HIDE DEF n
  <2>5. CASE file.rows[n] = <<>>
    BY <1>1, <1>2, <2>1, <2>5, NothingIsALine DEF Fits
  <2>6. CASE file.rows[n] # <<>>
    BY <1>1, <1>2, <2>1, <2>4, <2>6 DEF Fits
  <2> QED
    BY <2>5, <2>6
<1>4. CASE stream = <<>>
  <2>1. CASE eof
    <3>1. NextLine = m_line /\ Fits(m_line)
      BY <1>2, <2>1 DEF NextLine, FitInvariant
    <3> QED
      BY <1>1, <1>2, <3>1 DEF Fits
  <2>2. CASE ~eof
    <3>1. stream \in Seq(Chars \ {NewLine})
      BY <1>4
    <3>2. GetLine = <<>>
      BY <1>4, <3>1, LastLineIsRead
    <3>3. NextLine = <<>>
      BY <2>2, <3>2, NothingIsALine DEF NextLine
    <3> QED
      BY <1>1, <1>2, <3>3 DEF Fits
  <2> QED
    BY <2>1, <2>2
<1> QED
  BY <1>3, <1>4

LEMMA FileIsOpened == ASSUME ReaderInvariant, FitInvariant, TakeFile PROVE FitInvariant'
<1>1. pc = "idle" /\ pc' = "header" /\ m_line' = m_line
  BY DEF TakeFile, OpenFile, rowVars
<1>2. m_line' = <<>>
  BY <1>1 DEF FitInvariant
<1> QED
  BY <1>1, <1>2 DEF FitInvariant, Fits

(* A step of the reader that goes on with the line it has. *)
LEMMA FitIsLeft ==
    ASSUME FitInvariant, UNCHANGED <<file, m_line>>,
           pc \in {"header", "line", "transform", "publish"},
           \/ pc' \in {"line", "publish", "gave up"}
           \/ pc' = "crashed" /\ "wild" \in Range(processors)'
    PROVE  FitInvariant'
<1>1. (FileFits' <=> FileFits) /\ (Fits(m_line)' <=> Fits(m_line))
  BY DEF FileFits, Fits
<1> QED
  BY <1>1 DEF FitInvariant

(* A step that takes the next line, which fits, so that it is no overrun. *)
LEMMA FitIsTaken ==
    ASSUME ReaderInvariant, FitInvariant, NextRow \/ EndOfStream \/ Overrun PROVE FitInvariant'
<1>1. /\ pc = "line" /\ m_line' = NextLine /\ file' = file
      /\ pc' \in {"transform", "end", "crashed", "unable to load"}
  BY DEF NextRow, EndOfStream, Overrun, NextLineIntoRow
<1>2. (FileFits' <=> FileFits) /\ (Fits(m_line)' <=> Fits(NextLine))
  BY <1>1 DEF FileFits, Fits
<1>3. ASSUME FileFits PROVE Fits(NextLine) /\ pc' \in {"transform", "end"}
  <2>1. m_columns = Header /\ Fits(NextLine)
    BY <1>1, <1>3, NextLineFits
  <2>2. ~Overruns(NextLine)
    BY <2>1, FittingIsNoOverrun
  <2> QED
    BY <2>1, <2>2 DEF NextRow, EndOfStream, Overrun
<1> QED
  BY <1>1, <1>2, <1>3 DEF FitInvariant

LEMMA StepFit ==
    ASSUME WorkersHaveHandles, ReaderInvariant, FitInvariant, [AppNext]_vars PROVE FitInvariant'
<1>1. CASE StartupNext \/ UNCHANGED vars
  <2>1. UNCHANGED <<file, m_line, pc>> /\ [Next]_mainVars
    BY <1>1, StepOfMain DEF StartupNext, vars, readerVars, streamVars, rowVars
  <2>2. pc = "idle" => file = NoFile
    BY DEF ReaderInvariant, StreamInvariant
  <2>3. pc # "idle" => processors' = processors
    BY <2>1, MainIsDone DEF ReaderInvariant, StreamInvariant
  <2>4. (FileFits' <=> FileFits) /\ (Fits(m_line)' <=> Fits(m_line))
    BY <2>1 DEF FileFits, Fits
  <2> QED
    BY <2>1, <2>2, <2>3, <2>4 DEF FitInvariant
<1>2. CASE TakeFile
  BY <1>2, FileIsOpened
<1>3. CASE ReadFile
  <2>1. CASE SetColumns
    BY <2>1, FitIsLeft DEF SetColumns
  <2>2. CASE NextRow \/ EndOfStream \/ Overrun
    BY <2>2, FitIsTaken
  <2>3. CASE Transform(chain)
    BY <2>3, FitIsLeft DEF Transform
  <2>4. CASE Publish(schemas)
    BY <2>4, FitIsLeft DEF Publish, rowVars
  <2> QED
    BY <1>3, <2>1, <2>2, <2>3, <2>4 DEF ReadFile, Handle
<1>4. CASE WildAge
  <2>1. /\ UNCHANGED <<file, m_line>> /\ pc = "publish" /\ pc' = "crashed"
        /\ "wild" \in Range(processors) /\ processors' = processors
    BY <1>4 DEF WildAge, rowVars, mainVars, builtVars
  <2> QED
    BY <2>1, FitIsLeft
<1> QED
  BY <1>1, <1>2, <1>3, <1>4 DEF AppNext

(* A sound configuration with max_age, and a file whose lines are no        *)
(* longer than its header: neither does the process end, nor does the       *)
(* iterator give up the file, whatever is quoted in it.                     *)
THEOREM SoundFilesAreRead == AppSpec => []SoundIsRead
<1>1. AppInit => FitInvariant
  BY DEF AppInit, ReaderInit, FitInvariant
<1>2. ReaderInvariant /\ FitInvariant /\ StartedAsConfigured /\ NoFalseAlarm => SoundIsRead
  <2> SUFFICES ASSUME ReaderInvariant, FitInvariant, StartedAsConfigured, NoFalseAlarm,
                      Sound, document.max_age.kind = "map", file # NoFile, FileFits
               PROVE  pc \notin {"crashed", "unable to load"}
    BY DEF SoundIsRead
  <2>1. pc = "crashed" => mpc = "started"
    BY DEF ReaderInvariant, StreamInvariant
  <2>2. mpc = "started" => \A i \in DOMAIN processors : processors[i] = "ma"
    BY DEF StartedAsConfigured, NoFalseAlarm
  <2>3. mpc = "started" => "wild" \notin Range(processors)
    BY <2>2 DEF Range
  <2> QED
    BY <2>1, <2>3 DEF FitInvariant
<1>3. AppInit /\ [][AppNext]_vars /\ []WorkersHaveHandles /\ []ReaderInvariant => []FitInvariant
  BY <1>1, StepFit, PTL
<1> QED
  BY <1>2, <1>3, ApplicationStarts, StartedWithHandles, ReaderInvariantHolds,
     ApplicationIsConfigured, PTL DEF AppSpec
=============================================================================
