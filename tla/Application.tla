----------------------------- MODULE Application -----------------------------
(***************************************************************************)
(* From the configuration to the rows: main() reads the configuration      *)
(* (Startup), and when its workers run one of them handles a file          *)
(* (CsvReader) with the schemas and the transformers that were made of it. *)
(* A reader crashes for the process, and no thread goes on after that.     *)
(***************************************************************************)
EXTENDS Startup, CsvReader

CONSTANT Produced                 \* bound: the files there are for an input, by input.files

vars == <<mainVars, readerVars>>

ASSUME ProducedAssumption == \A i \in Inputs : Produced[i.files] \subseteq Files

(* What is read behind the end of m_columns is no name that the            *)
(* configuration has.                                                      *)
Names == Fields \ {Junk}
ASSUME TransformsAssumption ==
    \A i \in Inputs : \A t \in Range(i.document.transforms) :
        /\ "column" \in DOMAIN t => t.column \in Names
        /\ "from_column" \in DOMAIN t => t.from_column \in Names
        /\ "value" \in DOMAIN t => t.value \in Fields
        /\ "type" \in DOMAIN t /\ t.type = "map" => t.lookup \in [DOMAIN t.lookup -> Fields]
ASSUME TopicsAssumption ==
    \A i \in Inputs : i.document.type_map.kind = "map" =>
        \A t \in DOMAIN i.document.type_map.map :
            Junk \notin Range(i.document.type_map.map[t].columns)

StartupNext ==
    /\ pc # "crashed"
    /\ MainNext \/ SignalThread \/ KafkaPollerNext
    /\ UNCHANGED readerVars

(* A worker looks at the shutdown request before it takes a file, and not  *)
(* at the signal that is pending.  One file is enough: the row is new in   *)
(* each call of handle().                                                  *)
TakeFile ==
    /\ mpc = "started" /\ ~m_shutdown_requested
    /\ UNCHANGED mainVars
    /\ OpenFile
    /\ file' \in Produced[input.files]

ReadFile ==
    /\ mpc = "started"
    /\ UNCHANGED mainVars
    /\ Handle(chain, schemas)

(* publish() looks for max_age behind a pointer that nothing has set, if   *)
(* this is what the processor with the file was built with.                *)
WildAge ==
    /\ mpc = "started" /\ "wild" \in Range(processors)
    /\ pc = "publish" /\ pc' = "crashed"
    /\ UNCHANGED <<mainVars, file, streamVars, rowVars, exc_count, handed>>

AppInit == Init /\ ReaderInit

AppNext == StartupNext \/ TakeFile \/ ReadFile \/ WildAge

(* The threads of main() go on; nothing is assumed of producers. *)
AppSpec ==
    /\ AppInit /\ [][AppNext]_vars
    /\ WF_vars(MainNext /\ UNCHANGED readerVars)
    /\ WF_vars(SignalThread /\ UNCHANGED readerVars)

-----------------------------------------------------------------------------

TypeOK == StartupTypes /\ ReaderTypes(schemas)

(* No transform adds a column that files do not have and a later one sets: *)
(* in the second row it would add what was set in the first.               *)
Adds(t) == IF t.type \in {"append", "prepend"} THEN {t.from_column} ELSE {}
Sets(t) == IF t.type = "set" THEN {t.column} \ Range(Header) ELSE {}
SetFirst ==
    \A j \in DOMAIN document.transforms : \A i \in 1..j - 1 :
        LET t == document.transforms[i]
            later == document.transforms[j]
        IN Complete(t) /\ Complete(later) => Adds(t) \intersect Sets(later) = {}

(* Each full line of a file is published as the producer wrote it, after   *)
(* the transforms of the configuration and under the columns its schemas   *)
(* name, unless something was wrong with the configuration: then a worker  *)
(* can take a file before it is told to stop.                              *)
RowIsItsLine ==
    sigint = {} /\ VoidFirst /\ SetFirst => RowsAreLines(document.transforms, schemas)

(* No line of the file is longer than its header. *)
FileFits == \A row \in Range(file.rows) : Len(row) <= Len(Header)

(* Under a configuration in which nothing is wrong, and which has max_age,  *)
(* a file whose lines are no longer than its header neither ends the       *)
(* process nor is given up by the iterator: whatever is quoted in it, no   *)
(* comma makes the parser go behind the columns, and publish() has the age *)
(* limit that its processor was built with.  Without max_age it is false   *)
(* (WildAge).                                                              *)
SoundIsRead ==
    Sound /\ document.max_age.kind = "map" /\ file # NoFile /\ FileFits
        => pc \notin {"crashed", "unable to load"}
==============================================================================
