------------------------------- MODULE Startup -------------------------------
(***************************************************************************)
(* main() from the command line to Connector::start(): the configuration   *)
(* is read, the Kafka producer and the KafkaPoller thread are made, then   *)
(* the transformers and the processors, and the workers are started.       *)
(*                                                                         *)
(* An error in the configuration is logged, SIGINT is sent to the process, *)
(* and main() goes on with what it has; only the signal thread looks at    *)
(* the signal.  Exceptions end the process.  Some of the functions come to *)
(* their end without a value after an error: the caller crashes, or finds  *)
(* what the function has made so far, or nothing.                          *)
(*                                                                         *)
(* A YAML document is a record.  The value of a key is a node with a kind; *)
(* the map of a node counts only if this is "map".  Names are sequences of *)
(* characters, as they are in the files.                                   *)
(***************************************************************************)
EXTENDS Integers, Transformers

CONSTANTS
    Inputs,   \* bound: what the process is started with
    Refused,  \* settings <<key, value>> that librdkafka or libserdes do not accept
    Nested,   \* a value in a map that is no scalar
    Width     \* the bits of an unsigned int

Sections == {"kafka", "column_map", "column_type_transforms", "max_age", "type_map"}

ASSUME InputsAssumption ==
    \A i \in Inputs :
        /\ i.directory \in {"none", "absent", "file", "closed", "open"}
        /\ i.config \in {"none", "absent", "directory", "garbage", "yaml"}
        /\ \A k \in Sections : i.document[k].kind \in {"absent", "scalar", "map"}
        /\ i.document.transforms \in Seq(Range(i.document.transforms))
        /\ i.producer \in BOOLEAN  \* librdkafka can make a producer
        /\ i.cores \in Nat
ASSUME WidthAssumption == Width \in Nat

VARIABLES
    input,
    mpc,           \* where main() is, or how the process ended
    sigint,        \* the reasons for the SIGINT that is pending or was taken
    m_shutdown_requested,
    m_serdes,      \* SchemaRegistry::m_serdes
    schemas,       \* [topic -> SchemaConfig]
    kafka_config,
    kafka_producer,
    kpc,           \* the KafkaPoller thread
    chain,         \* the transformers
    ma,            \* max_age
    processors     \* the processors built: where each has its max_age from

signalVars == <<sigint, m_shutdown_requested>>
kafkaVars == <<kafka_config, kafka_producer, kpc>>
builtVars == <<chain, ma, processors>>
mainVars == <<input, mpc, signalVars, m_serdes, schemas, kafkaVars, builtVars>>

document == input.document

Gone == mpc \in {"exited", "terminated", "crashed"}

Goto(from, to) == mpc = from /\ mpc' = to

(* A function ended without a value if `undefined'. *)
GoOn(from, to, undefined) ==
    mpc = from /\ mpc' \in {to} \union (IF undefined THEN {"crashed"} ELSE {})

(* Mutant: errors are only logged. *)
LogOnly(reasons) == UNCHANGED signalVars

(* Logging::ERROR and kill(getpid(), SIGINT), for some reasons or none. *)
Raise(reasons) ==
    /\ sigint' = sigint \union reasons
    /\ UNCHANGED m_shutdown_requested

If(condition, reason) == IF condition THEN {reason} ELSE {}

-----------------------------------------------------------------------------
(* ConfigParser *)

HasKey(k) == document[k].kind # "absent"

(* config_for_key() has a value only for a map, and only the scalars in it. *)
NoMap(k) == document[k].kind # "map"
Scalars(map) == [k \in {j \in DOMAIN map : map[j] # Nested} |-> map[k]]
ConfigForKey(k) == IF NoMap(k) THEN <<>> ELSE Scalars(document[k].map)

(* map["..."] of a key that is missing is an empty string. *)
Setting(map, k) == IF k \in DOMAIN map THEN map[k] ELSE ""
Accepted(map, k) == <<k, Setting(map, k)>> \notin Refused

TopicMap == IF NoMap("type_map") THEN <<>> ELSE document.type_map.map

(* What schema_configs() collects in `err'. *)
TopicError(t) == t.kind # "map" \/ t.key_column = "" \/ t.columns = <<>>
SchemaErrors ==
    If(~HasKey("type_map"), "No schema configuration found")
        \union {t \in DOMAIN TopicMap : TopicError(TopicMap[t])}

(* The two maps are looked up for each topic. *)
MapsMissing ==
    DOMAIN TopicMap # {} /\ (NoMap("column_map") \/ NoMap("column_type_transforms"))

Config(t) ==
    [key_column |-> t.key_column,
     columns |-> IF t.kind = "map" THEN t.columns ELSE <<>>,
     column_map |-> ConfigForKey("column_map"),
     column_type_transforms |-> ConfigForKey("column_type_transforms")]

FieldName(config, c) == IF c \in DOMAIN config.column_map THEN config.column_map[c] ELSE c
TypeName(config, c) ==
    IF c \in DOMAIN config.column_type_transforms THEN config.column_type_transforms[c]
    ELSE "string"

(* assemble_schema(): a type it does not know is a string. *)
AvroType(type) == IF type \in {"float", "double", "int", "long"} THEN type ELSE "string"

(* Mutant: the types are looked up under the new names. *)
FieldOfNewName(config, c) ==
    [name |-> FieldName(config, c), type |-> AvroType(TypeName(config, FieldName(config, c)))]

Field(config, c) == [name |-> FieldName(config, c), type |-> AvroType(TypeName(config, c))]

(* avro::RecordSchema::addField() throws when it knows the name. *)
NamesClash(config) ==
    \E i, j \in DOMAIN config.columns :
        i # j /\ Field(config, config.columns[i]).name = Field(config, config.columns[j]).name

-----------------------------------------------------------------------------
(* main() *)

ParseArgs ==
    /\ Goto("args", IF input.directory \in {"closed", "open"} /\ input.config \in {"garbage", "yaml"}
                    THEN "load" ELSE "exited")
    /\ UNCHANGED <<input, signalVars, m_serdes, schemas, kafkaVars, builtVars>>

LoadFile ==
    /\ Goto("load", IF input.config = "yaml" THEN "schemas" ELSE "terminated")
    /\ UNCHANGED <<input, signalVars, m_serdes, schemas, kafkaVars, builtVars>>

(* With the URL that libserdes refuses it makes no handle. *)
SchemaConfigs ==
    LET accepted == Accepted(ConfigForKey("kafka"), "schema.registry.url")
        result == [t \in DOMAIN TopicMap |-> Config(TopicMap[t])]
    IN /\ GoOn("schemas", "ids", NoMap("kafka") \/ MapsMissing \/ SchemaErrors # {})
       /\ Raise(If(NoMap("kafka"), "kafka") \union If(~accepted, "registry")
                \union If(MapsMissing, "columns") \union SchemaErrors)
       /\ m_serdes' = IF accepted THEN "handle" ELSE "null"
       /\ schemas' \in {result} \union If(SchemaErrors # {}, <<>>)
       /\ UNCHANGED <<input, kafkaVars, builtVars>>

(* schemas(): the ids are fetched with the handle, the schemas assembled. *)
SchemaIds ==
    /\ Goto("ids", IF m_serdes = "null" /\ schemas # <<>> THEN "crashed"
                   ELSE IF \E t \in DOMAIN schemas : NamesClash(schemas[t]) THEN "terminated"
                   ELSE "kafka")
    /\ UNCHANGED <<input, signalVars, m_serdes, schemas, kafkaVars, builtVars>>

KafkaConf ==
    /\ GoOn("kafka", "producer", NoMap("kafka"))
    /\ kafka_config' = ConfigForKey("kafka")
    /\ Raise(If(NoMap("kafka"), "kafka")
             \union {k \in {"bootstrap.servers", "client.id"} : ~Accepted(kafka_config', k)})
    /\ UNCHANGED <<input, m_serdes, schemas, kafka_producer, kpc, builtVars>>

CreateProducer ==
    /\ Goto("producer", "poller")
    /\ kafka_producer' = IF input.producer THEN "handle" ELSE "null"
    /\ Raise(If(~input.producer, "producer"))
    /\ UNCHANGED <<input, m_serdes, schemas, kafka_config, kpc, builtVars>>

StartKafkaPoller ==
    /\ Goto("poller", "watcher")
    /\ kpc' = "poll"
    /\ UNCHANGED <<input, signalVars, m_serdes, schemas, kafka_config, kafka_producer, builtVars>>

(* The DirectoryPoller lists the directory when it is built. *)
BuildDirectoryPoller ==
    /\ Goto("watcher", IF input.directory = "open" THEN "transformers" ELSE "terminated")
    /\ UNCHANGED <<input, signalVars, m_serdes, schemas, kafkaVars, builtVars>>

(* Mutant: from_column is read whatever the type is. *)
CompleteAlways(t) == {"column", "type", "from_column"} \subseteq DOMAIN t

(* Node::as() throws when a key is missing. *)
Complete(t) ==
    /\ {"column", "type"} \subseteq DOMAIN t
    /\ t.type \in {"append", "prepend"} => "from_column" \in DOMAIN t
    /\ t.type = "set" => "value" \in DOMAIN t

BuildTransformers ==
    LET transforms == document.transforms
        complete == \A i \in DOMAIN transforms : Complete(transforms[i])
    IN /\ Goto("transformers", IF complete THEN "max_age" ELSE "terminated")
       /\ Raise(If(complete /\ \E i \in DOMAIN transforms : transforms[i].type \notin Registered,
                   "transforms"))
       /\ chain' = IF complete THEN Chain(transforms) ELSE chain
       /\ UNCHANGED <<input, m_serdes, schemas, kafkaVars, ma, processors>>

WellFormedAge == {"column", "days"} \subseteq DOMAIN ConfigForKey("max_age")

(* Mutant: max_age() is called whether there is one or not. *)
AgeWithoutKey == ~WellFormedAge

MalformedAge == HasKey("max_age") /\ ~WellFormedAge

MaxAge ==
    /\ GoOn("max_age", "build", MalformedAge)
    /\ Raise(If(MalformedAge, "max_age"))
    /\ ma' = CASE ~HasKey("max_age") -> "none"
               [] MalformedAge -> "garbage"
               [] OTHER -> "config"
    /\ UNCHANGED <<input, m_serdes, schemas, kafkaVars, chain, processors>>

(* std::max<unsigned int>(1, hardware_concurrency() - 5), without a sign. *)
ProcessorCount ==
    LET count == (input.cores - 5) % 2^Width IN IF count < 1 THEN 1 ELSE count

(* Mutant: an empty map of schemas is none. *)
Buildable == kafka_producer # "null"

CanBuild == kafka_producer # "null" /\ schemas # <<>>

(* The builder tests a pointer to max_age that nothing has set if there is *)
(* none in the configuration.                                              *)
(* Mutant: with_drop_max_age() is not called. *)
BuildWithoutAge ==
    /\ Len(processors) < ProcessorCount
    /\ Goto("build", IF CanBuild THEN "build" ELSE "terminated")
    /\ \E pointer \in {"null", "wild"} :
          processors' = IF CanBuild THEN Append(processors, pointer) ELSE processors
    /\ UNCHANGED <<input, signalVars, m_serdes, schemas, kafkaVars, chain, ma>>

BuildProcessor ==
    /\ Len(processors) < ProcessorCount
    /\ Goto("build", IF CanBuild THEN "build" ELSE "terminated")
    /\ \E pointer \in IF HasKey("max_age") THEN {"ma"} ELSE {"null", "wild"} :
          processors' = IF CanBuild THEN Append(processors, pointer) ELSE processors
    /\ UNCHANGED <<input, signalVars, m_serdes, schemas, kafkaVars, chain, ma>>

StartWorkers ==
    /\ Len(processors) = ProcessorCount
    /\ Goto("build", "started")
    /\ UNCHANGED <<input, signalVars, m_serdes, schemas, kafkaVars, builtVars>>

MainNext ==
    \/ ParseArgs \/ LoadFile \/ SchemaConfigs \/ SchemaIds \/ KafkaConf \/ CreateProducer
    \/ StartKafkaPoller \/ BuildDirectoryPoller \/ BuildTransformers \/ MaxAge
    \/ BuildProcessor \/ StartWorkers

-----------------------------------------------------------------------------
(* The other threads, as far as they meet main(). *)

SignalThread ==
    /\ ~Gone /\ sigint # {} /\ ~m_shutdown_requested
    /\ m_shutdown_requested' = TRUE
    /\ UNCHANGED <<input, mpc, sigint, m_serdes, schemas, kafkaVars, builtVars>>

(* The KafkaPoller polls the producer whether there is one or not. *)
PollNull ==
    /\ ~Gone /\ kpc = "poll" /\ kafka_producer = "null"
    /\ mpc' = "crashed"
    /\ UNCHANGED <<input, signalVars, m_serdes, schemas, kafkaVars, builtVars>>

KafkaPollerEnds ==
    /\ ~Gone /\ kpc = "poll" /\ m_shutdown_requested
    /\ kpc' = "ended"
    /\ UNCHANGED <<input, mpc, signalVars, m_serdes, schemas, kafka_config, kafka_producer, builtVars>>

KafkaPollerNext == PollNull \/ KafkaPollerEnds

Init ==
    /\ input \in Inputs /\ mpc = "args"
    /\ sigint = {} /\ m_shutdown_requested = FALSE
    /\ m_serdes = "null" /\ schemas = <<>>
    /\ kafka_config = <<>> /\ kafka_producer = "null" /\ kpc = "none"
    /\ chain = <<>> /\ ma = "none" /\ processors = <<>>

Next == MainNext \/ SignalThread \/ KafkaPollerNext

Spec == Init /\ [][Next]_mainVars

-----------------------------------------------------------------------------
(* Properties. *)

StartupTypes ==
    /\ input \in Inputs
    /\ mpc \in {"args", "load", "schemas", "ids", "kafka", "producer", "poller", "watcher",
                "transformers", "max_age", "build", "started", "exited", "terminated", "crashed"}
    /\ m_shutdown_requested \in BOOLEAN
    /\ m_serdes \in {"null", "handle"} /\ kafka_producer \in {"null", "handle"}
    /\ kpc \in {"none", "poll", "ended"}
    /\ DOMAIN schemas \subseteq DOMAIN TopicMap
    /\ ma \in {"none", "config", "garbage"}
    /\ processors \in Seq({"ma", "null", "wild"})

(* What the README asks for, and what the code needs besides: both maps of *)
(* columns, and no two columns of a topic with one name.  A setting is a   *)
(* scalar.                                                                 *)
Settings(k) == Scalars(document[k].map)

Keys(type) ==
    CASE type \in {"append", "prepend"} -> {"column", "type", "from_column"}
      [] type = "set" -> {"column", "type", "value"}
      [] OTHER -> {"column", "type"}
Known == {"unuuid", "map", "append", "prepend", "set", "void"}

NewName(c) == IF c \in DOMAIN Settings("column_map") THEN Settings("column_map")[c] ELSE c
SoundTopic(t) ==
    /\ t.kind = "map" /\ t.key_column # "" /\ t.columns # <<>>
    /\ \A i, j \in DOMAIN t.columns : NewName(t.columns[i]) = NewName(t.columns[j]) => i = j
SoundKafka ==
    \A k \in {"schema.registry.url", "bootstrap.servers", "client.id"} :
        Accepted(Settings("kafka"), k)
SoundAge ==
    \/ document.max_age.kind = "absent"
    \/ /\ document.max_age.kind = "map"
       /\ {"column", "days"} \subseteq DOMAIN Settings("max_age")
SoundTransforms ==
    \A i \in DOMAIN document.transforms :
        LET t == document.transforms[i] IN "type" \in DOMAIN t /\ t.type \in Known
                                           /\ Keys(t.type) \subseteq DOMAIN t
Sound ==
    /\ input.directory = "open" /\ input.config = "yaml" /\ input.producer
    /\ \A k \in Sections \ {"max_age"} : document[k].kind = "map"
    /\ SoundKafka /\ SoundAge /\ SoundTransforms
    /\ DOMAIN document.type_map.map # {}
    /\ \A t \in DOMAIN document.type_map.map : SoundTopic(document.type_map.map[t])

(* On its way to the workers main() does not raise the signal, and does not *)
(* end the process, for a configuration in which nothing is wrong.  What   *)
(* the threads do of themselves after that is not in it: SoundIsRead of    *)
(* Application is about the workers, and PollWatch of FilePipeline has the *)
(* signal that the poller may raise over a watch it has set up.            *)
NoFalseAlarm == Sound => sigint = {} /\ ~Gone

(* README.md: "The Avro record field type for column if it should not be   *)
(* 'string'", looked up under the column as the file has it.               *)
NewType(c) ==
    LET types == Settings("column_type_transforms")
    IN IF c \in DOMAIN types /\ types[c] \in {"float", "double", "int", "long"}
       THEN types[c] ELSE "string"

(* If the workers run and nothing was reported, then the configuration has *)
(* come through whole: the settings of Kafka, a schema for every topic     *)
(* with the new name and the type of every column, and the age limit in    *)
(* every processor.                                                        *)
StartedAsConfigured ==
    mpc = "started" /\ sigint = {} =>
        /\ kafka_config = Settings("kafka")
        /\ DOMAIN schemas = DOMAIN document.type_map.map
        /\ \A t \in DOMAIN schemas :
              /\ schemas[t].key_column = document.type_map.map[t].key_column
              /\ schemas[t].columns = document.type_map.map[t].columns
              /\ \A c \in Range(schemas[t].columns) :
                    Field(schemas[t], c) = [name |-> NewName(c), type |-> NewType(c)]
        /\ document.max_age.kind = "map" =>
              ma = "config" /\ \A i \in DOMAIN processors : processors[i] = "ma"

(* The type "void" drops the transforms before it. *)
VoidFirst ==
    \A i \in 2..Len(document.transforms) :
        LET t == document.transforms[i] IN "type" \in DOMAIN t => t.type # "void"

(* Nor is a transform lost, or moved, on the way into the chain. *)
TransformsInOrder ==
    mpc = "started" /\ sigint = {} /\ VoidFirst => chain = document.transforms

(* Workers never run without the handles that publish() uses, although     *)
(* main() goes on after every error and does not look at the handle of the *)
(* registry itself.                                                        *)
WorkersHaveHandles ==
    mpc = "started" => kafka_producer = "handle" /\ m_serdes = "handle" /\ schemas # <<>>

(* Why: after the ids were fetched a null handle comes with no schemas, and *)
(* with none no processor is built, of which there is one at least.  What  *)
(* a processor was built with is not changed afterwards.                   *)
HandlesTypes ==
    /\ m_serdes \in {"null", "handle"} /\ kafka_producer \in {"null", "handle"}
    /\ processors \in Seq({"ma", "null", "wild"})

IdsFetched == {"kafka", "producer", "poller", "watcher", "transformers", "max_age", "build",
               "started"}
FetchedWithHandle == mpc \in IdsFetched => m_serdes = "handle" \/ schemas = <<>>

BuiltWithHandles ==
    processors # <<>> =>
        /\ mpc \in {"build", "started", "terminated", "crashed"}
        /\ kafka_producer = "handle" /\ schemas # <<>>

StartedWithProcessors == mpc = "started" => processors # <<>>

HandlesInvariant ==
    HandlesTypes /\ FetchedWithHandle /\ BuiltWithHandles /\ StartedWithProcessors

(* With a sound configuration the workers are started. *)
GoodConfigurationStarts == Sound ~> mpc = "started"

(* With one that is not the process is told to stop, or ends. *)
BadConfigurationStops == ~Sound ~> m_shutdown_requested \/ Gone

(* "std::max<unsigned int>(1, hardware_concurrency() - 5)": the processors *)
(* leave a core for each of the five other threads, or there is one.       *)
CoresLeft == Len(processors) <= 1 \/ Len(processors) + 5 <= input.cores
==============================================================================
