---------------------------- MODULE StartupProofs ----------------------------
(***************************************************************************)
(* Theorems about Startup, for any configuration and any machine.          *)
(***************************************************************************)
EXTENDS Startup, SequenceTheorems, TLAPS

(* std::max: main() builds one processor at least. *)
LEMMA OneProcessorAtLeast == ASSUME ProcessorCount \in Nat PROVE ProcessorCount # 0
BY DEF ProcessorCount

(* A processor is added to those that were built. *)
LEMMA BuildsOne ==
    ASSUME HandlesInvariant, BuildProcessor
    PROVE  /\ processors' \in Seq({"ma", "null", "wild"})
           /\ processors' # <<>> => kafka_producer = "handle" /\ schemas # <<>>
<1>1. processors \in Seq({"ma", "null", "wild"})
  BY DEF HandlesInvariant, HandlesTypes
<1>2. PICK pointer \in {"ma", "null", "wild"} :
         processors' = IF CanBuild THEN Append(processors, pointer) ELSE processors
  BY DEF BuildProcessor
<1>3. CASE CanBuild
  <2>1. processors' = Append(processors, pointer)
    BY <1>2, <1>3
  <2>2. kafka_producer = "handle" /\ schemas # <<>>
    BY <1>3 DEF CanBuild, HandlesInvariant, HandlesTypes
  <2> QED
    BY <1>1, <2>1, <2>2, AppendProperties
<1>4. CASE ~CanBuild
  <2>1. processors' = processors
    BY <1>2, <1>4
  <2> QED
    BY <1>1, <2>1 DEF HandlesInvariant, BuiltWithHandles
<1> QED
  BY <1>3, <1>4

LEMMA InitHandles == Init => HandlesInvariant
BY DEF Init, HandlesInvariant, HandlesTypes, FetchedWithHandle, IdsFetched, BuiltWithHandles,
       StartedWithProcessors

(* Steps that leave the handles, the schemas and the processors alone. *)
LEMMA OtherSteps ==
    ASSUME HandlesInvariant, UNCHANGED <<m_serdes, schemas, kafka_producer, processors>>,
           mpc' = mpc \/ mpc' \in {"terminated", "crashed"}
           \/ (mpc \in IdsFetched \ {"build", "started"} /\ mpc' \in IdsFetched \ {"started"})
           \/ (mpc \in {"args", "load", "schemas"} /\ mpc' \in {"exited", "load", "schemas", "ids"})
    PROVE  HandlesInvariant'
BY DEF HandlesInvariant, HandlesTypes, FetchedWithHandle, IdsFetched, BuiltWithHandles,
       StartedWithProcessors

LEMMA StepHandles == HandlesInvariant /\ [Next]_mainVars => HandlesInvariant'
<1> SUFFICES ASSUME HandlesInvariant, [Next]_mainVars PROVE HandlesInvariant'
  OBVIOUS
<1> USE DEF Goto, GoOn
<1>1. CASE ParseArgs
  BY <1>1, OtherSteps DEF ParseArgs, kafkaVars, builtVars
<1>2. CASE LoadFile
  BY <1>2, OtherSteps DEF LoadFile, kafkaVars, builtVars
<1>3. CASE SchemaConfigs
  <2>1. processors = <<>>
    BY <1>3 DEF SchemaConfigs, HandlesInvariant, BuiltWithHandles
  <2>2. /\ mpc' \in {"ids", "crashed"} /\ m_serdes' \in {"null", "handle"}
        /\ kafka_producer' = kafka_producer /\ processors' = processors
    BY <1>3 DEF SchemaConfigs, kafkaVars, builtVars
  <2> QED
    BY <2>1, <2>2 DEF HandlesInvariant, HandlesTypes, FetchedWithHandle, IdsFetched,
                      BuiltWithHandles, StartedWithProcessors
<1>4. CASE SchemaIds
  <2>1. UNCHANGED <<m_serdes, schemas, kafka_producer, processors>>
    BY <1>4 DEF SchemaIds, kafkaVars, builtVars
  <2>2. mpc = "ids" /\ mpc' \in {"crashed", "terminated", "kafka"}
    BY <1>4 DEF SchemaIds
  <2>3. mpc' = "kafka" => m_serdes = "handle" \/ schemas = <<>>
    BY <1>4 DEF SchemaIds, HandlesInvariant, HandlesTypes
  <2>4. processors = <<>>
    BY <2>2 DEF HandlesInvariant, BuiltWithHandles
  <2> QED
    BY <2>1, <2>2, <2>3, <2>4 DEF HandlesInvariant, HandlesTypes, FetchedWithHandle, IdsFetched,
                                  BuiltWithHandles, StartedWithProcessors
<1>5. CASE KafkaConf
  BY <1>5, OtherSteps DEF KafkaConf, builtVars, IdsFetched
<1>6. CASE CreateProducer
  <2>1. processors = <<>>
    BY <1>6 DEF CreateProducer, HandlesInvariant, BuiltWithHandles
  <2>2. /\ mpc = "producer" /\ mpc' = "poller" /\ kafka_producer' \in {"null", "handle"}
        /\ m_serdes' = m_serdes /\ schemas' = schemas /\ processors' = processors
    BY <1>6 DEF CreateProducer, builtVars
  <2> QED
    BY <2>1, <2>2 DEF HandlesInvariant, HandlesTypes, FetchedWithHandle, IdsFetched,
                      BuiltWithHandles, StartedWithProcessors
<1>7. CASE StartKafkaPoller
  BY <1>7, OtherSteps DEF StartKafkaPoller, builtVars, IdsFetched
<1>8. CASE BuildDirectoryPoller
  BY <1>8, OtherSteps DEF BuildDirectoryPoller, kafkaVars, builtVars, IdsFetched
<1>9. CASE BuildTransformers
  BY <1>9, OtherSteps DEF BuildTransformers, kafkaVars, IdsFetched
<1>10. CASE MaxAge
  BY <1>10, OtherSteps DEF MaxAge, kafkaVars, IdsFetched
<1>11. CASE BuildProcessor
  <2>1. /\ processors' \in Seq({"ma", "null", "wild"})
        /\ processors' # <<>> => kafka_producer = "handle" /\ schemas # <<>>
    BY <1>11, BuildsOne
  <2>2. /\ mpc = "build" /\ mpc' \in {"build", "terminated"}
        /\ UNCHANGED <<m_serdes, schemas, kafka_producer>>
    BY <1>11 DEF BuildProcessor, kafkaVars
  <2> QED
    BY <2>1, <2>2 DEF HandlesInvariant, HandlesTypes, FetchedWithHandle, IdsFetched,
                      BuiltWithHandles, StartedWithProcessors
<1>12. CASE StartWorkers
  <2>1. /\ mpc = "build" /\ mpc' = "started" /\ Len(processors) = ProcessorCount
        /\ UNCHANGED <<m_serdes, schemas, kafka_producer, processors>>
    BY <1>12 DEF StartWorkers, kafkaVars, builtVars
  <2>2. processors # <<>>
    <3>1. Len(processors) \in Nat
      BY DEF HandlesInvariant, HandlesTypes
    <3> QED
      BY <2>1, <3>1, OneProcessorAtLeast
  <2> QED
    BY <2>1, <2>2 DEF HandlesInvariant, HandlesTypes, FetchedWithHandle, IdsFetched,
                      BuiltWithHandles, StartedWithProcessors
<1>13. CASE SignalThread
  BY <1>13, OtherSteps DEF SignalThread, kafkaVars, builtVars
<1>14. CASE PollNull
  BY <1>14, OtherSteps DEF PollNull, kafkaVars, builtVars
<1>15. CASE KafkaPollerEnds
  BY <1>15, OtherSteps DEF KafkaPollerEnds, builtVars
<1>16. CASE UNCHANGED mainVars
  BY <1>16, OtherSteps DEF mainVars, kafkaVars, builtVars
<1> QED
  BY <1>1, <1>2, <1>3, <1>4, <1>5, <1>6, <1>7, <1>8, <1>9, <1>10, <1>11, <1>12, <1>13, <1>14,
     <1>15, <1>16 DEF Next, MainNext, KafkaPollerNext

(* Once the ids were fetched a null handle comes with no schemas, and       *)
(* without schemas or producer no processor is built.                       *)
THEOREM HandlesInvariantHolds == Spec => []HandlesInvariant
BY InitHandles, StepHandles, PTL DEF Spec

(* Whatever the configuration is, workers never run without the producer, *)
(* the registry and the schemas that publish() uses.                       *)
THEOREM StartedWithHandles == Spec => []WorkersHaveHandles
<1>1. HandlesInvariant => WorkersHaveHandles
  BY DEF HandlesInvariant, FetchedWithHandle, IdsFetched, BuiltWithHandles, StartedWithProcessors,
         WorkersHaveHandles
<1> QED
  BY <1>1, HandlesInvariantHolds, PTL

-----------------------------------------------------------------------------
(* The configuration does not change while it is read. *)

LEMMA SameConfiguration ==
    ASSUME input' = input
    PROVE  /\ \A k : /\ HasKey(k)' <=> HasKey(k)
                     /\ NoMap(k)' <=> NoMap(k)
                     /\ ConfigForKey(k)' = ConfigForKey(k)
           /\ TopicMap' = TopicMap /\ SchemaErrors' = SchemaErrors
           /\ MapsMissing' <=> MapsMissing
           /\ \A t : Config(t)' = Config(t)
<1>1. document' = document
  BY DEF document
<1>2. \A k : /\ HasKey(k)' <=> HasKey(k)
             /\ NoMap(k)' <=> NoMap(k)
             /\ ConfigForKey(k)' = ConfigForKey(k)
  BY <1>1 DEF HasKey, NoMap, ConfigForKey, Scalars
<1>3. TopicMap' = TopicMap
  BY <1>1, <1>2 DEF TopicMap
<1>4. SchemaErrors' = SchemaErrors
  BY <1>2, <1>3 DEF SchemaErrors, If, TopicError
<1>5. MapsMissing' <=> MapsMissing
  BY <1>2, <1>3 DEF MapsMissing
<1>6. \A t : Config(t)' = Config(t)
  BY <1>2 DEF Config
<1> QED
  BY <1>2, <1>3, <1>4, <1>5, <1>6

LEMMA SameSoundness == ASSUME input' = input PROVE Sound' <=> Sound
<1>1. document' = document
  BY DEF document
<1>2. \A k : Settings(k)' = Settings(k)
  BY <1>1 DEF Settings, Scalars
<1>3. \A c : NewName(c)' = NewName(c)
  BY <1>2 DEF NewName
<1>4. \A t : SoundTopic(t)' <=> SoundTopic(t)
  BY <1>3 DEF SoundTopic
<1>5. SoundKafka' <=> SoundKafka
  BY <1>2 DEF SoundKafka, Accepted, Setting
<1>6. SoundAge' <=> SoundAge
  BY <1>1, <1>2 DEF SoundAge
<1>7. SoundTransforms' <=> SoundTransforms
  BY <1>1 DEF SoundTransforms, Keys
<1> QED
  BY <1>1, <1>4, <1>5, <1>6, <1>7 DEF Sound

(* No action changes it. *)
LEMMA InputStays == [Next]_mainVars => input' = input
BY DEF Next, MainNext, KafkaPollerNext, ParseArgs, LoadFile, SchemaConfigs, SchemaIds, KafkaConf,
       CreateProducer, StartKafkaPoller, BuildDirectoryPoller, BuildTransformers, MaxAge,
       BuildProcessor, StartWorkers, SignalThread, PollNull, KafkaPollerEnds, mainVars

-----------------------------------------------------------------------------
(* What main() has read so far, and that nothing was wrong with it if no   *)
(* signal was sent.                                                        *)

SchemasMade == schemas = [t \in DOMAIN TopicMap |-> Config(TopicMap[t])]

SchemasRead ==
    mpc \in {"ids"} \union IdsFetched /\ sigint = {} =>
        ~NoMap("kafka") /\ ~MapsMissing /\ SchemaErrors = {} /\ SchemasMade
KafkaRead == mpc \in IdsFetched \ {"kafka"} => kafka_config = ConfigForKey("kafka")
AgeRead == mpc \in {"build", "started"} /\ sigint = {} /\ HasKey("max_age") => ma = "config"
AgePassedOn ==
    /\ processors \in Seq({"ma", "null", "wild"})
    /\ HasKey("max_age") => \A i \in DOMAIN processors : processors[i] = "ma"

ConfigInvariant == SchemasRead /\ KafkaRead /\ AgeRead /\ AgePassedOn

LEMMA InitRead == Init => ConfigInvariant
BY DEF Init, ConfigInvariant, SchemasRead, KafkaRead, AgeRead, AgePassedOn, IdsFetched

(* A step of main() that does not read what it has read before. *)
LEMMA ReadStays ==
    ASSUME ConfigInvariant, input' = input, sigint' = {} => sigint = {},
           UNCHANGED <<schemas, kafka_config, ma, processors>>,
           mpc' \in IdsFetched \union {"ids"} =>
               /\ mpc \in IdsFetched \union {"ids"}
               /\ mpc' \notin {"ids", "kafka"} => mpc \in IdsFetched \ {"kafka"}
               /\ mpc' \in {"build", "started"} => mpc \in {"build", "started"}
    PROVE  ConfigInvariant'
<1>1. SchemasRead'
  BY SameConfiguration DEF ConfigInvariant, SchemasRead, SchemasMade, IdsFetched
<1>2. KafkaRead'
  BY SameConfiguration DEF ConfigInvariant, KafkaRead, IdsFetched
<1>3. AgeRead'
  BY SameConfiguration DEF ConfigInvariant, AgeRead, IdsFetched
<1>4. AgePassedOn'
  BY SameConfiguration DEF ConfigInvariant, AgePassedOn
<1> QED
  BY <1>1, <1>2, <1>3, <1>4 DEF ConfigInvariant

(* A signal that was sent stays. *)
LEMMA RaiseNothing ==
    ASSUME NEW reasons, Raise(reasons), sigint' = {} PROVE sigint = {} /\ reasons = {}
BY DEF Raise

LEMMA StepRead == ConfigInvariant /\ [Next]_mainVars => ConfigInvariant'
<1> SUFFICES ASSUME ConfigInvariant, [Next]_mainVars PROVE ConfigInvariant'
  OBVIOUS
<1>1. input' = input
  BY InputStays
<1> USE DEF Goto, GoOn
<1>2. CASE ParseArgs \/ LoadFile
  BY <1>1, <1>2, ReadStays DEF ParseArgs, LoadFile, signalVars, kafkaVars, builtVars, IdsFetched
<1>3. CASE SchemaConfigs
  <2>1. mpc = "schemas" /\ mpc' \in {"ids", "crashed"} /\ UNCHANGED <<ma, processors>>
    BY <1>3 DEF SchemaConfigs, builtVars
  <2>2. ASSUME sigint' = {} PROVE ~NoMap("kafka") /\ ~MapsMissing /\ SchemaErrors = {} /\ SchemasMade'
    <3> DEFINE reasons == If(NoMap("kafka"), "kafka")
                          \union If(~Accepted(ConfigForKey("kafka"), "schema.registry.url"), "registry")
                          \union If(MapsMissing, "columns") \union SchemaErrors
               result == [t \in DOMAIN TopicMap |-> Config(TopicMap[t])]
    <3>1. Raise(reasons) /\ schemas' \in {result} \union If(SchemaErrors # {}, <<>>)
      BY <1>3 DEF SchemaConfigs
    <3>2. reasons = {}
      BY <2>2, <3>1, RaiseNothing
    <3>3. ~NoMap("kafka") /\ ~MapsMissing /\ SchemaErrors = {}
      BY <3>2 DEF If
    <3>4. schemas' = result
      BY <3>1, <3>3 DEF If
    <3> QED
      BY <1>1, <3>3, <3>4, SameConfiguration DEF SchemasMade
  <2>3. SchemasRead'
    BY <1>1, <2>2, SameConfiguration DEF SchemasRead
  <2> QED
    BY <1>1, <2>1, <2>3, SameConfiguration
    DEF ConfigInvariant, KafkaRead, AgeRead, AgePassedOn, IdsFetched
<1>4. CASE SchemaIds
  BY <1>1, <1>4, ReadStays DEF SchemaIds, signalVars, kafkaVars, builtVars, IdsFetched
<1>5. CASE KafkaConf
  <2>1. /\ mpc = "kafka" /\ mpc' \in {"producer", "crashed"} /\ UNCHANGED <<schemas, ma, processors>>
        /\ kafka_config' = ConfigForKey("kafka") /\ (sigint' = {} => sigint = {})
    BY <1>5, RaiseNothing DEF KafkaConf, builtVars
  <2>2. SchemasRead'
    BY <1>1, <2>1, SameConfiguration DEF ConfigInvariant, SchemasRead, SchemasMade, IdsFetched
  <2> QED
    BY <1>1, <2>1, <2>2, SameConfiguration DEF ConfigInvariant, KafkaRead, AgeRead, AgePassedOn
<1>6. CASE CreateProducer \/ StartKafkaPoller \/ BuildDirectoryPoller
  <2>1. sigint' = {} => sigint = {}
    BY <1>6, RaiseNothing DEF CreateProducer, StartKafkaPoller, BuildDirectoryPoller, signalVars
  <2> QED
    BY <1>1, <1>6, <2>1, ReadStays
    DEF CreateProducer, StartKafkaPoller, BuildDirectoryPoller, kafkaVars, builtVars, IdsFetched
<1>7. CASE BuildTransformers
  <2>1. sigint' = {} => sigint = {}
    BY <1>7, RaiseNothing DEF BuildTransformers
  <2> QED
    BY <1>1, <1>7, <2>1, ReadStays DEF BuildTransformers, kafkaVars, IdsFetched
<1>8. CASE MaxAge
  <2>1. /\ mpc = "max_age" /\ mpc' \in {"build", "crashed"} /\ UNCHANGED <<schemas, processors>>
        /\ kafka_config' = kafka_config
    BY <1>8 DEF MaxAge, kafkaVars
  <2>2. sigint' = {} => sigint = {} /\ ~MalformedAge
    BY <1>8, RaiseNothing DEF MaxAge, If
  <2>3. HasKey("max_age") /\ ~MalformedAge => ma' = "config"
    BY <1>8 DEF MaxAge
  <2>4. SchemasRead' /\ KafkaRead'
    BY <1>1, <2>1, <2>2, SameConfiguration
    DEF ConfigInvariant, SchemasRead, SchemasMade, KafkaRead, IdsFetched
  <2> QED
    BY <1>1, <2>1, <2>2, <2>3, <2>4, SameConfiguration DEF ConfigInvariant, AgeRead, AgePassedOn
<1>9. CASE BuildProcessor
  <2>1. /\ mpc = "build" /\ mpc' \in {"build", "terminated"}
        /\ UNCHANGED <<schemas, kafka_config, ma, sigint>>
    BY <1>9 DEF BuildProcessor, signalVars, kafkaVars
  <2>2. PICK pointer \in {"ma", "null", "wild"} :
            /\ processors' = IF CanBuild THEN Append(processors, pointer) ELSE processors
            /\ HasKey("max_age") => pointer = "ma"
    BY <1>9 DEF BuildProcessor
  <2>3. processors \in Seq({"ma", "null", "wild"})
    BY DEF ConfigInvariant, AgePassedOn
  <2>4. AgePassedOn'
    <3>1. CASE CanBuild
      <4>1. /\ processors' \in Seq({"ma", "null", "wild"}) /\ Len(processors') = Len(processors) + 1
            /\ \A i \in 1..Len(processors) : processors'[i] = processors[i]
            /\ processors'[Len(processors) + 1] = pointer
        BY <2>2, <2>3, <3>1, AppendProperties
      <4>2. \A i \in DOMAIN processors' : i \in DOMAIN processors \/ i = Len(processors) + 1
        BY <2>3, <4>1
      <4> QED
        BY <1>1, <2>2, <2>3, <4>1, <4>2, SameConfiguration DEF ConfigInvariant, AgePassedOn
    <3>2. CASE ~CanBuild
      BY <1>1, <2>2, <3>2, SameConfiguration DEF ConfigInvariant, AgePassedOn
    <3> QED
      BY <3>1, <3>2
  <2>5. SchemasRead' /\ KafkaRead'
    BY <1>1, <2>1, SameConfiguration
    DEF ConfigInvariant, SchemasRead, SchemasMade, KafkaRead, IdsFetched
  <2> QED
    BY <1>1, <2>1, <2>4, <2>5, SameConfiguration DEF ConfigInvariant, AgeRead
<1>10. CASE StartWorkers
  BY <1>1, <1>10, ReadStays DEF StartWorkers, signalVars, kafkaVars, builtVars, IdsFetched
<1>11. CASE SignalThread \/ PollNull \/ KafkaPollerEnds
  BY <1>1, <1>11, ReadStays
  DEF SignalThread, PollNull, KafkaPollerEnds, signalVars, kafkaVars, builtVars, IdsFetched
<1>12. CASE UNCHANGED mainVars
  BY <1>1, <1>12, ReadStays DEF mainVars, signalVars, kafkaVars, builtVars
<1> QED
  BY <1>2, <1>3, <1>4, <1>5, <1>6, <1>7, <1>8, <1>9, <1>10, <1>11, <1>12
  DEF Next, MainNext, KafkaPollerNext

(* Behind each section main() has what the section says, or a signal was    *)
(* sent.                                                                    *)
THEOREM ConfigInvariantHolds == Spec => []ConfigInvariant
BY InitRead, StepRead, PTL DEF Spec

(* When the workers run and no error was reported, each has the settings,  *)
(* the schemas and the age limit of the configuration, whatever it says.   *)
THEOREM ConfigurationComesThrough == Spec => []StartedAsConfigured
<1>1. ConfigInvariant /\ WorkersHaveHandles => StartedAsConfigured
  <2> SUFFICES ASSUME ConfigInvariant, WorkersHaveHandles, mpc = "started", sigint = {}
               PROVE  StartedAsConfigured
    BY DEF StartedAsConfigured
  <2>1. /\ ~NoMap("kafka") /\ ~MapsMissing /\ SchemaErrors = {} /\ SchemasMade
        /\ kafka_config = ConfigForKey("kafka") /\ schemas # <<>>
        /\ HasKey("max_age") =>
              ma = "config" /\ \A i \in DOMAIN processors : processors[i] = "ma"
    BY DEF ConfigInvariant, SchemasRead, KafkaRead, AgeRead, AgePassedOn, WorkersHaveHandles,
           IdsFetched
  <2>2. kafka_config = Settings("kafka")
    BY <2>1 DEF ConfigForKey, Settings
  <2>3. DOMAIN TopicMap # {}
    <3>1. SUFFICES ASSUME DOMAIN TopicMap = {} PROVE FALSE
      OBVIOUS
    <3> QED
      BY <2>1, <3>1 DEF SchemasMade
  <2>4. TopicMap = document.type_map.map
    <3>1. ~NoMap("type_map")
      BY <2>3 DEF TopicMap
    <3> QED
      BY <3>1 DEF TopicMap
  <2>5. /\ ConfigForKey("column_map") = Settings("column_map")
        /\ ConfigForKey("column_type_transforms") = Settings("column_type_transforms")
    BY <2>1, <2>3 DEF MapsMissing, ConfigForKey, Settings
  <2>6. ASSUME NEW t \in DOMAIN schemas
        PROVE  /\ schemas[t].key_column = document.type_map.map[t].key_column
               /\ schemas[t].columns = document.type_map.map[t].columns
               /\ \A c \in Range(schemas[t].columns) :
                     Field(schemas[t], c) = [name |-> NewName(c), type |-> NewType(c)]
    <3>1. schemas[t] = Config(TopicMap[t]) /\ ~TopicError(TopicMap[t])
      BY <2>1 DEF SchemasMade, SchemaErrors
    <3>2. TopicMap[t].kind = "map"
      BY <3>1 DEF TopicError
    <3> DEFINE config == Config(TopicMap[t])
    <3>3. /\ config.key_column = TopicMap[t].key_column /\ config.columns = TopicMap[t].columns
          /\ config.column_map = Settings("column_map")
          /\ config.column_type_transforms = Settings("column_type_transforms")
      BY <2>5, <3>2 DEF Config
    <3> HIDE DEF config
    <3>4. \A c : FieldName(config, c) = NewName(c) /\ AvroType(TypeName(config, c)) = NewType(c)
      BY <3>3 DEF FieldName, NewName, AvroType, TypeName, NewType
    <3>5. \A c : Field(config, c) = [name |-> NewName(c), type |-> NewType(c)]
      BY <3>4 DEF Field
    <3>6. schemas[t] = config
      BY <3>1 DEF config
    <3> QED
      BY <2>4, <3>3, <3>5, <3>6
  <2>7. DOMAIN schemas = DOMAIN document.type_map.map
    BY <2>1, <2>4 DEF SchemasMade
  <2>8. document.max_age.kind = "map" => HasKey("max_age")
    BY DEF HasKey
  <2> QED
    BY <2>1, <2>2, <2>6, <2>7, <2>8 DEF StartedAsConfigured
<1> QED
  BY <1>1, ConfigInvariantHolds, StartedWithHandles, PTL

-----------------------------------------------------------------------------
(* A sound configuration: what main() has made when it comes to each place. *)

SchemasReady == mpc \in {"ids"} \union IdsFetched => m_serdes = "handle" /\ SchemasMade
ProducerReady ==
    mpc \in IdsFetched \ {"kafka", "producer"} \/ kpc # "none" => kafka_producer = "handle"

SoundInvariant == Sound => sigint = {} /\ ~Gone /\ SchemasReady /\ ProducerReady

LEMMA InitSound == Init => SoundInvariant
BY DEF Init, SoundInvariant, Gone, SchemasReady, ProducerReady, IdsFetched

(* What the sections of a sound configuration are. *)
LEMMA SoundSections ==
    ASSUME Sound
    PROVE  /\ \A k \in Sections \ {"max_age"} : ~NoMap(k) /\ HasKey(k) /\ ConfigForKey(k) = Settings(k)
           /\ TopicMap = document.type_map.map /\ DOMAIN TopicMap # {}
           /\ ~MapsMissing /\ SchemaErrors = {} /\ ~MalformedAge
<1>1. \A k \in Sections \ {"max_age"} : ~NoMap(k) /\ HasKey(k) /\ ConfigForKey(k) = Settings(k)
  BY DEF Sound, NoMap, HasKey, ConfigForKey, Settings
<1>2. ~NoMap("type_map") /\ ~NoMap("column_map") /\ ~NoMap("column_type_transforms")
      /\ HasKey("type_map")
  BY <1>1 DEF Sections
<1>3. TopicMap = document.type_map.map /\ DOMAIN TopicMap # {} /\ ~MapsMissing
  BY <1>2 DEF Sound, TopicMap, MapsMissing
<1>4. \A t \in DOMAIN TopicMap : ~TopicError(TopicMap[t])
  BY <1>3 DEF Sound, SoundTopic, TopicError
<1>5. SchemaErrors = {}
  BY <1>2, <1>4 DEF SchemaErrors, If
<1>6. ~MalformedAge
  BY DEF Sound, SoundAge, MalformedAge, WellFormedAge, HasKey, ConfigForKey, Settings, NoMap
<1> QED
  BY <1>1, <1>3, <1>5, <1>6

(* Its schemas can be assembled. *)
LEMMA SoundNames ==
    ASSUME Sound, NEW t \in DOMAIN TopicMap PROVE ~NamesClash(Config(TopicMap[t]))
<1> DEFINE config == Config(TopicMap[t])
<1>1. SoundTopic(TopicMap[t])
  BY SoundSections DEF Sound
<1>2. config.columns = TopicMap[t].columns /\ config.column_map = Settings("column_map")
  BY <1>1, SoundSections DEF SoundTopic, Config, Sections
<1>3. \A c : Field(config, c).name = FieldName(config, c)
  BY DEF Field
<1> HIDE DEF config
<1>4. \A c : Field(config, c).name = NewName(c)
  BY <1>2, <1>3 DEF FieldName, NewName
<1>5. ~NamesClash(config)
  BY <1>1, <1>2, <1>4 DEF NamesClash, SoundTopic
<1> QED
  BY <1>5 DEF config

(* Its transforms are complete, and of types that are registered. *)
LEMMA SoundTransformers ==
    ASSUME Sound, NEW i \in DOMAIN document.transforms
    PROVE  Complete(document.transforms[i]) /\ document.transforms[i].type \in Registered
<1>1. /\ "type" \in DOMAIN document.transforms[i] /\ document.transforms[i].type \in Known
      /\ Keys(document.transforms[i].type) \subseteq DOMAIN document.transforms[i]
  BY DEF Sound, SoundTransforms
<1> QED
  BY <1>1 DEF Keys, Known, Registered, Complete

LEMMA StepSound == SoundInvariant /\ [Next]_mainVars => SoundInvariant'
<1> SUFFICES ASSUME SoundInvariant, [Next]_mainVars, Sound
             PROVE  (sigint = {} /\ ~Gone /\ SchemasReady /\ ProducerReady)'
  BY InputStays, SameSoundness DEF SoundInvariant
<1>1. input' = input /\ SchemasMade' = (schemas' = [t \in DOMAIN TopicMap |-> Config(TopicMap[t])])
  BY InputStays, SameConfiguration DEF SchemasMade
<1>2. sigint = {} /\ mpc \notin {"exited", "terminated", "crashed"} /\ SchemasReady /\ ProducerReady
  BY DEF SoundInvariant, Gone
<1>3. \A reasons : Raise(reasons) /\ reasons = {} => sigint' = {}
  BY <1>2 DEF Raise
<1> USE DEF Goto, GoOn, IdsFetched, SchemasReady, ProducerReady
<1>4. CASE ParseArgs
  BY <1>1, <1>2, <1>4 DEF ParseArgs, Sound, Gone, signalVars, kafkaVars
<1>5. CASE LoadFile
  BY <1>1, <1>2, <1>5 DEF LoadFile, Sound, Gone, signalVars, kafkaVars
<1>6. CASE SchemaConfigs
  <2>1. ~NoMap("kafka") /\ ~MapsMissing /\ SchemaErrors = {} /\ ConfigForKey("kafka") = Settings("kafka")
    BY SoundSections DEF Sections
  <2>2. Accepted(ConfigForKey("kafka"), "schema.registry.url")
    BY <2>1 DEF Sound, SoundKafka
  <2>3. sigint' = {}
    <3> DEFINE reasons == If(NoMap("kafka"), "kafka")
                          \union If(~Accepted(ConfigForKey("kafka"), "schema.registry.url"), "registry")
                          \union If(MapsMissing, "columns") \union SchemaErrors
    <3>1. reasons = {}
      BY <2>1, <2>2 DEF If
    <3>2. Raise(reasons)
      BY <1>6 DEF SchemaConfigs
    <3> QED
      BY <1>3, <3>1, <3>2
  <2>4. mpc' = "ids"
    BY <1>6, <2>1 DEF SchemaConfigs
  <2>5. m_serdes' = "handle" /\ UNCHANGED <<kafka_producer, kpc>>
    BY <1>6, <2>2 DEF SchemaConfigs, kafkaVars
  <2>6. SchemasMade'
    BY <1>1, <1>6, <2>1 DEF SchemaConfigs, If
  <2> QED
    BY <1>2, <2>3, <2>4, <2>5, <2>6 DEF Gone
<1>7. CASE SchemaIds
  <2>1. mpc = "ids" /\ UNCHANGED <<sigint, m_serdes, schemas, kafka_producer, kpc>>
    BY <1>7 DEF SchemaIds, signalVars, kafkaVars
  <2>2. m_serdes = "handle" /\ \A t \in DOMAIN schemas : ~NamesClash(schemas[t])
    BY <1>2, <2>1, SoundNames DEF SchemasMade
  <2>3. mpc' = "kafka"
    BY <1>7, <2>2 DEF SchemaIds
  <2> QED
    BY <1>1, <1>2, <2>1, <2>3 DEF Gone, SchemasMade
<1>8. CASE KafkaConf
  <2>1. ~NoMap("kafka") /\ ConfigForKey("kafka") = Settings("kafka")
    BY SoundSections DEF Sections
  <2>2. /\ mpc = "kafka" /\ mpc' = "producer" /\ kafka_config' = Settings("kafka")
        /\ UNCHANGED <<m_serdes, schemas, kafka_producer, kpc>>
    BY <1>8, <2>1 DEF KafkaConf
  <2>3. sigint' = {}
    <3> DEFINE reasons == If(NoMap("kafka"), "kafka")
             \union {k \in {"bootstrap.servers", "client.id"} : ~Accepted(kafka_config', k)}
    <3>1. reasons = {}
      BY <2>1, <2>2 DEF If, Sound, SoundKafka
    <3>2. Raise(reasons)
      BY <1>8 DEF KafkaConf
    <3> QED
      BY <1>3, <3>1, <3>2
  <2> QED
    BY <1>1, <1>2, <2>2, <2>3 DEF Gone, SchemasMade
<1>9. CASE CreateProducer
  <2>1. /\ mpc = "producer" /\ mpc' = "poller" /\ kafka_producer' = "handle"
        /\ UNCHANGED <<m_serdes, schemas, kpc>>
    BY <1>9 DEF CreateProducer, Sound
  <2>2. sigint' = {}
    BY <1>3, <1>9 DEF CreateProducer, Sound, If
  <2> QED
    BY <1>1, <1>2, <2>1, <2>2 DEF Gone, SchemasMade
<1>10. CASE StartKafkaPoller
  BY <1>1, <1>2, <1>10 DEF StartKafkaPoller, Gone, SchemasMade, signalVars
<1>11. CASE BuildDirectoryPoller
  BY <1>1, <1>2, <1>11 DEF BuildDirectoryPoller, Gone, SchemasMade, Sound, signalVars, kafkaVars
<1>12. CASE BuildTransformers
  <2>1. \A i \in DOMAIN document.transforms :
            Complete(document.transforms[i]) /\ document.transforms[i].type \in Registered
    BY SoundTransformers
  <2>2. mpc = "transformers" /\ mpc' = "max_age" /\ UNCHANGED <<m_serdes, schemas, kafkaVars>>
    BY <1>12, <2>1 DEF BuildTransformers
  <2>3. sigint' = {}
    BY <1>3, <1>12, <2>1 DEF BuildTransformers, If
  <2> QED
    BY <1>1, <1>2, <2>2, <2>3 DEF Gone, SchemasMade, kafkaVars
<1>13. CASE MaxAge
  <2>1. ~MalformedAge
    BY SoundSections
  <2>2. /\ mpc = "max_age" /\ mpc' = "build" /\ sigint' = {}
        /\ UNCHANGED <<m_serdes, schemas, kafkaVars>>
    BY <1>3, <1>13, <2>1 DEF MaxAge, If
  <2> QED
    BY <1>1, <1>2, <2>2 DEF Gone, SchemasMade, kafkaVars
<1>14. CASE BuildProcessor
  <2>1. mpc = "build" /\ UNCHANGED <<sigint, m_serdes, schemas, kafka_producer, kpc>>
    BY <1>14 DEF BuildProcessor, signalVars, kafkaVars
  <2>2. DOMAIN schemas # {}
    BY <1>2, <2>1, SoundSections DEF SchemasMade
  <2>3. CanBuild
    BY <1>2, <2>1, <2>2 DEF CanBuild
  <2>4. mpc' = "build"
    BY <1>14, <2>3 DEF BuildProcessor
  <2> QED
    BY <1>1, <1>2, <2>1, <2>4 DEF Gone, SchemasMade
<1>15. CASE StartWorkers
  BY <1>1, <1>2, <1>15 DEF StartWorkers, Gone, SchemasMade, signalVars, kafkaVars
<1>16. CASE SignalThread
  BY <1>1, <1>2, <1>16 DEF SignalThread, Gone, SchemasMade, kafkaVars
<1>17. CASE PollNull
  BY <1>2, <1>17 DEF PollNull
<1>18. CASE KafkaPollerEnds
  BY <1>1, <1>2, <1>18 DEF KafkaPollerEnds, Gone, SchemasMade, signalVars
<1>19. CASE UNCHANGED mainVars
  BY <1>1, <1>2, <1>19 DEF mainVars, Gone, SchemasMade, signalVars, kafkaVars
<1> QED
  BY <1>4, <1>5, <1>6, <1>7, <1>8, <1>9, <1>10, <1>11, <1>12, <1>13, <1>14, <1>15, <1>16, <1>17,
     <1>18, <1>19 DEF Next, MainNext, KafkaPollerNext

(* With a sound configuration main() has, at each place, the handles and    *)
(* the schemas that it needs to go on.                                      *)
THEOREM SoundInvariantHolds == Spec => []SoundInvariant
BY InitSound, StepSound, PTL DEF Spec

(* main() reports nothing for a configuration in which nothing is wrong,   *)
(* and does not end before its workers run, nor by what it does later.     *)
THEOREM SoundIsNotStopped == Spec => []NoFalseAlarm
<1>1. SoundInvariant => NoFalseAlarm
  BY DEF SoundInvariant, NoFalseAlarm
<1> QED
  BY <1>1, SoundInvariantHolds, PTL

-----------------------------------------------------------------------------
(* Types. *)

LEMMA InitTypes == Init => StartupTypes
<1> SUFFICES ASSUME Init PROVE StartupTypes
  OBVIOUS
<1>1. DOMAIN schemas \subseteq DOMAIN TopicMap
  <2>1. schemas = <<>>
    BY DEF Init
  <2>2. DOMAIN schemas = {}
    BY <2>1
  <2> QED
    BY <2>2
<1>2. processors \in Seq({"ma", "null", "wild"})
  BY DEF Init
<1> QED
  BY <1>1, <1>2 DEF Init, StartupTypes

LEMMA StepTypes == HandlesInvariant' /\ StartupTypes /\ [Next]_mainVars => StartupTypes'
<1> SUFFICES ASSUME HandlesInvariant', StartupTypes, [Next]_mainVars PROVE StartupTypes'
  OBVIOUS
<1>1. input' = input /\ (DOMAIN schemas \subseteq DOMAIN TopicMap)' =
                             (DOMAIN schemas' \subseteq DOMAIN TopicMap)
  BY InputStays, SameConfiguration
<1>2. /\ m_serdes' \in {"null", "handle"} /\ kafka_producer' \in {"null", "handle"}
      /\ processors' \in Seq({"ma", "null", "wild"})
  BY DEF HandlesInvariant, HandlesTypes
<1>3. (mpc' # mpc \/ schemas' # schemas \/ ma' # ma \/ kpc' # kpc
         \/ m_shutdown_requested' # m_shutdown_requested)
      => \/ MainNext \/ PollNull \/ KafkaPollerEnds
         \/ SignalThread
  BY DEF Next, KafkaPollerNext, mainVars, signalVars, kafkaVars, builtVars
<1> USE DEF Goto, GoOn, StartupTypes
<1>4. mpc' \in {"args", "load", "schemas", "ids", "kafka", "producer", "poller", "watcher",
                "transformers", "max_age", "build", "started", "exited", "terminated", "crashed"}
  BY <1>3 DEF MainNext, ParseArgs, LoadFile, SchemaConfigs, SchemaIds, KafkaConf, CreateProducer,
       StartKafkaPoller, BuildDirectoryPoller, BuildTransformers, MaxAge, BuildProcessor,
       StartWorkers, SignalThread, PollNull, KafkaPollerEnds
<1>5. DOMAIN schemas' \subseteq DOMAIN TopicMap
  <2>1. CASE SchemaConfigs
    BY <2>1 DEF SchemaConfigs, If
  <2>2. CASE ~SchemaConfigs
    <3>1. schemas' = schemas
      BY <2>2 DEF Next, MainNext, KafkaPollerNext, ParseArgs, LoadFile, SchemaIds, KafkaConf,
         CreateProducer, StartKafkaPoller, BuildDirectoryPoller, BuildTransformers, MaxAge,
         BuildProcessor, StartWorkers, SignalThread, PollNull, KafkaPollerEnds, mainVars
    <3> QED
      BY <3>1
  <2> QED
    BY <2>1, <2>2
<1>6. ma' \in {"none", "config", "garbage"}
  BY <1>3 DEF MainNext, ParseArgs, LoadFile, SchemaConfigs, SchemaIds, KafkaConf, CreateProducer,
       StartKafkaPoller, BuildDirectoryPoller, BuildTransformers, MaxAge, BuildProcessor,
       StartWorkers, SignalThread, PollNull, KafkaPollerEnds, builtVars
<1>7. kpc' \in {"none", "poll", "ended"} /\ m_shutdown_requested' \in BOOLEAN
  BY <1>3 DEF MainNext, ParseArgs, LoadFile, SchemaConfigs, SchemaIds, KafkaConf, CreateProducer,
       StartKafkaPoller, BuildDirectoryPoller, BuildTransformers, MaxAge, BuildProcessor,
       StartWorkers, SignalThread, PollNull, KafkaPollerEnds, kafkaVars, signalVars, Raise
<1>8. input' \in Inputs
  BY <1>1
<1> QED
  BY <1>1, <1>2, <1>4, <1>5, <1>6, <1>7, <1>8

(* main() keeps its variables in their types, whatever the configuration    *)
(* is.                                                                      *)
THEOREM StartupKeepsTypes == Spec => []StartupTypes
BY InitTypes, StepTypes, HandlesInvariantHolds, PTL DEF Spec

-----------------------------------------------------------------------------
(* The chain of transformers. *)

(* What is in the chain when main() goes on behind the transformers. *)
ChainMade ==
    /\ chain = Chain(document.transforms)
    /\ \A i \in DOMAIN document.transforms : Complete(document.transforms[i])
    /\ sigint = {} => \A i \in DOMAIN document.transforms : document.transforms[i].type \in Registered
ChainInvariant ==
    /\ input \in Inputs
    /\ mpc \in {"max_age", "build", "started"} => ChainMade

LEMMA StepChain == ChainInvariant /\ [Next]_mainVars => ChainInvariant'
<1> SUFFICES ASSUME ChainInvariant, [Next]_mainVars PROVE ChainInvariant'
  OBVIOUS
<1>1. input' = input /\ document' = document
  BY InputStays DEF document
<1>2. CASE BuildTransformers
  <2>1. mpc' = "max_age" => /\ \A i \in DOMAIN document.transforms : Complete(document.transforms[i])
                            /\ chain' = Chain(document.transforms)
    BY <1>2 DEF BuildTransformers, Goto
  <2>2. mpc' \in {"max_age", "terminated"}
    BY <1>2 DEF BuildTransformers, Goto
  <2>3. ASSUME mpc' = "max_age", sigint' = {}
        PROVE  \A i \in DOMAIN document.transforms : document.transforms[i].type \in Registered
    BY <1>2, <2>1, <2>3, RaiseNothing DEF BuildTransformers, If
  <2> QED
    BY <1>1, <2>1, <2>2, <2>3 DEF ChainInvariant, ChainMade
<1>3. CASE ~BuildTransformers
  <2>1. chain' = chain
    BY <1>3 DEF Next, MainNext, KafkaPollerNext, ParseArgs, LoadFile, SchemaConfigs, SchemaIds,
       KafkaConf, CreateProducer, StartKafkaPoller, BuildDirectoryPoller, MaxAge, BuildProcessor,
       StartWorkers, SignalThread, PollNull, KafkaPollerEnds, mainVars, builtVars
  <2>2. mpc' \in {"max_age", "build", "started"} => mpc \in {"max_age", "build", "started"}
    BY <1>3 DEF Next, MainNext, KafkaPollerNext, ParseArgs, LoadFile, SchemaConfigs, SchemaIds,
       KafkaConf, CreateProducer, StartKafkaPoller, BuildDirectoryPoller, MaxAge, BuildProcessor,
       StartWorkers, SignalThread, PollNull, KafkaPollerEnds, mainVars, Goto, GoOn
  <2>3. sigint' = {} => sigint = {}
    BY <1>3, RaiseNothing DEF Next, MainNext, KafkaPollerNext, ParseArgs, LoadFile, SchemaConfigs,
       SchemaIds, KafkaConf, CreateProducer, StartKafkaPoller, BuildDirectoryPoller, MaxAge,
       BuildProcessor, StartWorkers, SignalThread, PollNull, KafkaPollerEnds, mainVars, signalVars
  <2> QED
    BY <1>1, <2>1, <2>2, <2>3 DEF ChainInvariant, ChainMade
<1> QED
  BY <1>2, <1>3

(* Behind the transforms the chain is the one that the loop makes of them   *)
(* all, each is complete, and it is registered, or a signal was sent.       *)
THEOREM ChainInvariantHolds == Spec => []ChainInvariant
<1>1. Init => ChainInvariant
  BY DEF Init, ChainInvariant
<1> QED
  BY <1>1, StepChain, PTL DEF Spec
=============================================================================
