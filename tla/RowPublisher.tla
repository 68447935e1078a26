---------------------------- MODULE RowPublisher ----------------------------
(***************************************************************************)
(* CsvProcessor::publish(): the processors turn each row into one message  *)
(* per topic and hand it to the Kafka producer they share.  The producer   *)
(* (librdkafka) keeps a message in its queue until a delivery report for   *)
(* it has been served, which happens in the thread that calls poll() or    *)
(* flush(); a full queue refuses messages.                                 *)
(*                                                                         *)
(* Rows are numbered in the order in which they are handed to publish().   *)
(* Of the content of a row only matters whether it is too old, or cannot   *)
(* be converted to the types of a topic.  A topic stands for the id of its *)
(* schema too.                                                             *)
(***************************************************************************)
EXTENDS Naturals, Sequences, FiniteSets, SequencesExt

CONSTANTS
    Processors,   \* the CsvProcessor threads
    TopicOrder,   \* the topics in the order of m_schemas
    AgeTopics,    \* those with the column that max_age looks at
    TypedTopics,  \* those with a column that is converted to a number
    KnownTopics,  \* those whose schema the registry knew at the start
    NoId,         \* schema_id -1
    QueueLimit,   \* queue.buffering.max.messages
    MaxRows       \* bound: rows handed to publish()

Topics == Range(TopicOrder)
RowNumbers == 1..MaxRows

ASSUME TopicsAssumption ==
    /\ TopicOrder \in Seq(Topics) /\ IsInjective(TopicOrder)
    /\ KnownTopics \subseteq Topics /\ NoId \notin Topics
ASSUME LimitsAssumption == QueueLimit \in Nat \ {0} /\ MaxRows \in Nat

VARIABLES
    schema_id,  \* [Topics -> SchemaConfig::schema_id]
    up,         \* the process has not crashed
    sigint,     \* publish() sent SIGINT to the process
    \* the processors
    pc, row, kind,
    turn,       \* [Processors -> Nat]: the topic whose turn it is
    out_data,   \* [Processors -> the frames written so far]
    \* the producer
    sending,    \* messages accepted and not delivered or failed yet
    reports,    \* delivery reports nobody has served yet
    stored,     \* <<topic, row>> of the messages Kafka has
    \* history
    handed,     \* rows handed to publish() so far
    told,       \* <<topic, row>> that an error was logged for
    ignored,    \* rows that old_count counts
    accepted    \* [Topics \X RowNumbers -> Nat]: successful calls of produce()

procVars == <<pc, row, kind, turn, out_data>>
kafkaVars == <<sending, reports, stored>>
histVars == <<handed, told, ignored, accepted>>
vars == <<schema_id, up, sigint, procVars, kafkaVars, histVars>>

(* A frame is the magic byte, the id of a schema and an encoded row. *)
Frames == [id : Topics \union {NoId}, row : RowNumbers]
Messages == [topic : Topics, row : RowNumbers, value : Seq(Frames)]

Topic(p) == TopicOrder[turn[p]]
Message(p) == [topic |-> Topic(p), row |-> row[p], value |-> out_data[p]]
Key(m) == <<m.topic, m.row>>
outq_len == Cardinality(sending) + Cardinality(reports)

Goto(p, from, to) == up /\ pc[p] = from /\ pc' = [pc EXCEPT ![p] = to]

-----------------------------------------------------------------------------
(* A processor. *)

(* Mutant: topics are counted from 0. *)
StartAtZero(p) ==
    /\ Goto(p, "idle", "record")
    /\ handed < MaxRows
    /\ turn' = [turn EXCEPT ![p] = 0]
    /\ UNCHANGED <<schema_id, up, sigint, row, kind, out_data, kafkaVars, histVars>>

(* handle() has the next row transformed. *)
StartRow(p) ==
    /\ Goto(p, "idle", "record")
    /\ handed < MaxRows
    /\ handed' = handed + 1
    /\ row' = [row EXCEPT ![p] = handed']
    /\ \E k \in {"plain", "old", "bad"} : kind' = [kind EXCEPT ![p] = k]
    /\ turn' = [turn EXCEPT ![p] = 1]
    /\ out_data' = [out_data EXCEPT ![p] = <<>>]
    /\ UNCHANGED <<schema_id, up, sigint, kafkaVars, told, ignored, accepted>>

(* A topic after the last one: publish() returns. *)
EndRow(p) ==
    /\ Goto(p, "record", "idle")
    /\ turn[p] > Len(TopicOrder)
    /\ UNCHANGED <<schema_id, up, sigint, row, kind, turn, out_data, kafkaVars, histVars>>

IgnoreOld(p) ==
    /\ Goto(p, "record", "idle")
    /\ turn[p] <= Len(TopicOrder) /\ kind[p] = "old" /\ Topic(p) \in AgeTopics
    /\ ignored' = ignored \union {row[p]}
    /\ UNCHANGED <<schema_id, up, sigint, row, kind, turn, out_data, kafkaVars,
                   handed, told, accepted>>

(* The exception of a conversion leaves publish(); handle() logs it. *)
Throw(p) ==
    /\ Goto(p, "record", "idle")
    /\ turn[p] <= Len(TopicOrder) /\ kind[p] = "bad" /\ Topic(p) \in TypedTopics
    /\ told' = told \union {<<TopicOrder[i], row[p]>> : i \in turn[p]..Len(TopicOrder)}
    /\ UNCHANGED <<schema_id, up, sigint, row, kind, turn, out_data, kafkaVars,
                   handed, ignored, accepted>>

(* Mutant: the id is taken as it is. *)
RecordWithoutId(p) ==
    /\ Goto(p, "record", "serialize")
    /\ turn[p] <= Len(TopicOrder)
    /\ UNCHANGED <<schema_id, up, sigint, row, kind, turn, out_data, kafkaVars, histVars>>

(* The record is complete; schema_id is looked at. *)
Record(p) ==
    /\ turn[p] <= Len(TopicOrder)
    /\ Goto(p, "record", IF schema_id[Topic(p)] = NoId THEN "register" ELSE "serialize")
    /\ ~(kind[p] = "old" /\ Topic(p) \in AgeTopics)
    /\ ~(kind[p] = "bad" /\ Topic(p) \in TypedTopics)
    /\ UNCHANGED <<schema_id, up, sigint, row, kind, turn, out_data, kafkaVars, histVars>>

Register(p) ==
    /\ Goto(p, "register", "serialize")
    /\ schema_id' = [schema_id EXCEPT ![Topic(p)] = Topic(p)]
    /\ UNCHANGED <<up, sigint, row, kind, turn, out_data, kafkaVars, histVars>>

(* The error message dereferences the null schema. *)
RegisterFails(p) ==
    /\ up /\ pc[p] = "register"
    /\ up' = FALSE
    /\ UNCHANGED <<schema_id, sigint, procVars, kafkaVars, histVars>>

(* serialize() appends to out_data, which publish() does not clear between *)
(* two topics.                                                             *)
Serialize(p) ==
    /\ Goto(p, "serialize", "produce")
    /\ out_data' = [out_data EXCEPT ![p] = Append(@, [id |-> schema_id[Topic(p)], row |-> row[p]])]
    /\ UNCHANGED <<schema_id, up, sigint, row, kind, turn, kafkaVars, histVars>>

SerializeFails(p) ==
    /\ Goto(p, "serialize", "record")
    /\ sigint' = TRUE
    /\ told' = told \union {<<Topic(p), row[p]>>}
    /\ turn' = [turn EXCEPT ![p] = @ + 1]
    /\ UNCHANGED <<schema_id, up, row, kind, out_data, kafkaVars, handed, ignored, accepted>>

Produce(p) ==
    /\ Goto(p, "produce", "flush")
    /\ outq_len < QueueLimit
    /\ sending' = sending \union {Message(p)}
    /\ accepted' = [accepted EXCEPT ![Key(Message(p))] = @ + 1]
    /\ UNCHANGED <<schema_id, up, sigint, row, kind, turn, out_data, reports, stored,
                   handed, told, ignored>>

QueueFull(p) ==
    /\ Goto(p, "produce", "poll")
    /\ outq_len >= QueueLimit
    /\ UNCHANGED <<schema_id, up, sigint, row, kind, turn, out_data, kafkaVars, histVars>>

(* Any other error is logged, and the message is given up. *)
ProduceFails(p) ==
    /\ Goto(p, "produce", "flush")
    /\ told' = told \union {<<Topic(p), row[p]>>}
    /\ UNCHANGED <<schema_id, up, sigint, row, kind, turn, out_data, kafkaVars,
                   handed, ignored, accepted>>

(* Mutant: the delivery callback says nothing. *)
ServeSilently ==
    /\ reports' = {}
    /\ UNCHANGED told

(* KafkaDeliveryReportCb::dr_cb for every report there is. *)
Serve ==
    /\ reports' = {}
    /\ told' = told \union {Key(r.message) : r \in {s \in reports : ~s.ok}}

(* Mutants: the retry does not poll, or does all of the row again. *)
PollNothing(p) ==
    /\ Goto(p, "poll", "produce")
    /\ UNCHANGED <<schema_id, up, sigint, row, kind, turn, out_data, kafkaVars, histVars>>
PollAndRestart(p) ==
    /\ Goto(p, "poll", "record")
    /\ Serve
    /\ turn' = [turn EXCEPT ![p] = 1]
    /\ UNCHANGED <<schema_id, up, sigint, row, kind, out_data, sending, stored,
                   handed, ignored, accepted>>

Poll(p) ==
    /\ Goto(p, "poll", "produce")
    /\ Serve
    /\ UNCHANGED <<schema_id, up, sigint, row, kind, turn, out_data, sending, stored,
                   handed, ignored, accepted>>

FlushServe(p) ==
    /\ up /\ pc[p] = "flush" /\ reports # {}
    /\ Serve
    /\ UNCHANGED <<schema_id, up, sigint, procVars, sending, stored, handed, ignored, accepted>>

(* flush() comes back when the queue is empty, or after 10 seconds. *)
FlushEnds(p) ==
    /\ Goto(p, "flush", "check")
    /\ UNCHANGED <<schema_id, up, sigint, row, kind, turn, out_data, kafkaVars, histVars>>

(* "... message(s) were not delivered" *)
CheckOutq(p) ==
    /\ Goto(p, "check", "record")
    /\ told' = told \union {Key(m) : m \in sending} \union {Key(r.message) : r \in reports}
    /\ turn' = [turn EXCEPT ![p] = @ + 1]
    /\ UNCHANGED <<schema_id, up, sigint, row, kind, out_data, kafkaVars,
                   handed, ignored, accepted>>

ProcNext(p) ==
    \/ StartRow(p) \/ EndRow(p) \/ IgnoreOld(p) \/ Throw(p) \/ Record(p)
    \/ Register(p) \/ RegisterFails(p) \/ Serialize(p) \/ SerializeFails(p)
    \/ Produce(p) \/ QueueFull(p) \/ ProduceFails(p) \/ Poll(p)
    \/ FlushServe(p) \/ FlushEnds(p) \/ CheckOutq(p)

-----------------------------------------------------------------------------
(* The producer's own thread, and the KafkaPoller. *)

Deliver(m) ==
    /\ up /\ m \in sending
    /\ sending' = sending \ {m}
    /\ stored' = stored \union {Key(m)}
    /\ reports' = reports \union {[message |-> m, ok |-> TRUE]}
    /\ UNCHANGED <<schema_id, up, sigint, procVars, histVars>>

(* The broker refuses the message, or message.timeout.ms is over. *)
Fail(m) ==
    /\ up /\ m \in sending
    /\ sending' = sending \ {m}
    /\ reports' = reports \union {[message |-> m, ok |-> FALSE]}
    /\ UNCHANGED <<schema_id, up, sigint, procVars, stored, histVars>>

KafkaPoller ==
    /\ up /\ reports # {}
    /\ Serve
    /\ UNCHANGED <<schema_id, up, sigint, procVars, sending, stored, handed, ignored, accepted>>

-----------------------------------------------------------------------------

(* schemas() asks the registry once, before there are processors. *)
FetchedId(u) == IF u \in KnownTopics THEN u ELSE NoId

Init ==
    /\ schema_id = [u \in Topics |-> FetchedId(u)]
    /\ up = TRUE /\ sigint = FALSE
    /\ pc = [p \in Processors |-> "idle"] /\ row = [p \in Processors |-> 0]
    /\ kind = [p \in Processors |-> "plain"] /\ turn = [p \in Processors |-> 1]
    /\ out_data = [p \in Processors |-> <<>>]
    /\ sending = {} /\ reports = {} /\ stored = {}
    /\ handed = 0 /\ told = {} /\ ignored = {}
    /\ accepted = [x \in Topics \X RowNumbers |-> 0]

Next ==
    \/ \E p \in Processors : ProcNext(p)
    \/ \E m \in sending : Deliver(m) \/ Fail(m)
    \/ KafkaPoller

Spec == Init /\ [][Next]_vars

(* The processors run, and each message is delivered or fails some day.    *)
(* The KafkaPoller may have ended, as it does before the processors do.    *)
Fairness ==
    /\ \A p \in Processors : WF_vars(ProcNext(p))
    /\ WF_vars(\E m \in sending : Deliver(m) \/ Fail(m))

FairSpec == Spec /\ Fairness

-----------------------------------------------------------------------------

TypeOK ==
    /\ schema_id \in [Topics -> Topics \union {NoId}]
    /\ up \in BOOLEAN /\ sigint \in BOOLEAN
    /\ pc \in [Processors -> {"idle", "record", "register", "serialize", "produce", "poll",
                              "flush", "check"}]
    /\ row \in [Processors -> RowNumbers \union {0}]
    /\ kind \in [Processors -> {"plain", "old", "bad"}]
    /\ turn \in [Processors -> 1..Len(TopicOrder) + 1]
    /\ out_data \in [Processors -> Seq(Frames)]
    /\ sending \subseteq Messages /\ reports \subseteq [message : Messages, ok : BOOLEAN]
    /\ stored \subseteq Topics \X RowNumbers /\ told \subseteq Topics \X RowNumbers
    /\ handed \in 0..MaxRows /\ ignored \subseteq RowNumbers
    /\ accepted \in [Topics \X RowNumbers -> Nat]

(* The turn of topic i is over for row r. *)
Over(i, r) ==
    /\ r <= handed
    /\ \A p \in Processors : pc[p] # "idle" /\ row[p] = r => i < turn[p]

(* No row is lost without a trace: when publish() is through with a topic,  *)
(* Kafka has the message, or the log has an error that covers it, or the    *)
(* row was counted as too old.                                              *)
NoSilentLoss ==
    \A i \in DOMAIN TopicOrder, r \in RowNumbers : Over(i, r) =>
        <<TopicOrder[i], r>> \in stored \union told \/ r \in ignored

(* The producer accepts a row once for each topic, however often its queue  *)
(* was full before.                                                         *)
AcceptedOnce == \A x \in Topics \X RowNumbers : accepted[x] <= 1

(* A message ends with the frame of its row, under the schema of its topic, *)
(* which is registered by then.                                             *)
EndsWithOwnFrame ==
    \A m \in sending :
        /\ m.value # <<>> /\ Last(m.value) = [id |-> m.topic, row |-> m.row]
        /\ schema_id[m.topic] = m.topic

(* A row gets through publish(), also when the queue is full and nobody     *)
(* else polls the producer.                                                 *)
RowsGetThrough == \A p \in Processors : pc[p] = "produce" ~> pc[p] = "idle" \/ ~up

(* "Write framing [<magic byte> <schema id> <bytesavro>]": a message is one *)
(* frame.                                                                   *)
OneFrame == \A m \in sending : Len(m.value) = 1
=============================================================================
