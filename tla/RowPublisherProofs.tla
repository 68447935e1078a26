------------------------- MODULE RowPublisherProofs -------------------------
(***************************************************************************)
(* Theorems about RowPublisher, for any processors, topics, rows and any   *)
(* size of the producer's queue.                                           *)
(***************************************************************************)
EXTENDS RowPublisher, SequenceTheorems, TLAPS

(* Where publish() is with a row: it has a number, and a topic except       *)
(* between two of them.                                                     *)
AtTopic == {"register", "serialize", "produce", "poll", "flush", "check"}
InTurn ==
    \A p \in Processors : pc[p] # "idle" =>
        /\ row[p] \in 1..handed
        /\ pc[p] \in AtTopic => turn[p] <= Len(TopicOrder)

(* The bounds and the order of topics, as the provers need them. *)
LEMMA TopicFacts ==
    /\ Len(TopicOrder) \in Nat /\ DOMAIN TopicOrder = 1..Len(TopicOrder)
    /\ \A i \in 1..Len(TopicOrder) : TopicOrder[i] \in Topics
    /\ \A i, j \in 1..Len(TopicOrder) : TopicOrder[i] = TopicOrder[j] => i = j
    /\ MaxRows \in Nat /\ RowNumbers = 1..MaxRows
<1>1. TopicOrder \in Seq(Topics) /\ IsInjective(TopicOrder)
  BY TopicsAssumption
<1>2. DOMAIN TopicOrder = 1..Len(TopicOrder) /\ Len(TopicOrder) \in Nat
      /\ \A i \in 1..Len(TopicOrder) : TopicOrder[i] \in Topics
  BY <1>1
<1>3. \A i, j \in DOMAIN TopicOrder : TopicOrder[i] = TopicOrder[j] => i = j
  BY <1>1 DEF IsInjective
<1> QED
  BY <1>2, <1>3, LimitsAssumption DEF RowNumbers

LEMMA TopicOf ==
    ASSUME TypeOK, InTurn, NEW p \in Processors, pc[p] \in AtTopic \/ pc[p] = "record",
           turn[p] <= Len(TopicOrder)
    PROVE  /\ turn[p] \in 1..Len(TopicOrder) /\ Topic(p) \in Topics
           /\ row[p] \in RowNumbers /\ row[p] \in 1..handed
           /\ turn[p] + 1 \in 1..Len(TopicOrder) + 1
           /\ <<Topic(p), row[p]>> \in Topics \X RowNumbers
<1>1. turn[p] \in 1..Len(TopicOrder) + 1 /\ handed \in 0..MaxRows
  BY DEF TypeOK
<1>2. row[p] \in 1..handed
  BY DEF InTurn, AtTopic
<1>3. turn[p] \in 1..Len(TopicOrder) /\ turn[p] + 1 \in 1..Len(TopicOrder) + 1
  BY <1>1, TopicFacts
<1>4. row[p] \in RowNumbers
  BY <1>1, <1>2, TopicFacts
<1> QED
  BY <1>2, <1>3, <1>4, TopicFacts DEF Topic

-----------------------------------------------------------------------------
(* Types. *)

LEMMA InitTypes == Init => TypeOK /\ InTurn
<1> SUFFICES ASSUME Init PROVE TypeOK /\ InTurn
  OBVIOUS
<1>1. schema_id \in [Topics -> Topics \union {NoId}]
  BY DEF Init, FetchedId
<1>2. turn \in [Processors -> 1..Len(TopicOrder) + 1] /\ handed \in 0..MaxRows
  BY TopicFacts DEF Init
<1>3. out_data \in [Processors -> Seq(Frames)]
  BY DEF Init
<1>4. /\ pc \in [Processors -> {"idle"}] /\ row \in [Processors -> {0}]
      /\ kind \in [Processors -> {"plain"}] /\ accepted \in [Topics \X RowNumbers -> Nat]
  BY DEF Init
<1>5. InTurn
  BY DEF Init, InTurn
<1>6. up \in BOOLEAN /\ sigint \in BOOLEAN
  BY DEF Init
<1> QED
  BY <1>1, <1>2, <1>3, <1>4, <1>5, <1>6 DEF Init, TypeOK

(* The keys of messages are pairs of a topic and a row. *)
LEMMA ServeTypes ==
    ASSUME TypeOK, Serve
    PROVE  reports' = {} /\ told' \subseteq Topics \X RowNumbers
BY DEF TypeOK, Serve, Key, Messages


LEMMA PublisherTypes ==
    ASSUME TypeOK, InTurn, NEW p \in Processors,
           StartRow(p) \/ EndRow(p) \/ IgnoreOld(p) \/ Throw(p) \/ Record(p)
    PROVE  TypeOK' /\ InTurn'
<1> USE DEF Goto, kafkaVars, histVars
<1>1. handed \in 0..MaxRows /\ MaxRows \in Nat
  BY TopicFacts DEF TypeOK
<1>2. CASE StartRow(p)
  <2>1. handed + 1 \in RowNumbers /\ handed + 1 \in 0..MaxRows
    BY <1>1, <1>2, TopicFacts DEF StartRow
  <2>2. 1 \in 1..Len(TopicOrder) + 1 /\ <<>> \in Seq(Frames)
    BY TopicFacts
  <2>3. TypeOK'
    BY <1>2, <2>1, <2>2 DEF StartRow, TypeOK
  <2>4. InTurn'
    <3>1. ASSUME NEW q \in Processors, q # p, pc[q] # "idle" PROVE row[q] \in 1..handed + 1
      BY <1>1, <3>1 DEF InTurn
    <3>2. row'[p] \in 1..handed + 1 /\ pc'[p] = "record"
      BY <1>1, <1>2 DEF StartRow, TypeOK
    <3> QED
      BY <1>2, <3>1, <3>2 DEF StartRow, TypeOK, InTurn, AtTopic
  <2> QED
    BY <2>3, <2>4
<1>3. CASE EndRow(p)
  BY <1>3 DEF EndRow, TypeOK, InTurn
<1>4. CASE IgnoreOld(p)
  <2>1. row[p] \in RowNumbers
    BY <1>4, TopicOf DEF IgnoreOld
  <2> QED
    BY <1>4, <2>1 DEF IgnoreOld, TypeOK, InTurn
<1>5. CASE Throw(p)
  <2>1. row[p] \in RowNumbers /\ turn[p] \in 1..Len(TopicOrder)
    BY <1>5, TopicOf DEF Throw
  <2>2. \A i \in turn[p]..Len(TopicOrder) : TopicOrder[i] \in Topics
    BY <2>1, TopicFacts
  <2>3. told' \subseteq Topics \X RowNumbers
    BY <1>5, <2>1, <2>2 DEF Throw, TypeOK
  <2> QED
    BY <1>5, <2>3 DEF Throw, TypeOK, InTurn
<1>6. CASE Record(p)
  BY <1>6 DEF Record, TypeOK, InTurn, AtTopic
<1> QED
  BY <1>2, <1>3, <1>4, <1>5, <1>6

LEMMA SchemaTypes ==
    ASSUME TypeOK, InTurn, NEW p \in Processors,
           Register(p) \/ RegisterFails(p) \/ Serialize(p) \/ SerializeFails(p)
    PROVE  TypeOK' /\ InTurn'
<1> USE DEF Goto, kafkaVars, histVars, procVars
<1>1. pc[p] \in {"register", "serialize"} /\ turn[p] <= Len(TopicOrder)
  BY DEF Register, RegisterFails, Serialize, SerializeFails, InTurn, AtTopic
<1>2. /\ Topic(p) \in Topics /\ row[p] \in RowNumbers /\ turn[p] + 1 \in 1..Len(TopicOrder) + 1
      /\ <<Topic(p), row[p]>> \in Topics \X RowNumbers
  BY <1>1, TopicOf DEF AtTopic
<1>3. CASE Register(p)
  BY <1>2, <1>3 DEF Register, TypeOK, InTurn, AtTopic
<1>4. CASE RegisterFails(p)
  BY <1>4 DEF RegisterFails, TypeOK, InTurn
<1>5. CASE Serialize(p)
  <2>1. [id |-> schema_id[Topic(p)], row |-> row[p]] \in Frames
    BY <1>2 DEF TypeOK, Frames
  <2>2. out_data[p] \in Seq(Frames)
    BY DEF TypeOK
  <2>3. Append(out_data[p], [id |-> schema_id[Topic(p)], row |-> row[p]]) \in Seq(Frames)
    BY <2>1, <2>2, AppendProperties
  <2> QED
    BY <1>5, <2>3 DEF Serialize, TypeOK, InTurn, AtTopic
<1>6. CASE SerializeFails(p)
  BY <1>2, <1>6 DEF SerializeFails, TypeOK, InTurn, AtTopic
<1> QED
  BY <1>3, <1>4, <1>5, <1>6

LEMMA MessageType ==
    ASSUME TypeOK, InTurn, NEW p \in Processors, pc[p] \in AtTopic
    PROVE  Message(p) \in Messages /\ Key(Message(p)) = <<Topic(p), row[p]>>
           /\ Key(Message(p)) \in Topics \X RowNumbers
<1>1. turn[p] <= Len(TopicOrder)
  BY DEF InTurn, AtTopic
<1>2. Topic(p) \in Topics /\ row[p] \in RowNumbers /\ out_data[p] \in Seq(Frames)
  BY <1>1, TopicOf DEF TypeOK
<1> QED
  BY <1>2 DEF Message, Messages, Key

LEMMA ProducerTypes ==
    ASSUME TypeOK, InTurn, NEW p \in Processors,
           \/ Produce(p) \/ QueueFull(p) \/ ProduceFails(p) \/ Poll(p)
           \/ FlushServe(p) \/ FlushEnds(p) \/ CheckOutq(p)
    PROVE  TypeOK' /\ InTurn'
<1> USE DEF Goto, kafkaVars, histVars, procVars
<1>1. pc[p] \in {"produce", "poll", "flush", "check"} /\ turn[p] <= Len(TopicOrder)
  BY DEF Produce, QueueFull, ProduceFails, Poll, FlushServe, FlushEnds, CheckOutq, InTurn, AtTopic
<1>2. turn[p] + 1 \in 1..Len(TopicOrder) + 1 /\ <<Topic(p), row[p]>> \in Topics \X RowNumbers
  BY <1>1, TopicOf DEF AtTopic
<1>3. Message(p) \in Messages /\ Key(Message(p)) \in Topics \X RowNumbers
  BY <1>1, MessageType DEF AtTopic
<1>4. CASE Produce(p)
  <2>1. accepted' \in [Topics \X RowNumbers -> Nat]
    BY <1>3, <1>4 DEF Produce, TypeOK
  <2> QED
    BY <1>3, <1>4, <2>1 DEF Produce, TypeOK, InTurn, AtTopic
<1>5. CASE QueueFull(p) \/ FlushEnds(p)
  BY <1>5 DEF QueueFull, FlushEnds, TypeOK, InTurn, AtTopic
<1>6. CASE ProduceFails(p)
  BY <1>2, <1>6 DEF ProduceFails, TypeOK, InTurn, AtTopic
<1>7. CASE Poll(p) \/ FlushServe(p)
  <2>1. reports' = {} /\ told' \subseteq Topics \X RowNumbers
    BY <1>7, ServeTypes DEF Poll, FlushServe
  <2> QED
    BY <1>7, <2>1 DEF Poll, FlushServe, TypeOK, InTurn, AtTopic
<1>8. CASE CheckOutq(p)
  <2>1. told' \subseteq Topics \X RowNumbers
    BY <1>8 DEF CheckOutq, TypeOK, Key, Messages
  <2> QED
    BY <1>2, <1>8, <2>1 DEF CheckOutq, TypeOK, InTurn, AtTopic
<1> QED
  BY <1>4, <1>5, <1>6, <1>7, <1>8

LEMMA KafkaTypes ==
    ASSUME TypeOK, InTurn, KafkaPoller \/ \E m \in sending : Deliver(m) \/ Fail(m)
    PROVE  TypeOK' /\ InTurn'
<1> USE DEF histVars, procVars
<1>1. CASE KafkaPoller
  <2>1. reports' = {} /\ told' \subseteq Topics \X RowNumbers
    BY <1>1, ServeTypes DEF KafkaPoller
  <2> QED
    BY <1>1, <2>1 DEF KafkaPoller, TypeOK, InTurn
<1>2. ASSUME NEW m \in sending, Deliver(m) \/ Fail(m) PROVE TypeOK' /\ InTurn'
  <2>1. m \in Messages /\ Key(m) \in Topics \X RowNumbers
    BY DEF TypeOK, Messages, Key
  <2>2. /\ [message |-> m, ok |-> TRUE] \in [message : Messages, ok : BOOLEAN]
        /\ [message |-> m, ok |-> FALSE] \in [message : Messages, ok : BOOLEAN]
    BY <2>1
  <2>3. sending' \subseteq Messages /\ reports' \subseteq [message : Messages, ok : BOOLEAN]
        /\ stored' \subseteq Topics \X RowNumbers
    BY <1>2, <2>1, <2>2 DEF Deliver, Fail, TypeOK
  <2> QED
    BY <1>2, <2>3 DEF Deliver, Fail, TypeOK, InTurn
<1> QED
  BY <1>1, <1>2

LEMMA StepTypes == TypeOK /\ InTurn /\ [Next]_vars => TypeOK' /\ InTurn'
<1>1. TypeOK /\ InTurn /\ UNCHANGED vars => TypeOK' /\ InTurn'
  BY DEF TypeOK, InTurn, vars, procVars, kafkaVars, histVars
<1> QED
  BY <1>1, PublisherTypes, SchemaTypes, ProducerTypes, KafkaTypes DEF Next, ProcNext

(* The types, and that a processor with a row is at one of its topics. *)
THEOREM TurnsHold == Spec => [](TypeOK /\ InTurn)
BY InitTypes, StepTypes, PTL DEF Spec

(* Every variable keeps to its type. *)
THEOREM PublisherKeepsTypes == Spec => []TypeOK
BY TurnsHold, PTL

-----------------------------------------------------------------------------
(* Frames: between the schema and the producer a processor has a frame of   *)
(* its own at the end of out_data, whatever was left there before it.       *)

IdsFit == \A u \in Topics : schema_id[u] \in {u, NoId}
Registered ==
    \A p \in Processors : pc[p] \in AtTopic \ {"register"} => schema_id[Topic(p)] = Topic(p)
FrameReady ==
    \A p \in Processors : pc[p] \in {"produce", "poll"} =>
        out_data[p] # <<>> /\ Last(out_data[p]) = [id |-> Topic(p), row |-> row[p]]

FrameInvariant == IdsFit /\ Registered /\ FrameReady /\ EndsWithOwnFrame

LEMMA InitFrames == Init => FrameInvariant
BY DEF Init, FetchedId, FrameInvariant, IdsFit, Registered, FrameReady, EndsWithOwnFrame, AtTopic

(* A schema that is registered stays registered. *)
LEMMA IdsStay ==
    ASSUME TypeOK, InTurn, FrameInvariant, NEW p \in Processors, Register(p)
    PROVE  /\ IdsFit' /\ schema_id'[Topic(p)] = Topic(p)
           /\ \A u \in Topics : schema_id[u] = u => schema_id'[u] = u
<1>1. pc[p] = "register" /\ schema_id' = [schema_id EXCEPT ![Topic(p)] = Topic(p)]
  BY DEF Register, Goto
<1>2. Topic(p) \in Topics
  BY <1>1, TopicOf DEF InTurn, AtTopic
<1> QED
  BY <1>1, <1>2 DEF TypeOK, FrameInvariant, IdsFit

LEMMA StepFrames == TypeOK /\ InTurn /\ FrameInvariant /\ [Next]_vars => FrameInvariant'
<1> SUFFICES ASSUME TypeOK, InTurn, FrameInvariant, [Next]_vars PROVE FrameInvariant'
  OBVIOUS
<1> USE DEF FrameInvariant, Goto
<1>1. pc \in [Processors -> {"idle", "record"} \union AtTopic]
      /\ turn \in [Processors -> 1..Len(TopicOrder) + 1]
  BY DEF TypeOK, AtTopic
<1>2. ASSUME NEW p \in Processors,
             StartRow(p) \/ EndRow(p) \/ IgnoreOld(p) \/ Throw(p) \/ SerializeFails(p) \/ CheckOutq(p)
      PROVE  FrameInvariant'
  <2>1. /\ UNCHANGED <<schema_id, sending>> /\ pc'[p] \in {"idle", "record"}
        /\ \A q \in Processors : q # p => /\ pc'[q] = pc[q] /\ turn'[q] = turn[q] /\ row'[q] = row[q]
                                          /\ out_data'[q] = out_data[q]
    BY <1>1, <1>2 DEF StartRow, EndRow, IgnoreOld, Throw, SerializeFails, CheckOutq, kafkaVars, TypeOK
  <2> QED
    BY <2>1 DEF IdsFit, Registered, FrameReady, EndsWithOwnFrame, Topic, AtTopic
<1>3. ASSUME NEW p \in Processors, Record(p) PROVE FrameInvariant'
  <2>1. /\ UNCHANGED <<schema_id, sending, turn, row, out_data>> /\ turn[p] <= Len(TopicOrder)
        /\ pc[p] = "record"
        /\ pc' = [pc EXCEPT ![p] = IF schema_id[Topic(p)] = NoId THEN "register" ELSE "serialize"]
    BY <1>3 DEF Record, kafkaVars
  <2>2. Topic(p) \in Topics
    BY <2>1, TopicOf
  <2>3. pc'[p] = "serialize" => schema_id[Topic(p)] = Topic(p)
    BY <1>1, <2>1, <2>2 DEF IdsFit
  <2>4. pc'[p] \in {"register", "serialize"} /\ \A q \in Processors : q # p => pc'[q] = pc[q]
    BY <1>1, <2>1
  <2> QED
    BY <2>1, <2>3, <2>4 DEF IdsFit, Registered, FrameReady, EndsWithOwnFrame, Topic, AtTopic
<1>4. ASSUME NEW p \in Processors, Register(p) PROVE FrameInvariant'
  <2>1. /\ UNCHANGED <<sending, turn, row, out_data>> /\ pc' = [pc EXCEPT ![p] = "serialize"]
    BY <1>4 DEF Register, kafkaVars
  <2>2. pc'[p] = "serialize" /\ \A q \in Processors : q # p => pc'[q] = pc[q]
    BY <1>1, <2>1
  <2>3. \A q \in Processors : pc[q] \in AtTopic => Topic(q) \in Topics
    BY TopicOf DEF InTurn, AtTopic
  <2>4. Registered'
    BY <1>4, <2>1, <2>2, <2>3, IdsStay DEF Registered, Topic, AtTopic
  <2>5. \A m \in sending : m.topic \in Topics
    BY DEF TypeOK, Messages
  <2>6. \A u \in Topics : schema_id[u] = u => schema_id'[u] = u
    BY <1>4, IdsStay
  <2>7. EndsWithOwnFrame'
    <3>1. \A m \in sending : schema_id'[m.topic] = m.topic
      BY <2>5, <2>6 DEF EndsWithOwnFrame
    <3> QED
      BY <2>1, <3>1 DEF EndsWithOwnFrame
  <2> QED
    BY <1>4, <2>1, <2>2, <2>4, <2>7, IdsStay DEF FrameReady, Topic
<1>5. ASSUME NEW p \in Processors, Serialize(p) PROVE FrameInvariant'
  <2>1. /\ UNCHANGED <<schema_id, sending, turn, row>> /\ pc[p] = "serialize"
        /\ pc' = [pc EXCEPT ![p] = "produce"]
        /\ out_data' = [out_data EXCEPT ![p] = Append(@, [id |-> schema_id[Topic(p)], row |-> row[p]])]
    BY <1>5 DEF Serialize, kafkaVars
  <2>2. schema_id[Topic(p)] = Topic(p) /\ Topic(p) \in Topics /\ row[p] \in RowNumbers
    BY <2>1, TopicOf DEF Registered, InTurn, AtTopic
  <2>3. out_data'[p] # <<>> /\ Last(out_data'[p]) = [id |-> Topic(p), row |-> row[p]]
    <3> DEFINE f == [id |-> schema_id[Topic(p)], row |-> row[p]]
    <3>1. out_data[p] \in Seq(Frames) /\ f \in Frames /\ out_data'[p] = Append(out_data[p], f)
      BY <2>1, <2>2 DEF TypeOK, Frames
    <3> HIDE DEF f
    <3>2. /\ out_data'[p] \in Seq(Frames) /\ Len(out_data'[p]) = Len(out_data[p]) + 1
          /\ Len(out_data[p]) \in Nat /\ out_data'[p][Len(out_data[p]) + 1] = f
      BY <3>1, AppendProperties
    <3> QED
      BY <2>2, <3>2 DEF Last, f
  <2>4. pc'[p] = "produce" /\ \A q \in Processors : q # p => pc'[q] = pc[q] /\ out_data'[q] = out_data[q]
    BY <1>1, <2>1 DEF TypeOK
  <2> QED
    BY <2>1, <2>2, <2>3, <2>4 DEF IdsFit, Registered, FrameReady, EndsWithOwnFrame, Topic, AtTopic
<1>6. ASSUME NEW p \in Processors, Produce(p) PROVE FrameInvariant'
  <2>1. /\ UNCHANGED <<schema_id, turn, row, out_data>> /\ pc[p] = "produce"
        /\ pc' = [pc EXCEPT ![p] = "flush"] /\ sending' = sending \union {Message(p)}
    BY <1>6 DEF Produce
  <2>2. pc'[p] = "flush" /\ \A q \in Processors : q # p => pc'[q] = pc[q]
    BY <1>1, <2>1
  <2>3. schema_id[Topic(p)] = Topic(p) /\ out_data[p] # <<>>
        /\ Last(out_data[p]) = [id |-> Topic(p), row |-> row[p]]
    BY <2>1 DEF Registered, FrameReady, AtTopic
  <2>4. EndsWithOwnFrame'
    <3>1. /\ Message(p).value = out_data[p] /\ Message(p).topic = Topic(p)
          /\ Message(p).row = row[p]
      BY DEF Message
    <3>2. ASSUME NEW m \in sending \union {Message(p)}
          PROVE  /\ m.value # <<>> /\ Last(m.value) = [id |-> m.topic, row |-> m.row]
                 /\ schema_id[m.topic] = m.topic
      BY <2>3, <3>1 DEF EndsWithOwnFrame
    <3> QED
      BY <2>1, <3>2 DEF EndsWithOwnFrame
  <2> QED
    BY <2>1, <2>2, <2>3, <2>4 DEF IdsFit, Registered, FrameReady, Topic, AtTopic
<1>7. ASSUME NEW p \in Processors, QueueFull(p) \/ ProduceFails(p) \/ Poll(p) \/ FlushEnds(p)
      PROVE  FrameInvariant'
  <2>1. /\ UNCHANGED <<schema_id, sending, turn, row, out_data>>
        /\ pc[p] \in AtTopic \ {"register"} /\ pc'[p] \in AtTopic \ {"register"}
        /\ pc'[p] \in {"produce", "poll"} => pc[p] \in {"produce", "poll"}
        /\ \A q \in Processors : q # p => pc'[q] = pc[q]
    BY <1>1, <1>7 DEF QueueFull, ProduceFails, Poll, FlushEnds, kafkaVars, AtTopic
  <2> QED
    BY <2>1 DEF IdsFit, Registered, FrameReady, EndsWithOwnFrame, Topic
<1>8. ASSUME UNCHANGED <<schema_id, procVars>>, sending' \subseteq sending PROVE FrameInvariant'
  BY <1>8 DEF IdsFit, Registered, FrameReady, EndsWithOwnFrame, Topic, procVars
<1>9. ASSUME NEW p \in Processors, RegisterFails(p) \/ FlushServe(p) PROVE FrameInvariant'
  BY <1>8, <1>9 DEF RegisterFails, FlushServe, kafkaVars
<1>10. CASE KafkaPoller \/ \E m \in sending : Deliver(m) \/ Fail(m)
  BY <1>8, <1>10 DEF KafkaPoller, Deliver, Fail
<1>11. CASE UNCHANGED vars
  BY <1>8, <1>11 DEF vars, kafkaVars
<1> QED
  BY <1>2, <1>3, <1>4, <1>5, <1>6, <1>7, <1>9, <1>10, <1>11 DEF Next, ProcNext

(* When publish() is to produce a message its buffer ends with the frame    *)
(* of the row and the topic, whose schema has been registered.              *)
THEOREM FrameInvariantHolds == Spec => []FrameInvariant
BY TurnsHold, InitFrames, StepFrames, PTL DEF Spec

(* The last frame of a message is of its own row, and says the schema of    *)
(* its own topic, which the registry knows, also when two processors find   *)
(* that it has no id and register it both.                                  *)
THEOREM MessagesEndWithTheirFrame == Spec => []EndsWithOwnFrame
<1>1. FrameInvariant => EndsWithOwnFrame
  BY DEF FrameInvariant
<1> QED
  BY <1>1, FrameInvariantHolds, PTL

-----------------------------------------------------------------------------
(* Losses: from the moment publish() has handed a row over to the moment it *)
(* goes on to the next topic, the row leaves a trace.                       *)

OkStored == \A r \in reports : r.ok => Key(r.message) \in stored
Traced(x) ==
    \/ x \in stored \union told
    \/ \E m \in sending : Key(m) = x
    \/ \E r \in reports : Key(r.message) = x
HandedOver ==
    \A p \in Processors : pc[p] \in {"flush", "check"} => Traced(<<Topic(p), row[p]>>)
Covered(i, r) == <<TopicOrder[i], r>> \in stored \union told \/ r \in ignored

LossInvariant == OkStored /\ HandedOver /\ NoSilentLoss

LEMMA InitLoss == Init => LossInvariant
<1> SUFFICES ASSUME Init PROVE LossInvariant
  OBVIOUS
<1>1. OkStored /\ HandedOver
  BY DEF Init, OkStored, HandedOver
<1>2. \A r \in RowNumbers : ~(r <= handed)
  BY TopicFacts DEF Init
<1> QED
  BY <1>1, <1>2 DEF LossInvariant, NoSilentLoss, Over

(* Nothing that is stored, told or ignored is forgotten. *)
LEMMA HistoryGrows ==
    ASSUME [Next]_vars
    PROVE  stored \subseteq stored' /\ told \subseteq told' /\ ignored \subseteq ignored'
<1> USE DEF kafkaVars, histVars
<1>1. ASSUME NEW p \in Processors, ProcNext(p)
      PROVE  stored \subseteq stored' /\ told \subseteq told' /\ ignored \subseteq ignored'
  BY <1>1 DEF ProcNext, StartRow, EndRow, IgnoreOld, Throw, Record, Register, RegisterFails,
       Serialize, SerializeFails, Produce, QueueFull, ProduceFails, Poll, FlushServe, FlushEnds,
       CheckOutq, Serve
<1> QED
  BY <1>1 DEF Next, Deliver, Fail, KafkaPoller, Serve, vars

(* A trace is never lost: a report that is served was stored or is told. *)
LEMMA TracesStay ==
    ASSUME OkStored, [Next]_vars
    PROVE  OkStored' /\ \A x : Traced(x) => Traced(x)'
<1>1. stored \subseteq stored' /\ told \subseteq told'
  BY HistoryGrows
<1>2. ASSUME UNCHANGED kafkaVars PROVE OkStored' /\ \A x : Traced(x) => Traced(x)'
  BY <1>1, <1>2 DEF kafkaVars, OkStored, Traced
<1>3. ASSUME UNCHANGED <<sending, stored>>, Serve PROVE OkStored' /\ \A x : Traced(x) => Traced(x)'
  <2>1. OkStored'
    BY <1>3 DEF Serve, OkStored
  <2>2. ASSUME NEW r \in reports PROVE Key(r.message) \in stored \union told'
    BY <1>3, <2>2 DEF Serve, OkStored
  <2> QED
    BY <1>1, <1>3, <2>1, <2>2 DEF Traced
<1>4. ASSUME NEW p \in Processors, Produce(p) PROVE OkStored' /\ \A x : Traced(x) => Traced(x)'
  BY <1>1, <1>4 DEF Produce, OkStored, Traced
<1>5. ASSUME NEW m \in sending, Deliver(m) \/ Fail(m) PROVE OkStored' /\ \A x : Traced(x) => Traced(x)'
  <2>1. \E r \in reports' : r.message = m
    <3>1. \E b \in BOOLEAN : [message |-> m, ok |-> b] \in reports'
      BY <1>5 DEF Deliver, Fail
    <3> QED
      BY <3>1
  <2>2. \A n \in sending : n \in sending' \/ n = m
    BY <1>5 DEF Deliver, Fail
  <2>3. reports \subseteq reports'
    BY <1>5 DEF Deliver, Fail
  <2>4. OkStored'
    BY <1>5 DEF Deliver, Fail, OkStored
  <2> QED
    BY <1>1, <2>1, <2>2, <2>3, <2>4 DEF Traced
<1>6. ASSUME NEW p \in Processors, ProcNext(p) PROVE OkStored' /\ \A x : Traced(x) => Traced(x)'
  <2>1. CASE Produce(p)
    BY <1>4, <2>1
  <2>2. CASE Poll(p) \/ FlushServe(p)
    BY <1>3, <2>2 DEF Poll, FlushServe
  <2>3. CASE ~(Produce(p) \/ Poll(p) \/ FlushServe(p))
    BY <1>2, <1>6, <2>3 DEF ProcNext, StartRow, EndRow, IgnoreOld, Throw, Record, Register,
         RegisterFails, Serialize, SerializeFails, QueueFull, ProduceFails, FlushEnds, CheckOutq
  <2> QED
    BY <2>1, <2>2, <2>3
<1> QED
  BY <1>2, <1>3, <1>5, <1>6 DEF Next, KafkaPoller, vars

(* A step of one processor that is with a row: what it is through with now  *)
(* has to be covered.                                                       *)
LEMMA NothingLost ==
    ASSUME TypeOK, NoSilentLoss, NEW p \in Processors, pc[p] # "idle", handed' = handed,
           stored \subseteq stored', told \subseteq told', ignored \subseteq ignored',
           row' = row, \A q \in Processors : q # p => pc'[q] = pc[q] /\ turn'[q] = turn[q],
           \A i \in DOMAIN TopicOrder :
               ~(i < turn[p]) /\ (pc'[p] # "idle" => i < turn'[p]) => Covered(i, row[p])'
    PROVE  NoSilentLoss'
<1> SUFFICES ASSUME NEW i \in DOMAIN TopicOrder, NEW r \in RowNumbers, Over(i, r)'
             PROVE  Covered(i, r)'
  BY DEF NoSilentLoss, Covered
<1>1. CASE Over(i, r)
  <2>1. Covered(i, r)
    BY <1>1 DEF NoSilentLoss, Covered
  <2> QED
    BY <2>1 DEF Covered
<1>2. CASE ~Over(i, r)
  <2>1. PICK q \in Processors : pc[q] # "idle" /\ row[q] = r /\ ~(i < turn[q])
    BY <1>2 DEF Over
  <2>2. q = p
    BY <2>1 DEF Over
  <2>3. pc'[p] # "idle" => i < turn'[p]
    BY <2>1, <2>2 DEF Over
  <2> QED
    BY <2>1, <2>2, <2>3
<1> QED
  BY <1>1, <1>2

(* What a row leaves behind when a processor goes on to another topic.      *)
LEMMA LeavesTrace ==
    ASSUME TypeOK, InTurn, LossInvariant, NEW p \in Processors,
           IgnoreOld(p) \/ Throw(p) \/ SerializeFails(p) \/ CheckOutq(p),
           NEW i \in DOMAIN TopicOrder, ~(i < turn[p]), pc'[p] # "idle" => i < turn'[p]
    PROVE  Covered(i, row[p])'
<1> USE DEF Goto
<1>1. /\ Len(TopicOrder) \in Nat /\ i \in 1..Len(TopicOrder) /\ turn[p] \in 1..Len(TopicOrder) + 1
      /\ pc \in [Processors -> {"idle", "record"} \union AtTopic]
  BY TopicFacts DEF TypeOK, AtTopic
<1>2. CASE IgnoreOld(p)
  BY <1>2 DEF IgnoreOld, Covered
<1>3. CASE Throw(p)
  <2>1. i \in turn[p]..Len(TopicOrder)
    BY <1>1
  <2> QED
    BY <1>3, <2>1 DEF Throw, Covered
<1>4. CASE SerializeFails(p) \/ CheckOutq(p)
  <2>1. pc'[p] = "record" /\ turn' = [turn EXCEPT ![p] = @ + 1] /\ row' = row
    BY <1>1, <1>4 DEF SerializeFails, CheckOutq, AtTopic
  <2>2. turn'[p] = turn[p] + 1
    BY <2>1 DEF TypeOK
  <2>3. i = turn[p]
    BY <1>1, <2>1, <2>2
  <2>4. CASE SerializeFails(p)
    BY <2>1, <2>3, <2>4 DEF SerializeFails, Covered, Topic
  <2>5. CASE CheckOutq(p)
    <3>1. Traced(<<Topic(p), row[p]>>)
      BY <2>5 DEF CheckOutq, LossInvariant, HandedOver
    <3>2. <<Topic(p), row[p]>> \in stored \union told'
      BY <2>5, <3>1 DEF CheckOutq, Traced
    <3> QED
      BY <2>1, <2>3, <2>5, <3>2 DEF CheckOutq, Covered, Topic, kafkaVars
  <2> QED
    BY <1>4, <2>4, <2>5
<1> QED
  BY <1>2, <1>3, <1>4

LEMMA StepLoss == TypeOK /\ InTurn /\ LossInvariant /\ [Next]_vars => LossInvariant'
<1> SUFFICES ASSUME TypeOK, InTurn, LossInvariant, [Next]_vars PROVE LossInvariant'
  OBVIOUS
<1>1. OkStored' /\ \A x : Traced(x) => Traced(x)'
  BY TracesStay DEF LossInvariant
<1>2. stored \subseteq stored' /\ told \subseteq told' /\ ignored \subseteq ignored'
  BY HistoryGrows
<1>3. /\ pc \in [Processors -> {"idle", "record"} \union AtTopic]
      /\ turn \in [Processors -> 1..Len(TopicOrder) + 1] /\ handed \in Nat
  BY TopicFacts DEF TypeOK, AtTopic
<1>4. ASSUME NEW p \in Processors, StartRow(p) PROVE HandedOver' /\ NoSilentLoss'
  <2>1. /\ pc[p] = "idle" /\ pc'[p] = "record" /\ row'[p] = handed + 1 /\ turn'[p] = 1
        /\ handed' = handed + 1
        /\ \A q \in Processors : q # p => pc'[q] = pc[q] /\ row'[q] = row[q] /\ turn'[q] = turn[q]
    BY <1>4 DEF StartRow, Goto, TypeOK
  <2>2. HandedOver'
    BY <1>1, <2>1 DEF HandedOver, LossInvariant, Topic
  <2>3. ASSUME NEW i \in DOMAIN TopicOrder, NEW r \in RowNumbers, Over(i, r)'
        PROVE  Covered(i, r)'
    <3>1. i \in Nat /\ i >= 1 /\ r \in Nat
      BY TopicFacts
    <3>2. r # handed + 1
      BY <2>1, <2>3, <3>1 DEF Over
    <3>3. r <= handed
      BY <1>3, <2>1, <2>3, <3>1, <3>2 DEF Over
    <3>4. Over(i, r)
      BY <2>1, <2>3, <3>3 DEF Over
    <3>5. Covered(i, r)
      BY <3>4 DEF LossInvariant, NoSilentLoss, Covered
    <3> QED
      BY <1>2, <3>5 DEF Covered
  <2> QED
    BY <2>2, <2>3 DEF NoSilentLoss, Covered
<1>5. ASSUME NEW p \in Processors, IgnoreOld(p) \/ Throw(p) \/ SerializeFails(p) \/ CheckOutq(p)
      PROVE  HandedOver' /\ NoSilentLoss'
  <2>1. /\ pc[p] # "idle" /\ pc'[p] \in {"idle", "record"} /\ handed' = handed /\ row' = row
        /\ \A q \in Processors : q # p => pc'[q] = pc[q] /\ turn'[q] = turn[q]
    BY <1>3, <1>5 DEF IgnoreOld, Throw, SerializeFails, CheckOutq, Goto
  <2>2. HandedOver'
    BY <1>1, <2>1 DEF HandedOver, LossInvariant, Topic
  <2>3. NoSilentLoss'
    BY <1>2, <1>5, <2>1, LeavesTrace, NothingLost DEF LossInvariant
  <2> QED
    BY <2>2, <2>3
<1>6. ASSUME NEW p \in Processors, EndRow(p) PROVE HandedOver' /\ NoSilentLoss'
  <2>1. /\ pc[p] # "idle" /\ pc'[p] = "idle" /\ handed' = handed /\ row' = row
        /\ \A q \in Processors : q # p => pc'[q] = pc[q] /\ turn'[q] = turn[q]
    BY <1>3, <1>6 DEF EndRow, Goto, histVars
  <2>2. \A i \in DOMAIN TopicOrder : i < turn[p]
    BY <1>3, <1>6, TopicFacts DEF EndRow
  <2>3. HandedOver'
    BY <1>1, <2>1 DEF HandedOver, LossInvariant, Topic
  <2>4. NoSilentLoss'
    BY <1>2, <2>1, <2>2, NothingLost DEF LossInvariant
  <2> QED
    BY <2>3, <2>4
<1>7. ASSUME NEW p \in Processors,
             \/ Record(p) \/ Register(p) \/ Serialize(p) \/ Produce(p) \/ QueueFull(p)
             \/ ProduceFails(p) \/ Poll(p) \/ FlushEnds(p)
      PROVE  HandedOver' /\ NoSilentLoss'
  <2>1. /\ pc[p] # "idle" /\ pc'[p] # "idle" /\ handed' = handed /\ row' = row /\ turn' = turn
        /\ \A q \in Processors : q # p => pc'[q] = pc[q]
    BY <1>3, <1>7 DEF Record, Register, Serialize, Produce, QueueFull, ProduceFails, Poll,
         FlushEnds, Goto, histVars
  <2>2. pc'[p] \in {"flush", "check"} => pc[p] = "flush" \/ Produce(p) \/ ProduceFails(p)
    BY <1>3, <1>7 DEF Record, Register, Serialize, QueueFull, Poll, FlushEnds, Goto
  <2>3. Produce(p) \/ ProduceFails(p) => Traced(<<Topic(p), row[p]>>)'
    <3>1. Produce(p) => Message(p) \in sending' /\ Key(Message(p)) = <<Topic(p), row[p]>>
      BY DEF Produce, Message, Key
    <3>2. ProduceFails(p) => <<Topic(p), row[p]>> \in told'
      BY DEF ProduceFails
    <3> QED
      BY <2>1, <3>1, <3>2 DEF Traced, Topic
  <2>4. HandedOver'
    BY <1>1, <2>1, <2>2, <2>3 DEF HandedOver, LossInvariant, Topic
  <2>5. NoSilentLoss'
    BY <1>2, <2>1, NothingLost DEF LossInvariant
  <2> QED
    BY <2>4, <2>5
<1>8. ASSUME UNCHANGED <<handed, procVars>> PROVE HandedOver' /\ NoSilentLoss'
  <2>1. HandedOver'
    BY <1>1, <1>8 DEF HandedOver, LossInvariant, Topic, procVars
  <2>2. \A i, r : Over(i, r)' => Over(i, r)
    BY <1>8 DEF Over, procVars
  <2> QED
    BY <1>2, <2>1, <2>2 DEF NoSilentLoss, LossInvariant
<1>9. ASSUME NEW p \in Processors, RegisterFails(p) \/ FlushServe(p) PROVE HandedOver' /\ NoSilentLoss'
  BY <1>8, <1>9 DEF RegisterFails, FlushServe, histVars
<1>10. CASE KafkaPoller \/ (\E m \in sending : Deliver(m) \/ Fail(m)) \/ UNCHANGED vars
  BY <1>1, <1>8, <1>10 DEF KafkaPoller, Deliver, Fail, vars, histVars, LossInvariant
<1> QED
  BY <1>1, <1>4, <1>5, <1>6, <1>7, <1>9, <1>10 DEF Next, ProcNext, LossInvariant

(* A message that was delivered is stored, and one that publish() waits     *)
(* for is queued, delivered or reported.                                    *)
THEOREM LossInvariantHolds == Spec => []LossInvariant
BY TurnsHold, InitLoss, StepLoss, PTL DEF Spec

(* For each topic that publish() is through with, a row is in Kafka, or the *)
(* log says that it is not, or it was counted as too old: whatever the      *)
(* other processors and the poller take from the producer's queue, and when *)
(* flush() gives up.                                                        *)
THEOREM NoRowIsLostSilently == Spec => []NoSilentLoss
<1>1. LossInvariant => NoSilentLoss
  BY DEF LossInvariant
<1> QED
  BY <1>1, LossInvariantHolds, PTL

-----------------------------------------------------------------------------
(* Retries: a processor that has not got a message into the queue yet finds *)
(* none of its row there for this topic or a later one.                     *)

RowsApart ==
    \A p, q \in Processors : p # q /\ pc[p] # "idle" /\ pc[q] # "idle" => row[p] # row[q]
NewRowsUnknown == \A u \in Topics, r \in RowNumbers : r > handed => accepted[<<u, r>>] = 0
Ahead(p, i) ==
    /\ pc[p] # "idle"
    /\ i > turn[p] \/ (i = turn[p] /\ pc[p] \notin {"flush", "check"})
NotAcceptedYet ==
    \A p \in Processors, i \in 1..Len(TopicOrder) :
        Ahead(p, i) => accepted[<<TopicOrder[i], row[p]>>] = 0

AcceptInvariant == RowsApart /\ NewRowsUnknown /\ NotAcceptedYet /\ AcceptedOnce

LEMMA InitAccept == Init => AcceptInvariant
BY DEF Init, AcceptInvariant, RowsApart, NewRowsUnknown, NotAcceptedYet, Ahead, AcceptedOnce

LEMMA StepAccept == TypeOK /\ InTurn /\ AcceptInvariant /\ [Next]_vars => AcceptInvariant'
<1> SUFFICES ASSUME TypeOK, InTurn, AcceptInvariant, [Next]_vars PROVE AcceptInvariant'
  OBVIOUS
<1> USE DEF AcceptInvariant
<1>1. /\ pc \in [Processors -> {"idle", "record"} \union AtTopic] /\ handed \in 0..MaxRows
      /\ MaxRows \in Nat /\ turn \in [Processors -> 1..Len(TopicOrder) + 1]
      /\ Len(TopicOrder) \in Nat
      /\ \A p \in Processors : pc[p] # "idle" => row[p] \in 1..handed
  BY TopicFacts DEF TypeOK, AtTopic, InTurn
<1>2. ASSUME NEW p \in Processors, StartRow(p) PROVE AcceptInvariant'
  <2>1. /\ pc[p] = "idle" /\ row'[p] = handed + 1 /\ handed' = handed + 1 /\ accepted' = accepted
        /\ handed < MaxRows
        /\ \A q \in Processors : q # p => pc'[q] = pc[q] /\ row'[q] = row[q] /\ turn'[q] = turn[q]
    BY <1>2 DEF StartRow, Goto, TypeOK
  <2>2. RowsApart'
    <3>1. \A q \in Processors : pc[q] # "idle" => row[q] # handed + 1
      BY <1>1
    <3> QED
      BY <2>1, <3>1 DEF RowsApart
  <2>3. NewRowsUnknown'
    <3>1. \A r \in RowNumbers : r > handed + 1 => r > handed
      BY <1>1, TopicFacts
    <3> QED
      BY <2>1, <3>1 DEF NewRowsUnknown
  <2>4. \A u \in Topics : accepted[<<u, handed + 1>>] = 0
    <3>1. handed + 1 \in RowNumbers /\ handed + 1 > handed
      BY <1>1, <2>1, TopicFacts
    <3> QED
      BY <3>1 DEF NewRowsUnknown
  <2>5. NotAcceptedYet'
    <3>1. \A q \in Processors, i \in 1..Len(TopicOrder) : q # p /\ Ahead(q, i)' => Ahead(q, i)
      BY <2>1 DEF Ahead
    <3> QED
      BY <2>1, <2>4, <3>1, TopicFacts DEF NotAcceptedYet
  <2> QED
    BY <2>1, <2>2, <2>3, <2>5 DEF AcceptedOnce
<1>3. ASSUME NEW p \in Processors, Produce(p) PROVE AcceptInvariant'
  <2>1. /\ pc[p] = "produce" /\ pc'[p] = "flush" /\ UNCHANGED <<row, turn, handed>>
        /\ \A q \in Processors : q # p => pc'[q] = pc[q]
    BY <1>1, <1>3 DEF Produce, Goto, AtTopic
  <2>2. turn[p] <= Len(TopicOrder)
    BY <2>1 DEF InTurn, AtTopic
  <2>3. turn[p] \in 1..Len(TopicOrder) /\ row[p] \in 1..handed
        /\ <<Topic(p), row[p]>> \in Topics \X RowNumbers /\ Topic(p) = TopicOrder[turn[p]]
    BY <2>1, <2>2, TopicOf DEF AtTopic, Topic
  <2> DEFINE k == <<Topic(p), row[p]>>
  <2>4. accepted' = [accepted EXCEPT ![k] = @ + 1]
    BY <1>3 DEF Produce, Key, Message
  <2>5. accepted[k] = 0
    BY <2>1, <2>3 DEF NotAcceptedYet, Ahead
  <2>6. accepted'[k] = 1 /\ \A x \in Topics \X RowNumbers : x # k => accepted'[x] = accepted[x]
    BY <2>3, <2>4, <2>5 DEF TypeOK
  <2>7. RowsApart'
    BY <2>1 DEF RowsApart
  <2>8. NewRowsUnknown'
    <3>1. \A r \in RowNumbers : r > handed => r # row[p]
      BY <1>1, <2>3, TopicFacts
    <3>2. \A u \in Topics, r \in RowNumbers : r > handed => accepted'[<<u, r>>] = accepted[<<u, r>>]
      BY <2>6, <3>1
    <3> QED
      BY <2>1, <3>2 DEF NewRowsUnknown
  <2>9. NotAcceptedYet'
    <3>1. SUFFICES ASSUME NEW q \in Processors, NEW i \in 1..Len(TopicOrder), Ahead(q, i)'
                   PROVE  accepted'[<<TopicOrder[i], row[q]>>] = 0
      BY <2>1 DEF NotAcceptedYet
    <3>2. Ahead(q, i)
      BY <2>1, <3>1 DEF Ahead
    <3>3. accepted[<<TopicOrder[i], row[q]>>] = 0
      BY <3>2 DEF NotAcceptedYet
    <3>4. q # p => row[q] # row[p]
      BY <2>1, <3>2 DEF RowsApart, Ahead
    <3>5. q = p => i # turn[p]
      <4>1. q = p => i > turn[p]
        BY <2>1, <3>1 DEF Ahead
      <4> QED
        BY <2>3, <4>1
    <3>6. q = p => TopicOrder[i] # Topic(p)
      BY <2>3, <3>5, TopicFacts
    <3>7. TopicOrder[i] \in Topics /\ row[q] \in RowNumbers
      <4>1. pc[q] # "idle"
        BY <3>2 DEF Ahead
      <4>2. row[q] \in 1..handed
        BY <1>1, <4>1
      <4> QED
        BY <1>1, <4>2, TopicFacts
    <3> QED
      BY <2>6, <3>3, <3>4, <3>6, <3>7
  <2>10. AcceptedOnce'
    BY <2>6 DEF AcceptedOnce
  <2> QED
    BY <2>7, <2>8, <2>9, <2>10
<1>4. ASSUME NEW p \in Processors,
             UNCHANGED <<row, handed, accepted>>, pc[p] # "idle",
             \A q \in Processors : q # p => pc'[q] = pc[q] /\ turn'[q] = turn[q],
             \A i \in 1..Len(TopicOrder) : Ahead(p, i)' => Ahead(p, i)
      PROVE  AcceptInvariant'
  <2>1. RowsApart' /\ NewRowsUnknown' /\ AcceptedOnce'
    BY <1>4 DEF RowsApart, NewRowsUnknown, AcceptedOnce
  <2>2. \A q \in Processors, i \in 1..Len(TopicOrder) : Ahead(q, i)' => Ahead(q, i)
    BY <1>4 DEF Ahead
  <2> QED
    BY <1>4, <2>1, <2>2 DEF NotAcceptedYet
<1>5. ASSUME NEW p \in Processors, EndRow(p) \/ IgnoreOld(p) \/ Throw(p) PROVE AcceptInvariant'
  <2>1. /\ UNCHANGED <<row, handed, accepted, turn>> /\ pc[p] # "idle" /\ pc'[p] = "idle"
        /\ \A q \in Processors : q # p => pc'[q] = pc[q]
    BY <1>1, <1>5 DEF EndRow, IgnoreOld, Throw, Goto, histVars
  <2> QED
    BY <1>4, <2>1 DEF Ahead
<1>6. ASSUME NEW p \in Processors, SerializeFails(p) \/ CheckOutq(p) PROVE AcceptInvariant'
  <2>1. /\ UNCHANGED <<row, handed, accepted>> /\ pc[p] # "idle"
        /\ turn' = [turn EXCEPT ![p] = @ + 1] /\ \A q \in Processors : q # p => pc'[q] = pc[q]
    BY <1>1, <1>6 DEF SerializeFails, CheckOutq, Goto
  <2>2. turn'[p] = turn[p] + 1 /\ \A q \in Processors : q # p => turn'[q] = turn[q]
    BY <1>1, <2>1
  <2>3. \A i \in 1..Len(TopicOrder) : i >= turn[p] + 1 => i > turn[p]
    BY <1>1
  <2>4. \A i \in 1..Len(TopicOrder) : Ahead(p, i)' => i >= turn[p] + 1
    <3>1. \A i \in 1..Len(TopicOrder) : Ahead(p, i)' => i > turn[p] + 1 \/ i = turn[p] + 1
      BY <2>2 DEF Ahead
    <3> QED
      BY <1>1, <3>1
  <2>5. \A i \in 1..Len(TopicOrder) : Ahead(p, i)' => Ahead(p, i)
    <3>1. SUFFICES ASSUME NEW i \in 1..Len(TopicOrder), Ahead(p, i)' PROVE Ahead(p, i)
      OBVIOUS
    <3>2. i > turn[p]
      BY <2>3, <2>4, <3>1
    <3>3. pc[p] # "idle"
      BY <2>1
    <3> QED
      BY <3>2, <3>3 DEF Ahead
  <2> QED
    BY <1>4, <2>1, <2>2, <2>5
<1>7. ASSUME NEW p \in Processors,
             \/ Record(p) \/ Register(p) \/ Serialize(p) \/ QueueFull(p)
             \/ ProduceFails(p) \/ Poll(p) \/ FlushEnds(p)
      PROVE  AcceptInvariant'
  <2>1. /\ UNCHANGED <<row, handed, accepted, turn>> /\ pc[p] # "idle"
        /\ pc[p] \in {"flush", "check"} => pc'[p] \in {"flush", "check"}
        /\ \A q \in Processors : q # p => pc'[q] = pc[q]
    BY <1>1, <1>7 DEF Record, Register, Serialize, QueueFull, ProduceFails, Poll, FlushEnds,
         Goto, histVars
  <2> QED
    BY <1>4, <2>1 DEF Ahead
<1>8. ASSUME UNCHANGED <<procVars, handed, accepted>> PROVE AcceptInvariant'
  BY <1>8 DEF procVars, RowsApart, NewRowsUnknown, NotAcceptedYet, AcceptedOnce, Ahead
<1>9. ASSUME NEW p \in Processors, RegisterFails(p) \/ FlushServe(p) PROVE AcceptInvariant'
  BY <1>8, <1>9 DEF RegisterFails, FlushServe, histVars
<1>10. CASE KafkaPoller \/ (\E m \in sending : Deliver(m) \/ Fail(m)) \/ UNCHANGED vars
  BY <1>8, <1>10 DEF KafkaPoller, Deliver, Fail, vars, histVars
<1> QED
  BY <1>2, <1>3, <1>5, <1>6, <1>7, <1>9, <1>10 DEF Next, ProcNext

(* No message of a topic that publish() has still to do is in the           *)
(* producer, so that a retry cannot double it.                              *)
THEOREM AcceptInvariantHolds == Spec => []AcceptInvariant
BY TurnsHold, InitAccept, StepAccept, PTL DEF Spec

(* However often the queue is full, the producer takes a row once for each  *)
(* topic.                                                                   *)
THEOREM RowsAreAcceptedOnce == Spec => []AcceptedOnce
<1>1. AcceptInvariant => AcceptedOnce
  BY DEF AcceptInvariant
<1> QED
  BY <1>1, AcceptInvariantHolds, PTL
=============================================================================
