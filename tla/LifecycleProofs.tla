--------------------------- MODULE LifecycleProofs ---------------------------
(***************************************************************************)
(* Theorems about Lifecycle, for any processors, pollers and files: no     *)
(* wakeup of the LogProcessor is lost, and when main() returns every       *)
(* thread that used the producer has ended and every message was written.  *)
(***************************************************************************)
EXTENDS Lifecycle, FiniteSetTheorems, SequenceTheorems, TLAPS

(* The processors that active_processors counts. *)
Counted == {"handle", "stream", "leave"}
Busy == {p \in Processors : wpc[p] \in Counted}

(* Why no wakeup is lost: the counter is exact, and as it is changed only   *)
(* under the mutex, it does not become 0 between the test and the sleep.    *)
OnlyProcessorsHandle ==
    \A w \in Workers : wpc[w] \in Counted \union {"notify"} => w \in Processors
ActiveCounted == active = Cardinality(Busy)
LogHolds == m_log_mutex = "LogProcessor" <=> lpc \in {"test", "block"}
BlocksForActive == lpc = "block" => active > 0
UnbornFirst == mpc = "start log" => lpc = "unborn"

WakeupInvariant ==
    OnlyProcessorsHandle /\ ActiveCounted /\ LogHolds /\ BlocksForActive /\ UnbornFirst
    /\ NoLostWakeup

-----------------------------------------------------------------------------
(* Types. *)

LEMMA InitTypes == Init => TypeOK
<1> SUFFICES ASSUME Init PROVE TypeOK
  OBVIOUS
<1>1. log_queue = <<>> /\ logged = <<>> /\ files = 0 /\ MaxFiles \in Nat
  BY ThreadsAssumption DEF Init
<1>2. log_queue \in Seq(Nat) /\ logged \in Seq(Nat) /\ files \in 0..MaxFiles
  BY <1>1
<1> QED
  BY <1>1, <1>2 DEF Init, TypeOK

(* What a message of a thread does to the queue. *)
LEMMA LogMessageTypes ==
    ASSUME TypeOK, LogMessage
    PROVE  enqueued' \in Nat /\ log_queue' \in Seq(Nat)
<1>1. enqueued' = enqueued + 1 /\ log_queue' = Append(log_queue, enqueued')
  BY DEF LogMessage
<1>2. enqueued \in Nat /\ log_queue \in Seq(Nat)
  BY DEF TypeOK
<1>3. enqueued' \in Nat
  BY <1>1, <1>2
<1> QED
  BY <1>1, <1>2, <1>3, AppendProperties

LEMMA TakeTypes ==
    ASSUME TypeOK, Take
    PROVE  log_queue' \in Seq(Nat) /\ logged' \in Seq(Nat)
<1>1. log_queue \in Seq(Nat) /\ logged \in Seq(Nat) /\ log_queue # <<>>
  BY DEF TypeOK, Take
<1>2. Head(log_queue) \in Nat /\ Tail(log_queue) \in Seq(Nat)
  BY <1>1, HeadTailProperties
<1> QED
  BY <1>1, <1>2, AppendProperties DEF Take

LEMMA MainStepTypes == TypeOK /\ (SignalThread \/ MainNext) => TypeOK'
<1> SUFFICES ASSUME TypeOK, SignalThread \/ MainNext PROVE TypeOK'
  OBVIOUS
<1> USE DEF MainGoto, workVars, queueVars, logVars
<1>1. CASE SignalThread
  BY <1>1 DEF SignalThread, TypeOK
<1>2. CASE StartLogProcessor
  BY <1>2 DEF StartLogProcessor, TypeOK
<1>3. CASE StartKafkaPoller
  <2>1. enqueued' \in Nat /\ log_queue' \in Seq(Nat)
    BY <1>3, LogMessageTypes DEF StartKafkaPoller
  <2> QED
    BY <1>3, <2>1 DEF StartKafkaPoller, TypeOK
<1>4. ASSUME NEW w \in Workers, StartWorker(w) PROVE TypeOK'
  BY <1>4 DEF StartWorker, TypeOK
<1>5. CASE JoinWorkers
  BY <1>5 DEF JoinWorkers, TypeOK
<1>6. CASE JoinKafkaPoller
  BY <1>6 DEF JoinKafkaPoller, TypeOK
<1>7. CASE StopLogProcessor
  BY <1>7 DEF StopLogProcessor, TypeOK
<1>8. CASE JoinLogProcessor
  BY <1>8 DEF JoinLogProcessor, TypeOK
<1> QED
  BY <1>1, <1>2, <1>3, <1>4, <1>5, <1>6, <1>7, <1>8 DEF MainNext

LEMMA WorkerStepTypes ==
    ASSUME TypeOK, WakeupInvariant, NEW w \in Workers, WorkerNext(w)
    PROVE  TypeOK'
<1> USE DEF WorkerGoto, mainVars, queueVars, logVars
<1>1. CASE CheckShutdown(w)
  BY <1>1 DEF CheckShutdown, TypeOK
<1>2. CASE IdleStep(w) \/ PollReturns(w)
  BY <1>2 DEF IdleStep, PollReturns, TypeOK
<1>3. CASE EnterHandle(w)
  <2>1. /\ files < MaxFiles /\ files' = files + 1 /\ active' = active + 1
        /\ files \in 0..MaxFiles /\ active \in Nat /\ MaxFiles \in Nat
    BY <1>3, ThreadsAssumption DEF EnterHandle, TypeOK
  <2>2. files' \in 0..MaxFiles /\ active' \in Nat
    BY <2>1
  <2> QED
    BY <1>3, <2>2 DEF EnterHandle, TypeOK
<1>4. CASE LogProcessing(w) \/ LogDone(w) \/ EndWorker(w)
  <2>1. enqueued' \in Nat /\ log_queue' \in Seq(Nat)
    BY <1>4, LogMessageTypes DEF LogProcessing, LogDone, EndWorker
  <2>2. CASE LogProcessing(w)
    BY <2>1, <2>2 DEF LogProcessing, TypeOK
  <2>3. CASE LogDone(w)
    BY <2>1, <2>3 DEF LogDone, TypeOK
  <2>4. CASE EndWorker(w)
    BY <2>1, <2>4 DEF EndWorker, TypeOK
  <2> QED
    BY <1>4, <2>2, <2>3, <2>4
<1>5. CASE LeaveHandle(w)
  <2>1. active > 0
    <3>1. w \in Busy /\ IsFiniteSet(Busy)
      BY <1>5, ThreadsAssumption, FS_Subset
         DEF LeaveHandle, WakeupInvariant, OnlyProcessorsHandle, Counted, Busy, Workers
    <3>2. Cardinality(Busy) # 0 /\ Cardinality(Busy) \in Nat
      BY <3>1, FS_EmptySet, FS_CardinalityType
    <3> QED
      BY <3>2 DEF WakeupInvariant, ActiveCounted
  <2>2. active' \in Nat
    <3>1. active' = active - 1 /\ active \in Nat
      BY <1>5 DEF LeaveHandle, TypeOK
    <3> QED
      BY <2>1, <3>1
  <2> QED
    BY <1>5, <2>2 DEF LeaveHandle, TypeOK
<1>6. CASE NotifyLog(w)
  BY <1>6 DEF NotifyLog, TypeOK
<1> QED
  BY <1>1, <1>2, <1>3, <1>4, <1>5, <1>6 DEF WorkerNext, WorkerStep

LEMMA LogStepTypes ==
    ASSUME TypeOK, LogProcessorNext \/ SpuriousWakeup \/ HourPasses
    PROVE  TypeOK'
<1> USE DEF LogGoto, mainVars, workVars, queueVars
<1>1. CASE Run \/ While \/ Sleep
  BY <1>1 DEF Run, While, Sleep, TypeOK
<1>2. CASE LockLog \/ TestActive \/ BlockOnLog \/ RelockLog \/ SpuriousWakeup \/ HourPasses
  BY <1>2 DEF LockLog, TestActive, BlockOnLog, RelockLog, SpuriousWakeup, HourPasses, TypeOK
<1>3. CASE LogNext \/ DrainNext
  <2>1. log_queue' \in Seq(Nat) /\ logged' \in Seq(Nat)
    BY <1>3, TakeTypes DEF LogNext, DrainNext
  <2> QED
    BY <1>3, <2>1 DEF LogNext, DrainNext, TypeOK
<1>4. CASE DrainTimeout
  BY <1>4 DEF DrainTimeout, TypeOK
<1> QED
  BY <1>1, <1>2, <1>3, <1>4 DEF LogProcessorNext

-----------------------------------------------------------------------------
(* Wakeups. *)

LEMMA InitWakeup == Init => WakeupInvariant
<1> SUFFICES ASSUME Init PROVE WakeupInvariant
  OBVIOUS
<1>1. Busy = {}
  BY DEF Init, Busy, Counted, Workers
<1>2. ActiveCounted
  BY <1>1, FS_EmptySet DEF Init, ActiveCounted
<1> QED
  BY <1>2, ThreadsAssumption
     DEF Init, WakeupInvariant, OnlyProcessorsHandle, Counted, LogHolds, BlocksForActive,
         UnbornFirst, NoLostWakeup

(* A step that neither counts nor touches the mutex or the LogProcessor. *)
LEMMA QuietKeepsWakeup ==
    ASSUME TypeOK, WakeupInvariant, UNCHANGED <<active, m_log_mutex, lpc>>,
           mpc' = "start log" => mpc = "start log",
           \A w \in Workers : \/ wpc'[w] = wpc[w]
                              \/ /\ wpc[w] \in Counted <=> wpc'[w] \in Counted
                                 /\ wpc[w] # "notify" /\ wpc'[w] # "notify"
    PROVE  WakeupInvariant'
<1> USE DEF WakeupInvariant
<1>1. OnlyProcessorsHandle' /\ NoLostWakeup'
  BY DEF OnlyProcessorsHandle, NoLostWakeup, Workers
<1>2. Busy' = Busy
  BY DEF Busy, Workers
<1> QED
  BY <1>1, <1>2 DEF ActiveCounted, LogHolds, BlocksForActive, UnbornFirst

LEMMA MainStepWakeup ==
    ASSUME TypeOK, WakeupInvariant, SignalThread \/ MainNext
    PROVE  WakeupInvariant'
<1> USE DEF MainGoto, workVars, logVars
<1>1. CASE SignalThread
  BY <1>1, QuietKeepsWakeup DEF SignalThread
<1>2. CASE StartLogProcessor
  <2>1. UNCHANGED <<wpc, active, m_log_mutex>> /\ lpc = "unborn" /\ lpc' = "run"
        /\ mpc' # "start log"
    BY <1>2 DEF StartLogProcessor, WakeupInvariant, UnbornFirst
  <2>2. Busy' = Busy
    BY <2>1 DEF Busy
  <2> QED
    BY <2>1, <2>2 DEF WakeupInvariant, OnlyProcessorsHandle, ActiveCounted, LogHolds,
                      BlocksForActive, UnbornFirst, NoLostWakeup
<1>3. CASE StartKafkaPoller
  <2>1. wpc' = [wpc EXCEPT ![KafkaPoller] = "check"] /\ UNCHANGED <<active, m_log_mutex, lpc>>
        /\ mpc' # "start log"
    BY <1>3 DEF StartKafkaPoller
  <2>2. KafkaPoller \notin Processors /\ KafkaPoller \in Workers
    BY ThreadsAssumption DEF Workers
  <2>3. wpc[KafkaPoller] \notin Counted \union {"notify"}
    BY <2>2 DEF WakeupInvariant, OnlyProcessorsHandle
  <2> QED
    BY <2>1, <2>3, QuietKeepsWakeup DEF TypeOK, Counted
<1>4. ASSUME NEW w \in Workers, StartWorker(w) PROVE WakeupInvariant'
  BY <1>4, QuietKeepsWakeup DEF StartWorker, TypeOK, Counted
<1>5. CASE JoinWorkers \/ JoinKafkaPoller \/ StopLogProcessor \/ JoinLogProcessor
  BY <1>5, QuietKeepsWakeup DEF JoinWorkers, JoinKafkaPoller, StopLogProcessor, JoinLogProcessor
<1> QED
  BY <1>1, <1>2, <1>3, <1>4, <1>5 DEF MainNext

(* A step of one worker. *)
LEMMA OthersStay ==
    ASSUME TypeOK, NEW w \in Workers, NEW to, wpc' = [wpc EXCEPT ![w] = to]
    PROVE  wpc'[w] = to /\ \A p \in Processors : p # w => wpc'[p] = wpc[p]
BY DEF TypeOK, Workers

LEMMA WorkerStepWakeup ==
    ASSUME TypeOK, WakeupInvariant, NEW w \in Workers, WorkerNext(w)
    PROVE  WakeupInvariant'
<1> USE DEF WorkerGoto, mainVars, logVars
<1>1. IsFiniteSet(Busy)
  BY ThreadsAssumption, FS_Subset DEF Busy, Workers
<1>2. CASE \/ CheckShutdown(w) \/ IdleStep(w) \/ PollReturns(w)
         \/ LogProcessing(w) \/ LogDone(w) \/ EndWorker(w)
  BY <1>2, QuietKeepsWakeup
     DEF CheckShutdown, IdleStep, PollReturns, LogProcessing, LogDone, EndWorker, TypeOK, Counted
<1>3. CASE EnterHandle(w)
  <2>1. /\ w \in Processors /\ wpc[w] = "step" /\ wpc' = [wpc EXCEPT ![w] = "handle"]
        /\ m_log_mutex = None /\ active' = active + 1 /\ UNCHANGED <<mpc, m_log_mutex, lpc>>
    BY <1>3 DEF EnterHandle
  <2>2. Busy' = Busy \union {w} /\ w \notin Busy
    BY <2>1, OthersStay DEF Busy, Counted
  <2>3. ActiveCounted'
    BY <1>1, <2>1, <2>2, FS_AddElement DEF WakeupInvariant, ActiveCounted
  <2>4. OnlyProcessorsHandle'
    BY <2>1 DEF WakeupInvariant, OnlyProcessorsHandle, TypeOK
  <2>5. active \in Nat
    BY DEF TypeOK
  <2>6. active' > 0
    BY <2>1, <2>5
  <2>7. LogHolds' /\ BlocksForActive' /\ UnbornFirst' /\ NoLostWakeup'
    BY <2>1, <2>6 DEF WakeupInvariant, LogHolds, BlocksForActive, UnbornFirst, NoLostWakeup
  <2> QED
    BY <2>3, <2>4, <2>7 DEF WakeupInvariant
<1>4. CASE LeaveHandle(w)
  <2>1. /\ wpc[w] = "leave" /\ wpc' = [wpc EXCEPT ![w] = "notify"] /\ m_log_mutex = None
        /\ active' = active - 1 /\ UNCHANGED <<mpc, m_log_mutex, lpc>>
    BY <1>4 DEF LeaveHandle
  <2>2. w \in Processors
    BY <2>1 DEF WakeupInvariant, OnlyProcessorsHandle, Counted
  <2>3. Busy' = Busy \ {w} /\ w \in Busy
    <3>1. wpc'[w] = "notify" /\ \A p \in Processors : p # w => wpc'[p] = wpc[p]
      BY <2>1, OthersStay
    <3> QED
      BY <2>1, <2>2, <3>1 DEF Busy, Counted
  <2>4. ActiveCounted'
    BY <1>1, <2>1, <2>3, FS_RemoveElement DEF WakeupInvariant, ActiveCounted
  <2>5. OnlyProcessorsHandle'
    BY <2>1, <2>2 DEF WakeupInvariant, OnlyProcessorsHandle, TypeOK
  <2>6. None # "LogProcessor"
    BY ThreadsAssumption
  <2>7. LogHolds' /\ UnbornFirst' /\ BlocksForActive'
    BY <2>1, <2>6 DEF WakeupInvariant, LogHolds, UnbornFirst, BlocksForActive
  <2>8. NoLostWakeup'
    BY <2>1, <2>2 DEF NoLostWakeup, TypeOK
  <2> QED
    BY <2>4, <2>5, <2>7, <2>8 DEF WakeupInvariant
<1>5. CASE NotifyLog(w)
  <2>1. /\ wpc[w] = "notify" /\ wpc' = [wpc EXCEPT ![w] = "check"]
        /\ lpc' = (IF lpc = "wait" THEN "relock" ELSE lpc)
        /\ UNCHANGED <<mpc, active, m_log_mutex>>
    BY <1>5 DEF NotifyLog
  <2>2. Busy' = Busy
    BY <2>1, OthersStay DEF Busy, Counted
  <2>3. OnlyProcessorsHandle' /\ ActiveCounted'
    BY <2>1, <2>2 DEF WakeupInvariant, OnlyProcessorsHandle, ActiveCounted, TypeOK, Counted
  <2>4. LogHolds' /\ BlocksForActive' /\ UnbornFirst' /\ NoLostWakeup'
    BY <2>1 DEF WakeupInvariant, LogHolds, BlocksForActive, UnbornFirst, NoLostWakeup
  <2> QED
    BY <2>3, <2>4 DEF WakeupInvariant
<1> QED
  BY <1>2, <1>3, <1>4, <1>5 DEF WorkerNext, WorkerStep

(* The LogProcessor's own steps leave the processors alone. *)
LEMMA LogStepWakeup ==
    ASSUME TypeOK, WakeupInvariant, LogProcessorNext \/ SpuriousWakeup \/ HourPasses
    PROVE  WakeupInvariant'
<1> USE DEF LogGoto, mainVars, workVars
<1>1. UNCHANGED <<wpc, active, mpc>> /\ lpc # "unborn"
  BY DEF LogProcessorNext, Run, While, LockLog, TestActive, BlockOnLog, RelockLog, LogNext, Sleep,
         DrainNext, DrainTimeout, SpuriousWakeup, HourPasses
<1>2. Busy' = Busy
  BY <1>1 DEF Busy
<1>3. OnlyProcessorsHandle' /\ ActiveCounted' /\ UnbornFirst'
  BY <1>1, <1>2 DEF WakeupInvariant, OnlyProcessorsHandle, ActiveCounted, UnbornFirst
<1>4. None # "LogProcessor"
  BY ThreadsAssumption
<1>5. LogHolds'
  BY <1>4 DEF WakeupInvariant, LogHolds, LogProcessorNext, Run, While, LockLog, TestActive,
         BlockOnLog, RelockLog, LogNext, Sleep, DrainNext, DrainTimeout, SpuriousWakeup, HourPasses
<1>6. /\ lpc' = "block" => lpc = "test" /\ active # 0
      /\ lpc' = "wait" => lpc = "block"
  BY DEF LogProcessorNext, Run, While, LockLog, TestActive, BlockOnLog, RelockLog, LogNext, Sleep,
         DrainNext, DrainTimeout, SpuriousWakeup, HourPasses
<1>7. active \in Nat
  BY DEF TypeOK
<1>8. BlocksForActive' /\ NoLostWakeup'
  BY <1>1, <1>6, <1>7 DEF WakeupInvariant, BlocksForActive, NoLostWakeup
<1> QED
  BY <1>3, <1>5, <1>8 DEF WakeupInvariant

LEMMA StepWakeup == TypeOK /\ WakeupInvariant /\ [Next]_vars => TypeOK' /\ WakeupInvariant'
<1> SUFFICES ASSUME TypeOK, WakeupInvariant, [Next]_vars PROVE TypeOK' /\ WakeupInvariant'
  OBVIOUS
<1>1. CASE UNCHANGED vars
  <2>1. TypeOK'
    BY <1>1 DEF TypeOK, vars, mainVars, workVars, queueVars, logVars
  <2>2. WakeupInvariant'
    BY <1>1, QuietKeepsWakeup DEF vars, mainVars, workVars, logVars
  <2> QED
    BY <2>1, <2>2
<1> QED
  BY <1>1, MainStepTypes, WorkerStepTypes, LogStepTypes, MainStepWakeup, WorkerStepWakeup,
     LogStepWakeup DEF Next

(* The counter of active processors is exact, and the LogProcessor goes to  *)
(* sleep only while it is not 0.                                            *)
THEOREM WakeupInvariantHolds == Spec => [](TypeOK /\ WakeupInvariant)
BY InitTypes, InitWakeup, StepWakeup, PTL DEF Spec

(* Every variable keeps to its type; the counter does not become negative. *)
THEOREM LifecycleTypes == Spec => []TypeOK
BY WakeupInvariantHolds, PTL

(* The LogProcessor does not sleep on log_cv while no processor is at a     *)
(* file, unless the notification is on its way: for any number of           *)
(* processors, and although they notify after they released the mutex.      *)
THEOREM LogProcessorIsWoken == Spec => []NoLostWakeup
<1>1. WakeupInvariant => NoLostWakeup
  BY DEF WakeupInvariant
<1> QED
  BY <1>1, WakeupInvariantHolds, PTL

-----------------------------------------------------------------------------
(* The end.  What is waited for before main() returns: the workers, then    *)
(* the LogProcessor, which drains the queue after stop() only.  Nobody is   *)
(* left then who could enqueue a message behind its back.                   *)

AllJoined == {"stop log", "join log", "returned"}
Stopping == {"join log", "returned"}

WorkersJoined ==
    /\ mpc \in {"join kafka"} \union AllJoined => \A w \in Workers \ {KafkaPoller} : wpc[w] = "ended"
    /\ mpc \in AllJoined => wpc[KafkaPoller] = "ended"
StoppedByMain == lpc \notin {"unborn", "run"} /\ ~m_should_run => mpc \in Stopping
DrainsLast == lpc \in {"drain", "ended"} => mpc \in Stopping
Drained == lpc = "ended" => log_queue = <<>>
ReturnsLast == mpc = "returned" => lpc = "ended"

(* The messages written and the messages that wait are all there ever were. *)
Numbered ==
    /\ Len(logged) + Len(log_queue) = enqueued
    /\ \A i \in 1..Len(logged) : logged[i] = i
    /\ \A i \in 1..Len(log_queue) : log_queue[i] = Len(logged) + i

ExitInvariant ==
    WorkersJoined /\ StoppedByMain /\ DrainsLast /\ Drained /\ ReturnsLast /\ Numbered

LEMMA InitExit == Init => ExitInvariant
<1> SUFFICES ASSUME Init PROVE ExitInvariant
  OBVIOUS
<1>1. Numbered
  <2>1. log_queue = <<>> /\ logged = <<>> /\ enqueued = 0
    BY DEF Init
  <2> QED
    BY <2>1 DEF Numbered
<1> QED
  BY <1>1 DEF Init, ExitInvariant, WorkersJoined, AllJoined, StoppedByMain, DrainsLast, Drained,
              ReturnsLast

LEMMA LogMessageNumbered ==
    ASSUME TypeOK, Numbered, LogMessage, UNCHANGED logged
    PROVE  Numbered'
<1>1. /\ enqueued' = enqueued + 1 /\ log_queue' = Append(log_queue, enqueued')
      /\ enqueued \in Nat /\ log_queue \in Seq(Nat) /\ logged \in Seq(Nat)
  <2>1. enqueued \in Nat /\ log_queue \in Seq(Nat) /\ logged \in Seq(Nat)
    BY DEF TypeOK
  <2> QED
    BY <2>1 DEF LogMessage
<1>2. /\ Len(log_queue') = Len(log_queue) + 1
      /\ \A i \in 1..Len(log_queue) : log_queue'[i] = log_queue[i]
      /\ log_queue'[Len(log_queue) + 1] = enqueued + 1
      /\ Len(log_queue) \in Nat /\ Len(logged) \in Nat
  <2>1. enqueued' \in Nat
    BY <1>1
  <2> QED
    BY <1>1, <2>1, AppendProperties
<1>3. Len(logged) + Len(log_queue') = enqueued'
  BY <1>1, <1>2 DEF Numbered
<1>4. ASSUME NEW i \in 1..Len(log_queue') PROVE log_queue'[i] = Len(logged) + i
  <2>1. CASE i \in 1..Len(log_queue)
    BY <1>2, <2>1 DEF Numbered
  <2>2. CASE i = Len(log_queue) + 1
    BY <1>1, <1>2, <2>2 DEF Numbered
  <2> QED
    BY <1>2, <2>1, <2>2
<1> QED
  BY <1>3, <1>4 DEF Numbered

LEMMA TakeNumbered ==
    ASSUME TypeOK, Numbered, Take, UNCHANGED enqueued
    PROVE  Numbered'
<1>1. /\ log_queue \in Seq(Nat) /\ logged \in Seq(Nat) /\ log_queue # <<>>
      /\ log_queue' = Tail(log_queue) /\ logged' = Append(logged, Head(log_queue))
  BY DEF Take, TypeOK
<1>2. /\ Len(log_queue') = Len(log_queue) - 1 /\ Head(log_queue) = log_queue[1]
      /\ \A i \in 1..Len(log_queue') : log_queue'[i] = log_queue[i + 1]
      /\ Len(log_queue) \in Nat \ {0} /\ Len(logged) \in Nat /\ Head(log_queue) \in Nat
  BY <1>1, HeadTailProperties
<1>3. /\ Len(logged') = Len(logged) + 1
      /\ \A i \in 1..Len(logged) : logged'[i] = logged[i]
      /\ logged'[Len(logged) + 1] = log_queue[1]
  BY <1>1, <1>2, AppendProperties
<1>4. log_queue[1] = Len(logged) + 1
  BY <1>2 DEF Numbered
<1>5. Len(logged') + Len(log_queue') = enqueued
  BY <1>2, <1>3 DEF Numbered
<1>6. ASSUME NEW i \in 1..Len(logged') PROVE logged'[i] = i
  BY <1>2, <1>3, <1>4 DEF Numbered
<1>7. ASSUME NEW i \in 1..Len(log_queue') PROVE log_queue'[i] = Len(logged') + i
  <2>1. i + 1 \in 1..Len(log_queue)
    BY <1>2
  <2>2. log_queue'[i] = Len(logged) + (i + 1)
    BY <1>2, <2>1 DEF Numbered
  <2> QED
    BY <1>2, <1>3, <2>2
<1> QED
  BY <1>5, <1>6, <1>7 DEF Numbered

(* main() waits for each of them in its order. *)
LEMMA MainStepExit ==
    ASSUME TypeOK, ExitInvariant, SignalThread \/ MainNext
    PROVE  ExitInvariant'
<1> USE DEF MainGoto, workVars, queueVars, logVars, ExitInvariant, WorkersJoined, AllJoined,
            StoppedByMain, DrainsLast, Drained, ReturnsLast, Stopping
<1>1. CASE StartKafkaPoller
  <2>1. Numbered'
    BY <1>1, LogMessageNumbered DEF StartKafkaPoller
  <2> QED
    BY <1>1, <2>1 DEF StartKafkaPoller
<1>2. CASE ~StartKafkaPoller
  <2>1. UNCHANGED queueVars /\ UNCHANGED logged
    BY <1>2 DEF SignalThread, MainNext, StartLogProcessor, StartWorker, JoinWorkers, JoinKafkaPoller,
                StopLogProcessor, JoinLogProcessor
  <2>2. Numbered'
    BY <2>1 DEF Numbered
  <2>3. CASE SignalThread
    BY <2>2, <2>3 DEF SignalThread
  <2>4. CASE StartLogProcessor
    BY <2>2, <2>4 DEF StartLogProcessor
  <2>5. ASSUME NEW w \in Workers, StartWorker(w) PROVE ExitInvariant'
    BY <2>2, <2>5 DEF StartWorker
  <2>6. CASE JoinWorkers
    BY <2>2, <2>6 DEF JoinWorkers
  <2>7. CASE JoinKafkaPoller
    BY <2>2, <2>7 DEF JoinKafkaPoller
  <2>8. CASE StopLogProcessor
    BY <2>2, <2>8 DEF StopLogProcessor
  <2>9. CASE JoinLogProcessor
    BY <2>2, <2>9 DEF JoinLogProcessor
  <2> QED
    BY <1>2, <2>3, <2>4, <2>5, <2>6, <2>7, <2>8, <2>9 DEF MainNext
<1> QED
  BY <1>1, <1>2

(* A worker that can still take a step has not been joined, and main() has  *)
(* not got to the LogProcessor.                                             *)
LEMMA WorkerStepExit ==
    ASSUME TypeOK, ExitInvariant, NEW w \in Workers, WorkerNext(w)
    PROVE  ExitInvariant'
<1> USE DEF WorkerGoto, mainVars, queueVars, logVars, ExitInvariant
<1>1. wpc[w] # "ended"
  BY DEF WorkerNext, WorkerStep, CheckShutdown, IdleStep, PollReturns, EnterHandle, LogProcessing, LogDone, LeaveHandle,
         NotifyLog, EndWorker
<1>2. mpc \notin AllJoined
  BY <1>1 DEF WorkersJoined, AllJoined
<1>3. lpc \notin {"drain", "ended"}
  BY <1>2 DEF DrainsLast, Stopping, AllJoined
<1>4. /\ UNCHANGED <<mpc, m_should_run, logged>>
      /\ lpc' = lpc \/ (lpc = "wait" /\ lpc' = "relock")
      /\ \A v \in Workers : v # w => wpc'[v] = wpc[v]
  BY DEF WorkerNext, WorkerStep, CheckShutdown, IdleStep, PollReturns, EnterHandle, LogProcessing, LogDone, LeaveHandle,
         NotifyLog, EndWorker, TypeOK
<1>5. WorkersJoined'
  BY <1>1, <1>2, <1>4 DEF WorkersJoined, AllJoined
<1>6. StoppedByMain' /\ DrainsLast' /\ Drained' /\ ReturnsLast'
  BY <1>2, <1>3, <1>4 DEF StoppedByMain, DrainsLast, Drained, ReturnsLast, AllJoined
<1>7. Numbered'
  <2>1. CASE LogProcessing(w) \/ LogDone(w) \/ EndWorker(w)
    BY <2>1, LogMessageNumbered DEF LogProcessing, LogDone, EndWorker
  <2>2. CASE UNCHANGED queueVars
    BY <1>4, <2>2 DEF Numbered
  <2> QED
    BY <2>1, <2>2 DEF WorkerNext, WorkerStep, CheckShutdown, IdleStep, PollReturns, EnterHandle, LeaveHandle, NotifyLog
<1> QED
  BY <1>5, <1>6, <1>7

LEMMA LogStepExit ==
    ASSUME TypeOK, ExitInvariant, LogProcessorNext \/ SpuriousWakeup \/ HourPasses
    PROVE  ExitInvariant'
<1> USE DEF LogGoto, mainVars, workVars, queueVars, ExitInvariant
<1>1. UNCHANGED <<mpc, wpc>> /\ lpc # "ended" /\ lpc # "unborn"
  BY DEF LogProcessorNext, Run, While, LockLog, TestActive, BlockOnLog, RelockLog, LogNext, Sleep,
         DrainNext, DrainTimeout, SpuriousWakeup, HourPasses
<1>2. WorkersJoined' /\ ReturnsLast'
  BY <1>1 DEF WorkersJoined, ReturnsLast
<1>3. StoppedByMain'
  BY <1>1 DEF StoppedByMain, LogProcessorNext, Run, While, LockLog, TestActive, BlockOnLog, RelockLog,
              LogNext, Sleep, DrainNext, DrainTimeout, SpuriousWakeup, HourPasses
<1>4. DrainsLast'
  <2>1. lpc' \in {"drain", "ended"} => lpc = "drain" \/ (lpc = "while" /\ ~m_should_run)
    BY DEF LogProcessorNext, Run, While, LockLog, TestActive, BlockOnLog, RelockLog,
           LogNext, Sleep, DrainNext, DrainTimeout, SpuriousWakeup, HourPasses
  <2> QED
    BY <1>1, <2>1 DEF StoppedByMain, DrainsLast
<1>5. Drained'
  BY DEF Drained, LogProcessorNext, Run, While, LockLog, TestActive, BlockOnLog, RelockLog,
         LogNext, Sleep, DrainNext, DrainTimeout, SpuriousWakeup, HourPasses
<1>6. Numbered'
  <2>1. CASE LogNext \/ DrainNext
    BY <2>1, TakeNumbered DEF LogNext, DrainNext
  <2>2. CASE UNCHANGED <<log_queue, enqueued, logged>>
    BY <2>2 DEF Numbered
  <2> QED
    BY <2>1, <2>2 DEF LogProcessorNext, Run, While, LockLog, TestActive, BlockOnLog, RelockLog,
                      Sleep, DrainTimeout, SpuriousWakeup, HourPasses
<1> QED
  BY <1>2, <1>3, <1>4, <1>5, <1>6

LEMMA StepExit == TypeOK /\ ExitInvariant /\ [Next]_vars => ExitInvariant'
<1> SUFFICES ASSUME TypeOK, ExitInvariant, [Next]_vars PROVE ExitInvariant'
  OBVIOUS
<1>1. CASE UNCHANGED vars
  BY <1>1 DEF ExitInvariant, WorkersJoined, StoppedByMain, DrainsLast, Drained, ReturnsLast, Numbered,
              vars, mainVars, workVars, queueVars, logVars
<1> QED
  BY <1>1, MainStepExit, WorkerStepExit, LogStepExit DEF Next

(* main() is behind a join only when the thread has ended, the log is       *)
(* drained after the last worker, and the messages written and waiting are  *)
(* all there were, in order.                                                *)
THEOREM ExitInvariantHolds == Spec => []ExitInvariant
BY InitExit, StepExit, LifecycleTypes, PTL DEF Spec

(* When main() returns and the producer is deleted, every worker has ended, *)
(* the KafkaPoller too, which is joined by itself.                          *)
THEOREM ProducerIsDeletedLast == Spec => []ProducerOutlivesUse
<1>1. ExitInvariant => ProducerOutlivesUse
  BY ThreadsAssumption
     DEF ExitInvariant, WorkersJoined, AllJoined, ProducerOutlivesUse, Workers
<1> QED
  BY <1>1, ExitInvariantHolds, PTL

(* Then every message that was ever enqueued has been written, once and in  *)
(* the order of the calls, whatever the value of m_should_run was before    *)
(* run() and whenever stop() came.                                          *)
THEOREM NoMessageIsLost == Spec => []AllLogged
<1>1. ASSUME TypeOK, ExitInvariant, mpc = "returned" PROVE logged = [i \in 1..enqueued |-> i]
  <2>1. log_queue = <<>> /\ logged \in Seq(Nat) /\ enqueued \in Nat
    BY <1>1 DEF TypeOK, ExitInvariant, ReturnsLast, Drained
  <2>2. Len(logged) = enqueued /\ \A i \in 1..enqueued : logged[i] = i
    BY <1>1, <2>1 DEF ExitInvariant, Numbered
  <2> QED
    BY <2>1, <2>2
<1>2. TypeOK /\ ExitInvariant => AllLogged
  BY <1>1 DEF AllLogged
<1> QED
  BY <1>2, ExitInvariantHolds, LifecycleTypes, PTL
=============================================================================
