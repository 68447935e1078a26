------------------------------ MODULE Lifecycle ------------------------------
(***************************************************************************)
(* The threads of the process from start to exit: main() starts and joins  *)
(* them, the workers run until shutdown is requested, and the LogProcessor *)
(* writes what the others put in log_queue.  It gives way to processors    *)
(* that are busy with a file: they are counted under log_cv_mutex and      *)
(* announce the end of a file on log_cv.                                   *)
(*                                                                         *)
(* log_queue is a FIFO queue with atomic operations: SafeQueue implements  *)
(* that.  Messages are numbered in the order of their enqueue().  Of the   *)
(* messages only a few are kept: one of a thread that starts or ends, and  *)
(* the first and the last of a file; those of main(), the poller and the   *)
(* rows are left out.                                                      *)
(***************************************************************************)
EXTENDS Naturals, Sequences, FiniteSets

CONSTANTS
    Processors,   \* the CsvProcessor threads
    Pollers,      \* the other workers: the DirectoryPoller and the KafkaPoller
    KafkaPoller,  \* the one that main() joins by itself, after the others
    None,
    MaxFiles      \* bound: files that the processors handle

Workers == Processors \union Pollers

ASSUME ThreadsAssumption ==
    /\ IsFiniteSet(Workers) /\ Processors \intersect Pollers = {}
    /\ KafkaPoller \in Pollers /\ None \notin Workers \union {"LogProcessor"}
    /\ MaxFiles \in Nat

VARIABLES
    m_shutdown_requested,
    mpc,          \* main()
    wpc,          \* [Workers -> ...]
    files,        \* files handled so far
    \* shared with the LogProcessor
    active,       \* active_processors
    m_log_mutex,  \* holder of log_cv_mutex, or None
    log_queue, enqueued,  \* messages waiting; how many there ever were
    \* the LogProcessor
    lpc, m_should_run,
    logged        \* history: the messages written, in order

mainVars == <<m_shutdown_requested, mpc>>
workVars == <<wpc, files>>
queueVars == <<log_queue, enqueued>>
logVars == <<lpc, m_should_run, logged>>
vars == <<mainVars, workVars, active, m_log_mutex, queueVars, logVars>>

(* Logging::INFO and Logging::ERROR *)
LogMessage ==
    /\ enqueued' = enqueued + 1
    /\ log_queue' = Append(log_queue, enqueued')

-----------------------------------------------------------------------------
(* The signal thread and main(). *)

SignalThread ==
    /\ ~m_shutdown_requested
    /\ m_shutdown_requested' = TRUE
    /\ UNCHANGED <<mpc, workVars, active, m_log_mutex, queueVars, logVars>>

MainGoto(from, to) == mpc = from /\ mpc' = to

StartLogProcessor ==
    /\ MainGoto("start log", "start kafka")
    /\ lpc' = "run"
    /\ UNCHANGED <<m_shutdown_requested, workVars, active, m_log_mutex, queueVars, m_should_run, logged>>

(* KafkaPoller::start() logs "Started". *)
StartKafkaPoller ==
    /\ MainGoto("start kafka", "start workers")
    /\ wpc' = [wpc EXCEPT ![KafkaPoller] = "check"]
    /\ LogMessage
    /\ UNCHANGED <<m_shutdown_requested, files, active, m_log_mutex, logVars>>

(* Connector::start(): the poller and the processors, one after the other. *)
StartWorker(w) ==
    /\ mpc = "start workers" /\ wpc[w] = "unborn"
    /\ w \in Processors => \A v \in Pollers : wpc[v] # "unborn"
    /\ wpc' = [wpc EXCEPT ![w] = "check"]
    /\ mpc' = IF \E v \in Workers \ {w} : wpc[v] = "unborn" THEN mpc ELSE "join workers"
    /\ UNCHANGED <<m_shutdown_requested, files, active, m_log_mutex, queueVars, logVars>>

JoinWorkers ==
    /\ MainGoto("join workers", "join kafka")
    /\ \A w \in Workers \ {KafkaPoller} : wpc[w] = "ended"
    /\ UNCHANGED <<m_shutdown_requested, workVars, active, m_log_mutex, queueVars, logVars>>

(* Mutant: main() does not wait for the KafkaPoller. *)
ForgetKafkaPoller ==
    /\ MainGoto("join kafka", "stop log")
    /\ UNCHANGED <<m_shutdown_requested, workVars, active, m_log_mutex, queueVars, logVars>>

JoinKafkaPoller ==
    /\ MainGoto("join kafka", "stop log")
    /\ wpc[KafkaPoller] = "ended"
    /\ UNCHANGED <<m_shutdown_requested, workVars, active, m_log_mutex, queueVars, logVars>>

StopLogProcessor ==
    /\ MainGoto("stop log", "join log")
    /\ m_should_run' = FALSE
    /\ UNCHANGED <<m_shutdown_requested, workVars, active, m_log_mutex, queueVars, lpc, logged>>

(* The producer is deleted and main() returns. *)
JoinLogProcessor ==
    /\ MainGoto("join log", "returned")
    /\ lpc = "ended"
    /\ UNCHANGED <<m_shutdown_requested, workVars, active, m_log_mutex, queueVars, logVars>>

MainNext ==
    \/ StartLogProcessor \/ StartKafkaPoller \/ (\E w \in Workers : StartWorker(w))
    \/ JoinWorkers \/ JoinKafkaPoller \/ StopLogProcessor \/ JoinLogProcessor

-----------------------------------------------------------------------------
(* The workers. *)

WorkerGoto(w, from, to) == wpc[w] = from /\ wpc' = [wpc EXCEPT ![w] = to]

(* Mutant: the loop condition is always true. *)
CheckNothing(w) ==
    /\ WorkerGoto(w, "check", "step")
    /\ UNCHANGED <<mainVars, files, active, m_log_mutex, queueVars, logVars>>

CheckShutdown(w) ==
    /\ WorkerGoto(w, "check", IF m_shutdown_requested THEN "end" ELSE "step")
    /\ UNCHANGED <<mainVars, files, active, m_log_mutex, queueVars, logVars>>

DirectoryPollers == Pollers \ {KafkaPoller}

(* A dequeue() of a processor that timed out, the path of a file that is   *)
(* gone, or the 10 s sleep of the KafkaPoller.                             *)
IdleStep(w) ==
    /\ w \notin DirectoryPollers
    /\ WorkerGoto(w, "step", "check")
    /\ UNCHANGED <<mainVars, files, active, m_log_mutex, queueVars, logVars>>

(* A poll() of the DirectoryPoller is over.  Nobody can say when: select() *)
(* waits for as long as an uninitialised timeval says.                     *)
PollReturns(w) ==
    /\ w \in DirectoryPollers
    /\ WorkerGoto(w, "step", "check")
    /\ UNCHANGED <<mainVars, files, active, m_log_mutex, queueVars, logVars>>

(* Mutant: a processor is not counted. *)
EnterUncounted(p) ==
    /\ p \in Processors /\ files < MaxFiles
    /\ WorkerGoto(p, "step", "handle")
    /\ files' = files + 1
    /\ UNCHANGED <<mainVars, active, m_log_mutex, queueVars, logVars>>

(* CsvProcessor::handle() *)
EnterHandle(p) ==
    /\ p \in Processors /\ files < MaxFiles
    /\ WorkerGoto(p, "step", "handle")
    /\ m_log_mutex = None
    /\ active' = active + 1
    /\ files' = files + 1
    /\ UNCHANGED <<mainVars, m_log_mutex, queueVars, logVars>>

(* "Processing ...": the file is streamed after it. *)
LogProcessing(p) ==
    /\ WorkerGoto(p, "handle", "stream")
    /\ LogMessage
    /\ UNCHANGED <<mainVars, files, active, m_log_mutex, logVars>>

(* "Done with ..." *)
LogDone(p) ==
    /\ WorkerGoto(p, "stream", "leave")
    /\ LogMessage
    /\ UNCHANGED <<mainVars, files, active, m_log_mutex, logVars>>

(* Mutant: the counter is decremented without the mutex. *)
LeaveUnlocked(p) ==
    /\ WorkerGoto(p, "leave", "notify")
    /\ active' = active - 1
    /\ UNCHANGED <<mainVars, files, m_log_mutex, queueVars, logVars>>

LeaveHandle(p) ==
    /\ WorkerGoto(p, "leave", "notify")
    /\ m_log_mutex = None
    /\ active' = active - 1
    /\ UNCHANGED <<mainVars, files, m_log_mutex, queueVars, logVars>>

(* Mutant: nobody is notified. *)
NotifyNobody(p) ==
    /\ WorkerGoto(p, "notify", "check")
    /\ UNCHANGED <<mainVars, files, active, m_log_mutex, queueVars, logVars>>

(* log_cv.notify_all(), after the mutex was released. *)
NotifyLog(p) ==
    /\ WorkerGoto(p, "notify", "check")
    /\ lpc' = IF lpc = "wait" THEN "relock" ELSE lpc
    /\ UNCHANGED <<mainVars, files, active, m_log_mutex, queueVars, m_should_run, logged>>

(* "Shutting down" *)
EndWorker(w) ==
    /\ WorkerGoto(w, "end", "ended")
    /\ LogMessage
    /\ UNCHANGED <<mainVars, files, active, m_log_mutex, logVars>>

WorkerStep(w) ==
    \/ CheckShutdown(w) \/ IdleStep(w) \/ EnterHandle(w) \/ LogProcessing(w) \/ LogDone(w)
    \/ LeaveHandle(w) \/ NotifyLog(w) \/ EndWorker(w)

WorkerNext(w) == WorkerStep(w) \/ PollReturns(w)

-----------------------------------------------------------------------------
(* The LogProcessor. *)

LogGoto(from, to) == lpc = from /\ lpc' = to

Run ==
    /\ LogGoto("run", "while")
    /\ m_should_run' = TRUE
    /\ UNCHANGED <<mainVars, workVars, active, m_log_mutex, queueVars, logged>>

While ==
    /\ LogGoto("while", IF m_should_run THEN "lock" ELSE "drain")
    /\ UNCHANGED <<mainVars, workVars, active, m_log_mutex, queueVars, m_should_run, logged>>

(* wait_for() first looks at the predicate, with the mutex held. *)
LockLog ==
    /\ LogGoto("lock", "test")
    /\ m_log_mutex = None /\ m_log_mutex' = "LogProcessor"
    /\ UNCHANGED <<mainVars, workVars, active, queueVars, m_should_run, logged>>

TestActive ==
    /\ LogGoto("test", IF active = 0 THEN "dequeue" ELSE "block")
    /\ m_log_mutex' = IF active = 0 THEN None ELSE m_log_mutex
    /\ UNCHANGED <<mainVars, workVars, active, queueVars, m_should_run, logged>>

(* To fall asleep on log_cv and to release the mutex is one step. *)
BlockOnLog ==
    /\ LogGoto("block", "wait")
    /\ m_log_mutex' = None
    /\ UNCHANGED <<mainVars, workVars, active, queueVars, m_should_run, logged>>

(* A wakeup without notification goes back to the predicate; after one     *)
(* hour wait_for() returns whatever the predicate says.                    *)
SpuriousWakeup ==
    /\ LogGoto("wait", "relock")
    /\ UNCHANGED <<mainVars, workVars, active, m_log_mutex, queueVars, m_should_run, logged>>

RelockLog ==
    /\ LogGoto("relock", "test")
    /\ m_log_mutex = None /\ m_log_mutex' = "LogProcessor"
    /\ UNCHANGED <<mainVars, workVars, active, queueVars, m_should_run, logged>>

HourPasses ==
    /\ LogGoto("wait", "dequeue")
    /\ m_log_mutex = None
    /\ UNCHANGED <<mainVars, workVars, active, m_log_mutex, queueVars, m_should_run, logged>>

Take ==
    /\ log_queue # <<>>
    /\ log_queue' = Tail(log_queue)
    /\ logged' = Append(logged, Head(log_queue))

(* log_queue.dequeue() waits for a message; Logging::log() writes it. *)
LogNext ==
    /\ LogGoto("dequeue", "sleep")
    /\ Take
    /\ UNCHANGED <<mainVars, workVars, active, m_log_mutex, enqueued, m_should_run>>

Sleep ==
    /\ LogGoto("sleep", "while")
    /\ UNCHANGED <<mainVars, workVars, active, m_log_mutex, queueVars, m_should_run, logged>>

DrainNext ==
    /\ LogGoto("drain", "drain")
    /\ Take
    /\ UNCHANGED <<mainVars, workVars, active, m_log_mutex, enqueued, m_should_run>>

(* Mutant: the loop that drains the queue ends with messages left. *)
DrainPart ==
    /\ LogGoto("drain", "ended")
    /\ UNCHANGED <<mainVars, workVars, active, m_log_mutex, queueVars, m_should_run, logged>>

DrainTimeout ==
    /\ LogGoto("drain", "ended")
    /\ log_queue = <<>>
    /\ UNCHANGED <<mainVars, workVars, active, m_log_mutex, queueVars, m_should_run, logged>>

LogProcessorNext ==
    \/ Run \/ While \/ LockLog \/ TestActive \/ BlockOnLog \/ RelockLog
    \/ LogNext \/ Sleep \/ DrainNext \/ DrainTimeout

-----------------------------------------------------------------------------

(* m_should_run is not initialised before run(). *)
Init ==
    /\ m_shutdown_requested = FALSE /\ mpc = "start log"
    /\ wpc = [w \in Workers |-> "unborn"] /\ files = 0
    /\ active = 0 /\ m_log_mutex = None
    /\ log_queue = <<>> /\ enqueued = 0
    /\ lpc = "unborn" /\ m_should_run \in BOOLEAN /\ logged = <<>>

Next ==
    \/ SignalThread \/ MainNext
    \/ \E w \in Workers : WorkerNext(w)
    \/ LogProcessorNext \/ SpuriousWakeup \/ HourPasses

Spec == Init /\ [][Next]_vars

(* Every thread goes on when it can.  Nobody has to send the signal, no    *)
(* timeout of one hour has to come and no poll() of the directory has to   *)
(* return; spurious wakeups end some day.                                  *)
Fairness ==
    /\ WF_vars(MainNext)
    /\ \A w \in Workers : WF_vars(WorkerStep(w))
    /\ WF_vars(LogProcessorNext)
    /\ <>[][~SpuriousWakeup]_vars

FairSpec == Spec /\ Fairness

-----------------------------------------------------------------------------

TypeOK ==
    /\ m_shutdown_requested \in BOOLEAN
    /\ mpc \in {"start log", "start kafka", "start workers", "join workers", "join kafka",
                "stop log", "join log", "returned"}
    /\ wpc \in [Workers -> {"unborn", "check", "step", "handle", "stream", "leave", "notify",
                            "end", "ended"}]
    /\ files \in 0..MaxFiles /\ active \in Nat
    /\ m_log_mutex \in {None, "LogProcessor"}
    /\ log_queue \in Seq(Nat) /\ logged \in Seq(Nat) /\ enqueued \in Nat
    /\ lpc \in {"unborn", "run", "while", "lock", "test", "block", "wait", "relock", "dequeue",
                "sleep", "drain", "ended"}
    /\ m_should_run \in BOOLEAN

(* The LogProcessor is not asleep on log_cv while no processor is active,  *)
(* unless one of them is about to notify it.                               *)
NoLostWakeup ==
    lpc = "wait" => active > 0 \/ \E p \in Processors : wpc[p] = "notify"

(* All messages were written, once and in the order of their enqueue(),     *)
(* when main() returns.                                                     *)
AllLogged == mpc = "returned" => logged = [i \in 1..enqueued |-> i]

(* The Kafka producer outlives every thread that uses it. *)
ProducerOutlivesUse == mpc = "returned" => \A w \in Workers : wpc[w] = "ended"

(* After the shutdown request the processors and the KafkaPoller end,       *)
(* whatever the DirectoryPoller waits for: it holds none of them up.  It    *)
(* ends too when it gets out of its poll() again and again.                 *)
WorkersEnd ==
    /\ m_shutdown_requested /\ mpc = "join workers"
           ~> \A w \in Workers \ DirectoryPollers : wpc[w] = "ended"
    /\ (\A w \in DirectoryPollers : []<>(wpc[w] # "step")) =>
           (m_shutdown_requested /\ mpc = "join workers" ~> \A w \in Workers : wpc[w] = "ended")

(* A message that waits is written eventually, once no more files arrive,   *)
(* and without the help of the timeout of one hour.                         *)
EventuallyLogged ==
    \A n \in 1..2 * MaxFiles + 1 : enqueued >= n ~> Len(logged) >= n

(* "Shutdown requested. Processing remaining ... messages": after stop()    *)
(* the LogProcessor drains the queue and ends.                              *)
LogProcessorEnds == mpc = "join log" ~> lpc = "ended"
=============================================================================
