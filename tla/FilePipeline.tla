---------------------------- MODULE FilePipeline ----------------------------
(***************************************************************************)
(* The life of a CSV file in Flycatcher: a producer puts it in the watched *)
(* directory, the DirectoryPoller thread discovers it and enqueues its     *)
(* path, one of the CsvProcessor threads claims it by renaming it to       *)
(* "<name>_inprogress", streams its rows, and archives it as "<name>_done".*)
(*                                                                         *)
(* A file is followed by its content (its inode): `name' says under which  *)
(* name the content is linked.  rename(2) moves a content and unlinks the  *)
(* content that was at the target.  A path is the base name the producer   *)
(* chose, the number of "_inprogress" suffixes added to it and whether     *)
(* "_done" was added; no suffix is ever added after "_done".               *)
(***************************************************************************)
EXTENDS Naturals, Sequences, FiniteSets, SequencesExt

CONSTANTS
    Contents,     \* the files that producers will put in the directory
    Bases,        \* the names producers give them
    BaseOf,       \* the name of each of them; two may have the same
    MovedIn,      \* those that may be renamed into the directory, complete
    Unreadable,   \* those that std::ifstream cannot read (permissions, a subdirectory)
    Overlong,     \* those with a line of more fields than their header
    Procs,        \* the CsvProcessor threads
    NoName,       \* the empty PollResult
    Rows,         \* data rows in a file
    ExcLimit,     \* exceptions a file may raise before it is abandoned (13)
    BufEvents,    \* inotify events that fit in the read buffer (BUF_LEN)
    EventLimit,   \* inotify events the kernel queues (max_queued_events)
    TimeToWait,   \* values the uninitialised timeout of select() can have
    MaxReads,     \* bound: closes by programs that only read a file
    MaxRuns       \* bound: starts of the process

Names == [base : Bases, inprogress : Nat, done : BOOLEAN]
Events == [mask : {"IN_CLOSE", "IN_MOVED_TO"}, name : Names]

ASSUME FilesAssumption ==
    /\ IsFiniteSet(Contents)
    /\ BaseOf \in [Contents -> Bases]
    /\ MovedIn \subseteq Contents /\ Unreadable \subseteq Contents /\ Overlong \subseteq Contents
    /\ NoName \notin Names /\ NoName \notin Procs
ASSUME BoundsAssumption ==
    /\ Rows \in Nat /\ ExcLimit \in Nat /\ BufEvents \in Nat \ {0}
    /\ EventLimit \in Nat /\ MaxReads \in Nat /\ MaxRuns \in Nat
    /\ TimeToWait \subseteq {"short", "endless", "invalid"}

VARIABLES
    \* the directory and the kernel
    fresh,     \* contents not produced yet
    linked,    \* contents that are in the directory
    name,      \* [Contents -> Names], the name of each linked content
    writing,   \* contents whose producer still has them open
    reads,     \* closes by reading programs so far
    watch,     \* the inotify watch exists
    events,    \* queued events; those that poll() only logs are left out
    \* the process
    up, run,   \* it is running; how often it was started
    sigint,    \* SIGINT is pending or was taken
    shutdown,  \* SignalChannel::m_shutdown_requested
    \* the DirectoryPoller thread
    dpc, tv,   \* where it is; the garbage in time_to_wait
    buf,       \* events read and not yet looked at
    paths,     \* m_file_paths
    queue,     \* Connector::m_queue
    \* the CsvProcessor threads
    pc, item, fd, pos, errs,
    \* history
    seen,      \* contents to be known: listed at start, moved in or closed under the watch
    late,      \* [Procs -> Nat]: paths taken from the queue after shutdown
    attempts,  \* [Contents -> [1..Rows -> Nat]]: times a row was handed on
    stopped    \* [Contents -> SUBSET]: why a file was not streamed to its end

fileVars == <<fresh, linked, name, writing, reads>>
watchVars == <<watch, events>>
mainVars == <<up, run, sigint, shutdown>>
pollVars == <<dpc, tv, buf, paths>>
procVars == <<pc, item, fd, pos, errs>>
histVars == <<seen, late, attempts, stopped>>
vars == <<fileVars, watchVars, mainVars, pollVars, queue, procVars, histVars>>

(* Mutant: every claim uses the same name. *)
SharedTmp(n) == [base |-> CHOOSE b \in Bases : TRUE, inprogress |-> 1, done |-> FALSE]

Tmp(n)  == [base |-> n.base, inprogress |-> n.inprogress + 1, done |-> n.done]
Done(n) == [base |-> n.base, inprogress |-> n.inprogress, done |-> TRUE]
Original(c) == [base |-> BaseOf[c], inprogress |-> 0, done |-> FALSE]

(* Mutants: should_add_file() without one of its filters. *)
AddInProgress(n, starting_up) == ~n.done
AddDone(n, starting_up) == starting_up \/ n.inprogress = 0

ShouldAdd(n, starting_up) == (starting_up \/ n.inprogress = 0) /\ ~n.done

At(n) == {c \in linked : name[c] = n}

(* rename(2): what was linked as `old' is linked as `new', what was linked *)
(* as `new' is gone.  Nothing happens when there is no `old'.              *)
Rename(old, new) ==
    IF At(old) = {}
    THEN UNCHANGED <<name, linked>>
    ELSE /\ name' = [c \in Contents |-> IF c \in At(old) THEN new ELSE name[c]]
         /\ linked' = linked \ At(new)

(* The kernel queues an event for the file in C, if there is one, when the *)
(* directory is watched, and drops the event when the queue is full.       *)
Post(m, C) ==
    /\ events' = IF watch /\ C # {} /\ Len(events) < EventLimit
                 THEN Append(events, [mask |-> m, name |-> name[CHOOSE c \in C : TRUE]])
                 ELSE events
    /\ seen' = IF watch THEN seen \union C ELSE seen

-----------------------------------------------------------------------------
(* Producers and other programs. *)

Create(c) ==
    /\ c \in fresh /\ At(Original(c)) = {}
    /\ fresh' = fresh \ {c}
    /\ linked' = linked \union {c}
    /\ writing' = writing \union {c}
    /\ UNCHANGED <<name, reads, watchVars, mainVars, pollVars, queue, procVars, histVars>>

CloseWrite(c) ==
    /\ c \in writing
    /\ writing' = writing \ {c}
    /\ Post("IN_CLOSE", {c} \intersect linked)
    /\ UNCHANGED <<fresh, linked, name, reads, watch, mainVars, pollVars, queue, procVars,
                   late, attempts, stopped>>

MoveIn(c) ==
    /\ c \in fresh \intersect MovedIn /\ At(Original(c)) = {}
    /\ fresh' = fresh \ {c}
    /\ linked' = linked \union {c}
    /\ Post("IN_MOVED_TO", {c})
    /\ UNCHANGED <<name, writing, reads, watch, mainVars, pollVars, queue, procVars,
                   late, attempts, stopped>>

(* A program that only read the file closes it: IN_CLOSE_NOWRITE. *)
CloseRead(c) ==
    /\ c \in linked /\ reads < MaxReads
    /\ reads' = reads + 1
    /\ Post("IN_CLOSE", {c})
    /\ UNCHANGED <<fresh, linked, name, writing, watch, mainVars, pollVars, queue, procVars,
                   late, attempts, stopped>>

-----------------------------------------------------------------------------
(* The process: start, signal, exit and crash. *)

(* Mutant: the list is not filtered. *)
ListAll == linked

Listing == {c \in linked : ShouldAdd(name[c], TRUE)}

(* The DirectoryPoller lists the directory when it is constructed.  The     *)
(* order of std::set is left open.                                          *)
Start ==
    /\ ~up /\ run < MaxRuns
    /\ up' = TRUE
    /\ run' = run + 1
    /\ \E order \in SetToSeqs(Listing) :
          paths' = [i \in 1..Len(order) |-> name[order[i]]]
    /\ seen' = seen \union Listing
    /\ UNCHANGED <<fileVars, watchVars, sigint, shutdown, dpc, tv, buf, queue, procVars,
                   late, attempts, stopped>>

Interrupt ==
    /\ up /\ ~sigint
    /\ sigint' = TRUE
    /\ UNCHANGED <<fileVars, watchVars, up, run, shutdown, pollVars, queue, procVars, histVars>>

SignalThread ==
    /\ up /\ sigint /\ ~shutdown
    /\ shutdown' = TRUE
    /\ UNCHANGED <<fileVars, watchVars, up, run, sigint, pollVars, queue, procVars, histVars>>

(* What a process keeps in memory, or in the kernel on its behalf. *)
Forget ==
    /\ up' = FALSE /\ sigint' = FALSE /\ shutdown' = FALSE
    /\ watch' = FALSE /\ events' = <<>>
    /\ dpc' = "check" /\ tv' = "short" /\ buf' = <<>> /\ paths' = <<>> /\ queue' = <<>>
    /\ pc' = [p \in Procs |-> "check"] /\ item' = [p \in Procs |-> NoName]
    /\ fd' = [p \in Procs |-> {}] /\ pos' = [p \in Procs |-> 0] /\ errs' = [p \in Procs |-> 0]
    /\ late' = [p \in Procs |-> 0]
    /\ UNCHANGED <<fileVars, run, seen, attempts, stopped>>

Exit == up /\ dpc = "exit" /\ (\A p \in Procs : pc[p] = "exit") /\ Forget

Crash == up /\ Forget

-----------------------------------------------------------------------------
(* The DirectoryPoller thread: AbstractWorker::run over poll(). *)

PollerGoto(from, to) == up /\ dpc = from /\ dpc' = to

PollerCheck ==
    /\ PollerGoto("check", IF shutdown THEN "exit" ELSE "poll")
    /\ UNCHANGED <<fileVars, watchVars, mainVars, tv, buf, paths, queue, procVars, histVars>>

(* Mutant: m_file_paths is cleared when its last path is handed over. *)
EnqueueAndClear ==
    /\ queue' = Append(queue, paths[Len(paths)])
    /\ paths' = <<>>

EnqueueLast ==
    /\ queue' = Append(queue, paths[Len(paths)])
    /\ paths' = SubSeq(paths, 1, Len(paths) - 1)

(* Files already known are handed over before the watch is looked at. *)
PollKnown ==
    /\ PollerGoto("poll", "check")
    /\ paths # <<>>
    /\ EnqueueLast
    /\ UNCHANGED <<fileVars, watchVars, mainVars, tv, buf, procVars, histVars>>

(* init_dir_watch() has no return statement: its caller may see a failure  *)
(* and raise SIGINT.  time_to_wait is read before it is written.           *)
PollWatch ==
    /\ PollerGoto("poll", "select")
    /\ paths = <<>>
    /\ watch' = TRUE
    /\ sigint' \in IF watch THEN {sigint} ELSE {sigint, TRUE}
    /\ tv' \in TimeToWait
    /\ UNCHANGED <<fileVars, events, up, run, shutdown, buf, paths, queue, procVars, histVars>>

(* Behind select() the garbage does not matter any more: time_to_wait is a  *)
(* local variable, and the next poll() finds other garbage in its place.   *)
SelectNothing ==
    /\ PollerGoto("select", "check")
    /\ tv = "invalid" \/ (tv = "short" /\ events = <<>>)
    /\ tv' = "short"
    /\ UNCHANGED <<fileVars, watchVars, mainVars, buf, paths, queue, procVars, histVars>>

SelectRead ==
    /\ PollerGoto("select", "events")
    /\ tv # "invalid" /\ events # <<>>
    /\ tv' = "short"
    /\ \E n \in 1..BufEvents :
        /\ n = BufEvents \/ n = Len(events)
        /\ n <= Len(events)
        /\ buf' = SubSeq(events, 1, n)
        /\ events' = SubSeq(events, n + 1, Len(events))
    /\ UNCHANGED <<fileVars, watch, mainVars, paths, queue, procVars, histVars>>

(* Mutant: events are filtered as at the start. *)
RelevantAtStart(e) == e.mask = "IN_CLOSE" /\ ShouldAdd(e.name, TRUE)

(* IN_MOVE is in the mask of the watch, but poll() has no branch for it. *)
Relevant(e) == e.mask = "IN_CLOSE" /\ ShouldAdd(e.name, FALSE)

HandleEvent ==
    /\ PollerGoto("events", "events")
    /\ buf # <<>>
    /\ buf' = Tail(buf)
    /\ paths' = IF Relevant(Head(buf)) THEN Append(paths, Head(buf).name) ELSE paths
    /\ UNCHANGED <<fileVars, watchVars, mainVars, tv, queue, procVars, histVars>>

EndOfEvents ==
    /\ PollerGoto("events", "check")
    /\ buf = <<>>
    /\ IF paths = <<>> THEN UNCHANGED <<paths, queue>> ELSE EnqueueLast
    /\ UNCHANGED <<fileVars, watchVars, mainVars, tv, buf, procVars, histVars>>

PollerNext ==
    \/ PollerCheck \/ PollKnown \/ PollWatch \/ SelectNothing
    \/ SelectRead \/ HandleEvent \/ EndOfEvents

-----------------------------------------------------------------------------
(* A CsvProcessor thread: AbstractWorker::run over handle(). *)

ProcGoto(p, from, to) == up /\ pc[p] = from /\ pc' = [pc EXCEPT ![p] = to]

(* Mutant: the loop condition is always true. *)
CheckNothing(p) ==
    /\ ProcGoto(p, "check", "dequeue")
    /\ UNCHANGED <<fileVars, watchVars, mainVars, pollVars, queue, item, fd, pos, errs, histVars>>

ProcCheck(p) ==
    /\ ProcGoto(p, "check", IF shutdown THEN "exit" ELSE "dequeue")
    /\ UNCHANGED <<fileVars, watchVars, mainVars, pollVars, queue, item, fd, pos, errs, histVars>>

DequeueTimeout(p) ==
    /\ ProcGoto(p, "dequeue", "check")
    /\ queue = <<>>
    /\ UNCHANGED <<fileVars, watchVars, mainVars, pollVars, queue, item, fd, pos, errs, histVars>>

(* Mutant: dequeue_with_timeout() takes its result by value. *)
DequeueByValue(p) ==
    /\ ProcGoto(p, "dequeue", "check")
    /\ queue # <<>>
    /\ queue' = Tail(queue)
    /\ UNCHANGED <<fileVars, watchVars, mainVars, pollVars, item, fd, pos, errs, histVars>>

Dequeue(p) ==
    /\ ProcGoto(p, "dequeue", "claim")
    /\ queue # <<>>
    /\ item' = [item EXCEPT ![p] = Head(queue)]
    /\ queue' = Tail(queue)
    /\ late' = [late EXCEPT ![p] = IF shutdown THEN @ + 1 ELSE @]
    /\ UNCHANGED <<fileVars, watchVars, mainVars, pollVars, fd, pos, errs, seen, attempts, stopped>>

(* The rename is the claim: of several processors with the same path only  *)
(* one finds a file there.                                                 *)
Claim(p) ==
    /\ At(item[p]) # {}
    /\ ProcGoto(p, "claim", "open")
    /\ Rename(item[p], Tmp(item[p]))
    /\ UNCHANGED <<fresh, writing, reads, watchVars, mainVars, pollVars, queue, item, fd, pos, errs, histVars>>

ClaimFails(p) ==
    /\ At(item[p]) = {}
    /\ ProcGoto(p, "claim", "check")
    /\ item' = [item EXCEPT ![p] = NoName]
    /\ UNCHANGED <<fileVars, watchVars, mainVars, pollVars, queue, fd, pos, errs, histVars>>

(* Mutant: the path is opened that the claim renamed. *)
OpenClaimed(p) ==
    /\ ProcGoto(p, "open", IF At(item[p]) = {} THEN "archive" ELSE "rows")
    /\ fd' = [fd EXCEPT ![p] = At(item[p])]
    /\ UNCHANGED <<fileVars, watchVars, mainVars, pollVars, queue, item, pos, errs, histVars>>

(* A stream that could not be opened yields no rows (CSVIterator). *)
Open(p) ==
    /\ ProcGoto(p, "open", IF At(Tmp(item[p])) \subseteq Unreadable THEN "archive" ELSE "rows")
    /\ fd' = [fd EXCEPT ![p] = At(Tmp(item[p])) \ Unreadable]
    /\ pos' = [pos EXCEPT ![p] = 0]
    /\ errs' = [errs EXCEPT ![p] = 0]
    /\ stopped' = [c \in Contents |-> IF c \in fd'[p] THEN {} ELSE stopped[c]]
    /\ UNCHANGED <<fileVars, watchVars, mainVars, pollVars, queue, item, seen, late, attempts>>

(* Mutant: the end of the file is seen one row late. *)
RowTooFar(p) ==
    /\ pos[p] <= Rows
    /\ ProcGoto(p, "rows", "rows")
    /\ pos' = [pos EXCEPT ![p] = @ + 1]
    /\ UNCHANGED <<fileVars, watchVars, mainVars, pollVars, queue, item, fd, errs, histVars>>

(* One row through the transformers and publish(), which may throw: the    *)
(* catch inside of the loop counts.                                        *)
Row(p) ==
    /\ pos[p] < Rows
    /\ pos' = [pos EXCEPT ![p] = @ + 1]
    /\ attempts' = [c \in Contents |-> IF c \in fd[p]
                                       THEN [attempts[c] EXCEPT ![pos'[p]] = @ + 1]
                                       ELSE attempts[c]]
    /\ \/ /\ ProcGoto(p, "rows", "rows")
          /\ UNCHANGED <<errs, stopped>>
       \/ /\ errs' = [errs EXCEPT ![p] = @ + 1]
          /\ ProcGoto(p, "rows", IF errs'[p] > ExcLimit THEN "archive" ELSE "rows")
          /\ stopped' = [c \in Contents |-> IF c \in fd[p] /\ errs'[p] > ExcLimit
                                            THEN stopped[c] \union {"errors"}
                                            ELSE stopped[c]]
    /\ UNCHANGED <<fileVars, watchVars, mainVars, pollVars, queue, item, fd, seen, late>>

(* The iterator throws over a line that is longer than the header (Overrun  *)
(* of CsvReader), the first one or a later one.  The catch around the loop *)
(* gives up the file at once, and it is archived all the same.             *)
UnableToLoad(p) ==
    /\ ProcGoto(p, "rows", "archive")
    /\ fd[p] \intersect Overlong # {}
    /\ stopped' = [c \in Contents |-> IF c \in fd[p]
                                      THEN stopped[c] \union {"unable to load"} ELSE stopped[c]]
    /\ UNCHANGED <<fileVars, watchVars, mainVars, pollVars, queue, item, fd, pos, errs,
                   seen, late, attempts>>

(* The end of the file, which is early while its producer still writes. *)
EndOfFile(p) ==
    /\ ProcGoto(p, "rows", "archive")
    /\ pos[p] = Rows \/ fd[p] \intersect writing # {}
    /\ stopped' = [c \in Contents |-> IF c \in fd[p] /\ pos[p] < Rows
                                      THEN stopped[c] \union {"early"} ELSE stopped[c]]
    /\ UNCHANGED <<fileVars, watchVars, mainVars, pollVars, queue, item, fd, pos, errs,
                   seen, late, attempts>>

(* Mutant: a file that could not be read to its end gets its name back. *)
ArchiveIfComplete(p) ==
    /\ ProcGoto(p, "archive", "close")
    /\ Rename(Tmp(item[p]), IF errs[p] > ExcLimit THEN item[p] ELSE Done(item[p]))
    /\ UNCHANGED <<fresh, writing, reads, watchVars, mainVars, pollVars, queue, item, fd, pos, errs, histVars>>

Archive(p) ==
    /\ ProcGoto(p, "archive", "close")
    /\ Rename(Tmp(item[p]), Done(item[p]))
    /\ UNCHANGED <<fresh, writing, reads, watchVars, mainVars, pollVars, queue, item, fd, pos, errs, histVars>>

Close(p) ==
    /\ ProcGoto(p, "close", "check")
    /\ Post("IN_CLOSE", fd[p] \intersect linked)
    /\ fd' = [fd EXCEPT ![p] = {}]
    /\ item' = [item EXCEPT ![p] = NoName]
    /\ pos' = [pos EXCEPT ![p] = 0]
    /\ errs' = [errs EXCEPT ![p] = 0]
    /\ UNCHANGED <<fileVars, watch, mainVars, pollVars, queue, late, attempts, stopped>>

ProcNext(p) ==
    \/ ProcCheck(p) \/ DequeueTimeout(p) \/ Dequeue(p) \/ Claim(p) \/ ClaimFails(p)
    \/ Open(p) \/ Row(p) \/ UnableToLoad(p) \/ EndOfFile(p) \/ Archive(p) \/ Close(p)

-----------------------------------------------------------------------------

Init ==
    /\ fresh = Contents /\ linked = {} /\ name = [c \in Contents |-> Original(c)]
    /\ writing = {} /\ reads = 0 /\ watch = FALSE /\ events = <<>>
    /\ up = FALSE /\ run = 0 /\ sigint = FALSE /\ shutdown = FALSE
    /\ dpc = "check" /\ tv = "short" /\ buf = <<>> /\ paths = <<>> /\ queue = <<>>
    /\ pc = [p \in Procs |-> "check"] /\ item = [p \in Procs |-> NoName]
    /\ fd = [p \in Procs |-> {}] /\ pos = [p \in Procs |-> 0] /\ errs = [p \in Procs |-> 0]
    /\ seen = {} /\ late = [p \in Procs |-> 0]
    /\ attempts = [c \in Contents |-> [r \in 1..Rows |-> 0]]
    /\ stopped = [c \in Contents |-> {}]

FileNext(c) == Create(c) \/ CloseWrite(c) \/ MoveIn(c) \/ CloseRead(c)

Next ==
    \/ \E c \in Contents : FileNext(c)
    \/ Start \/ Interrupt \/ SignalThread \/ Exit \/ Crash
    \/ PollerNext
    \/ \E p \in Procs : ProcNext(p)

Spec == Init /\ [][Next]_vars

(* Each thread that can take a step eventually takes one.  Nothing is      *)
(* assumed of producers, of the user or of restarts.                       *)
Fairness ==
    /\ WF_vars(SignalThread)
    /\ WF_vars(PollerNext)
    /\ \A p \in Procs : WF_vars(ProcNext(p))

FairSpec == Spec /\ Fairness

-----------------------------------------------------------------------------
(* Properties. *)

(* Why the rows of a file were not all handed on. *)
Reasons == {"errors", "early", "unable to load"}

FileTypes ==
    /\ fresh \subseteq Contents /\ linked \subseteq Contents /\ writing \subseteq Contents
    /\ name \in [Contents -> Names] /\ reads \in Nat
MainTypes ==
    /\ watch \in BOOLEAN /\ events \in Seq(Events)
    /\ up \in BOOLEAN /\ run \in Nat /\ sigint \in BOOLEAN /\ shutdown \in BOOLEAN
PollTypes ==
    /\ dpc \in {"check", "poll", "select", "events", "exit"}
    /\ tv \in {"short", "endless", "invalid"}
    /\ buf \in Seq(Events) /\ paths \in Seq(Names) /\ queue \in Seq(Names)
ProcTypes ==
    /\ pc \in [Procs -> {"check", "dequeue", "claim", "open", "rows", "archive", "close", "exit"}]
    /\ item \in [Procs -> Names \union {NoName}]
    /\ fd \in [Procs -> SUBSET Contents]
    /\ pos \in [Procs -> 0..Rows] /\ errs \in [Procs -> 0..ExcLimit + 1]
HistTypes ==
    /\ seen \subseteq Contents /\ late \in [Procs -> Nat]
    /\ attempts \in [Contents -> [1..Rows -> Nat]]
    /\ stopped \in [Contents -> SUBSET Reasons]
TypeOK == FileTypes /\ MainTypes /\ PollTypes /\ ProcTypes /\ HistTypes

Owning == {"open", "rows", "archive"}
Owns(p, c) == c \in linked /\ pc[p] \in Owning /\ name[c] = Tmp(item[p])

(* No file is handled by two processors: neither two claims nor two open   *)
(* streams are ever on the same file, however often its path was enqueued. *)
ClaimExclusive ==
    \A p, q \in Procs : p # q =>
        /\ fd[p] \intersect fd[q] = {}
        /\ \A c \in Contents : ~(Owns(p, c) /\ Owns(q, c))

(* The renames never overwrite a file: what was produced is in the         *)
(* directory under some name.                                              *)
NothingOverwritten == linked = Contents \ fresh

(* A readable file that is archived had each of its rows handed on, unless *)
(* one of three things stopped its last reader: the exceptions of its rows *)
(* had reached their limit, its producer was still writing it, or the      *)
(* iterator threw, which only a line longer than the header makes it do.   *)
ArchivedWasRead ==
    \A c \in linked \ Unreadable : name[c].done =>
        stopped[c] # {} \/ \A r \in 1..Rows : attempts[c][r] >= 1

(* A row is handed on once in each run of the process at most, so that     *)
(* without a crash it is handed on at most once.                           *)
AttemptsBoundedByRuns ==
    \A c \in Contents : \A r \in 1..Rows : attempts[c][r] <= run

(* After the shutdown request a processor starts at most one more file.    *)
OneMoreFile == \A p \in Procs : late[p] <= 1

Pending(n) ==
    \/ n \in Range(paths) \union Range(queue)
    \/ \E e \in Range(events) \union Range(buf) : Relevant(e) /\ e.name = n
    \/ \E p \in Procs : pc[p] = "claim" /\ item[p] = n

(* A discovered file is never forgotten while the process is up: it is on  *)
(* its way to a processor, or claimed, or archived.                        *)
Tracked ==
    \A c \in seen \intersect linked : up /\ ~name[c].done =>
        Pending(name[c]) \/ \E p \in Procs : Owns(p, c)

(* An archived file stays as it is: nobody renames or reads it again.      *)
ArchivedIsFinal ==
    [][\A c \in linked : name[c].done =>
          c \in linked' /\ name'[c] = name[c] /\ attempts'[c] = attempts[c]]_vars

(* All files that were discovered in this run are archived some day,       *)
(* unless the process is stopped first.  This needs a select()             *)
(* that takes the garbage in time_to_wait for a timeout, be it an endless  *)
(* one, in some poll() again and again: if it refuses all of them, then no *)
(* event is read any more.                                                 *)
SelectAccepts == dpc = "select" /\ tv # "invalid"
AllArchived == \A c \in seen : c \in linked /\ name[c].done
EventuallyArchived == []<>SelectAccepts => (up ~> AllArchived \/ shutdown \/ ~up)

(* After a shutdown request every processor ends, also one that is in the  *)
(* middle of a file.                                                       *)
ProcessorsStop == shutdown ~> ~up \/ \A p \in Procs : pc[p] = "exit"

(* The poller is not blocked by a directory in which nothing happens.      *)
PollerStops == shutdown ~> ~up \/ dpc = "exit"

(* A file that is complete in the directory while the poller watches is    *)
(* known to it.                                                            *)
EveryFileDetected ==
    \A c \in linked \ writing : watch /\ name[c] = Original(c) => c \in seen

-----------------------------------------------------------------------------
(* The abstract life of a file.  Who has it is what the names say.  The    *)
(* suffixes of a name count the claims; "_done" takes the place of the     *)
(* last one.                                                               *)

Holder(c) == IF \E p \in Procs : Owns(p, c) THEN CHOOSE p \in Procs : Owns(p, c) ELSE NoName
Stage(c) ==
    CASE c \notin linked -> "absent"
      [] c \in linked /\ name[c].done -> "archived"
      [] c \in linked /\ ~name[c].done /\ Holder(c) # NoName -> "taken"
      [] OTHER -> "waiting"

Claims(c) == name[c].inprogress + (IF name[c].done THEN 1 ELSE 0)

FileLife ==
    INSTANCE FileLifecycle WITH
        Files <- Contents, Processors <- Procs, Nobody <- NoName,
        stage <- [c \in Contents |-> Stage(c)],
        holder <- [c \in Contents |-> Holder(c)],
        tries <- [c \in Contents |-> Claims(c)]

(* The names, the queue and the events give each file the simple life of   *)
(* FileLifecycle: one processor at a time and once in each run.            *)
ImplementsLifecycle == FileLife!Spec

-----------------------------------------------------------------------------
(* Why the rename is a claim.  It is one only if producers never use a name *)
(* twice.  Then a path that is still to be claimed is older than every name *)
(* a processor works under: it has fewer "_inprogress" suffixes.            *)
UniqueNames == \A c, d \in Contents : BaseOf[c] = BaseOf[d] => c = d

BaseKept == \A c \in Contents : name[c].base = BaseOf[c]

InHand ==
    Range(paths) \union Range(queue) \union {item[p] : p \in {q \in Procs : pc[q] = "claim"}}

PathsBehind ==
    \A n \in InHand :
        /\ ~n.done
        /\ \A c \in Contents : BaseOf[c] = n.base =>
              /\ n.inprogress <= name[c].inprogress
              /\ \A p \in Procs : Owns(p, c) => n.inprogress < name[c].inprogress

OwnersHaveFile ==
    \A p \in Procs : pc[p] \in Owning => ~item[p].done /\ \E c \in Contents : Owns(p, c)

StreamsOwned ==
    \A p \in Procs : \A c \in fd[p] :
        \/ pc[p] \in {"rows", "archive"} /\ Owns(p, c)
        \/ pc[p] = "close" /\ name[c].done

DownIsIdle == ~up => \A p \in Procs : pc[p] = "check"

(* The inductive strengthening of ClaimExclusive and NothingOverwritten. *)
ClaimInvariant ==
    /\ BaseKept /\ PathsBehind /\ OwnersHaveFile /\ StreamsOwned /\ DownIsIdle
    /\ NothingOverwritten /\ ClaimExclusive
=============================================================================
