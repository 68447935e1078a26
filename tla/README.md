# Flycatcher: a TLA+ model

Flycatcher watches a directory for CSV files, hands their paths to a pool of
processor threads, and publishes every row to Kafka in Avro. The source is
`src/src/`; line numbers below refer to the files there.

## 1. Inventory

| part | state | operations | talks to |
|---|---|---|---|
| `DirectoryPoller` (one thread) | `m_file_paths`, `m_fd`, `m_wd` | list the directory (constructor), set up the watch, `select`, `read`, look at events, return one path | inotify; the path queue |
| `Connector`, `PollerBridge`, `ProcessorBridge`, `AbstractWorker` | the path queue | start and join the threads; the loop `while (!m_shutdown_requested) step()` | everything |
| `CsvProcessor` (a pool) | path in hand, open stream, exception count | `handle()`: claim by `rename`, stream, archive by `rename`; `publish()`: one message per topic | path queue, file system, producer, log |
| `SafeQueue` | `m_queue`, `m_mutex`, `m_cv` | `enqueue`, `dequeue`, `dequeue_with_timeout` | used for the paths and for the log |
| Kafka producer (librdkafka), `KafkaPoller`, `KafkaDeliveryReportCb` | queue of messages and of delivery reports | `produce`, `poll`, `flush`, delivery callback | broker |
| `SchemaRegistry` | the serdes handle | fetch and register schema ids | registry; `SchemaConfig::schema_id`, shared by the processors |
| `LogProcessor` (one thread) | `m_should_run`; `log_queue`; `active_processors` with `log_cv_mutex` and `log_cv` | wait until no processor is active, take a message, write it; drain at the end | all threads log |
| `main()` and the signal thread | `SignalChannel::m_shutdown_requested` | start, join, stop, in a fixed order | all threads |
| CSV reader (`csv/`), transformers (`transformers/`) | the current row | parse a line, change columns | `handle()` |
| `ConfigParser`, the builders, the first half of `main()` | the YAML document; what is made of it: schemas, settings, transformers, age limit, processors | parse the arguments, read each section, make the producer, build the processors, start the workers | SIGINT to the own process for every error; the signal thread; everything that is started |
| log sinks, macOS poller | | | |

What is hard here: several processors may have the path of the same file; events
for a file arrive while it is handled or after; a crash leaves files half
handled; the inotify watch starts later than the listing; two condition
variables, one of them with a counter under a mutex that another thread tests;
the end of the process, in which threads wait for each other; a producer queue
that is full and whose reports are served in whichever thread polls; a buffer and
schema ids that several topics or threads share; a configuration error that is
only a signal, while `main()` goes on with what it has; places where the code
reads memory that nobody wrote. `PROJECT.json` lists each hazard with its line.

What makes each part correct:

* files: one processor per file, no rename overwrites a file, a discovered file
  is never forgotten and is archived eventually, an archived file was read (or one of
  three things stopped its reader) and is final, rows are handed on at most once per run of the process;
* queue: atomic, FIFO, exactly once, no lost wakeup;
* threads: every worker ends after a shutdown request (the poller if its `select()`
  returns), the log is complete and in
  order when `main()` returns, no wakeup of the logger is lost, the producer
  outlives its users;
* reading: what is published for a line is what was written in it, transformed in
  the order of the configuration; every line once;
* start: a sound configuration comes to the processors whole, its schemas have the
  names and types it says, and on the way to the workers it is never the reason for
  an alarm; a faulty one stops the process; workers never run without what they use;
* publishing: no row is lost without a trace, none is accepted twice, a message
  carries its own row under a registered id, a full queue stops nobody.

## 2. Modules

`FilePipeline` is the core: a file from its producer to `<name>_done`. A file is
followed by its content (its inode); `name` says what it is called now, so that
`rename(2)` is what it is in the kernel: it moves a content and unlinks the
content that was at the target. A name is a base, a number of `_inprogress`
suffixes and a `_done` flag. Nothing in the model says that a processor owns a
file: ownership is what the names imply. The kernel part is external: an event is
queued when the directory is watched (`Post`), up to `EventLimit`. `IN_CREATE` and
`IN_MOVED_FROM`, which `poll()` at most logs, are not queued. The actions of the
`DirectoryPoller` follow `poll()` (`PollKnown`, `PollWatch`, `SelectNothing`,
`SelectRead`, `HandleEvent`, `EndOfEvents`), those of a processor `handle()`
(`Claim`, `ClaimFails`, `Open`, `Row`, `UnableToLoad`, `EndOfFile`, `Archive`,
`Close`). The row loop can be left in three ways before the file was read to its end,
and the file is archived after each: at the limit of exceptions (`Row`), at the end of what
a producer has written so far (`EndOfFile`), and through the catch around the loop
(`UnableToLoad`), when the iterator throws over a line that is longer than the header, which
files in `Overlong` have. `Start`,
`Exit` and `Crash` are the life of the process; what `Forget` resets is what a
process loses. The queue is a sequence with atomic operations, which the next
module justifies.

`FileLifecycle` is what the pipeline promises for a file, without names, queues and
events: it waits, one processor has it, it is archived; it is taken at most once
in each run of the process, and waits again when the process ends. `FilePipeline`
implements it (`ImplementsLifecycle`): the stage of a file is read from its name and
from the processors that work under it, and the number of times it was taken from
the suffixes of the name.

`SafeQueue` has one action per stretch of `SafeQueue.h` between two
synchronisation points. A thread with pc "wait" is in the wait set of `m_cv`.
`FifoQueue` is what the class promises; `SafeQueue` implements it under the
mapping that ends a call when it has had its effect (`ImplementsFifo`).

`Lifecycle` has the threads from start to exit: `main()` in its order, the workers
reduced to the steps that matter for the shutdown and for the log, and the
`LogProcessor` line by line. A step of the DirectoryPoller that is over is an action of its
own (`PollReturns`), because nobody can say when its `select()` returns. The log queue has atomic operations again.

`RowPublisher` is `publish()`: rows turned into one message per topic by
processors that share the producer and the schema ids. librdkafka is modelled
from how the code uses it: `sending`, then `reports` until somebody polls;
`produce` refuses when both together reach the limit.

`CsvReader` is the row loop from the inside. Its files are what a producer means
(rows of fields) and how he writes it (quotes, line ends, a new line at the end
or not); `Text` is the writing. The rest is the code: `SetColumns`, `NextRow` and
`EndOfStream` are the two getlines of `CSVIterator`, `Parsed` folds the state
machine of `CSVRow::next()` over a line, `Transform` and `Publish` are the body of
the loop: `publish()` may throw for a row, and the exception after the first
`ExcLimit` ends the loop. The map `m_map_data` is the state that goes from line to line.
`Transformers`, which it extends, has the six types and the chain: `Chain` is how
`ConfigParser` and `Factory` build it, `Operation` how the decorators run. The
schemas and the chain are given to a processor: here they are parameters of
`Transform` and `Publish`, and of the properties.

`Startup` gives them: `main()` from `parse_args()` to `Connector::start()`, one
action per stretch between two things another thread can see, with the signal
thread and the `KafkaPoller`. A YAML document is a record of sections. `Raise` is an
error with its SIGINT; after it `main()` goes on, and a function that then falls off
its end without a value is `GoOn`: the caller crashes, or has what was collected, or
an empty map. What librdkafka and libserdes refuse is data (`Refused`,
`input.producer`) and no choice of the model, so that "nothing is wrong" can be said:
`Sound` is a second definition, from the README and what the code needs
besides. It does not use the checks of the code; the two share what a scalar is (`Scalars`)
and what the libraries accept (`Accepted`).

`Application` composes both: when the workers run, one of them takes a file and
reads it with the schemas and the chain that `Startup` made (it extends both modules,
and `ReadFile` is `Handle` of `CsvReader` with these arguments). A worker looks at the
shutdown flag and not at the pending signal, so that it can take a file under a
configuration with an error. One file is handled in a behaviour, as nothing of
the reader outlives it.

`MCFilePipeline`, `MCSafeQueue`, `MCLifecycle`, `MCRowPublisher` and `MCApplication`
give the constants of the runs; `MCApplication` also has the property about the
README's example, which is about these constants. `SafeQueueProofs`, `LifecycleProofs`,
`RowPublisherProofs` and `StartupProofs` hold the theorems about the module of that name.
Those about `FilePipeline` are in `FilePipelineProofs` (types, claims) and `FileLifeProofs`, which
uses it (what happens to a file, and the refinement). `CsvReaderProofs` has the lemmas about the
operators of `CsvReader` and `Transformers`, and `ApplicationProofs` the theorems about
`Application`, from these lemmas and from `StartupProofs`. The operators whose comment says "Mutant" are not part of the
specifications: each is a definition with a plausible bug, put in the place of
the sound one to see that the property named in `PROJECT.json` notices.

### Undefined behaviour

It is a choice between what the build can produce:

* `init_dir_watch()` has no return statement (`DirectoryPoller.cpp:36`): its caller
  may see a failure and send SIGINT to itself. `PollWatch` allows both, in every run
  about files.
* `time_to_wait` is not initialised (`DirectoryPoller.cpp:90`): `TimeToWait` has a
  short timeout, one without end, and one `select()` refuses. `pipeline_recovery` has the
  short and the refused one, `pipeline_two_files` the endless and the refused one,
  `select_blocks` the short and the endless one, the other failing runs the short one.
* `m_should_run` is not initialised, and written by two threads
  (`LogProcessor.cpp:29`, `:86`): any initial value, and the two writes in any order.
* `schema->id()` on a null pointer (`SchemaRegistry.cpp:116`): the process dies
  (`RegisterFails`).
* `m_columns[i]` behind the end of the vector (`CSVRow.cpp:68`, `:112`): a name that
  is no column, an exception, or the end of the process (`Column`, `Overrun`).
* `config_for_key()`, `schema_configs()` and `max_age()` end without a value after an
  error (`ConfigParser.cpp:78`, `:176`, `:307`): `GoOn`.
* `m_max_age` of the builder is not initialised (`CsvProcessorBuilder.h:18`): without
  `max_age` in the configuration the pointer is null or wild (`BuildProcessor`), and
  with a wild one `publish()` may crash at any row (`WildAge`).
* a null producer, and a null handle of the registry, are used: the process dies
  (`PollNull`, `SchemaIds`).
* `operator<<` for a row without a return statement (`CSVRow.cpp:138`): covered by
  `Crash`, which is possible everywhere.

## 3. Runs

| run | question | bounds |
|---|---|---|
| `pipeline_recovery` | claims, recovery after a crash, archived files are final, the life of a file | one file of two rows (which may be moved in, and may have a line that is too long), two processors, three starts, one foreign read, abandoned at the second exception |
| `pipeline_two_files` | no overwriting, nothing forgotten, every file archived, the processors stop | two files, one unreadable; one processor, two starts; a `select()` that waits or refuses; a buffer of one event |
| `safe_queue` | the class implements the FIFO queue | three threads that may all do everything, three elements of two kinds |
| `lifecycle` | wakeups, the log, the end of the threads | two processors, two pollers, two files |
| `publisher` | rows and messages | two processors, two topics (one typed and known, one with an age and unknown), two rows, room for one message |
| `application` | what a configuration becomes; a row is its line, every line once, a file that fits is read | 39 inputs: every section missing or of the wrong kind, each kind of error once, two unusual documents, the errors of the command line and of the producer, one to two processors; three sound ones with up to two lines of one to three fields under two columns, written in four ways, or three equal lines; the second exception ends a file |
| `startup_gap`, `moved_in`, `select_blocks` | what the README or a comment promises and the poller does not do | one file, one start |
| `log_drain_hangs` | the drain that stop() announces | one processor, one file |
| `framing` | one frame per message | as `publisher` |
| `few_cores` | as many processors as the cores allow | one to seven cores, an unsigned int of 4 bits |

The bounds are the smallest in which what is asked can go wrong. Two processors
are enough to fight for a file or for the mutex, one path can be in the queue
twice because of the foreign read and again after a restart, and three starts
let a file that was claimed in the first run be claimed in the second and again
in the third. Two rows separate "read from the beginning" from "went on"; the
limit of exceptions is 1 instead of 13, so that a file can be abandoned in its
middle; in `application` files of three lines get behind it. In `pipeline_two_files`
one processor is enough: what two of them do to one file is the question of
`pipeline_recovery`, and a crash leaves one file claimed while the other is taken.
`EventLimit` is never reached: what the kernel drops is lost, and no
document says what should happen. In `safe_queue` three threads allow two
sleepers and one that notifies. In `lifecycle` two files allow one processor to
leave while another enters. In `publisher` a queue for one message is full
whenever two processors meet. In `application` the values are empty, to be looked
up, to be changed by `unuuid`, and to be quoted; with two lines the second shows
what is left of the first. `RowIsItsLine` is about lines that have a field for each
column. Without this condition it is false: a short line is published with what
the transformers made of the fields of the line before. No document says what a
short line means, so this stands as a hazard and not as a finding. A configuration with an
error is left out as well (`sigint = {}`), since a worker may take a file before it
is told to stop, and so is one with transforms before a `void`, which are dropped,
and one whose `append` or `prepend` adds a column that files do not have and a later
`set` fills (`SetFirst`): from the second row on it would add what was set in the row
before. What is archived while its producer still writes it, after some reader has
closed it (`CloseRead`, `EndOfFile`), is no finding either, for the same reason.

`CHECK_DEADLOCK FALSE` is set where the system really stops: a process that ended
and may not start again, all rows handed over, `main()` returned. `safe_queue` is
checked for deadlock: a thread that waits can always time out or be woken.

What the failing runs show:

* `startup_gap`: the directory is listed in the constructor and watched in the first
  `poll()` that has no known file left. A file produced in between is not seen
  before the next start, though README.md:6-7 of the repository says that the poller
  waits for new files and enqueues each that it detects.
* `moved_in`: `IN_MOVED_TO` is in the mask of the watch and in no branch of `poll()`.
* `select_blocks`: `select()` may wait for ever under the comment "Non-blocking".
* `log_drain_hangs`: `stop()` does not wake a `LogProcessor` that waits for a message.
* `few_cores`: `hardware_concurrency() - 5` is unsigned, so that four cores make
  2^32 - 1 processors (15 in the model, whose integers are shorter).
* `framing`: the second topic of a row gets the frame of the first one too.

Three more defects are modelled and no run of their own shows them, as each is one step of the
model: a watch that is there may be taken for a failure (`PollWatch`), a schema that the
registry refuses ends the process (`RegisterFails`), and without `max_age` in the configuration,
as in the example of the README, the first row may end it (`WildAge`).

The README of the repository presents `column_map` as optional ("In case some CSV
column names differ"), and the code stops for want of it: `Sound` asks for both maps
of columns, as the code does.

### Fairness

Every thread that can take a step eventually takes one (weak fairness per thread:
they are operating-system threads that wait only for each other, and the mutexes
are held for a few instructions). In `FilePipeline` nothing is assumed of
producers, users and restarts. `EventuallyArchived` is about files whose event must be
read, which never happens when `select()` refuses its timeout again and again; so it asks that
`poll()` comes to a timeout that is accepted, be it an endless one, again and again
(`SelectAccepts`). `ProcessorsStop` needs no such thing.
In `Application` `main()` and the signal thread go on. In `Lifecycle` all steps of a worker are fair but `PollReturns`: `WorkersEnd` says
that processors and the `KafkaPoller` end after a shutdown request whatever the
DirectoryPoller does, and that all end if its polls do. `select_blocks` is the run in which
it does not. The timeout of one hour need not
come, and spurious wakeups end some day, which keeps the `LogProcessor` from
being woken for ever without cause. In `RowPublisher` each message is delivered or
fails some day (librdkafka has `message.timeout.ms`), and the `KafkaPoller` is not
fair: it sleeps 10 seconds and ends before the processors do.
`log_drain_hangs` and `select_blocks` are counterexamples under fairness, so that
they are not just a system that stops.

## 4. Theorems

Each theorem holds for every value of the constants that `FilesAssumption`,
`BoundsAssumption`, `QueueAssumption`, `TopicsAssumption`, `LimitsAssumption`,
`InputsAssumption` and their like allow: any number of files, processors, topics, rows,
starts and cores, any document. TLC evaluates these assumptions in every run.
The argument is always the same: an invariant that each step preserves, one step of the
proof per action, and what is wanted as a consequence of it.

**The queue** (`SafeQueueProofs`). The mutex excludes, no wakeup is lost, elements leave
once and in order, and `SafeQueue` implements `FifoQueue`. The inductive invariant `IInv`
adds to the types that the holder of the mutex is the one thread in a critical section,
and that a call that waits is a dequeue, with a time limit if its time is up. The refinement
has one case per action: `Push`, `Pop` and `GiveUp` are the steps of the FIFO queue, the
calls map to calls, all others stutter. It is what allows the other modules to use
a sequence for a queue.

**Files** (`FilePipelineProofs`, `FileLifeProofs`). Eight theorems and a refinement about
`FilePipeline`, all but the first two under
`UniqueNames`: no two files have the same base name. It is an assumption of the theorems
and not of the module, and it is needed: with a name that is used twice the second
claim replaces the first `_inprogress` file.

* `TypeOK`, and `OneMoreFile`: after the shutdown request a processor takes at most one
  more path, since a path is taken late only from "dequeue" and the loop condition is false
  from then on.
* `ClaimExclusive` and `NothingOverwritten`. Neither is inductive: they say nothing of the
  paths still in the queue, which can be old. `ClaimInvariant` says why a rename is a claim:
  a path in hand (in `m_file_paths`, in the queue, or taken and not yet claimed) has fewer
  `_inprogress` suffixes than the name any processor works under, and never more than
  the file has now. So a claim for a path finds a file only when no processor has it,
  and the name it moves the file to is new. The suffixes only grow: events for names
  with `_inprogress` are filtered out, and the listing at the start happens when nobody
  holds a path.
* `ArchivedIsFinal`: no step touches an archived file, in this run or a later one. The
  steps are sorted once (`StepKinds`): those that leave names and owners alone (`Aside`), a
  claim, an archive, a row, the end of the process. The theorems below use the same kinds.
* `AttemptsBoundedByRuns`: a row is handed on at most once per start. `AttemptInvariant` adds
  which rows can still be handed on in this run (`MayRead`): those of a file without an owner,
  and those behind the position of its owner; they were handed on in earlier runs
  only.
* `ArchivedWasRead`: an archived file that could be opened was read to its end, unless the limit
  of exceptions, a producer that still wrote it, or a line that is too long stopped its last
  reader. `ReadInvariant` follows the stream of the owner, position by
  position, and says that a file that is not there yet has its first name: a file cannot
  appear under a name that says it was archived.
* `ImplementsLifecycle`: names, events, queues and crashes give each file the life of
  `FileLifecycle`. The abstract state is read from the name and the owner (`View`); the
  invariant behind it counts suffixes: a file was claimed at most once per run
  (`LifecycleInvariant`), which is what makes the second claim of a file in one run impossible.
* `Tracked`: a file that the poller has discovered is on its way to a processor, or a
  processor has it, or it is archived. `TrackInvariant` says so of each file that is known in this
  run, and that the poller's buffer is empty unless it is looking at events. Two assumptions are
  the limits of the program and not of the proof: `MovedIn = {}` (a file that is renamed into
  the directory is not noticed; `moved_in` is the counterexample) and `[]Room` (the
  kernel drops events when its queue is full). Where the proof uses them: the event of a close
  is in the queue when the directory is watched.

**Threads** (`LifecycleProofs`). `NoLostWakeup`: the LogProcessor never sleeps, without a
notification on its way, while no processor handles a file. `WakeupInvariant`: the counter
`active_processors` is the number of processors between their entry and their exit, and as it is
changed under `log_cv_mutex` only, it does not become 0 between the test and
the sleep. `ProducerOutlivesUse` and `AllLogged`: `ExitInvariant` follows the joins of `main()`;
the LogProcessor drains the queue only after all workers were joined, so that nobody can
enqueue behind its back, and messages written and waiting are numbered without a gap.

**Rows** (`RowPublisherProofs`). `EndsWithOwnFrame`: whatever a buffer has at its front, from
`serialize()` on it ends with the frame of this row and this topic, and the schema is registered
by then, also when two processors register it at once (`FrameInvariant`). `NoSilentLoss`: a row that
`publish()` waits for is queued, delivered or reported, in whichever thread the report is
served (`LossInvariant`). `AcceptedOnce`: no message of a topic that is still to do is in
the producer, so that the retry after a full queue cannot double one (`AcceptInvariant`; it
needs that two processors never have the same row).

**The start** (`StartupProofs`), for any document, any answer of the libraries and any number of
cores; `ApplicationIsConfigured`, in `ApplicationProofs`, carries the results over to
`Application`, whose workers do not disturb `main()`. `TransformsInOrder` is proved there.

* `WorkersHaveHandles`: `main()` never tests the handle of the registry; `HandlesInvariant` says
  why it need not: once the ids are fetched, a null handle comes with no schemas (with some,
  `main()` has crashed), with no schemas or no producer no processor is built, and there is
  one to build at least.
* `StartedAsConfigured`: `ConfigInvariant` says for each section that behind it `main()` has what
  the section says, or a signal was sent. That the fields of a schema have the names and types
  of the configuration (`NewName`, `NewType`, from the README) follows from the two maps that
  `main()` keeps with it. A signal that was sent stays, so that the invariant need
  not remember which error it was.
* `NoFalseAlarm`, on the way of `main()` to the workers: `SoundInvariant` has what each place of `main()` needs to go on. The work is in
  the lemmas on `Sound`, which is written from the README and not from the checks of the
  code: no section is missing, no two fields clash, each transform is complete.
* `TransformsInOrder`: the chain has all transforms in their order. This is an induction over
  the loop in `ConfigParser::transformers()` (`ChainInOrder`).

**Reading** (`CsvReaderProofs`, `ApplicationProofs`), for any header, any files that fit
`FilesAssumption` (rows of any number of fields of any characters but line ends, quoted where
needed or everywhere, either line end, with or without one at the end), any transforms and
any topics. The other assumptions: names of columns have no commas and are distinct, `Chars` has the
characters that the reader and two transformers write themselves, and what is read behind the end of
`m_columns` (`Junk`) is no name of the configuration. The operators first:

* `HeaderIsSplit` and `LineIsRead`: `Split` gives back the names that were joined, and the map of
  `Parsed` has, under each name, the field that was written, whatever was in the map before.
  `Reads(p, s, q)` says that the state machine goes from `p` to `q` over the text `s`;
  it is composed piece by piece, a field without quotes (`UnquotedIsRead`), a quoted one
  (`QuotedIsRead`), a field with its comma, a line.
* `FileIsCut` and `LineIsGot`: `Left(f)[k]` is the text behind the first `k` lines of a file, and
  `getline` on it returns the next line and leaves `Left(f)[k + 1]`. Something is left as long as there are
  lines (`SomethingIsLeft`); this is where `EndsWithLine` is needed: an empty row at the end, with no
  new line behind it, is no line.
* `AppliedValue`: a transformer changes its own column only, and what it makes of it depends
  on that column and on the one it adds.

Then the invariants, each with one lemma per action:

* `TypeOK` and `EveryLineOnce` from `ReaderInvariant`: with `n` rows handed on the stream is
  `Left(file)` behind the header and these rows, and behind one more while a row is transformed and
  published; and `eof` is set only when nothing is left, which is why the stale `m_line` after a second
  `getline` at the end is never published.
* `RowIsItsLine` from `RowInvariant`: the map is never cleared, and still between two lines a column
  that is not in the header and that nothing sets is empty; a full line overwrites all columns of
  the header; so before the transformers the row and a fresh one have the same values wherever these
  matter (`Matters`: columns of the header, and those that no later `set` fills), and this stays
  true from one transformer to the next (`SameAfterOne`). The `void` that drops transforms,
  the reported error and `SetFirst` are the conditions of the property and are used here.
* `SoundIsRead` from `FitInvariant`: the line in the row is always one that fits, also the stale one
  that is parsed again at the end of the stream, so that `LineIsRead` gives the parser no more columns
  than there are; and only the age limit can end the process then, which every processor has
  (`StartedAsConfigured`, `NoFalseAlarm`).

Definitions that were wrong before the proofs were tried. `Sound` and `StartedAsConfigured` took the
values in a section as they are, while the code drops those that are no scalars: for a
nested `client.id` the alarm is not false. They now speak of the scalars (`Settings`).
`FilesAssumption` of `FilePipeline` did not say that `NoName` is no processor, which the owner of a file in
`FileLifecycle` needs. `RowIsItsLine` did not have the condition `SetFirst`, without which it is false.

Induction. The theorems of the library that take a predicate as a parameter cannot be used with
the provers at hand. `Induction` in `CsvReaderProofs` gets induction over an interval from
a first-order fact instead, that the subsets of a finite set are well-founded. That a
recursive function over `0..n` exists and takes its steps (`Iterated`) is proved with it, by
induction over the steps taken; what the function computes is then one more induction.
This is how the loops over characters, words, lines and transformers are unfolded
(`ParsedInSteps`, `SplitInSteps`, `OperationInSteps`, `Flattened`, `ChainInOrder`).

Only model-checked:

* what is temporal (`EventuallyArchived`, `ProcessorsStop`, `WorkersEnd`, `EventuallyLogged`,
  `RowsGetThrough`, `GoodConfigurationStarts`, `BadConfigurationStops`): liveness under fairness,
  which needs ENABLED, is out of the prover's reach;
* `ReadmeExample`, which is about the constants of `MCApplication`;
* the properties of the failing runs, which are false.


## 5. Not modelled

Avro and the conversion of values, the parsing of YAML, and the log sinks, which
only write. The poller for macOS (`DirectoryPollerMacOS.cpp`), which is compiled in
place of the inotify one: the project follows the Linux build. The versions of
schemas in the registry: an id that was fetched is used as it is. The messages that
are lost in the log queue when an exception ends the process. The signal thread
after the end of `main()`, which it may outlive (`main.cpp:77`). Names that Avro does
not accept.
Fields with a new line in them and quoted headers, which the reader does not
understand and no document mentions. A failing
`inotify_init` or `inotify_add_watch`. Files deleted by others. The sizes of
messages (only the number of messages in the producer's queue is limited).
`ResultContainer` is used by nothing.

## 6. Plan

Done: `FilePipeline` with `FileLifecycle`, `SafeQueue`/`FifoQueue`, `Lifecycle`,
`RowPublisher`, `Startup`, `CsvReader` with `Transformers`, `Application`, and the
proofs above: every safety property that a passing run checks is proved for every value
of the constants, but for `ReadmeExample`. What could follow:

1. Rows that are shorter than the header: the model has them, and they show the fields of the
   line before, transformed again. A property needs a document that says what they should be.
2. Fields with a new line in them and quoted headers, once the reader understands them.
3. The poller for macOS, as a second implementation of the discovery in `FilePipeline`.
