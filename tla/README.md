# KafkaExample in TLA+

A verification project for KafkaExample: a producer and a consumer of English
words over Apache Kafka, with their logging.  The modules model the programs as
the C++ does it, TLC checks them on small instances, and TLAPS proves every
safety property the runs check for every value of the constants.

Contents: [the system](#the-system), [the hazards](#what-is-hard-in-it),
[the modules](#the-modules), [the runs](#the-runs), [fairness](#fairness),
[the proofs](#the-proofs), [the findings](#the-findings),
[what is not modelled](#what-is-not-modelled),
[how to run](#how-to-run).

## The system

Four programs; each `.cpp` in the root of the repository is one `main`.

| Component | Code | State it keeps | Operations |
|---|---|---|---|
| Consumer | `KafkaConsumer.cpp`, `src/KafkaConsumerWrapper.cpp` | `running` (global, atomic), the client object | `start` (subscribe, first poll, seek), `runPollingLoop`, `processRecord`, `stop`, `stopRunning` on a signal |
| Producer | `KafkaProducer.cpp`, `src/KafkaProducerWrapper.cpp` | `running`, a client object per message | `main`'s loop, `sendMessage`, the delivery callback, `stopRunning` |
| Vocabulary database | `src/JSONDatabaseVocabulary.cpp`, `getVocabulary` | eleven singletons, one per word type, each with a parsed JSON file and a `shared_mutex`; a map from name to singleton | load all files at start, `size`, `read`; choose a word at random |
| Log sink | `src/Logger.cpp`, `src/UDPLogger.cpp` | one `ProtoLog` and one socket for all threads | `initLogger`, `send`, `sendLog` |
| UDP server | `src/UDPServer.cpp` | `recvBuffer`, one pending receive | `start`, `handleReceive` |
| Log compression | `checkAndCompressLog` in `src/Logger.cpp` | the log directory, `running` of the sink | every 30 s: rename and compress big files |
| Life cycle | both `main`s | the server's `std::thread`, the signal handlers | start in order, stop, destructors |
| Manual-commit consumer | `KafkaManualCommitConsumer.cpp` | `allCommitted`, `lastTimeCommitted`, local `running` | poll, print, quit on an empty message, `commitAsync` once a second |
| Admin client | `KafkaAdminClient.cpp` | none | fetch metadata, create, list and delete a topic, each with a time-out |
| Messages | `*.pb.cc`, `*.pb.h` (generated), `*.proto` | `Vocabulary` with its `Synonym`s, `ProtoLog` | set, clear, merge, copy, swap, size, serialize, parse |
| Kafka | not in the repository: brokers, the group coordinator, modern-cpp-kafka over librdkafka | logs, committed offsets, assignments, read positions, retries | see below |

How they interact:

* **Producer to consumer**, through the topic `test`.  `sendMessage` gives the
  client one record and closes the client, which waits for the delivery
  report; the report is given to a callback, called from inside `close()`.
  The consumer reads at its own pace.
* **Consumer to consumer**, through the group `"1"`.  All consumer processes,
  the manual-commit one included, use the same `group.id`, so a topic's
  partitions are shared out among those that are up, and shared out again
  whenever one comes or goes.  Committed offsets belong to the group: one
  process starts where another's commits end.
* **Signal handlers to loops**, through the global `running`, which is only
  looked at between two polls or two messages.
* **Every thread to the log**, through glog, which serializes all `LOG`
  statements with one lock and calls the sink while holding it.
* **Sink to server**, through UDP datagrams to a port of the same process; all
  processes of one program want the same port.
* **Main to server thread**, which uses `main`'s `udpServer` by reference.
* **Admin clients to each other**, through the topic `what` they all create and
  delete.

## What is hard in it

`PROJECT.json` lists each hazard at its line, with the properties that would
catch it, and a note where a property excepts what the code plainly does.  In short:

* **Offsets are committed before records are looked at.**  With
  `enable.auto.commit` the client stores the offset of what a poll returned and
  commits it on its own, while `processRecord` still works through the batch;
  the first poll's records are never looked at.  A crash, a rebalance, a signal
  or a relaunch in between decides whether a record is lost, read twice, or
  both.  Correct is: a committed offset never passes a record that nobody was
  given, and a process reads what it owns from the beginning.
* **Retries and late copies.**  Every message has a client of its own, the
  idempotence setting has a misspelled name and no effect, requests are sent
  again, and an old request can reach the broker after the process that sent it
  died.  Correct is: reports are final, a delivered message is in the log, and
  in its place.
* **A stop that waits.**  `running` is looked at between batches and between
  messages only, and `close()` has no time limit.  Correct is: a program that
  is told to stop does.
* **One `ProtoLog` for all threads**, protected only by the lock glog happens to
  hold, and `LOG` statements inside the code that runs under this lock.
  Correct is: no datagram mixes two messages, the console keeps the order of
  the log file, and a `LOG` statement returns.
* **A server that must be re-armed by its own handler** after every datagram,
  whether it could be parsed or not.  Correct is: what reached the socket is
  shown.
* **Start and end of a program.**  A signal may come before its handler, the
  port may be taken, `size()` is `noexcept` and throws for a file without its
  key, and at the end the server's thread is still joinable.  Correct is: a
  program told to stop ends in an orderly way, the thread never outlives what
  it uses, and a bad word comes from a bad file.
* **Objects that are used again.**  One `Vocabulary` is parsed into for all
  records, one `ProtoLog` is sent for all messages; a repeated field hands out
  the elements it was cleared of, and an element is written with the size it
  kept.  Correct is: what is read is what was written, with nothing of what was
  there before.
* **Renaming, then compressing.**  The two steps can be separated by a failure or
  the end of the process, while others use the directory.  Correct is: no log
  is lost, and no file keeps another from its turn.
* **Time-outs whose requests live on.**  A request of the admin client that
  timed out may still be served, after a later one.

## The modules

| Module | Models | Kind |
|---|---|---|
| `ConsumerGroup` | brokers, coordinator and client library as the consumers use them | external, extended by the consumer modules |
| `KafkaConsumer` | the consumer program, any number of processes of it | state machine over `ConsumerGroup` |
| `KafkaConsumerProofs` | | proofs |
| `ManualCommitConsumer` | the manually committing consumer, any number of processes of it | state machine over `ConsumerGroup` |
| `ManualCommitProofs` | | proofs |
| `Delivery` | what sending one by one promises | abstract specification |
| `Producer` | the producer program, its client, the network | state machine; implements `Delivery` |
| `ProducerProofs` | | proofs, the refinement included |
| `LogSink` | start-up, `LOG` statements, sink, socket, UDP server | state machine |
| `LogSinkProofs` | | proofs |
| `Messages` | the generated classes: state, operations, bytes | operators |
| `Codec` | message objects at work in producer, consumer, sink and server | state machine over `Messages` |
| `CodecProofs` | | proofs |
| `VocabularyDatabase` | loading the eleven files, `size`, `read`, `getVocabulary` | operators |
| `LifeCycle` | processes of both programs on one host, from launch to end | state machine over `VocabularyDatabase` |
| `LifeCycleProofs` | | proofs |
| `LogCompression` | `checkAndCompressLog` and the log directory | state machine |
| `LogCompressionProofs` | | proofs |
| `AdminClient` | admin clients and their broker | state machine |
| `AdminClientProofs` | | proofs |
| `MCKafkaConsumer`, `MCManualCommitConsumer`, `MCProducer`, `MCLogSink`, `MCCodec`, `MCLifeCycle`, `MCLogCompression`, `MCAdminClient` | the instances TLC runs | model checking |

`map` in `PROJECT.json` gives, for every definition that models code, the lines
it stands for; definitions without code in the repository are marked external.
Definitions whose comment starts with *Mutant of* are not part of any
specification: each is a plausible bug, and some property fails when it takes
the place of the definition it is named after.

### ConsumerGroup (external)

Partitions with their logs, the group's committed offsets, and for each
partition its owner, the next offset the owner's poll returns (`fetched`) and
the offset its client would commit (`stored`).  `HandOver` is a poll returning
records; `CommittedStored` is a commit of what is stored, which after a seek may
lie before what was committed.  `Join`, `Leave`, `Rejoin` and `Assign` are an eager rebalance, the
default of librdkafka: a member gives up everything from inside a poll, and
when all have rejoined the coordinator assigns the partitions afresh, in any
balanced way.  Two simplifications, both stated here because they bound what
the results mean: a dead member is noticed at once, and a live one is never
evicted for polling too rarely (processing a record is some log lines; the
limit is five minutes).  No broker loses a record.

### KafkaConsumer

`pc[c]` is the call process `c` is inside of.  `Launch`, `SubscribeFails`,
`FirstPoll`, `Seek`, `Poll`, `ProcessRecord`, `Stop`, `StopRunning` and `Crash`
are the program; `AutoCommit`, `Revoked`, `Assigned` and `Produced` are the
library, the coordinator and the producer.  Rebalances are served only inside
a poll, as the library does, so an action between two polls keeps its
assignment.  The records of a poll that are still to be processed are those
between `done[p]` and `fetched[p]`: a poll may mix partitions in any order, so
`ProcessRecord(c, p)` takes the next one of any owned partition.  What
`processRecord` prints is left out: every branch of it, empty, unparsable or
good, changes nothing but the cursor, and that is what the model says (a
record's kind is kept so that a branch that behaves differently can be told
apart).  A record that carries an error is printed and not processed
(`src/KafkaConsumerWrapper.cpp:70-74`): it has no offset, moves no position and
stores nothing, so that to the model a poll that returns nothing else is a poll
that returned nothing.  `seen`, `processed` and `dropped` are history variables: nothing in
`Next` reads them.

A crash stands for everything that ends the process outside of its loop:
`SIGKILL`, `SIGTERM` (`stopRunning` knows it, but `main` installs no handler for
it), a signal before `signal()` is called, an exception (`main` catches none).

`AutoCommit` may commit what is stored at any moment while the partition is
owned.  The library does it on a timer or with the next poll; leaving
the moment open covers every configuration of it.

### ManualCommitConsumer

The loop of `KafkaManualCommitConsumer.cpp`: `Poll`, `PrintRecord` for each record,
and `EndTurn`, which also comes after a poll that returned nothing.  `EndTurn`
calls `CommitAsync` if something was printed since the last one
(`allCommitted`) and a second has passed (`due`, set by `SecondPasses`).
commitAsync only asks: the offsets wait in `pending` until `CommitServed` or
`CommitRefused`, whatever the program does in the meantime, and are lost with
the process; closing the consumer, which the end of `main` does by destroying
it, and giving partitions up wait for them.  `QuitOnEmpty` ends the loop over the
batch at an empty record, and then the program; the turn it happens in may still
commit, for the rest of the batch, too.  A record that carries an error (lines 88-90) is
printed and leaves `allCommitted` as it is; it has no offset and its value, the
library's text about the error, is not empty, so that it is no more than an empty poll
here, too.  Nothing is committed automatically, and
where the group has committed nothing a process starts at the end of the
partition (`auto.offset.reset` is not set).  `skipped` is the history of what
this passes over, and of what a quit leaves unread.

### Delivery and Producer

`Delivery` is the promise: a message is accepted only after the one before has
its report (`delivered`, `failed`, or `abandoned` when its sender died), and
`delivered` only if it is in the log.  Copies may be recorded at any time.

`Producer` is the program.  `Turn`, `Send`, `Close`, `Wake` and `Stop` are the
loop of `main` with `sendMessage` in it; `SerializeFails` is its one early
return; `Crash` leaves requests on the network and an abandoned message behind,
and `Launch` starts a new process on top of both.  `Transmit`,
`RequestTimesOut`, `Answered` and `MessageTimesOut` are the client, in which a
message is tried up to `MaxAttempts` times; `BrokerRecords` and `Lose` are the
network, which may keep a request for as long as it likes, whoever still waits
for it.  The delivery callback only logs; what matters is that `close()` does
not return before it was called.

The refinement mapping is the identity on `log`, `to` and `report`; every
other step of `Producer` is a stutter of `Delivery`.

### LogSink

A message is the number of its turn on glog's lock, so that 1, 2, 3... is the
log file.  `Log`, `Lock`, `Unlock` are glog; `ClearLog`, `SetDate`,
`SetMessage`, `SendLog` and `SendFails` are `CustomLogSink::send` field by
field, to leave room for another thread between any two; `Receive`,
`HandleReceive` and `ReceiveError` are the server.  `AddLogSink`, `BindServer`
and `StartServer` are the start of a program, during which only main logs:
before the sink is added nothing is sent, before the socket is bound datagrams
vanish, before the thread runs they queue up.  glog's lock is not recursive:
`SendFails` moves the thread to a `LOG` statement whose lock it already holds.  It is
sending that fails; the statement at `src/Logger.cpp:117` is reached when serializing
does, which it does not for messages of this size.
`recvBuffer` has 4096 bytes and a message may be longer: such a datagram
(`long`) cannot be parsed, and `HandleReceive` prints something else instead
and goes on.

### Messages and Codec

`Messages` is what protoc made of the two `.proto` files, operation by operation:
`VocabularyClear`, `VocabularyMerge`, `VocabularyCopyFrom`, `VocabularySize`,
`VocabularyWrite` and so on, and the same for `Synonym`, with the state that no
accessor shows: the cleared elements a repeated field keeps (`spare`) and the size
an element keeps from the last `ByteSizeLong` (`cached_size`), from which its
length is written.  `EditWord` and the other `Edit` operators are a field's
accessors: everything `set`, `mutable`, `release` and `clear` can leave in it.
The wire format and the parser that walks the generated tables are libraries;
they are modelled as far as the tables use them, with one byte for every tag,
length and number.  A string is a few bytes, one of which may not be UTF-8:
serializing checks that and goes on, parsing stores the string and fails.

`Codec` has `Objects` that any caller may edit, merge, copy, swap, write and read
in any order, bytes of which the last may be missing (`CutOff`) or that have a
field of a later version (`Extend`), and the sink's `log` with the server's
`recvBuffer`.  `GetVocabulary`, `SerializeToArray`, `Parse`, `Send` and
`HandleReceive` are the calls of the programs.

### VocabularyDatabase and LifeCycle

A vocabulary file is described by what can be wrong with it (`Contents`), what is
loaded of it by what `size()` and `read()` make of it (`Loaded`).  `Constructed` is
a constructor: a missing or truncated file is logged and leaves in `j` what was read
of it; a file without the key makes `size()` throw out of a `noexcept` function,
still in the constructor.  `getVocabulary` is the choice of a type and a word, with
a distribution from 0 to -1 for an empty list, which may give anything.

`LifeCycle` is `main` of both programs: the statements before the loop in each
program's own order (`ProducerStart`, `ConsumerStart`), the loop with one step for a
turn, and the end.  `Ends` is the end of a process, which frees its port.
`PortTaken`, `LoadTerminates` and a terminating word are the exceptions nobody
catches; `EndOfMain` destroys `serverThread` before `udpServer`, the reverse of their
declaration, and the first of the two ends the process.  `StopRunning`, `Terminate`,
`Suspend` and `Continue` are the signals: `SIGINT` and `SIGTSTP` call `stopRunning`
once the handlers are there; `SIGTSTP` before that suspends; `SIGTERM` and, before the
handlers, `SIGINT` kill.

### LogCompression

Files are numbered in the order of their creation; `txt`, `plain` and `bz2` say
which file has which name in which form.  `Scan`, `Skip`, `Select`, `Rename`,
`RenameThrows`, `Compress`, `CompressFails` and `Sleep` are the loop of the thread;
`SizeThrows` is `file_size` of an entry that has just gone, outside of the `try`
block.  glog names its files `<program>.<host>...<time>.<pid>`, without the extension
the loop looks for, so that the `.txt` files are those of somebody else:
`Create`, `Grow` and `Remove` leave them any freedom.  `Die` may come at any moment,
and bzip2 may end its work after the process.

### AdminClient

Each client makes its calls in the order of `CallAt`; a call waits for its reply
(`Return`) or times out (`TimesOut`), and the next is made either way.  `Serve` is the
broker: in any order, at any time, also after the time-out.  A request or a reply
that is lost is one that is never served or never returned.  Of the topics only
`what` is modelled; a broker may be configured to create a topic it is asked about
(`autoCreate`).  It never refuses to delete a topic that is there, as a broker with
`delete.topic.enable=false` would: then every topic the program makes stays, and there
is nothing to say about it.

## The runs

| Run | Instance | Checks | Result |
|---|---|---|---|
| `consumer_single` | 1 process, 2 launches, 1 partition, 3 records, good or empty | `ReadsFromBeginning`, `StopsWhenAsked`, `EveryRecordProcessed` | holds |
| `consumer_group` | 2 processes, 3 launches, 2 partitions, 2 records each | `TypeOK`, `OnlyDroppedAreSkipped` | holds |
| `consumer_late_partition` | as above | `ReadsFromBeginning` | violated |
| `manual_commit` | 2 processes, 3 launches, 1 partition, 2 records, good or empty | `TypeOK`, `CommittedArePrinted`, `PolledIsCommitted`, `QuitsOnEmpty` | holds |
| `producer` | 3 messages, 2 attempts each, 2 launches | `TypeOK`, `DeliveryOrder`, `ImplementsDelivery`, `StopsWhenAsked` | holds |
| `logsink` | 3 threads, 4 `LOG` statements, a socket for 2 datagrams | `TypeOK`, `NoTornLog`, `ShownInOrder`, `EveryLogReturns`, `EveryDatagramShown` | holds |
| `logsink_failed_send` | the same with 3 `LOG` statements | `FailedSendIsLogged` | violated |
| `codec` | 2 objects, 3 words, 4 calls in any order, log messages below, at and above `RecvSize` | `TypeOK`, `ReadsWhatWasWritten`, `SizeIsExact`, `MergeIsReadingBoth`, `CopiesAreEqual`, `LogIsShownWhole` | holds |
| `lifecycle` | 1 producer, 2 consumers, 2 launches, one damaged file or none found | `TypeOK`, `ServerOutlivesThread`, `BoundUntilEnd`, `AskedToStopEnds`, `BadWordNeedsBadFile` | holds |
| `lifecycle_abort` | the same | `ReturnMeansExit` | violated |
| `compression` | 2 names, 3 files, 2 launches | `TypeOK`, `NothingLost`, `FullGetsCompressed` | holds |
| `admin` | 2 clients | `TypeOK`, `NoTopicLeft`, `ListShowsCreated`, `EveryClientEnds` | holds |

The bounds and why they are enough:

* *Launches.*  Two launches of one process are a crash or a stop and what comes
  after it.  Three launches over two processes let one die, be replaced, and
  rebalance with a survivor.
* *Partitions.*  Two partitions and two processes give every shape of a
  rebalance: one process has all, each has one, one gets a second one later.
* *Records.*  Three records in one partition are one processed, one in the
  batch, one not yet polled.  Two in each of two partitions, for the run that
  has two processes, still let a commit fall inside a batch.
* *Messages and attempts.*  Three messages are one before and one after the one
  looked at; one retry is enough for a duplicate and for a late copy.
* *Threads and `LOG` statements.*  Main, one other thread and the server; four
  statements fill the socket of two, overflow it, and queue for the lock.
* *Objects and calls.*  Four calls are what it takes to fill an object, write it, fill
  or clear another and read into it, and two of three words have elements of
  different shape, so that something can be left over.  `RecvSize` is 11 bytes, so
  that of the texts one fits with room, one exactly, and one not.
* *Processes and files.*  Two of the three processes run at a time: two of one
  program meet at the port, one of each does not.  One file is damaged in each of five ways,
  which is what `getVocabulary` can meet in one turn; all missing is a start in a
  wrong directory.
* *Log files.*  Three files of two names let one replace another and leave a third that
  must not be kept waiting.
* *Admin clients.*  Two clients give every order of two times four calls and
  requests that outlive them.

`consumer_group` uses symmetry of processes and of partitions; the runs with
liveness properties do not.  Deadlock is not checked: every program here may
stop, and the bounds stop the model.

What the properties mean:

* `ReadsFromBeginning`: in its loop, a process has processed since its launch
  every record of its partitions behind its read cursor.
* `OnlyDroppedAreSkipped`: the group's committed offset passes only records that
  were processed, are in the current batch, or were in a batch that was thrown
  away (by the first poll) or died with its process.  So stopping and
  rebalancing lose nothing.
* `EveryRecordProcessed`: while some process is up, a record in the log is
  processed eventually.  It holds of a process alone in its group
  (`consumer_single`), and not of two, for the reason told under the findings.
* `StopsWhenAsked` (consumer and producer): a program told to stop ends.
* `CommittedArePrinted`: with manual commits, the committed offset passes only
  printed records and those a quit or a reset to the end passed over, never one
  of a batch that is being printed or died with its process.
* `PolledIsCommitted`: what was polled is committed while the process keeps the
  partition; after a commit that failed, with the next record that is printed.
* `QuitsOnEmpty`: an empty record ends the program.
* `DeliveryOrder`: a delivered message is recorded before any later message of
  its partition, over retries, crashes and relaunches.
* `ImplementsDelivery`: the refinement of `Delivery`.
* `NoTornLog`, `ShownInOrder`: no datagram mixes two messages; the console shows
  a subsequence of the log file.
* `EveryLogReturns`: `LOG` returns as long as nothing failed to be sent;
  `FailedSendIsLogged` is the same without the exception.
* `EveryDatagramShown`: what reached the socket is printed, unless receiving
  itself fails.
* `ReadsWhatWasWritten`: parsing bytes that were written from a message gives this
  message, whatever the object held, unless a string is not UTF-8: then it fails.
* `SizeIsExact`: `ByteSizeLong` is the length of what `SerializeToArray` writes.
* `MergeIsReadingBoth`: merging is parsing the two messages one after the other.
* `CopiesAreEqual`: a copy has the content of its original and nothing else.
* `LogIsShownWhole`: the server prints a log message as it was logged, or that it
  cannot parse it, never a part of it.
* `ServerOutlivesThread`: while the server's thread runs, the server is there.
* `BoundUntilEnd`: a bound port is kept until the process ends.
* `AskedToStopEnds`: a process whose `running` was cleared, also during its start, ends
  with its logs shut down and its group left, unless it fails or is killed.
* `BadWordNeedsBadFile`: a word that is cut off, undefined or ends the program is from
  a file that was not good; every word is of the type chosen.
* `ReturnMeansExit`: a process that gets to `return 0` is not aborted.
* `NothingLost`: a log file is there in exactly one of its forms, unless it was taken
  away by others or replaced by a later file of its name.
* `FullGetsCompressed`: a full `.txt` file gets compressed unless renaming or
  compressing that very file fails, it is taken away or replaced, or the process ends.
  Failures count for the pass they happen in: a file that could not be renamed is still
  a `.txt` file, and the next pass has to bring it further.
* `NoTopicLeft`: when all clients have returned, the topic is gone, unless a deletion
  timed out or a call that makes the topic (creating it or, where the broker does that,
  asking about it).  Listings may time out as they like.
* `ListShowsCreated`: a client that created the topic has it in its list, unless
  another one has asked for its deletion.
* `EveryClientEnds`: every admin client returns.

## Fairness

All of it is weak fairness of single steps.

* Consumer: a live process executes; a poll finds the records that are there
  (the broker is up); the polls serve a pending rebalance and the coordinator
  completes it.  `Launch`, `StopRunning`, `Crash`, `Produced`, `AutoCommit` and
  `SubscribeFails` have none: nobody has to launch, signal or kill anything.
* Manual commits: a live process executes, its seconds pass, and a commit is
  served or fails.  No poll has to return a record, no rebalance to end.
* Producer: a live program executes, and the client's `message.timeout.ms` runs
  out.  The network has no fairness at all, so `StopsWhenAsked` holds with the
  broker away for ever: `close()` has no limit of its own, the client does.
* Logging: each thread goes on inside a `LOG` statement, start-up goes on, the
  server's thread runs.  That glog's lock is fair is not assumed: `MaxLogs`
  bounds how often a waiting thread can be overtaken.
* Life cycle: a process that is not suspended executes.  Nobody has to launch,
  signal or continue it; no receive has to fail.
* Compression: the thread runs and bzip2 comes to an end.  Renaming and compressing
  need never succeed.
* Admin client: a client executes, and the time-out of its call strikes if no reply
  comes.  The broker need not serve anything.  (`listTopics()` is called without a
  time-out of its own; the client library has a default.)

## The proofs

All theorems are about `Spec`, for every value of the constants that the named
assumptions of the modules allow: any sets of processes, partitions and
threads, any bounds, any objects and words.  Every invariant of a passing run is the
subject of one, and every action property; `ReadsFromBeginning`, which
`consumer_late_partition` refutes for two processes, is proved for one.

| Theorem | Says | Inductive invariant |
|---|---|---|
| `KafkaConsumerProofs!TypeCorrect` | `TypeOK` | itself |
| `KafkaConsumerProofs!CommitsAreAccounted` | `OnlyDroppedAreSkipped` | `IInv` |
| `KafkaConsumerProofs!AloneReadsFromBeginning` | `ReadsFromBeginning` when there is one process | `AloneInv` |
| `ManualCommitProofs!TypeCorrect`, `CommitsFollowPrinting` | `TypeOK`, `CommittedArePrinted` | `MInv` |
| `ProducerProofs!TypeCorrect`, `DeliveredInOrder` | `TypeOK`, `DeliveryOrder` | `PInv` |
| `ProducerProofs!ImplementsDeliverySpec` | `ImplementsDelivery` | `PInv` |
| `LogSinkProofs!TypeCorrect`, `NothingIsTorn`, `ConsoleKeepsOrder` | `TypeOK`, `NoTornLog`, `ShownInOrder` | `LInv` |
| `LifeCycleProofs!ServerIsThere` | `ServerOutlivesThread` | `SInv` |
| `LifeCycleProofs!PortIsKept` | `BoundUntilEnd` | `FInv` |
| `LifeCycleProofs!TypeCorrect` | `TypeOK` | `SInv`, `Flags`, `PortInv`, `WordInv` |
| `LifeCycleProofs!BadWordsComeFromBadFiles` | `BadWordNeedsBadFile` | `WordInv` |
| `LogCompressionProofs!TypeCorrect`, `NoLogIsLost` | `TypeOK`, `NothingLost` | `CInv` |
| `AdminClientProofs!TypeCorrect`, `NoTopicIsLeft` | `TypeOK`, `NoTopicLeft` | `TypeOK`, `CleanInv` |
| `AdminClientProofs!CreatedIsListed` | `ListShowsCreated` | `ListInv` |
| `CodecProofs!TypeCorrect`, `SizeMatchesWrite`, `MergingIsReading` | `TypeOK`, `SizeIsExact`, `MergeIsReadingBoth` | `CodecInv` |
| `CodecProofs!ReadingIsExact`, `CopyingIsExact` | `ReadsWhatWasWritten`, `CopiesAreEqual` | `CodecInv` |
| `CodecProofs!LogComesWhole` | `LogIsShownWhole` | `CodecInv` |

*Consumer.*  `OnlyDroppedAreSkipped` is not inductive: a commit raises
`committed` to `stored`, about which it says nothing.  `IInv` adds that
everything before the read cursor `done` is accounted for once it is behind
`committed` or `stored` (`CommitsAccounted`, `CursorAccounted`), that an
unowned partition has no positions (`UnownedIsReset`), that owners are members
(`OwnersAreIn`), and that outside of `records` a process has no batch
(`NoBatchBetweenPolls`), which is why a revocation or a stop drops nothing.
`GiveUpAccounted`, `HandOverAccounted`, `ProcessRecordAccounted` and
`AssignedAccounted` are the lemmas for the kinds of step.
`AloneReadsFromBeginning` rests on a fact of its own: a single process that has
subscribed meets no further rebalance, so what it sought is what it owns.
`consumer_late_partition` shows the hypothesis is needed.

*Manual commits.*  `CommittedArePrinted` follows commits back to where they are
asked for: what is committed or on its way (`CommittedPast`, `PendingPast`) is past,
what would be asked for next (`StoredPast`) is past or in the batch of a process
that is inside of its loop over the records, and `CommitAsync` is not called
there.

*Producer.*  `DeliveryOrder` needs to know where reports come from: only the
last message can be pending (`PendingIsLast`), requests are only those of
messages sent (`OnlySent`), an answer means the record is in the log
(`AnsweredInLog`), and so does `delivered` (`DeliveredInLog`).  Then a new message is
in no log when it is sent, and everything recorded later comes behind.  The
refinement is proved from the same invariant, one lemma per action.

*Logging.*  `NoTornLog` holds because of who holds the lock: `HolderInside`
(whoever is inside `send` is the holder), `LogFilled` (how far the holder has
filled the `ProtoLog`), `SentBefore` and `Increasing` (datagrams on their way
and shown are in order and older than the holder's message).

*Life cycle.*  `SInv` says that the server is there wherever `main` is past its
construction, and the thread is started only there; no step of `main` comes to the
server's destruction.  For `BoundUntilEnd` only the shapes of `fate` and `port` are
needed (`FInv`): a port is bound only when it is free, and only the end of its holder
frees it.  `TypeOK` says more, that the holder is alive and has its server, which
`PortInv` follows through the ends of processes.  A bad word is followed back to its
file in two steps (`WordInv`): of a good file the whole list was loaded, and of the
whole list any index gives a whole word of the class that was chosen.

*Compression.*  Nothing is lost because of ages (`ByAge`): of the files that share a
name, the compressed one is the oldest and the `.txt` file the youngest, so that
renaming over a file, or `bzip2 --force` over an old result, replaces an older file by a
younger one.  `Named` and `Kept` tie names to files and files to their forms.

*Admin client.*  `CleanInv` says that requests and replies belong to calls that were made
(`OnlyCalled`), that a client returns only after its deletion (`DeleteIsLast`), and
that while the topic is there the deletion of some client is still to come
(`DeletionToCome`): not called yet, waited for and not served, or timed out, which
`NoTopicLeft` excludes, as it does the time-out of a call that makes the topic
(`TimedOut`).  `ListInv` adds what a client can rely on that created the
topic: until it makes its own last call, either another client has asked for the
deletion, or the topic is there and no answer on its way says otherwise
(`SeesTopic`).  The listing is the third call (`ListIsThird`), so that no list from before the
creation can still come.

*Messages.*  `CodecInv` says how the operations leave an object (`WellObjects`): spare
elements are clear, and the unknown bytes of an object or an element are those of
fields that were read, none of them with a tag the class knows and none broken;
otherwise writing them and reading them again could give something else.  The last
bytes written are those of their `origin` (`WireInv`), the datagram is that of the log
message the sink holds, and the line is what becomes of it (`LogInv`); that date and
severity are UTF-8 and shorter than the server's buffer is what `CodecAssumption` says
of them, so that only the text can be cut off.  The rest is about values: writing an
object is writing a list of fields, `FieldsIn` finds this list in the bytes again,
also behind other bytes, and reading a list merges it into the object, field by field
for strings, element by element for synonyms, with the elements taken from the spare
ones.  From `MergedIsReadBoth` and what a clear object is, the theorems follow.

The library's induction theorems take a predicate as a parameter, which the provers
cannot instantiate.  `CodecProofs` goes around this: its lemma `Induction`, proved
from the well-foundedness of `<` on the numbers, is about a *set* of numbers, and what
is to be proved for every n is membership in such a set.  A fold is a run of its steps
(a function from 0..n), its step a function of pairs, and the recursive function of
`FieldsIn` the only one that satisfies its equation (`FromIs`), so that no lemma has an
operator for a parameter.

Only model-checked: the liveness properties, that is `StopsWhenAsked`,
`EveryRecordProcessed`, `PolledIsCommitted`, `QuitsOnEmpty`, `EveryLogReturns`,
`EveryDatagramShown`, `AskedToStopEnds`, `FullGetsCompressed` and `EveryClientEnds`:
the prover has no rules for liveness under fairness.  The violations are TLC's
counterexamples.  What is proved is about the modules: that they say what the code
does is what `map` is there to check.

## The findings

1. `consumer_late_partition` — `start()` seeks the partitions it owns after one
   poll (`src/KafkaConsumerWrapper.cpp:42-49`).  A partition it is given by a
   later rebalance is read from the committed offset.  The shortest way there:
   two processes, one of which leaves or comes after the other's seek.
2. `logsink_failed_send` — `UDPLogger::sendLog` logs its own error
   (`src/UDPLogger.cpp:44`), under the lock that the statement needs.  glog's lock is not
   recursive: the thread waits for itself, and every other thread that logs
   waits behind it.
3. `lifecycle_abort` — `serverThread` is never joined or detached
   (`KafkaConsumer.cpp:44`, `KafkaProducer.cpp:48`): its destructor at the end of `main`
   terminates the process, so that a program that was asked to stop is aborted
   after it has closed its consumer and shut down its logs, and `return 0` is never
   the exit status.

Consequences of single lines, told here and not given a run:

* `sendMessage` returns `true` whatever the delivery report says
  (`src/KafkaProducerWrapper.cpp:96`); "Failed to send message" is only printed when
  serializing fails.
* The records of `start()`'s first poll are thrown away although their offsets are
  stored for the commit (`src/KafkaConsumerWrapper.cpp:39`).  A process that seeks back
  but stops, or loses its partition, before it has read them again commits these
  offsets; the process that is given the partition by that rebalance reads behind them,
  and may stay up for ever without looking at them, although a message the producer sent
  is to be fetched and deserialized (`README.md:27` of the repository).  TLC finds it when
  `consumer_single` is given a second process and checks `EveryRecordProcessed` alone.
* A batch's offsets may be committed while it is processed
  (`src/KafkaConsumerWrapper.cpp:71`).  When such a process dies and another
  one of the group goes on, nobody processes the rest.  `OnlyDroppedAreSkipped` says
  that a commit passes only this, and what a first poll threw away.
* Where the group has committed nothing, the manual-commit consumer starts at the end
  (`KafkaManualCommitConsumer.cpp:48` sets no `auto.offset.reset`) and nobody reads
  what was recorded before; `CommittedArePrinted` excepts it.
* `commitAsync` is called without a callback and `allCommitted` is set at once
  (`KafkaManualCommitConsumer.cpp:98-101`): after a commit that failed nobody asks
  again until another record is printed.  Up to then `PolledIsCommitted` excepts it.
* A file that was renamed and could not be compressed has lost the extension the loop
  looks for (`src/Logger.cpp:142`) and stays as it is; `FullGetsCompressed` excepts it
  for the file itself, not for the others.
* The list the admin client prints after the deletion is the one it fetched before
  (`KafkaAdminClient.cpp:78`).

## What is not modelled

* The `.proto` and `.json` files (data), the wording of log lines, and what the
  configuration files set besides the keys named above.
* Of the generated code: arenas, descriptors and reflection, and `ProtoLog`'s merge,
  copy and swap, which nobody calls.  Of the database: `write()` and `update()`, which
  are empty.
* `Producer` and `KafkaConsumer` are not composed at the log: the consumer's model takes
  a record's production as a step of its own that may come at any time, which is more
  than any producer does, and the product of the two state spaces is out of reach of
  a run.  `DeliveryOrder` (order in the log) and `OnlyDroppedAreSkipped` (what of the log is
  passed over) are the two halves.
* `LifeCycle` takes a turn of a loop as one step, and the other modules take the
  process as started; they meet at `running` and at the closing of the consumer.

Worth proving next: what `Producer` and `KafkaConsumer` promise together, over a log that
both would share, as a refinement of one abstract topic; and with it that a record which is
delivered is processed or is one of those `OnlyDroppedAreSkipped` names.

## How to run

    tlc -config consumer_single.cfg MCKafkaConsumer.tla
    tlapm KafkaConsumerProofs.tla

and likewise for the other configurations and proof modules; `PROJECT.json`
says which module each configuration belongs to.  The longest run,
`consumer_group`, visits 3 million states; the longest proof, `CodecProofs`, takes some
minutes.
