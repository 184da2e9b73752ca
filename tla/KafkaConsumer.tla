---------------------------- MODULE KafkaConsumer ----------------------------
(***************************************************************************)
(* The KafkaConsumer program: main of KafkaConsumer.cpp and the            *)
(* KafkaConsumerWrapper it runs, one process per member of Consumers.      *)
(*                                                                         *)
(* A process subscribes, polls once to learn its partitions and throws     *)
(* that poll's records away, seeks the partitions it then owns to their    *)
(* beginning, and polls in a loop, giving each record to processRecord,    *)
(* until a signal clears `running`; then it closes the consumer.  Offsets  *)
(* are committed behind its back (enable.auto.commit).                     *)
(*                                                                         *)
(* The records polled and not yet processed are those of its partitions    *)
(* between done[p] and fetched[p]: a poll may interleave the partitions in *)
(* any way, but within one partition offsets come in order.                *)
(***************************************************************************)
EXTENDS ConsumerGroup

CONSTANT MaxLaunches  \* bound: how often the processes are launched, in all

ASSUME LaunchAssumption == MaxLaunches \in Nat

VARIABLES
  pc,         \* where each process is
  running,    \* the flag the signal handler clears, per process
  done,       \* the next offset processRecord will be given, per partition
  launches,   \* how often a process was launched
  seen,       \* history: <<p, o>> processed by each process since its launch
  processed,  \* history: <<p, o>> processed by any process, ever
  dropped     \* history: <<p, o>> handed to a process that never looked at it

programVars == <<pc, running, done, launches, seen, processed, dropped>>
vars == <<groupVars, programVars>>

Records == Partitions \X Offsets

\* The calls a process is inside of: subscribe, the first poll, seeking,
\* the polling loop, the loop over one poll's records.
Phases == {"off", "subscribe", "firstPoll", "seek", "loop", "records", "closed", "dead"}

TypeOK ==
  /\ GroupTypeOK
  /\ pc \in [Consumers -> Phases]
  /\ running \in [Consumers -> BOOLEAN]
  /\ done \in [Partitions -> Offsets]
  /\ launches \in 0..MaxLaunches
  /\ seen \in [Consumers -> SUBSET Records]
  /\ processed \subseteq Records
  /\ dropped \subseteq Records

Init ==
  /\ GroupInit
  /\ pc = [c \in Consumers |-> "off"]
  /\ running = [c \in Consumers |-> TRUE]
  /\ done = [p \in Partitions |-> 0]
  /\ launches = 0
  /\ seen = [c \in Consumers |-> {}]
  /\ processed = {}
  /\ dropped = {}

Goto(c, phase) == pc' = [pc EXCEPT ![c] = phase]

\* Records of partition p at the offsets in S.
At(p, S) == {p} \X S

Live(c) == pc[c] \notin {"off", "closed", "dead"}

\* The records c has polled and not yet processed.
Batch(c) == UNION {At(p, done[p]..(fetched[p] - 1)) : p \in Owned(c)}

\* The read cursor of a partition that was given up is of no use.
ForgetDone(c) == done' = [p \in Partitions |-> IF owner[p] = c THEN 0 ELSE done[p]]

-----------------------------------------------------------------------------
(* The program. *)

\* main starts and calls consumerWrapper.start(), which subscribes.
Launch(c) ==
  /\ ~Live(c)
  /\ launches < MaxLaunches
  /\ launches' = launches + 1
  /\ Join(c)
  /\ Goto(c, "subscribe")
  /\ running' = [running EXCEPT ![c] = TRUE]
  /\ seen' = [seen EXCEPT ![c] = {}]
  /\ UNCHANGED <<done, processed, dropped>>

\* subscribe gives up waiting for an assignment and throws; main catches
\* nothing, so the process is terminated.
SubscribeFails(c) ==
  /\ pc[c] = "subscribe"
  /\ Leave(c)
  /\ Goto(c, "dead")
  /\ ForgetDone(c)
  /\ UNCHANGED <<committed, running, launches, seen, processed, dropped>>

\* The poll that start() makes to get its partitions assigned: the records
\* it returns are thrown away.
FirstPoll(c) ==
  /\ pc[c] = "firstPoll"
  /\ \E f \in PollResults(c) :
       /\ HandOver(f)
       /\ done' = [p \in Partitions |-> IF owner[p] = c THEN f[p] ELSE done[p]]
       /\ dropped' = dropped \cup
            UNION {At(p, fetched[p]..(f[p] - 1)) : p \in Partitions}
  /\ Goto(c, "seek")
  /\ UNCHANGED <<running, launches, seen, processed>>

\* Mutant of Seek: the cursors stay where the first poll left them.
SeekForgotten(c) ==
  /\ pc[c] = "seek"
  /\ Goto(c, "loop")
  /\ UNCHANGED <<groupVars, running, done, launches, seen, processed, dropped>>

\* assignment() and seekToBeginning() of what it returned.  No poll comes in
\* between, so the assignment cannot change under them.
Seek(c) ==
  /\ pc[c] = "seek"
  /\ fetched' = [p \in Partitions |-> IF owner[p] = c THEN 0 ELSE fetched[p]]
  /\ done' = [p \in Partitions |-> IF owner[p] = c THEN 0 ELSE done[p]]
  /\ Goto(c, "loop")
  /\ UNCHANGED <<log, committed, owner, stored, member, rebalancing>>
  /\ UNCHANGED <<running, launches, seen, processed, dropped>>

\* One poll of runPollingLoop; a poll that returns nothing changes nothing, no
\* more does one that returns errors only, which the loop prints.
Poll(c) ==
  /\ pc[c] = "loop"
  /\ running[c]
  /\ \E f \in PollResults(c) : f # fetched /\ HandOver(f)
  /\ Goto(c, "records")
  /\ UNCHANGED <<running, done, launches, seen, processed, dropped>>

\* Mutants of ProcessRecord: it runs past the end of the batch; it tries an
\* empty record again and again.
ProcessRecordPastEnd(c, p) ==
  /\ pc[c] = "records"
  /\ owner[p] = c
  /\ done' = [done EXCEPT ![p] = @ + 1]
  /\ UNCHANGED <<groupVars, pc, running, launches, seen, processed, dropped>>

ProcessRecordRetried(c, p) ==
  /\ pc[c] = "records"
  /\ owner[p] = c
  /\ done[p] < fetched[p]
  /\ log[p][done[p] + 1] # "empty"
  /\ done' = [done EXCEPT ![p] = @ + 1]
  /\ Goto(c, IF \A q \in Owned(c) : done'[q] = fetched[q] THEN "loop" ELSE "records")
  /\ UNCHANGED <<groupVars, running, launches, seen, processed, dropped>>

\* The loop over the records of one poll gives the next record of p to
\* processRecord, which only logs, whatever the record holds; `running` is
\* not looked at until the whole batch is through.  What is not given to it,
\* because record.error() is set, is an error and not a record of the log.
ProcessRecord(c, p) ==
  /\ pc[c] = "records"
  /\ owner[p] = c
  /\ done[p] < fetched[p]
  /\ done' = [done EXCEPT ![p] = @ + 1]
  /\ seen' = [seen EXCEPT ![c] = @ \cup {<<p, done[p]>>}]
  /\ processed' = processed \cup {<<p, done[p]>>}
  /\ Goto(c, IF \A q \in Owned(c) : done'[q] = fetched[q] THEN "loop" ELSE "records")
  /\ UNCHANGED <<groupVars, running, launches, dropped>>

\* Mutant of Stop: `running` is looked at between two records of a batch.
StopInBatch(c) ==
  /\ pc[c] \in {"loop", "records"}
  /\ ~running[c]
  /\ committed' = CommittedStored(Owned(c))
  /\ Leave(c)
  /\ Goto(c, "closed")
  /\ ForgetDone(c)
  /\ UNCHANGED <<running, launches, seen, processed, dropped>>

\* stop(): the loop has seen `running` false; closing commits what is stored
\* and leaves the group.
Stop(c) ==
  /\ pc[c] = "loop"
  /\ ~running[c]
  /\ committed' = CommittedStored(Owned(c))
  /\ Leave(c)
  /\ Goto(c, "closed")
  /\ ForgetDone(c)
  /\ UNCHANGED <<running, launches, seen, processed, dropped>>

\* stopRunning, on SIGINT or SIGTSTP.
StopRunning(c) ==
  /\ Live(c)
  /\ running[c]
  /\ running' = [running EXCEPT ![c] = FALSE]
  /\ UNCHANGED <<groupVars, pc, done, launches, seen, processed, dropped>>

-----------------------------------------------------------------------------
(* The process dies; the library and the coordinator act on their own. *)

\* A crash, a SIGKILL, or a SIGTERM, for which no handler is installed.
Crash(c) ==
  /\ Live(c)
  /\ dropped' = dropped \cup Batch(c)
  /\ Leave(c)
  /\ Goto(c, "dead")
  /\ ForgetDone(c)
  /\ UNCHANGED <<committed, running, launches, seen, processed>>

\* The library commits the stored offset of one partition on its own, with
\* its timer or with the next poll.
AutoCommit(p) ==
  /\ owner[p] # NoOne
  /\ stored[p] # NoOffset
  /\ committed' = CommittedStored({p})
  /\ UNCHANGED <<log, owner, fetched, stored, member, rebalancing>>
  /\ UNCHANGED programVars

\* The process is inside a poll that can serve a rebalance.
Polling(c) == pc[c] \in {"subscribe", "firstPoll"} \/ (pc[c] = "loop" /\ running[c])

\* A poll serves the revocation, which commits what is stored.
Revoked(c) ==
  /\ Polling(c)
  /\ committed' = CommittedStored(Owned(c))
  /\ Rejoin(c)
  /\ ForgetDone(c)
  /\ UNCHANGED <<pc, running, launches, seen, processed, dropped>>

\* The polls of the members serve the new assignment; reading starts at the
\* committed offset or, with auto.offset.reset "earliest", at 0.  The
\* subscribe call of a new member returns.
Assigned ==
  /\ \A c \in Consumers : member[c] = "joining" => Polling(c)
  /\ Assign([c \in Consumers |-> [p \in Partitions |-> 0]])
  /\ done' = fetched'
  /\ pc' = [c \in Consumers |-> IF pc[c] = "subscribe" THEN "firstPoll" ELSE pc[c]]
  /\ UNCHANGED <<running, launches, seen, processed, dropped>>

Produced(p, kind) ==
  /\ Produce(p, kind)
  /\ UNCHANGED programVars

-----------------------------------------------------------------------------

Next ==
  \/ \E c \in Consumers :
       \/ Launch(c) \/ SubscribeFails(c) \/ FirstPoll(c) \/ Seek(c)
       \/ Poll(c) \/ Stop(c) \/ StopRunning(c) \/ Crash(c) \/ Revoked(c)
  \/ \E c \in Consumers, p \in Partitions : ProcessRecord(c, p)
  \/ \E p \in Partitions : AutoCommit(p)
  \/ Assigned
  \/ \E p \in Partitions, kind \in Kinds : Produced(p, kind)

Spec == Init /\ [][Next]_vars

\* A live process keeps executing, a poll finds the records that are there
\* (the broker is up), and the coordinator completes a rebalance.  Nothing
\* makes anyone launch, signal or kill a process, or produce a record.
Fairness ==
  /\ \A c \in Consumers :
       /\ WF_vars(FirstPoll(c)) /\ WF_vars(Seek(c)) /\ WF_vars(Poll(c))
       /\ WF_vars(\E p \in Partitions : ProcessRecord(c, p))
       /\ WF_vars(Stop(c)) /\ WF_vars(Revoked(c))
  /\ WF_vars(Assigned)

FairSpec == Spec /\ Fairness

-----------------------------------------------------------------------------
(* Properties. *)

\* In its loop a process has processed, since its launch, every record of
\* its partitions that lies behind its read cursor: "Seek to the beginning
\* of all partitions" (KafkaConsumerWrapper.cpp:48).
ReadsFromBeginning ==
  \A p \in Partitions :
    owner[p] # NoOne /\ pc[owner[p]] \in {"loop", "records"}
      => At(p, 0..(done[p] - 1)) \subseteq seen[owner[p]]

\* The group's committed offset only passes records that were processed, are
\* being processed, or were handed to a process that threw them away (the
\* first poll) or died with them: no stop, signal or rebalance loses any.
OnlyDroppedAreSkipped ==
  \A p \in Partitions :
    At(p, 0..(committed[p] - 1))
      \subseteq processed \cup dropped \cup At(p, done[p]..(fetched[p] - 1))

\* A process told to stop gets out of the records of its last poll and
\* closes its consumer, however many records there are and whatever they
\* hold, unless it dies first.
StopsWhenAsked ==
  \A c \in Consumers :
    (pc[c] \in {"loop", "records"} /\ ~running[c]) ~> (pc[c] \in {"closed", "dead"})

\* "After a message produced by KafkaProducer program, KafkaConsumer fetches
\* this message" (README.md:27): while a consumer is up, a record that is
\* in the log gets processed, unless every consumer stops.
EveryRecordProcessed ==
  \A p \in Partitions, o \in 0..(MaxOffset - 1) :
    (o \in Recorded(p) /\ \E c \in Consumers : Live(c))
      ~> (<<p, o>> \in processed \/ \A c \in Consumers : ~Live(c))

=============================================================================
