------------------------ MODULE ManualCommitConsumer ------------------------
(***************************************************************************)
(* The KafkaManualCommitConsumer program, one process per member of        *)
(* Consumers.                                                              *)
(*                                                                         *)
(* A process polls in a loop and prints every record.  After each poll,    *)
(* also one that returned nothing, it asks for a commit of what it has     *)
(* polled if it has printed something since it last did and more than a    *)
(* second has passed; commitAsync does not wait for the result, and nobody *)
(* looks at it.  An empty record ends the loop over the batch and then the *)
(* program, which closes the consumer by destroying it.                    *)
(*                                                                         *)
(* auto.offset.reset is not set: where the group has committed nothing, a  *)
(* process starts at the end of the partition.                             *)
(***************************************************************************)
EXTENDS ConsumerGroup

CONSTANT MaxLaunches  \* bound: how often the processes are launched, in all

ASSUME LaunchAssumption == MaxLaunches \in Nat

VARIABLES
  pc,            \* where each process is
  allCommitted,  \* nothing was printed since the last commitAsync
  due,           \* more than a second has passed since the last commitAsync
  done,          \* the next offset the loop over the records is given
  pending,       \* the offset a commitAsync on its way will commit
  refused,       \* history: a commit has failed since the process last printed
  launches,      \* how often a process was launched
  printed,       \* history: <<p, o>> printed by any process
  skipped        \* history: <<p, o>> passed over by a quit or a reset

programVars == <<pc, allCommitted, due, done, pending, refused, launches, printed, skipped>>
vars == <<groupVars, programVars>>

Records == Partitions \X Offsets

\* "commit" is the end of a turn of the loop; "quit" the end of the last.
Phases == {"off", "subscribe", "loop", "records", "commit", "quit", "closing",
           "ended", "dead"}

TypeOK ==
  /\ GroupTypeOK
  /\ pc \in [Consumers -> Phases]
  /\ allCommitted \in [Consumers -> BOOLEAN]
  /\ due \in [Consumers -> BOOLEAN]
  /\ done \in [Partitions -> Offsets]
  /\ pending \in [Partitions -> Offsets \cup {NoOffset}]
  /\ refused \in [Consumers -> BOOLEAN]
  /\ launches \in 0..MaxLaunches
  /\ printed \subseteq Records
  /\ skipped \subseteq Records

Init ==
  /\ GroupInit
  /\ pc = [c \in Consumers |-> "off"]
  /\ allCommitted = [c \in Consumers |-> TRUE]
  /\ due = [c \in Consumers |-> FALSE]
  /\ done = [p \in Partitions |-> 0]
  /\ pending = [p \in Partitions |-> NoOffset]
  /\ refused = [c \in Consumers |-> FALSE]
  /\ launches = 0
  /\ printed = {}
  /\ skipped = {}

Goto(c, phase) == pc' = [pc EXCEPT ![c] = phase]

\* Records of partition p at the offsets in S.
At(p, S) == {p} \X S

Live(c) == pc[c] \notin {"off", "ended", "dead"}

\* The records c has polled and its loop was not given yet.
Batch(c) == UNION {At(p, done[p]..(fetched[p] - 1)) : p \in Owned(c)}

\* Nothing is kept of the partitions c gives up.
Forget(c) ==
  /\ done' = [p \in Partitions |-> IF owner[p] = c THEN 0 ELSE done[p]]
  /\ pending' = [p \in Partitions |-> IF owner[p] = c THEN NoOffset ELSE pending[p]]

\* A commit of c is on its way.
Requested(c) == \E p \in Owned(c) : pending[p] # NoOffset

-----------------------------------------------------------------------------
(* The program. *)

\* main starts and subscribes.
Launch(c) ==
  /\ ~Live(c)
  /\ launches < MaxLaunches
  /\ launches' = launches + 1
  /\ Join(c)
  /\ Goto(c, "subscribe")
  /\ allCommitted' = [allCommitted EXCEPT ![c] = TRUE]
  /\ due' = [due EXCEPT ![c] = FALSE]
  /\ refused' = [refused EXCEPT ![c] = FALSE]
  /\ UNCHANGED <<done, pending, printed, skipped>>

\* subscribe gives up waiting for an assignment and throws, which main
\* catches.
SubscribeFails(c) ==
  /\ pc[c] = "subscribe"
  /\ Leave(c)
  /\ Goto(c, "ended")
  /\ Forget(c)
  /\ UNCHANGED <<committed, allCommitted, due, refused, launches, printed, skipped>>

\* Mutants of Poll: what was polled is committed at once; a poll that
\* returns nothing goes straight to the next.
PollAndCommit(c) ==
  /\ pc[c] = "loop"
  /\ \E f \in PollResults(c) :
       /\ HandOver(f)
       /\ pending' = [p \in Partitions |-> IF owner[p] = c THEN f[p] ELSE pending[p]]
       /\ Goto(c, IF f = fetched THEN "commit" ELSE "records")
  /\ UNCHANGED <<allCommitted, due, done, refused, launches, printed, skipped>>

PollOrContinue(c) ==
  /\ pc[c] = "loop"
  /\ \E f \in PollResults(c) :
       /\ HandOver(f)
       /\ Goto(c, IF f = fetched THEN "loop" ELSE "records")
  /\ UNCHANGED <<allCommitted, due, done, pending, refused, launches, printed, skipped>>

Poll(c) ==
  /\ pc[c] = "loop"
  /\ \E f \in PollResults(c) :
       /\ HandOver(f)
       /\ Goto(c, IF f = fetched THEN "commit" ELSE "records")
  /\ UNCHANGED <<allCommitted, due, done, pending, refused, launches, printed, skipped>>

\* Mutant of PrintRecord: it runs past the end of the batch.
PrintRecordPastEnd(c, p) ==
  /\ pc[c] = "records"
  /\ owner[p] = c
  /\ done' = [done EXCEPT ![p] = @ + 1]
  /\ UNCHANGED <<groupVars, pc, allCommitted, due, pending, refused, launches,
                 printed, skipped>>

\* The loop over the records prints the next one of p.  What carries an error
\* is printed, too, but is no record of the log and leaves allCommitted alone:
\* a poll that returns only such is like one that returns nothing.
PrintRecord(c, p) ==
  /\ pc[c] = "records"
  /\ owner[p] = c
  /\ done[p] < fetched[p]
  /\ log[p][done[p] + 1] # "empty"
  /\ done' = [done EXCEPT ![p] = @ + 1]
  /\ printed' = printed \cup {<<p, done[p]>>}
  /\ allCommitted' = [allCommitted EXCEPT ![c] = FALSE]
  /\ refused' = [refused EXCEPT ![c] = FALSE]
  /\ Goto(c, IF \A q \in Owned(c) : done'[q] = fetched[q] THEN "commit" ELSE "records")
  /\ UNCHANGED <<groupVars, due, pending, launches, skipped>>

\* Mutant of QuitOnEmpty: it leaves the batch and does not clear `running`.
BreakOnEmpty(c, p) ==
  /\ pc[c] = "records"
  /\ owner[p] = c
  /\ done[p] < fetched[p]
  /\ log[p][done[p] + 1] = "empty"
  /\ done' = [q \in Partitions |-> IF owner[q] = c THEN fetched[q] ELSE done[q]]
  /\ skipped' = skipped \cup Batch(c)
  /\ Goto(c, "commit")
  /\ UNCHANGED <<groupVars, allCommitted, due, pending, refused, launches, printed>>

\* The next record of p is empty: the loop is told to end, and the rest of
\* the batch is left alone.
QuitOnEmpty(c, p) ==
  /\ pc[c] = "records"
  /\ owner[p] = c
  /\ done[p] < fetched[p]
  /\ log[p][done[p] + 1] = "empty"
  /\ skipped' = skipped \cup Batch(c)
  /\ Goto(c, "quit")
  /\ UNCHANGED <<groupVars, allCommitted, due, done, pending, refused, launches, printed>>

\* More than a second has passed since the last commitAsync.
SecondPasses(c) ==
  /\ Live(c)
  /\ ~due[c]
  /\ due' = [due EXCEPT ![c] = TRUE]
  /\ UNCHANGED <<groupVars, pc, allCommitted, done, pending, refused, launches,
                 printed, skipped>>

\* The end of a turn: everything polled so far is to be committed, be it
\* printed or not...
CommitAsync(c) ==
  /\ ~allCommitted[c]
  /\ due[c]
  /\ pending' = [p \in Partitions |->
                   IF owner[p] = c /\ stored[p] # NoOffset THEN stored[p] ELSE pending[p]]
  /\ due' = [due EXCEPT ![c] = FALSE]
  /\ allCommitted' = [allCommitted EXCEPT ![c] = TRUE]

\* ...if something was printed and the time has come.
EndTurn(c) ==
  /\ \/ pc[c] = "commit" /\ Goto(c, "loop")
     \/ pc[c] = "quit" /\ Goto(c, "closing")
  /\ \/ CommitAsync(c)
     \/ /\ allCommitted[c] \/ ~due[c]
        /\ UNCHANGED <<pending, due, allCommitted>>
  /\ UNCHANGED <<groupVars, done, refused, launches, printed, skipped>>

\* The consumer is destroyed, which waits for the commits on their way.
Close(c) ==
  /\ pc[c] = "closing"
  /\ ~Requested(c)
  /\ Leave(c)
  /\ Goto(c, "ended")
  /\ Forget(c)
  /\ UNCHANGED <<committed, allCommitted, due, refused, launches, printed, skipped>>

\* The process dies; no signal has a handler.
Crash(c) ==
  /\ Live(c)
  /\ Leave(c)
  /\ Goto(c, "dead")
  /\ Forget(c)
  /\ UNCHANGED <<committed, allCommitted, due, refused, launches, printed, skipped>>

-----------------------------------------------------------------------------
(* The library and the coordinator. *)

\* The commit on its way arrives...
CommitServed(c) ==
  /\ Requested(c)
  /\ committed' = [p \in Partitions |->
                     IF owner[p] = c /\ pending[p] # NoOffset
                     THEN pending[p] ELSE committed[p]]
  /\ pending' = [p \in Partitions |-> IF owner[p] = c THEN NoOffset ELSE pending[p]]
  /\ UNCHANGED <<log, owner, fetched, stored, member, rebalancing>>
  /\ UNCHANGED <<pc, allCommitted, due, done, refused, launches, printed, skipped>>

\* ...or fails for good.
CommitRefused(c) ==
  /\ Requested(c)
  /\ pending' = [p \in Partitions |-> IF owner[p] = c THEN NoOffset ELSE pending[p]]
  /\ refused' = [refused EXCEPT ![c] = TRUE]
  /\ UNCHANGED <<groupVars, pc, allCommitted, due, done, launches, printed, skipped>>

Polling(c) == pc[c] \in {"subscribe", "loop"}

\* A poll serves the revocation, once no commit is on its way any more.
Revoked(c) ==
  /\ Polling(c)
  /\ ~Requested(c)
  /\ Rejoin(c)
  /\ Forget(c)
  /\ UNCHANGED <<committed, pc, allCommitted, due, refused, launches, printed, skipped>>

\* The polls serve the new assignment; where nothing is committed, reading
\* starts at the end.
Assigned ==
  /\ \A c \in Consumers : member[c] = "joining" => Polling(c)
  /\ Assign([c \in Consumers |-> [p \in Partitions |-> Len(log[p])]])
  /\ done' = fetched'
  /\ pc' = [c \in Consumers |-> IF pc[c] = "subscribe" THEN "loop" ELSE pc[c]]
  /\ skipped' = skipped \cup
       UNION {At(p, Recorded(p)) : p \in {q \in Partitions : committed[q] = NoOffset}}
  /\ UNCHANGED <<allCommitted, due, pending, refused, launches, printed>>

Produced(p, kind) ==
  /\ Produce(p, kind)
  /\ UNCHANGED programVars

-----------------------------------------------------------------------------

Next ==
  \/ \E c \in Consumers :
       \/ Launch(c) \/ SubscribeFails(c) \/ Poll(c) \/ SecondPasses(c)
       \/ EndTurn(c) \/ Close(c) \/ Crash(c)
       \/ CommitServed(c) \/ CommitRefused(c) \/ Revoked(c)
  \/ \E c \in Consumers, p \in Partitions : PrintRecord(c, p) \/ QuitOnEmpty(c, p)
  \/ Assigned
  \/ \E p \in Partitions, kind \in Kinds : Produced(p, kind)

Spec == Init /\ [][Next]_vars

\* A live process keeps executing, time passes, and a commit gets an answer
\* or runs into its time-out.  Nothing makes a poll return a record, a
\* rebalance come to its end, or anyone launch or kill a process.
Fairness ==
  \A c \in Consumers :
    /\ WF_vars(Poll(c)) /\ WF_vars(EndTurn(c)) /\ WF_vars(Close(c))
    /\ WF_vars(\E p \in Partitions : PrintRecord(c, p) \/ QuitOnEmpty(c, p))
    /\ WF_vars(SecondPasses(c))
    /\ WF_vars(CommitServed(c) \/ CommitRefused(c))

FairSpec == Spec /\ Fairness

-----------------------------------------------------------------------------
(* Properties. *)

\* The committed offset never passes a record of a batch that is still being
\* printed or was lost with its process: it passes what was printed, what
\* stood behind an empty record, and what a process without a committed
\* offset to start from did not read.
CommittedArePrinted ==
  \A p \in Partitions : At(p, 0..(committed[p] - 1)) \subseteq printed \cup skipped

\* Whatever a process has polled is committed while it keeps the partition,
\* even if no record comes any more that would end a poll, and however its
\* seconds fall.  A commit that fails is not asked for again, but whatever it
\* was for goes with the next record that is printed.
PolledIsCommitted ==
  \A c \in Consumers, p \in Partitions, o \in 0..(MaxOffset - 1) :
    (owner[p] = c /\ stored[p] > o)
      ~> (committed[p] > o \/ owner[p] # c \/ refused[c])

\* An empty record in a batch ends the program, whatever it still has to
\* commit.
QuitsOnEmpty ==
  \A c \in Consumers :
    (pc[c] = "records"
      /\ \E p \in Owned(c) : \E o \in done[p]..(fetched[p] - 1) : log[p][o + 1] = "empty")
      ~> (pc[c] \in {"ended", "dead"})

=============================================================================
