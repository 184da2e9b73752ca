---------------------------- MODULE ConsumerGroup ----------------------------
(***************************************************************************)
(* What the consumer programs use of Kafka and of its client library: the  *)
(* topic's partitions, the offsets committed for the group, the            *)
(* coordinator that hands partitions to the group's members, and the read  *)
(* positions the library keeps.  Nothing of it is in the repository: it is *)
(* modelled from how KafkaConsumerWrapper.cpp and                          *)
(* KafkaManualCommitConsumer.cpp call it, and every program module that    *)
(* EXTENDS this one adds its own control state.                            *)
(*                                                                         *)
(* A rebalance is eager: every member gives its partitions up from inside  *)
(* a poll call, then the coordinator assigns all of them afresh.  A member *)
(* that dies is noticed at once; a live member is never evicted.           *)
(***************************************************************************)
EXTENDS Integers, Sequences, FiniteSets

CONSTANTS
  Consumers,   \* the consumer processes that share group.id "1"
  Partitions,  \* the partitions of the topic
  Kinds,       \* the kinds of record the topic may hold
  NoOne,       \* the owner of a partition that is not assigned
  MaxOffset    \* bound: the longest a partition's log may grow

ASSUME GroupAssumption ==
  /\ NoOne \notin Consumers
  /\ MaxOffset \in Nat

NoOffset == -1  \* "nothing committed" and "nothing stored"

VARIABLES
  log,          \* [Partitions -> Seq(Kinds)]: the record at offset o is log[p][o+1]
  committed,    \* the offset committed for the group, per partition
  owner,        \* the member a partition is assigned to
  fetched,      \* the next offset a poll of the owner returns
  stored,       \* the offset the owner's library would commit
  member,       \* where each process stands in the group
  rebalancing   \* the coordinator waits for the members to rejoin

groupVars == <<log, committed, owner, fetched, stored, member, rebalancing>>

Offsets == 0..MaxOffset

GroupTypeOK ==
  /\ log \in [Partitions -> Seq(Kinds)]
  /\ \A p \in Partitions : Len(log[p]) \in Offsets
  /\ committed \in [Partitions -> Offsets \cup {NoOffset}]
  /\ owner \in [Partitions -> Consumers \cup {NoOne}]
  /\ fetched \in [Partitions -> Offsets]
  /\ stored \in [Partitions -> Offsets \cup {NoOffset}]
  /\ member \in [Consumers -> {"out", "joining", "in"}]
  /\ rebalancing \in BOOLEAN

GroupInit ==
  /\ log = [p \in Partitions |-> <<>>]
  /\ committed = [p \in Partitions |-> NoOffset]
  /\ owner = [p \in Partitions |-> NoOne]
  /\ fetched = [p \in Partitions |-> 0]
  /\ stored = [p \in Partitions |-> NoOffset]
  /\ member = [c \in Consumers |-> "out"]
  /\ rebalancing = FALSE

Owned(c) == {p \in Partitions : owner[p] = c}

\* The offsets recorded so far in partition p.
Recorded(p) == 0..(Len(log[p]) - 1)

\* A producer appends a record of some kind.
Produce(p, kind) ==
  /\ Len(log[p]) < MaxOffset
  /\ log' = [log EXCEPT ![p] = Append(@, kind)]
  /\ UNCHANGED <<committed, owner, fetched, stored, member, rebalancing>>

\* The read positions a poll by c may end at: any number of the records
\* available in each of its partitions, none included.  A poll may also return
\* errors, as records that carry an error: they have no offset of the log, so
\* that no position moves and nothing is stored for them.
PollResults(c) ==
  {f \in [Partitions -> Offsets] :
     \A p \in Partitions :
       IF owner[p] = c THEN f[p] \in fetched[p]..Len(log[p]) ELSE f[p] = fetched[p]}

\* A poll hands over the records up to f and stores f as the offset to
\* commit, before the application has looked at any of them.
HandOver(f) ==
  /\ fetched' = f
  /\ stored' = [p \in Partitions |-> IF f[p] > fetched[p] THEN f[p] ELSE stored[p]]
  /\ UNCHANGED <<log, committed, owner, member, rebalancing>>

\* The stored offsets of the partitions in P are committed.  The broker takes
\* what it is given, also an offset before the committed one, after a seek.
CommittedStored(P) ==
  [p \in Partitions |->
     IF p \in P /\ stored[p] # NoOffset THEN stored[p] ELSE committed[p]]

\* The partitions in P have no owner any more, so nobody reads them.
GiveUp(P) ==
  /\ owner' = [p \in Partitions |-> IF p \in P THEN NoOne ELSE owner[p]]
  /\ fetched' = [p \in Partitions |-> IF p \in P THEN 0 ELSE fetched[p]]
  /\ stored' = [p \in Partitions |-> IF p \in P THEN NoOffset ELSE stored[p]]

\* c asks to join: the coordinator starts a rebalance.
Join(c) ==
  /\ member[c] = "out"
  /\ member' = [member EXCEPT ![c] = "joining"]
  /\ rebalancing' = TRUE
  /\ UNCHANGED <<log, committed, owner, fetched, stored>>

\* c leaves, closing or dead, and loses its partitions; those that stay
\* have to rebalance.
Leave(c) ==
  /\ GiveUp(Owned(c))
  /\ member' = [member EXCEPT ![c] = "out"]
  /\ rebalancing' = (\E d \in Consumers \ {c} : member[d] # "out")
  /\ UNCHANGED log

\* A poll of member c serves the revocation: c rejoins without partitions.
Rejoin(c) ==
  /\ rebalancing
  /\ member[c] = "in"
  /\ GiveUp(Owned(c))
  /\ member' = [member EXCEPT ![c] = "joining"]
  /\ UNCHANGED <<log, rebalancing>>

\* No member holds more than one partition more than another.
Balanced(asg, S) ==
  \A c, d \in S :
    Cardinality({p \in Partitions : asg[p] = c})
      <= 1 + Cardinality({p \in Partitions : asg[p] = d})

\* Every member has rejoined: the coordinator assigns all the partitions.
\* from[c][p] is where c starts to read p when nothing is committed for it.
Assign(from) ==
  LET joined == {c \in Consumers : member[c] = "joining"} IN
  /\ rebalancing
  /\ joined # {}
  /\ \A c \in Consumers : member[c] # "in"
  /\ \E asg \in [Partitions -> joined] :
       /\ Balanced(asg, joined)
       /\ owner' = asg
       /\ fetched' = [p \in Partitions |->
                        IF committed[p] = NoOffset THEN from[asg[p]][p] ELSE committed[p]]
  /\ stored' = [p \in Partitions |-> NoOffset]
  /\ member' = [c \in Consumers |-> IF c \in joined THEN "in" ELSE member[c]]
  /\ rebalancing' = FALSE
  /\ UNCHANGED <<log, committed>>

=============================================================================
