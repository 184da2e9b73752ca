------------------------- MODULE KafkaConsumerProofs -------------------------
(***************************************************************************)
(* What KafkaConsumer promises for every number of processes, partitions   *)
(* and records: its types, that the committed offset passes nothing but    *)
(* processed, in-flight and dropped records, and that a process alone in   *)
(* its group reads every partition from the beginning.                     *)
(***************************************************************************)
EXTENDS KafkaConsumer, TLAPS

-----------------------------------------------------------------------------
(* The inductive invariant. *)

\* Only members that have their assignment own partitions.
OwnersAreIn ==
  \A p \in Partitions : owner[p] # NoOne => member[owner[p]] = "in"

\* A partition nobody owns has no cursor and nothing to commit.
UnownedIsReset ==
  \A p \in Partitions :
    owner[p] = NoOne => fetched[p] = 0 /\ done[p] = 0 /\ stored[p] = NoOffset

\* Outside of the loop over a batch there is no batch.
NoBatchBetweenPolls ==
  \A p \in Partitions :
    /\ done[p] <= fetched[p]
    /\ owner[p] # NoOne /\ pc[owner[p]] # "records" => done[p] = fetched[p]

\* Record o of p was processed, dropped, or is in its owner's batch.
Past(p, o) == <<p, o>> \in processed \/ <<p, o>> \in dropped
InBatch(p, o) == done[p] <= o /\ o < fetched[p]

\* No commit, made or to come, passes a record that is not accounted for.
CommitsAccounted ==
  \A p \in Partitions : \A o \in Offsets :
    (o < committed[p] \/ o < stored[p]) => Past(p, o) \/ InBatch(p, o)

\* Behind the cursor of an owner everything is past.
CursorAccounted ==
  \A p \in Partitions : \A o \in Offsets :
    owner[p] # NoOne /\ o < done[p] => Past(p, o)

IInv ==
  /\ TypeOK
  /\ OwnersAreIn
  /\ UnownedIsReset
  /\ NoBatchBetweenPolls
  /\ CommitsAccounted
  /\ CursorAccounted

-----------------------------------------------------------------------------
(* Type correctness. *)

\* The positions a poll may end at are offsets, never behind the old ones,
\* and those of other members' partitions do not move.
LEMMA PollResultsBounds ==
  ASSUME TypeOK, NEW c \in Consumers, NEW f \in PollResults(c)
  PROVE  /\ f \in [Partitions -> Offsets]
         /\ \A p \in Partitions : fetched[p] <= f[p]
         /\ \A p \in Partitions : owner[p] # c => f[p] = fetched[p]
  BY GroupAssumption DEF PollResults, TypeOK, GroupTypeOK, Offsets

\* What a commit leaves behind is an offset or nothing.
LEMMA CommittedStoredType ==
  ASSUME TypeOK, NEW P
  PROVE  CommittedStored(P) \in [Partitions -> Offsets \cup {NoOffset}]
  BY DEF CommittedStored, TypeOK, GroupTypeOK

\* Leaving the group and giving up partitions keep the types.
LEMMA LeaveType ==
  ASSUME TypeOK, NEW c \in Consumers, Leave(c)
  PROVE  /\ log' = log
         /\ owner' \in [Partitions -> Consumers \cup {NoOne}]
         /\ fetched' \in [Partitions -> Offsets]
         /\ stored' \in [Partitions -> Offsets \cup {NoOffset}]
         /\ member' \in [Consumers -> {"out", "joining", "in"}]
         /\ rebalancing' \in BOOLEAN
  BY GroupAssumption DEF Leave, GiveUp, TypeOK, GroupTypeOK, Offsets

LEMMA ForgetDoneType ==
  ASSUME TypeOK, NEW c \in Consumers, ForgetDone(c)
  PROVE  done' \in [Partitions -> Offsets]
  BY GroupAssumption DEF ForgetDone, TypeOK, Offsets

LEMMA TypeInit == Init => TypeOK
<1> SUFFICES ASSUME Init PROVE TypeOK
  OBVIOUS
<1> 0 \in Offsets
  BY GroupAssumption DEF Offsets
<1>1. /\ log \in [Partitions -> Seq(Kinds)]
      /\ \A p \in Partitions : Len(log[p]) \in Offsets
  BY DEF Init, GroupInit
<1>2. GroupTypeOK
  BY <1>1 DEF Init, GroupInit, GroupTypeOK
<1> QED
  BY <1>2, LaunchAssumption DEF Init, TypeOK, Phases, Records

LEMMA TypeNext == TypeOK /\ [Next]_vars => TypeOK'
<1> SUFFICES ASSUME TypeOK, [Next]_vars PROVE TypeOK'
  OBVIOUS
<1> USE DEF Goto
<1>1. ASSUME NEW c \in Consumers, Launch(c) PROVE TypeOK'
  BY <1>1, LaunchAssumption DEF Launch, Join, TypeOK, GroupTypeOK, Phases
<1>2. ASSUME NEW c \in Consumers, SubscribeFails(c) PROVE TypeOK'
  <2>1. Leave(c) /\ ForgetDone(c)
    BY <1>2 DEF SubscribeFails
  <2> QED BY <1>2, <2>1, LeaveType, ForgetDoneType
          DEF SubscribeFails, TypeOK, GroupTypeOK, Phases
<1>3. ASSUME NEW c \in Consumers, FirstPoll(c) PROVE TypeOK'
  <2>1. PICK f \in PollResults(c) : HandOver(f)
          /\ done' = [p \in Partitions |-> IF owner[p] = c THEN f[p] ELSE done[p]]
          /\ dropped' = dropped \cup
               UNION {At(p, fetched[p]..(f[p] - 1)) : p \in Partitions}
    BY <1>3 DEF FirstPoll
  <2>2. f \in [Partitions -> Offsets]
    BY PollResultsBounds
  <2>3. \A p \in Partitions : At(p, fetched[p]..(f[p] - 1)) \subseteq Records
    BY <2>2, GroupAssumption DEF At, Records, Offsets, TypeOK, GroupTypeOK
  <2>4. dropped' \subseteq Records
    BY <2>1, <2>3 DEF TypeOK
  <2> QED BY <1>3, <2>1, <2>2, <2>4 DEF FirstPoll, HandOver, TypeOK, GroupTypeOK, Phases
<1>4. ASSUME NEW c \in Consumers, Seek(c) PROVE TypeOK'
  BY <1>4, GroupAssumption DEF Seek, TypeOK, GroupTypeOK, Phases, Offsets
<1>5. ASSUME NEW c \in Consumers, Poll(c) PROVE TypeOK'
  <2>1. PICK f \in PollResults(c) : HandOver(f)
    BY <1>5 DEF Poll
  <2>2. f \in [Partitions -> Offsets]
    BY PollResultsBounds
  <2> QED BY <1>5, <2>1, <2>2 DEF Poll, HandOver, TypeOK, GroupTypeOK, Phases
<1>6. ASSUME NEW c \in Consumers, Stop(c) PROVE TypeOK'
  <2>1. Leave(c) /\ ForgetDone(c)
    BY <1>6 DEF Stop
  <2>2. committed' \in [Partitions -> Offsets \cup {NoOffset}]
    BY <1>6, CommittedStoredType DEF Stop
  <2> QED BY <1>6, <2>1, <2>2, LeaveType, ForgetDoneType
          DEF Stop, TypeOK, GroupTypeOK, Phases
<1>7. ASSUME NEW c \in Consumers, StopRunning(c) PROVE TypeOK'
  BY <1>7 DEF StopRunning, groupVars, TypeOK, GroupTypeOK
<1>8. ASSUME NEW c \in Consumers, Crash(c) PROVE TypeOK'
  <2>1. Leave(c) /\ ForgetDone(c)
    BY <1>8 DEF Crash
  <2>2. \A p \in Partitions : At(p, done[p]..(fetched[p] - 1)) \subseteq Records
    BY GroupAssumption DEF At, Records, Offsets, TypeOK, GroupTypeOK
  <2>3. Batch(c) \subseteq Records
    BY <2>2 DEF Batch, Owned
  <2> QED BY <1>8, <2>1, <2>3, LeaveType, ForgetDoneType
          DEF Crash, TypeOK, GroupTypeOK, Phases
<1>9. ASSUME NEW c \in Consumers, Revoked(c) PROVE TypeOK'
  <2>1. ForgetDone(c) /\ Rejoin(c)
    BY <1>9 DEF Revoked
  <2>2. committed' \in [Partitions -> Offsets \cup {NoOffset}]
    BY <1>9, CommittedStoredType DEF Revoked
  <2>3. /\ owner' \in [Partitions -> Consumers \cup {NoOne}]
        /\ fetched' \in [Partitions -> Offsets]
        /\ stored' \in [Partitions -> Offsets \cup {NoOffset}]
        /\ member' \in [Consumers -> {"out", "joining", "in"}]
        /\ log' = log /\ rebalancing' = rebalancing
    BY <2>1, GroupAssumption DEF Rejoin, GiveUp, TypeOK, GroupTypeOK, Offsets
  <2> QED BY <1>9, <2>1, <2>2, <2>3, ForgetDoneType DEF Revoked, TypeOK, GroupTypeOK
<1>10. ASSUME NEW c \in Consumers, NEW p \in Partitions, ProcessRecord(c, p)
       PROVE  TypeOK'
  <2>1. done[p] + 1 \in Offsets
    BY <1>10, GroupAssumption DEF ProcessRecord, Offsets, TypeOK, GroupTypeOK
  <2>2. <<p, done[p]>> \in Records
    BY DEF Records, TypeOK
  <2>3. done' \in [Partitions -> Offsets]
    BY <1>10, <2>1 DEF ProcessRecord, TypeOK
  <2>4. seen' \in [Consumers -> SUBSET Records] /\ processed' \subseteq Records
    BY <1>10, <2>2 DEF ProcessRecord, TypeOK
  <2>5. pc' \in [Consumers -> Phases]
    BY <1>10 DEF ProcessRecord, TypeOK, Phases
  <2> QED BY <1>10, <2>3, <2>4, <2>5 DEF ProcessRecord, TypeOK, GroupTypeOK, groupVars
<1>11. ASSUME NEW p \in Partitions, AutoCommit(p) PROVE TypeOK'
  <2>1. committed' \in [Partitions -> Offsets \cup {NoOffset}]
    BY <1>11, CommittedStoredType DEF AutoCommit
  <2> QED BY <1>11, <2>1 DEF AutoCommit, programVars, TypeOK, GroupTypeOK
<1>12. CASE Assigned
  <2>1. PICK asg \in [Partitions -> {c \in Consumers : member[c] = "joining"}] :
          /\ owner' = asg
          /\ fetched' = [p \in Partitions |->
               IF committed[p] = NoOffset
               THEN [c \in Consumers |-> [q \in Partitions |-> 0]][asg[p]][p]
               ELSE committed[p]]
    BY <1>12 DEF Assigned, Assign
  <2>2. fetched' \in [Partitions -> Offsets]
    BY <2>1, GroupAssumption DEF TypeOK, GroupTypeOK, Offsets
  <2>3. owner' \in [Partitions -> Consumers \cup {NoOne}]
    BY <2>1
  <2>4. pc' \in [Consumers -> Phases]
    BY <1>12 DEF Assigned, TypeOK, Phases
  <2>5. /\ stored' \in [Partitions -> Offsets \cup {NoOffset}]
        /\ member' \in [Consumers -> {"out", "joining", "in"}]
        /\ rebalancing' \in BOOLEAN /\ UNCHANGED <<log, committed>>
    BY <1>12 DEF Assigned, Assign, TypeOK, GroupTypeOK
  <2> QED BY <1>12, <2>2, <2>3, <2>4, <2>5 DEF Assigned, TypeOK, GroupTypeOK
<1>13. ASSUME NEW p \in Partitions, NEW kind \in Kinds, Produced(p, kind)
       PROVE  TypeOK'
  BY <1>13, GroupAssumption
  DEF Produced, Produce, programVars, TypeOK, GroupTypeOK, Offsets
<1>14. CASE UNCHANGED vars
  BY <1>14 DEF vars, groupVars, programVars, TypeOK, GroupTypeOK
<1> QED
  BY <1>1, <1>2, <1>3, <1>4, <1>5, <1>6, <1>7, <1>8, <1>9, <1>10, <1>11, <1>12,
     <1>13, <1>14
  DEF Next

\* In every behaviour each variable keeps its type: in particular no cursor
\* ever leaves the offsets of the log.
THEOREM TypeCorrect == Spec => []TypeOK
  BY TypeInit, TypeNext, PTL DEF Spec

-----------------------------------------------------------------------------
(* The committed offset passes nothing that is not accounted for. *)

\* The part of the invariant beyond the types.
Accounted ==
  /\ OwnersAreIn
  /\ UnownedIsReset
  /\ NoBatchBetweenPolls
  /\ CommitsAccounted
  /\ CursorAccounted

\* A process that gives up its partitions, committing what is stored or not,
\* loses nothing if its batch is empty or is recorded as dropped.
LEMMA GiveUpAccounted ==
  ASSUME IInv, TypeOK', NEW c \in Consumers,
         GiveUp(Owned(c)), ForgetDone(c),
         committed' = committed \/ committed' = CommittedStored(Owned(c)),
         \A d \in Consumers \ {c} : member'[d] = member[d] /\ pc'[d] = pc[d],
         processed' = processed, dropped \subseteq dropped',
         \A p \in Owned(c) : \A o \in Offsets : InBatch(p, o) => <<p, o>> \in dropped'
  PROVE  Accounted'
<1> USE GroupAssumption DEF IInv, TypeOK, GroupTypeOK, Offsets, NoOffset
<1>1. ASSUME NEW p \in Partitions, owner[p] = c
      PROVE  /\ owner'[p] = NoOne /\ fetched'[p] = 0 /\ done'[p] = 0
             /\ stored'[p] = NoOffset
             /\ committed'[p] = committed[p] \/ committed'[p] = stored[p]
  BY <1>1 DEF GiveUp, Owned, ForgetDone, CommittedStored
<1>2. ASSUME NEW p \in Partitions, owner[p] # c
      PROVE  /\ owner'[p] = owner[p] /\ fetched'[p] = fetched[p]
             /\ done'[p] = done[p] /\ stored'[p] = stored[p]
             /\ committed'[p] = committed[p]
             /\ owner[p] # NoOne => /\ member'[owner[p]] = member[owner[p]]
                                    /\ pc'[owner[p]] = pc[owner[p]]
  BY <1>2 DEF GiveUp, Owned, ForgetDone, CommittedStored
<1>3. \A p \in Partitions, o \in Offsets : Past(p, o) => Past(p, o)'
  BY DEF Past
<1>4. OwnersAreIn'
  BY <1>1, <1>2 DEF OwnersAreIn
<1>5. UnownedIsReset'
  BY <1>1, <1>2 DEF UnownedIsReset
<1>6. NoBatchBetweenPolls'
  BY <1>1, <1>2 DEF NoBatchBetweenPolls
<1>7. CommitsAccounted'
  <2> SUFFICES ASSUME NEW p \in Partitions, NEW o \in Offsets,
                      o < committed'[p] \/ o < stored'[p]
               PROVE  Past(p, o)' \/ InBatch(p, o)'
    BY DEF CommitsAccounted
  <2>1. CASE owner[p] = c
    <3> HIDE DEF IInv, TypeOK, GroupTypeOK, Offsets, NoOffset
    <3>0. o < committed[p] \/ o < stored[p]
      BY <1>1, <2>1 DEF Offsets, NoOffset
    <3>1. Past(p, o) \/ InBatch(p, o)
      BY <3>0 DEF IInv, CommitsAccounted
    <3>2. InBatch(p, o) => Past(p, o)'
      BY <2>1 DEF Owned, Past
    <3> QED BY <3>1, <3>2, <1>3
  <2>2. CASE owner[p] # c
    <3>1. Past(p, o) \/ InBatch(p, o)
      BY <1>2, <2>2 DEF CommitsAccounted
    <3> QED BY <1>2, <1>3, <2>2, <3>1 DEF InBatch
  <2> QED BY <2>1, <2>2
<1>8. CursorAccounted'
  BY <1>1, <1>2, <1>3 DEF CursorAccounted
<1> QED BY <1>4, <1>5, <1>6, <1>7, <1>8 DEF Accounted

\* A poll of c from where it has no batch: the records handed over are its
\* new batch, or dropped if the cursor follows the position at once.
LEMMA HandOverAccounted ==
  ASSUME IInv, TypeOK', NEW c \in Consumers, NEW f \in PollResults(c), HandOver(f),
         pc[c] # "records",
         \A d \in Consumers \ {c} : pc'[d] = pc[d],
         processed' = processed, dropped \subseteq dropped',
         \/ done' = done /\ pc'[c] = "records"
         \/ /\ done' = [p \in Partitions |-> IF owner[p] = c THEN f[p] ELSE done[p]]
            /\ \A p \in Partitions : \A o \in Offsets :
                 fetched[p] <= o /\ o < f[p] => <<p, o>> \in dropped'
  PROVE  Accounted'
<1> USE GroupAssumption DEF IInv, TypeOK, GroupTypeOK, Offsets, NoOffset
<1>1. /\ f \in [Partitions -> Offsets]
      /\ \A p \in Partitions : fetched[p] <= f[p]
      /\ \A p \in Partitions : owner[p] # c => f[p] = fetched[p]
  BY PollResultsBounds
<1>2. /\ owner' = owner /\ member' = member /\ committed' = committed
      /\ fetched' = f
      /\ stored' = [p \in Partitions |-> IF f[p] > fetched[p] THEN f[p] ELSE stored[p]]
  BY DEF HandOver
<1>3. \A p \in Partitions, o \in Offsets : Past(p, o) => Past(p, o)'
  BY DEF Past
<1>4. ASSUME NEW p \in Partitions, owner[p] # c
      PROVE  /\ fetched'[p] = fetched[p] /\ done'[p] = done[p] /\ stored'[p] = stored[p]
             /\ owner[p] # NoOne => pc'[owner[p]] = pc[owner[p]]
  BY <1>1, <1>2, <1>4
<1>5. ASSUME NEW p \in Partitions, owner[p] = c
      PROVE  /\ done[p] = fetched[p]
             /\ done'[p] = done[p] \/ done'[p] = f[p]
             /\ pc'[c] = "records" \/ done'[p] = f[p]
             /\ \A o \in Offsets : fetched[p] <= o /\ o < f[p]
                                     => Past(p, o)' \/ InBatch(p, o)'
  BY <1>1, <1>2, <1>5 DEF NoBatchBetweenPolls, Past, InBatch
<1>6. OwnersAreIn'
  BY <1>2 DEF OwnersAreIn
<1>7. UnownedIsReset'
  BY <1>2, <1>4 DEF UnownedIsReset
<1>8. NoBatchBetweenPolls'
  <2> SUFFICES ASSUME NEW p \in Partitions
               PROVE  /\ done'[p] <= fetched'[p]
                      /\ owner'[p] # NoOne /\ pc'[owner'[p]] # "records"
                           => done'[p] = fetched'[p]
    BY DEF NoBatchBetweenPolls
  <2>1. CASE owner[p] # c
    BY <1>2, <1>4, <2>1 DEF NoBatchBetweenPolls
  <2>2. CASE owner[p] = c
    <3>1. done[p] <= f[p]
      BY <1>1, <1>5, <2>2
    <3> QED BY <1>2, <1>5, <2>2, <3>1
  <2> QED BY <2>1, <2>2
<1>9. CommitsAccounted'
  <2> SUFFICES ASSUME NEW p \in Partitions, NEW o \in Offsets,
                      o < committed'[p] \/ o < stored'[p]
               PROVE  Past(p, o)' \/ InBatch(p, o)'
    BY DEF CommitsAccounted
  <2>1. CASE owner[p] # c
    BY <1>2, <1>3, <1>4, <2>1 DEF CommitsAccounted, InBatch
  <2>2. CASE owner[p] = c
    <3>1. CASE o < fetched[p]
      BY <1>3, <1>5, <2>2, <3>1 DEF CursorAccounted
    <3>2. CASE fetched[p] <= o /\ o < f[p]
      BY <1>5, <2>2, <3>2
    <3>3. CASE f[p] <= o
      <4>1. o < committed[p] \/ o < stored[p]
        BY <1>1, <1>2, <3>3
      <4>2. ~InBatch(p, o)
        BY <1>1, <3>3 DEF InBatch
      <4> QED BY <1>3, <4>1, <4>2 DEF CommitsAccounted
    <3> QED BY <1>1, <3>1, <3>2, <3>3
  <2> QED BY <2>1, <2>2
<1>10. CursorAccounted'
  <2> SUFFICES ASSUME NEW p \in Partitions, NEW o \in Offsets,
                      owner'[p] # NoOne, o < done'[p]
               PROVE  Past(p, o)'
    BY DEF CursorAccounted
  <2>1. CASE owner[p] # c
    BY <1>2, <1>3, <1>4, <2>1 DEF CursorAccounted
  <2>2. CASE owner[p] = c
    <3>1. CASE o < fetched[p]
      BY <1>2, <1>3, <1>5, <2>2, <3>1 DEF CursorAccounted
    <3>2. CASE fetched[p] <= o
      BY <1>1, <1>2, <1>5, <2>2, <3>2 DEF Past, InBatch
    <3> QED BY <1>1, <3>1, <3>2
  <2> QED BY <2>1, <2>2
<1> QED BY <1>6, <1>7, <1>8, <1>9, <1>10 DEF Accounted

LEMMA IInvInit == Init => IInv
<1> SUFFICES ASSUME Init PROVE Accounted
  BY TypeInit DEF IInv, Accounted
<1> QED
  BY GroupAssumption
  DEF Init, GroupInit, Accounted, OwnersAreIn, UnownedIsReset, NoBatchBetweenPolls,
      CommitsAccounted, CursorAccounted, NoOffset, Offsets

LEMMA ProcessRecordAccounted ==
  ASSUME IInv, TypeOK', NEW c \in Consumers, NEW p \in Partitions, ProcessRecord(c, p)
  PROVE  Accounted'
<1> USE GroupAssumption DEF IInv, TypeOK, GroupTypeOK, Offsets
<1>1. /\ owner' = owner /\ member' = member /\ committed' = committed
      /\ fetched' = fetched /\ stored' = stored /\ dropped' = dropped
      /\ owner[p] = c /\ pc[c] = "records" /\ done[p] < fetched[p]
      /\ done' = [done EXCEPT ![p] = @ + 1]
      /\ processed' = processed \cup {<<p, done[p]>>}
      /\ pc' = [pc EXCEPT ![c] =
                  IF \A q \in Owned(c) : done'[q] = fetched[q] THEN "loop" ELSE "records"]
  BY DEF ProcessRecord, groupVars, Goto
<1>2. \A q \in Partitions, o \in Offsets : Past(q, o) => Past(q, o)'
  BY <1>1 DEF Past
<1>3. done'[p] = done[p] + 1 /\ \A q \in Partitions \ {p} : done'[q] = done[q]
  BY <1>1
<1>4. \A o \in Offsets : o = done[p] => Past(p, o)'
  BY <1>1 DEF Past
<1>5. OwnersAreIn' /\ UnownedIsReset'
  BY <1>1, <1>3 DEF OwnersAreIn, UnownedIsReset
<1>6. NoBatchBetweenPolls'
  <2> SUFFICES ASSUME NEW q \in Partitions
               PROVE  /\ done'[q] <= fetched'[q]
                      /\ owner'[q] # NoOne /\ pc'[owner'[q]] # "records"
                           => done'[q] = fetched'[q]
    BY DEF NoBatchBetweenPolls
  <2>1. done'[q] <= fetched'[q]
    BY <1>1, <1>3 DEF NoBatchBetweenPolls
  <2>2. ASSUME owner'[q] # NoOne, pc'[owner'[q]] # "records"
        PROVE  done'[q] = fetched'[q]
    <3>1. CASE owner[q] = c
      BY <1>1, <2>2, <3>1 DEF Owned
    <3>2. CASE owner[q] # c
      BY <1>1, <1>3, <2>2, <3>2 DEF NoBatchBetweenPolls
    <3> QED BY <3>1, <3>2
  <2> QED BY <2>1, <2>2
<1>7. CommitsAccounted'
  <2> SUFFICES ASSUME NEW q \in Partitions, NEW o \in Offsets,
                      o < committed[q] \/ o < stored[q]
               PROVE  Past(q, o)' \/ InBatch(q, o)'
    BY <1>1 DEF CommitsAccounted
  <2>1. Past(q, o) \/ InBatch(q, o)
    BY DEF CommitsAccounted
  <2>2. InBatch(q, o) => InBatch(q, o)' \/ (q = p /\ o = done[p])
    BY <1>1, <1>3 DEF InBatch
  <2> QED BY <1>2, <1>4, <2>1, <2>2
<1>8. CursorAccounted'
  <2> SUFFICES ASSUME NEW q \in Partitions, NEW o \in Offsets,
                      owner[q] # NoOne, o < done'[q]
               PROVE  Past(q, o)'
    BY <1>1 DEF CursorAccounted
  <2>1. o < done[q] \/ (q = p /\ o = done[p])
    BY <1>3
  <2> QED BY <1>2, <1>4, <2>1 DEF CursorAccounted
<1> QED BY <1>5, <1>6, <1>7, <1>8 DEF Accounted

LEMMA AssignedAccounted ==
  ASSUME IInv, TypeOK', Assigned
  PROVE  Accounted'
<1> USE GroupAssumption DEF IInv, TypeOK, GroupTypeOK, Offsets, NoOffset
<1>1. PICK asg \in [Partitions -> {c \in Consumers : member[c] = "joining"}] :
        /\ owner' = asg
        /\ fetched' = [p \in Partitions |->
             IF committed[p] = NoOffset
             THEN [c \in Consumers |-> [q \in Partitions |-> 0]][asg[p]][p]
             ELSE committed[p]]
  BY DEF Assigned, Assign
<1>2. \A p \in Partitions : fetched'[p] = 0 \/ fetched'[p] = committed[p]
  BY <1>1
<1>3. /\ done' = fetched' /\ committed' = committed
      /\ stored' = [p \in Partitions |-> NoOffset]
      /\ processed' = processed /\ dropped' = dropped
      /\ member' = [c \in Consumers |-> IF member[c] = "joining" THEN "in" ELSE member[c]]
      /\ \A c \in Consumers : member[c] # "in"
  BY DEF Assigned, Assign
<1>4. \A p \in Partitions : owner[p] = NoOne /\ done[p] = 0 /\ fetched[p] = 0
                              /\ stored[p] = NoOffset
  BY <1>3 DEF OwnersAreIn, UnownedIsReset
<1>5. \A p \in Partitions, o \in Offsets : o < committed[p] => Past(p, o)'
  BY <1>3, <1>4 DEF CommitsAccounted, InBatch, Past
<1>6. OwnersAreIn' /\ UnownedIsReset'
  BY <1>1, <1>3 DEF OwnersAreIn, UnownedIsReset
<1>7. NoBatchBetweenPolls'
  BY <1>3 DEF NoBatchBetweenPolls
<1>8. CommitsAccounted'
  BY <1>3, <1>5 DEF CommitsAccounted
<1>9. CursorAccounted'
  <2> SUFFICES ASSUME NEW p \in Partitions, NEW o \in Offsets, o < done'[p]
               PROVE  Past(p, o)'
    BY DEF CursorAccounted
  <2>1. done'[p] = committed[p]
    BY <1>2, <1>3
  <2> QED BY <1>5, <2>1
<1> QED BY <1>6, <1>7, <1>8, <1>9 DEF Accounted

LEMMA IInvNext == IInv /\ [Next]_vars => IInv'
<1> SUFFICES ASSUME IInv, [Next]_vars PROVE Accounted'
  BY TypeNext DEF IInv, Accounted
<1>0. TypeOK /\ TypeOK' /\ Accounted
  BY TypeNext DEF IInv, Accounted
\* c has no batch unless it is in the loop over one.
<1>b. ASSUME NEW c \in Consumers, pc[c] # "records"
      PROVE  \A p \in Owned(c) : \A o \in Offsets : ~InBatch(p, o)
  <2> SUFFICES ASSUME NEW p \in Partitions, owner[p] = c, NEW o \in Offsets
               PROVE  ~(done[p] <= o /\ o < fetched[p])
    BY DEF Owned, InBatch
  <2>1. done[p] = fetched[p]
    BY <1>0, <1>b, GroupAssumption DEF Accounted, NoBatchBetweenPolls
  <2>2. done[p] \in Nat /\ fetched[p] \in Nat /\ o \in Nat
    BY <1>0, GroupAssumption DEF TypeOK, GroupTypeOK, Offsets
  <2> QED BY <2>1, <2>2
<1>1. ASSUME NEW c \in Consumers, Launch(c) PROVE Accounted'
  <2>1. \A p \in Partitions : owner[p] # c
    BY <1>0, <1>1, GroupAssumption DEF Launch, Join, Accounted, OwnersAreIn
  <2>2. /\ UNCHANGED <<log, committed, owner, fetched, stored, done, processed, dropped>>
        /\ \A d \in Consumers \ {c} : member'[d] = member[d] /\ pc'[d] = pc[d]
    BY <1>0, <1>1 DEF Launch, Join, Goto, TypeOK, GroupTypeOK
  <2> QED BY <1>0, <2>1, <2>2 DEF Accounted, OwnersAreIn, UnownedIsReset,
             NoBatchBetweenPolls, CommitsAccounted, CursorAccounted, Past, InBatch,
             TypeOK, GroupTypeOK
<1>2. ASSUME NEW c \in Consumers, SubscribeFails(c) PROVE Accounted'
  <2>1. \A d \in Consumers \ {c} : member'[d] = member[d] /\ pc'[d] = pc[d]
    BY <1>0, <1>2 DEF SubscribeFails, Leave, Goto, TypeOK, GroupTypeOK
  <2> QED BY <1>0, <1>2, <1>b, <2>1, GiveUpAccounted DEF SubscribeFails, Leave
<1>3. ASSUME NEW c \in Consumers, FirstPoll(c) PROVE Accounted'
  <2>1. PICK f \in PollResults(c) : HandOver(f)
          /\ done' = [p \in Partitions |-> IF owner[p] = c THEN f[p] ELSE done[p]]
          /\ dropped' = dropped \cup
               UNION {At(p, fetched[p]..(f[p] - 1)) : p \in Partitions}
    BY <1>3 DEF FirstPoll
  <2>2. f \in [Partitions -> Offsets]
    BY <1>0, PollResultsBounds
  <2>3. ASSUME NEW p \in Partitions, NEW o \in Offsets, fetched[p] <= o, o < f[p]
        PROVE  <<p, o>> \in dropped'
    <3>1. o \in fetched[p]..(f[p] - 1)
      BY <1>0, <2>2, <2>3, GroupAssumption DEF TypeOK, GroupTypeOK, Offsets
    <3> QED BY <2>1, <3>1 DEF At
  <2>4. /\ pc[c] # "records" /\ processed' = processed /\ dropped \subseteq dropped'
        /\ \A d \in Consumers \ {c} : pc'[d] = pc[d]
    BY <1>0, <1>3, <2>1 DEF FirstPoll, Goto, TypeOK
  <2> QED BY <1>0, <2>1, <2>3, <2>4, HandOverAccounted
<1>4. ASSUME NEW c \in Consumers, Seek(c) PROVE Accounted'
  <2>1. /\ UNCHANGED <<log, committed, owner, stored, member, processed, dropped>>
        /\ \A d \in Consumers \ {c} : pc'[d] = pc[d]
    BY <1>0, <1>4 DEF Seek, Goto, TypeOK
  <2>2. \A p \in Partitions :
          IF owner[p] = c THEN fetched'[p] = 0 /\ done'[p] = 0
                          ELSE fetched'[p] = fetched[p] /\ done'[p] = done[p]
    BY <1>4 DEF Seek
  <2>3. OwnersAreIn' /\ UnownedIsReset'
    BY <1>0, <2>1, <2>2 DEF Accounted, OwnersAreIn, UnownedIsReset
  <2>4. NoBatchBetweenPolls'
    <3> SUFFICES ASSUME NEW p \in Partitions
                 PROVE  /\ done'[p] <= fetched'[p]
                        /\ owner[p] # NoOne /\ pc'[owner[p]] # "records"
                             => done'[p] = fetched'[p]
      BY <2>1 DEF NoBatchBetweenPolls
    <3>1. CASE owner[p] = c
      BY <2>2, <3>1
    <3>2. CASE owner[p] # c
      BY <1>0, <2>1, <2>2, <3>2 DEF Accounted, NoBatchBetweenPolls, TypeOK, GroupTypeOK
    <3> QED BY <3>1, <3>2
  <2>5. CommitsAccounted'
    BY <1>0, <1>4, <1>b, <2>1, <2>2
    DEF Seek, Accounted, CommitsAccounted, Past, InBatch, Owned
  <2>6. CursorAccounted'
    BY <1>0, <2>1, <2>2, GroupAssumption DEF Accounted, CursorAccounted, Past, Offsets
  <2> QED BY <2>3, <2>4, <2>5, <2>6 DEF Accounted
<1>5. ASSUME NEW c \in Consumers, Poll(c) PROVE Accounted'
  <2>1. PICK f \in PollResults(c) : HandOver(f)
    BY <1>5 DEF Poll
  <2>2. /\ pc[c] # "records" /\ pc'[c] = "records"
        /\ done' = done /\ processed' = processed /\ dropped' = dropped
        /\ \A d \in Consumers \ {c} : pc'[d] = pc[d]
    BY <1>0, <1>5 DEF Poll, Goto, TypeOK
  <2> QED BY <1>0, <2>1, <2>2, HandOverAccounted
<1>6. ASSUME NEW c \in Consumers, Stop(c) PROVE Accounted'
  <2>1. \A d \in Consumers \ {c} : member'[d] = member[d] /\ pc'[d] = pc[d]
    BY <1>0, <1>6 DEF Stop, Leave, Goto, TypeOK, GroupTypeOK
  <2> QED BY <1>0, <1>6, <1>b, <2>1, GiveUpAccounted DEF Stop, Leave
<1>7. ASSUME NEW c \in Consumers, StopRunning(c) PROVE Accounted'
  BY <1>0, <1>7 DEF StopRunning, groupVars, Accounted, OwnersAreIn, UnownedIsReset,
     NoBatchBetweenPolls, CommitsAccounted, CursorAccounted, Past, InBatch
<1>8. ASSUME NEW c \in Consumers, Crash(c) PROVE Accounted'
  <2>1. \A d \in Consumers \ {c} : member'[d] = member[d] /\ pc'[d] = pc[d]
    BY <1>0, <1>8 DEF Crash, Leave, Goto, TypeOK, GroupTypeOK
  <2>2. ASSUME NEW p \in Owned(c), NEW o \in Offsets, InBatch(p, o)
        PROVE  <<p, o>> \in dropped'
    <3>1. p \in Partitions
      BY DEF Owned
    <3>2. o \in done[p]..(fetched[p] - 1)
      BY <1>0, <2>2, <3>1, GroupAssumption DEF InBatch, TypeOK, GroupTypeOK, Offsets
    <3>3. <<p, o>> \in Batch(c)
      BY <3>2 DEF Batch, At
    <3> QED BY <1>8, <3>3 DEF Crash
  <2> QED BY <1>0, <1>8, <2>1, <2>2, GiveUpAccounted DEF Crash, Leave
<1>9. ASSUME NEW c \in Consumers, Revoked(c) PROVE Accounted'
  <2>1. /\ \A d \in Consumers \ {c} : member'[d] = member[d] /\ pc'[d] = pc[d]
        /\ pc[c] # "records"
    BY <1>0, <1>9 DEF Revoked, Rejoin, Polling, TypeOK, GroupTypeOK
  <2> QED BY <1>0, <1>9, <1>b, <2>1, GiveUpAccounted DEF Revoked, Rejoin
<1>10. ASSUME NEW c \in Consumers, NEW p \in Partitions, ProcessRecord(c, p)
       PROVE  Accounted'
  BY <1>0, <1>10, ProcessRecordAccounted
<1>11. ASSUME NEW p \in Partitions, AutoCommit(p) PROVE Accounted'
  <2>1. \A q \in Partitions :
          committed'[q] = committed[q] \/ committed'[q] = stored[q]
    BY <1>11 DEF AutoCommit, CommittedStored
  <2> QED BY <1>0, <1>11, <2>1
          DEF AutoCommit, programVars, Accounted, OwnersAreIn, UnownedIsReset,
              NoBatchBetweenPolls, CommitsAccounted, CursorAccounted, Past, InBatch
<1>12. CASE Assigned
  BY <1>0, <1>12, AssignedAccounted
<1>13. ASSUME NEW p \in Partitions, NEW kind \in Kinds, Produced(p, kind)
       PROVE  Accounted'
  BY <1>0, <1>13 DEF Produced, Produce, programVars, Accounted, OwnersAreIn,
     UnownedIsReset, NoBatchBetweenPolls, CommitsAccounted, CursorAccounted, Past, InBatch
<1>14. CASE UNCHANGED vars
  BY <1>0, <1>14 DEF vars, groupVars, programVars, Accounted, OwnersAreIn,
     UnownedIsReset, NoBatchBetweenPolls, CommitsAccounted, CursorAccounted, Past, InBatch
<1> QED
  BY <1>1, <1>2, <1>3, <1>4, <1>5, <1>6, <1>7, <1>8, <1>9, <1>10, <1>11, <1>12,
     <1>13, <1>14
  DEF Next

LEMMA IInvImplies == IInv => OnlyDroppedAreSkipped
<1> SUFFICES ASSUME IInv, NEW p \in Partitions, NEW r \in At(p, 0..(committed[p] - 1))
             PROVE  r \in processed \cup dropped \cup At(p, done[p]..(fetched[p] - 1))
  BY DEF OnlyDroppedAreSkipped
<1> USE GroupAssumption DEF IInv, TypeOK, GroupTypeOK, Offsets, NoOffset
<1>1. PICK o \in 0..(committed[p] - 1) : r = <<p, o>>
  BY DEF At
<1>2. o \in Offsets /\ o < committed[p]
  <2>1. committed[p] \in 0..MaxOffset \cup {-1}
    OBVIOUS
  <2> HIDE DEF IInv, TypeOK, GroupTypeOK, NoOffset
  <2> QED BY <2>1
<1>3. Past(p, o) \/ InBatch(p, o)
  BY <1>2 DEF CommitsAccounted
<1>4. InBatch(p, o) => r \in At(p, done[p]..(fetched[p] - 1))
  BY <1>1, <1>2 DEF InBatch, At
<1> QED BY <1>1, <1>3, <1>4 DEF Past

\* However many processes share the group, and whatever stops, signals,
\* crashes and rebalances happen, a committed offset passes only records that
\* were processed, are in their owner's batch, or were dropped by the first
\* poll or by a crash.
THEOREM CommitsAreAccounted == Spec => []OnlyDroppedAreSkipped
  BY IInvInit, IInvNext, IInvImplies, PTL DEF Spec

-----------------------------------------------------------------------------
(* A process alone in its group. *)

\* No rebalance reaches the process once its subscribe call has returned.
AloneInv(c) ==
  /\ ~Live(c) => member[c] = "out"
  /\ pc[c] = "subscribe" => member[c] = "joining"
  /\ pc[c] \in {"firstPoll", "seek", "loop", "records"} => member[c] = "in" /\ ~rebalancing
  /\ ReadsFromBeginning

LEMMA AloneNext ==
  ASSUME NEW c, Consumers = {c}, IInv, AloneInv(c), [Next]_vars
  PROVE  AloneInv(c)'
<1>0. /\ pc \in [Consumers -> Phases] /\ done \in [Partitions -> Offsets]
      /\ member \in [Consumers -> {"out", "joining", "in"}]
      /\ seen \in [Consumers -> SUBSET Records]
      /\ owner \in [Partitions -> Consumers \cup {NoOne}]
      /\ \A p \in Partitions : owner[p] # NoOne => owner[p] = c /\ member[c] = "in"
  BY DEF IInv, TypeOK, GroupTypeOK, OwnersAreIn
<1>1. ASSUME Leave(c), pc'[c] \in {"closed", "dead"} PROVE AloneInv(c)'
  <2>1. \A p \in Partitions : owner'[p] = NoOne
    BY <1>0, <1>1 DEF Leave, GiveUp, Owned
  <2>2. member'[c] = "out"
    BY <1>0, <1>1 DEF Leave
  <2> QED BY <1>1, <2>1, <2>2 DEF AloneInv, ReadsFromBeginning
<1>2. ASSUME pc' = pc \/ pc' = [pc EXCEPT ![c] = "records"],
             UNCHANGED <<owner, done, seen, member, rebalancing>>,
             pc' # pc => pc[c] = "loop"
      PROVE  AloneInv(c)'
  BY <1>0, <1>2, GroupAssumption DEF AloneInv, ReadsFromBeginning, Live, Phases, At
<1>3. CASE Launch(c)
  <2>1. \A p \in Partitions : owner'[p] = NoOne
    BY <1>0, <1>3 DEF Launch, Join
  <2>2. member'[c] = "joining" /\ pc'[c] = "subscribe"
    BY <1>0, <1>3 DEF Launch, Join, Goto
  <2> QED BY <2>1, <2>2 DEF AloneInv, ReadsFromBeginning, Live
<1>4. CASE SubscribeFails(c)
  BY <1>0, <1>1, <1>4 DEF SubscribeFails, Goto
<1>5. CASE FirstPoll(c)
  <2>1. /\ pc[c] = "firstPoll" /\ pc'[c] = "seek"
        /\ UNCHANGED <<owner, member, rebalancing>>
    BY <1>0, <1>5 DEF FirstPoll, HandOver, Goto
  <2> QED BY <1>0, <2>1, GroupAssumption DEF AloneInv, ReadsFromBeginning, Live
<1>6. CASE Seek(c)
  <2>1. /\ pc[c] = "seek" /\ pc'[c] = "loop" /\ UNCHANGED <<owner, member, rebalancing>>
        /\ \A p \in Partitions : owner[p] = c => done'[p] = 0
    BY <1>0, <1>6 DEF Seek, Goto
  <2>2. ReadsFromBeginning'
    BY <1>0, <2>1 DEF ReadsFromBeginning, At
  <2> QED BY <2>1, <2>2 DEF AloneInv, Live
<1>7. CASE Poll(c)
  BY <1>0, <1>2, <1>7 DEF Poll, HandOver, Goto
<1>8. CASE Stop(c)
  BY <1>0, <1>1, <1>8 DEF Stop, Goto
<1>9. CASE StopRunning(c)
  BY <1>2, <1>9 DEF StopRunning, groupVars
<1>10. CASE Crash(c)
  BY <1>0, <1>1, <1>10 DEF Crash, Goto
<1>11. CASE Revoked(c)
  BY <1>0, <1>11 DEF Revoked, Rejoin, Polling, AloneInv
<1>12. ASSUME NEW p \in Partitions, ProcessRecord(c, p) PROVE AloneInv(c)'
  <2>1. /\ pc[c] = "records" /\ pc'[c] \in {"loop", "records"}
        /\ UNCHANGED <<owner, member, rebalancing>>
        /\ done' = [done EXCEPT ![p] = @ + 1]
        /\ seen'[c] = seen[c] \cup {<<p, done[p]>>}
    BY <1>0, <1>12 DEF ProcessRecord, Goto, groupVars
  <2>2. ASSUME NEW q \in Partitions, owner'[q] # NoOne
        PROVE  At(q, 0..(done'[q] - 1)) \subseteq seen'[c]
    <3>1. At(q, 0..(done[q] - 1)) \subseteq seen[c]
      BY <1>0, <2>1, <2>2 DEF AloneInv, ReadsFromBeginning
    <3>2. done[q] \in Nat
      BY <1>0, GroupAssumption DEF Offsets
    <3>3. CASE q = p
      <4>1. 0..(done'[q] - 1) = 0..(done[q] - 1) \cup {done[q]}
        BY <1>0, <2>1, <3>2, <3>3
      <4> QED BY <2>1, <3>1, <3>3, <4>1 DEF At
    <3>4. CASE q # p
      BY <1>0, <2>1, <3>1, <3>4
    <3> QED BY <3>3, <3>4
  <2>3. ReadsFromBeginning'
    BY <1>0, <2>1, <2>2 DEF ReadsFromBeginning
  <2> QED BY <2>1, <2>3 DEF AloneInv, Live
<1>13. ASSUME NEW p \in Partitions, AutoCommit(p) PROVE AloneInv(c)'
  BY <1>2, <1>13 DEF AutoCommit, programVars
<1>14. CASE Assigned
  <2>1. member[c] = "joining" /\ member'[c] = "in" /\ ~rebalancing'
    BY <1>0, <1>14 DEF Assigned, Assign
  <2>2. pc[c] = "subscribe"
    BY <1>0, <2>1 DEF AloneInv, Live, Phases
  <2>3. pc'[c] = "firstPoll"
    BY <1>14, <2>2 DEF Assigned
  <2>4. \A p \in Partitions : owner'[p] = c
    BY <1>14 DEF Assigned, Assign
  <2> QED BY <2>1, <2>3, <2>4 DEF AloneInv, ReadsFromBeginning, Live
<1>15. ASSUME NEW p \in Partitions, NEW kind \in Kinds, Produced(p, kind)
       PROVE  AloneInv(c)'
  BY <1>2, <1>15 DEF Produced, Produce, programVars
<1>16. CASE UNCHANGED vars
  BY <1>2, <1>16 DEF vars, groupVars, programVars
<1> QED
  BY <1>3, <1>4, <1>5, <1>6, <1>7, <1>8, <1>9, <1>10, <1>11, <1>12, <1>13, <1>14,
     <1>15, <1>16
  DEF Next

\* A process that shares its group with no other, relaunched or not, has
\* processed every record behind its cursor since it was launched, however
\* many partitions there are and however the library commits.
THEOREM AloneReadsFromBeginning ==
  ASSUME NEW c, Consumers = {c}
  PROVE  Spec => []ReadsFromBeginning
<1>1. Init => AloneInv(c)
  BY DEF Init, GroupInit, AloneInv, Live, ReadsFromBeginning
<1>2. IInv /\ AloneInv(c) /\ [Next]_vars => AloneInv(c)'
  BY AloneNext
<1>3. AloneInv(c) => ReadsFromBeginning
  BY DEF AloneInv
<1> QED
  BY <1>1, <1>2, <1>3, IInvInit, IInvNext, PTL DEF Spec

=============================================================================
