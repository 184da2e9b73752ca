------------------------- MODULE ManualCommitProofs -------------------------
(***************************************************************************)
(* What ManualCommitConsumer promises for every number of processes,       *)
(* partitions and records: its types, and that the committed offset passes *)
(* nothing but what was printed or passed over by a quit or a reset.       *)
(***************************************************************************)
EXTENDS ManualCommitConsumer, TLAPS

-----------------------------------------------------------------------------
(* The inductive invariant. *)

\* Record o of p was printed or passed over.
Past(p, o) == <<p, o>> \in printed \/ <<p, o>> \in skipped

\* Record o of p is one its owner's loop has still to print.
InBatch(p, o) ==
  /\ owner[p] # NoOne
  /\ pc[owner[p]] = "records"
  /\ done[p] <= o /\ o < fetched[p]

CommittedPast == \A p \in Partitions : \A o \in Offsets : o < committed[p] => Past(p, o)

\* A commit on its way never covers a batch that is being printed.
PendingPast == \A p \in Partitions : \A o \in Offsets : o < pending[p] => Past(p, o)

\* What the next commitAsync will ask for covers at most the batch at hand.
StoredPast ==
  \A p \in Partitions : \A o \in Offsets :
    o < stored[p] => Past(p, o) \/ InBatch(p, o)

\* Behind the cursor of an owner everything is past.
CursorPast ==
  \A p \in Partitions : \A o \in Offsets :
    owner[p] # NoOne /\ o < done[p] => Past(p, o)

\* Before and after the loop over a batch there is no batch; a quit leaves
\* the rest of one behind.
NoBatchBetweenPolls ==
  \A p \in Partitions :
    owner[p] # NoOne /\ pc[owner[p]] \notin {"records", "quit", "closing"}
      => done[p] = fetched[p]

Accounted ==
  /\ CommittedPast
  /\ PendingPast
  /\ StoredPast
  /\ CursorPast
  /\ NoBatchBetweenPolls

MInv == TypeOK /\ Accounted

-----------------------------------------------------------------------------
(* Type correctness. *)

LEMMA PollResultsBounds ==
  ASSUME TypeOK, NEW c \in Consumers, NEW f \in PollResults(c)
  PROVE  /\ f \in [Partitions -> Offsets]
         /\ \A p \in Partitions : fetched[p] <= f[p]
         /\ \A p \in Partitions : owner[p] # c => f[p] = fetched[p]
  BY GroupAssumption DEF PollResults, TypeOK, GroupTypeOK, Offsets

\* Giving up partitions, by leaving or to rejoin, keeps the types.
LEMMA GiveUpType ==
  ASSUME TypeOK, NEW c \in Consumers, GiveUp(Owned(c)), Forget(c)
  PROVE  /\ owner' \in [Partitions -> Consumers \cup {NoOne}]
         /\ fetched' \in [Partitions -> Offsets]
         /\ stored' \in [Partitions -> Offsets \cup {NoOffset}]
         /\ done' \in [Partitions -> Offsets]
         /\ pending' \in [Partitions -> Offsets \cup {NoOffset}]
  BY GroupAssumption DEF GiveUp, Forget, TypeOK, GroupTypeOK, Offsets

LEMMA LeaveType ==
  ASSUME TypeOK, NEW c \in Consumers, Leave(c), Forget(c), committed' = committed
  PROVE  /\ GroupTypeOK'
         /\ done' \in [Partitions -> Offsets]
         /\ pending' \in [Partitions -> Offsets \cup {NoOffset}]
<1>1. GiveUp(Owned(c))
  BY DEF Leave
<1> QED BY <1>1, GiveUpType DEF Leave, TypeOK, GroupTypeOK

\* A batch consists of records of the log's bounds.
LEMMA BatchType ==
  ASSUME TypeOK, NEW c \in Consumers
  PROVE  Batch(c) \subseteq Records
<1>1. \A p \in Partitions : At(p, done[p]..(fetched[p] - 1)) \subseteq Records
  BY GroupAssumption DEF At, Records, Offsets, TypeOK, GroupTypeOK
<1> QED BY <1>1 DEF Batch, Owned

LEMMA TypeInit == Init => TypeOK
<1> SUFFICES ASSUME Init PROVE TypeOK
  OBVIOUS
<1>1. 0 \in Offsets
  BY GroupAssumption DEF Offsets
<1>2. /\ log \in [Partitions -> Seq(Kinds)]
      /\ \A p \in Partitions : Len(log[p]) \in Offsets
  BY <1>1 DEF Init, GroupInit
<1>3. GroupTypeOK
  BY <1>1, <1>2 DEF Init, GroupInit, GroupTypeOK
<1> QED
  BY <1>1, <1>3, LaunchAssumption DEF Init, TypeOK, Phases, Records

LEMMA TypeNext == TypeOK /\ [Next]_vars => TypeOK'
<1> SUFFICES ASSUME TypeOK, [Next]_vars PROVE TypeOK'
  OBVIOUS
<1> USE DEF Goto
<1>1. ASSUME NEW c \in Consumers, Launch(c) PROVE TypeOK'
  BY <1>1, LaunchAssumption DEF Launch, Join, TypeOK, GroupTypeOK, Phases
<1>2. ASSUME NEW c \in Consumers, SubscribeFails(c) PROVE TypeOK'
  BY <1>2, LeaveType DEF SubscribeFails, TypeOK, Phases
<1>3. ASSUME NEW c \in Consumers, Poll(c) PROVE TypeOK'
  <2>1. PICK f \in PollResults(c) :
          /\ HandOver(f)
          /\ pc' = [pc EXCEPT ![c] = IF f = fetched THEN "commit" ELSE "records"]
    BY <1>3 DEF Poll
  <2>2. f \in [Partitions -> Offsets]
    BY PollResultsBounds
  <2>3. pc' \in [Consumers -> Phases]
    BY <2>1 DEF TypeOK, Phases
  <2> QED BY <1>3, <2>1, <2>2, <2>3 DEF Poll, HandOver, TypeOK, GroupTypeOK
<1>4. ASSUME NEW c \in Consumers, SecondPasses(c) PROVE TypeOK'
  BY <1>4 DEF SecondPasses, groupVars, TypeOK, GroupTypeOK
<1>5. ASSUME NEW c \in Consumers, EndTurn(c) PROVE TypeOK'
  <2>1. pc' \in [Consumers -> Phases]
    BY <1>5 DEF EndTurn, TypeOK, Phases
  <2>2. /\ pending' \in [Partitions -> Offsets \cup {NoOffset}]
        /\ due' \in [Consumers -> BOOLEAN]
        /\ allCommitted' \in [Consumers -> BOOLEAN]
    BY <1>5 DEF EndTurn, CommitAsync, TypeOK, GroupTypeOK
  <2> QED BY <1>5, <2>1, <2>2 DEF EndTurn, groupVars, TypeOK, GroupTypeOK
<1>6. ASSUME NEW c \in Consumers, Close(c) PROVE TypeOK'
  BY <1>6, LeaveType DEF Close, TypeOK, Phases
<1>7. ASSUME NEW c \in Consumers, Crash(c) PROVE TypeOK'
  BY <1>7, LeaveType DEF Crash, TypeOK, Phases
<1>8. ASSUME NEW c \in Consumers, CommitServed(c) PROVE TypeOK'
  BY <1>8 DEF CommitServed, TypeOK, GroupTypeOK
<1>9. ASSUME NEW c \in Consumers, CommitRefused(c) PROVE TypeOK'
  BY <1>9 DEF CommitRefused, groupVars, TypeOK, GroupTypeOK
<1>10. ASSUME NEW c \in Consumers, Revoked(c) PROVE TypeOK'
  <2>1. GiveUp(Owned(c)) /\ Forget(c)
    BY <1>10 DEF Revoked, Rejoin
  <2> QED BY <1>10, <2>1, GiveUpType DEF Revoked, Rejoin, TypeOK, GroupTypeOK
<1>11. ASSUME NEW c \in Consumers, NEW p \in Partitions, PrintRecord(c, p)
       PROVE  TypeOK'
  <2>1. done[p] + 1 \in Offsets
    BY <1>11, GroupAssumption DEF PrintRecord, Offsets, TypeOK, GroupTypeOK
  <2>2. <<p, done[p]>> \in Records
    BY DEF Records, TypeOK
  <2>3. pc' \in [Consumers -> Phases]
    BY <1>11 DEF PrintRecord, TypeOK, Phases
  <2> QED BY <1>11, <2>1, <2>2, <2>3
          DEF PrintRecord, groupVars, TypeOK, GroupTypeOK
<1>12. ASSUME NEW c \in Consumers, NEW p \in Partitions, QuitOnEmpty(c, p)
       PROVE  TypeOK'
  BY <1>12, BatchType DEF QuitOnEmpty, groupVars, TypeOK, GroupTypeOK, Phases
<1>13. CASE Assigned
  <2>1. PICK asg \in [Partitions -> {c \in Consumers : member[c] = "joining"}] :
          /\ owner' = asg
          /\ fetched' = [p \in Partitions |->
               IF committed[p] = NoOffset
               THEN [c \in Consumers |-> [q \in Partitions |-> Len(log[q])]][asg[p]][p]
               ELSE committed[p]]
    BY <1>13 DEF Assigned, Assign
  <2>2. fetched' \in [Partitions -> Offsets]
    BY <2>1, GroupAssumption DEF TypeOK, GroupTypeOK, Offsets
  <2>3. owner' \in [Partitions -> Consumers \cup {NoOne}]
    BY <2>1
  <2>4. pc' \in [Consumers -> Phases]
    BY <1>13 DEF Assigned, TypeOK, Phases
  <2>5. /\ stored' \in [Partitions -> Offsets \cup {NoOffset}]
        /\ member' \in [Consumers -> {"out", "joining", "in"}]
        /\ rebalancing' \in BOOLEAN /\ UNCHANGED <<log, committed>>
    BY <1>13 DEF Assigned, Assign, TypeOK, GroupTypeOK
  <2>6. \A p \in Partitions : At(p, Recorded(p)) \subseteq Records
    BY GroupAssumption DEF At, Recorded, Records, Offsets, TypeOK, GroupTypeOK
  <2>7. skipped' \subseteq Records
    BY <1>13, <2>6 DEF Assigned, TypeOK
  <2> QED BY <1>13, <2>2, <2>3, <2>4, <2>5, <2>7 DEF Assigned, TypeOK, GroupTypeOK
<1>14. ASSUME NEW p \in Partitions, NEW kind \in Kinds, Produced(p, kind)
       PROVE  TypeOK'
  BY <1>14, GroupAssumption
  DEF Produced, Produce, programVars, TypeOK, GroupTypeOK, Offsets
<1>15. CASE UNCHANGED vars
  BY <1>15 DEF vars, groupVars, programVars, TypeOK, GroupTypeOK
<1> QED
  BY <1>1, <1>2, <1>3, <1>4, <1>5, <1>6, <1>7, <1>8, <1>9, <1>10, <1>11, <1>12,
     <1>13, <1>14, <1>15
  DEF Next

\* In every behaviour each variable keeps its type: in particular no cursor
\* and no commit ever leaves the offsets of the log.
THEOREM TypeCorrect == Spec => []TypeOK
  BY TypeInit, TypeNext, PTL DEF Spec

-----------------------------------------------------------------------------
(* Commits are of what is past. *)

\* A process that gives up its partitions takes all its positions along, and
\* what the others have stays as it was.
LEMMA GiveUpAccounted ==
  ASSUME MInv, NEW c \in Consumers, GiveUp(Owned(c)), Forget(c),
         committed' = committed, printed' = printed, skipped' = skipped,
         \A d \in Consumers \ {c} : pc'[d] = pc[d]
  PROVE  Accounted'
<1> USE GroupAssumption DEF MInv, TypeOK, GroupTypeOK, Offsets, NoOffset
<1>1. ASSUME NEW p \in Partitions, owner[p] = c
      PROVE  owner'[p] = NoOne /\ stored'[p] = NoOffset /\ pending'[p] = NoOffset
  BY <1>1 DEF GiveUp, Owned, Forget
<1>2. ASSUME NEW p \in Partitions, owner[p] # c
      PROVE  /\ owner'[p] = owner[p] /\ fetched'[p] = fetched[p]
             /\ done'[p] = done[p] /\ stored'[p] = stored[p]
             /\ pending'[p] = pending[p]
             /\ owner[p] # NoOne => pc'[owner[p]] = pc[owner[p]]
  BY <1>2 DEF GiveUp, Owned, Forget
<1>3. \A p \in Partitions, o \in Offsets : Past(p, o) => Past(p, o)'
  BY DEF Past
<1>4. CommittedPast'
  BY <1>3 DEF Accounted, CommittedPast
<1>5. PendingPast'
  <2> SUFFICES ASSUME NEW p \in Partitions, NEW o \in Offsets, o < pending'[p]
               PROVE  Past(p, o)'
    BY DEF PendingPast
  <2>1. owner[p] # c
    BY <1>1
  <2> QED BY <1>2, <1>3, <2>1 DEF Accounted, PendingPast
<1>6. StoredPast'
  <2> SUFFICES ASSUME NEW p \in Partitions, NEW o \in Offsets, o < stored'[p]
               PROVE  Past(p, o)' \/ InBatch(p, o)'
    BY DEF StoredPast
  <2>1. owner[p] # c
    BY <1>1
  <2>2. Past(p, o) \/ InBatch(p, o)
    BY <1>2, <2>1 DEF Accounted, StoredPast
  <2>3. InBatch(p, o) => InBatch(p, o)'
    BY <1>2, <2>1 DEF InBatch
  <2> QED BY <1>3, <2>2, <2>3
<1>7. CursorPast'
  BY <1>1, <1>2, <1>3 DEF Accounted, CursorPast
<1>8. NoBatchBetweenPolls'
  BY <1>1, <1>2 DEF Accounted, NoBatchBetweenPolls
<1> QED BY <1>4, <1>5, <1>6, <1>7, <1>8 DEF Accounted

\* The records a poll returns are the batch of c, which had none.
LEMMA PollAccounted ==
  ASSUME MInv, NEW c \in Consumers, Poll(c)
  PROVE  Accounted'
<1> USE GroupAssumption DEF MInv, TypeOK, GroupTypeOK, Offsets, NoOffset
<1>1. PICK f \in PollResults(c) :
        HandOver(f) /\ Goto(c, IF f = fetched THEN "commit" ELSE "records")
  BY DEF Poll
<1>2. /\ f \in [Partitions -> Offsets]
      /\ \A p \in Partitions : fetched[p] <= f[p]
      /\ \A p \in Partitions : owner[p] # c => f[p] = fetched[p]
  BY PollResultsBounds
<1>3. /\ UNCHANGED <<committed, owner, done, pending, printed, skipped>>
      /\ fetched' = f /\ pc[c] = "loop"
      /\ stored' = [p \in Partitions |-> IF f[p] > fetched[p] THEN f[p] ELSE stored[p]]
      /\ pc' = [pc EXCEPT ![c] = IF f = fetched THEN "commit" ELSE "records"]
  BY <1>1 DEF HandOver, Poll, Goto
<1>4. CommittedPast' /\ PendingPast' /\ CursorPast'
  BY <1>3 DEF Accounted, CommittedPast, PendingPast, CursorPast, Past
<1>5. StoredPast'
  <2> SUFFICES ASSUME NEW p \in Partitions, NEW o \in Offsets, o < stored'[p]
               PROVE  Past(p, o)' \/ InBatch(p, o)'
    BY DEF StoredPast
  <2>1. Past(p, o)' <=> Past(p, o)
    BY <1>3 DEF Past
  <2>2. CASE owner[p] # c
    BY <1>2, <1>3, <2>1, <2>2 DEF Accounted, StoredPast, InBatch
  <2>3. CASE owner[p] = c
    <3>1. done[p] = fetched[p]
      BY <1>3, <2>3 DEF Accounted, NoBatchBetweenPolls
    <3>2. CASE o < stored[p]
      BY <1>3, <2>1, <2>3, <3>2 DEF Accounted, StoredPast, InBatch
    <3>3. CASE o < fetched[p]
      BY <2>1, <2>3, <3>1, <3>3 DEF Accounted, CursorPast
    <3>4. CASE ~(o < fetched[p]) /\ ~(o < stored[p])
      <4>1. f[p] > fetched[p] /\ o < f[p]
        BY <1>2, <1>3, <3>4
      <4>2. pc'[c] = "records"
        BY <1>3, <4>1
      <4> QED BY <1>2, <1>3, <2>3, <3>1, <3>4, <4>1, <4>2 DEF InBatch
    <3> QED BY <3>2, <3>3, <3>4
  <2> QED BY <2>2, <2>3
<1>6. NoBatchBetweenPolls'
  <2> SUFFICES ASSUME NEW p \in Partitions, owner'[p] # NoOne,
                      pc'[owner'[p]] \notin {"records", "quit", "closing"}
               PROVE  done'[p] = fetched'[p]
    BY DEF NoBatchBetweenPolls
  <2>1. CASE owner[p] # c
    BY <1>2, <1>3, <2>1 DEF Accounted, NoBatchBetweenPolls
  <2>2. CASE owner[p] = c
    BY <1>2, <1>3, <2>2 DEF Accounted, NoBatchBetweenPolls
  <2> QED BY <2>1, <2>2
<1> QED BY <1>4, <1>5, <1>6 DEF Accounted

\* Printing a record makes it past; the last one of a batch ends the batch.
LEMMA PrintAccounted ==
  ASSUME MInv, NEW c \in Consumers, NEW p \in Partitions, PrintRecord(c, p)
  PROVE  Accounted'
<1> USE GroupAssumption DEF MInv, TypeOK, GroupTypeOK, Offsets, NoOffset
<1>1. /\ UNCHANGED <<committed, owner, fetched, stored, pending, skipped>>
      /\ owner[p] = c /\ pc[c] = "records" /\ done[p] < fetched[p]
      /\ done' = [done EXCEPT ![p] = @ + 1]
      /\ printed' = printed \cup {<<p, done[p]>>}
      /\ pc' = [pc EXCEPT ![c] =
                  IF \A q \in Owned(c) : done'[q] = fetched[q] THEN "commit" ELSE "records"]
  BY DEF PrintRecord, groupVars, Goto
<1>2. \A q \in Partitions, o \in Offsets : Past(q, o) => Past(q, o)'
  BY <1>1 DEF Past
<1>3. done'[p] = done[p] + 1 /\ \A q \in Partitions \ {p} : done'[q] = done[q]
  BY <1>1
<1>4. \A o \in Offsets : o = done[p] => Past(p, o)'
  BY <1>1 DEF Past
<1>5. CommittedPast' /\ PendingPast'
  BY <1>1, <1>2 DEF Accounted, CommittedPast, PendingPast
<1>6. StoredPast'
  <2> SUFFICES ASSUME NEW q \in Partitions, NEW o \in Offsets, o < stored[q]
               PROVE  Past(q, o)' \/ InBatch(q, o)'
    BY <1>1 DEF StoredPast
  <2>1. Past(q, o) \/ InBatch(q, o)
    BY DEF Accounted, StoredPast
  <2>2. ASSUME InBatch(q, o) PROVE InBatch(q, o)' \/ (q = p /\ o = done[p])
    <3>1. CASE owner[q] # c
      BY <1>1, <1>3, <2>2, <3>1 DEF InBatch
    <3>2. CASE owner[q] = c /\ pc'[c] = "records"
      BY <1>1, <1>3, <2>2, <3>2 DEF InBatch
    <3>3. CASE owner[q] = c /\ pc'[c] # "records"
      <4>1. done'[q] = fetched[q]
        BY <1>1, <3>3 DEF Owned
      <4> QED BY <1>3, <2>2, <4>1 DEF InBatch
    <3> QED BY <3>1, <3>2, <3>3
  <2> QED BY <1>2, <1>4, <2>1, <2>2
<1>7. CursorPast'
  <2> SUFFICES ASSUME NEW q \in Partitions, NEW o \in Offsets,
                      owner[q] # NoOne, o < done'[q]
               PROVE  Past(q, o)'
    BY <1>1 DEF CursorPast
  <2>1. o < done[q] \/ (q = p /\ o = done[p])
    BY <1>3
  <2> QED BY <1>2, <1>4, <2>1 DEF Accounted, CursorPast
<1>8. NoBatchBetweenPolls'
  <2> SUFFICES ASSUME NEW q \in Partitions, owner'[q] # NoOne,
                      pc'[owner'[q]] \notin {"records", "quit", "closing"}
               PROVE  done'[q] = fetched'[q]
    BY DEF NoBatchBetweenPolls
  <2>1. CASE owner[q] = c
    BY <1>1, <2>1 DEF Owned
  <2>2. CASE owner[q] # c
    BY <1>1, <1>3, <2>2 DEF Accounted, NoBatchBetweenPolls
  <2> QED BY <2>1, <2>2
<1> QED BY <1>5, <1>6, <1>7, <1>8 DEF Accounted

\* Quitting passes the rest of the batch over.
LEMMA QuitAccounted ==
  ASSUME MInv, NEW c \in Consumers, NEW p \in Partitions, QuitOnEmpty(c, p)
  PROVE  Accounted'
<1> USE GroupAssumption DEF MInv, TypeOK, GroupTypeOK, Offsets, NoOffset
<1>1. /\ UNCHANGED <<committed, owner, fetched, stored, pending, done, printed>>
      /\ pc[c] = "records" /\ pc' = [pc EXCEPT ![c] = "quit"]
      /\ skipped' = skipped \cup Batch(c)
  BY DEF QuitOnEmpty, groupVars, Goto
<1>2. \A q \in Partitions, o \in Offsets : Past(q, o) => Past(q, o)'
  BY <1>1 DEF Past
<1>3. ASSUME NEW q \in Partitions, NEW o \in Offsets, InBatch(q, o)
      PROVE  Past(q, o)' \/ InBatch(q, o)'
  <2>1. CASE owner[q] = c
    <3>1. o \in done[q]..(fetched[q] - 1)
      BY <1>3 DEF InBatch
    <3>2. <<q, o>> \in Batch(c)
      BY <2>1, <3>1 DEF Batch, Owned, At
    <3> QED BY <1>1, <3>2 DEF Past
  <2>2. CASE owner[q] # c
    BY <1>1, <1>3, <2>2 DEF InBatch
  <2> QED BY <2>1, <2>2
<1>4. CommittedPast' /\ PendingPast' /\ CursorPast'
  BY <1>1, <1>2 DEF Accounted, CommittedPast, PendingPast, CursorPast
<1>5. StoredPast'
  BY <1>1, <1>2, <1>3 DEF Accounted, StoredPast
<1>6. NoBatchBetweenPolls'
  BY <1>1 DEF Accounted, NoBatchBetweenPolls
<1> QED BY <1>4, <1>5, <1>6 DEF Accounted

\* commitAsync is called where no batch is being printed.
LEMMA EndTurnAccounted ==
  ASSUME MInv, NEW c \in Consumers, EndTurn(c)
  PROVE  Accounted'
<1> USE GroupAssumption DEF MInv, TypeOK, GroupTypeOK, Offsets, NoOffset
<1>1. /\ UNCHANGED <<committed, owner, fetched, stored, done, printed, skipped>>
      /\ \/ pc[c] = "commit" /\ pc' = [pc EXCEPT ![c] = "loop"]
         \/ pc[c] = "quit" /\ pc' = [pc EXCEPT ![c] = "closing"]
      /\ \A p \in Partitions :
           pending'[p] = pending[p] \/ (owner[p] = c /\ pending'[p] = stored[p])
  BY DEF EndTurn, CommitAsync, groupVars, Goto
<1>2. \A p \in Partitions, o \in Offsets :
        (Past(p, o)' <=> Past(p, o)) /\ (InBatch(p, o) => InBatch(p, o)')
  BY <1>1 DEF Past, InBatch
<1>3. CommittedPast' /\ StoredPast' /\ CursorPast'
  BY <1>1, <1>2 DEF Accounted, CommittedPast, StoredPast, CursorPast
<1>4. PendingPast'
  <2> SUFFICES ASSUME NEW p \in Partitions, NEW o \in Offsets, o < pending'[p]
               PROVE  Past(p, o)
    BY <1>2 DEF PendingPast
  <2>1. CASE pending'[p] = pending[p]
    BY <2>1 DEF Accounted, PendingPast
  <2>2. CASE owner[p] = c /\ pending'[p] = stored[p]
    <3>1. ~InBatch(p, o)
      BY <1>1, <2>2 DEF InBatch
    <3> QED BY <2>2, <3>1 DEF Accounted, StoredPast
  <2> QED BY <1>1, <2>1, <2>2
<1>5. NoBatchBetweenPolls'
  <2> SUFFICES ASSUME NEW p \in Partitions, owner[p] # NoOne,
                      pc'[owner[p]] \notin {"records", "quit", "closing"}
               PROVE  done[p] = fetched[p]
    BY <1>1 DEF NoBatchBetweenPolls
  <2>1. pc[owner[p]] \notin {"records", "quit", "closing"}
    BY <1>1
  <2> QED BY <2>1 DEF Accounted, NoBatchBetweenPolls
<1> QED BY <1>3, <1>4, <1>5 DEF Accounted

\* A new assignment starts at what is committed, or passes over what is
\* recorded.
LEMMA AssignedAccounted ==
  ASSUME MInv, Assigned
  PROVE  Accounted'
<1> USE GroupAssumption DEF MInv, TypeOK, GroupTypeOK, Offsets, NoOffset
<1>1. PICK asg \in [Partitions -> {c \in Consumers : member[c] = "joining"}] :
        /\ owner' = asg
        /\ fetched' = [p \in Partitions |->
             IF committed[p] = NoOffset
             THEN [c \in Consumers |-> [q \in Partitions |-> Len(log[q])]][asg[p]][p]
             ELSE committed[p]]
  BY DEF Assigned, Assign
<1>2. /\ committed' = committed /\ pending' = pending /\ printed' = printed
      /\ stored' = [p \in Partitions |-> NoOffset]
      /\ done' = fetched'
      /\ skipped' = skipped \cup
           UNION {At(p, Recorded(p)) : p \in {q \in Partitions : committed[q] = NoOffset}}
  BY DEF Assigned, Assign
<1>3. \A p \in Partitions, o \in Offsets : Past(p, o) => Past(p, o)'
  BY <1>2 DEF Past
<1>4. CommittedPast' /\ PendingPast'
  BY <1>2, <1>3 DEF Accounted, CommittedPast, PendingPast
<1>5. CursorPast'
  <2> SUFFICES ASSUME NEW p \in Partitions, NEW o \in Offsets, o < done'[p]
               PROVE  Past(p, o)'
    BY DEF CursorPast
  <2>1. CASE committed[p] = NoOffset
    <3>1. o < Len(log[p])
      BY <1>1, <1>2, <2>1
    <3>2. o \in Recorded(p)
      BY <3>1 DEF Recorded
    <3> QED BY <1>2, <2>1, <3>2 DEF Past, At
  <2>2. CASE committed[p] # NoOffset
    BY <1>1, <1>2, <1>3, <2>2 DEF Accounted, CommittedPast
  <2> QED BY <2>1, <2>2
<1>6. StoredPast' /\ NoBatchBetweenPolls'
  BY <1>2 DEF StoredPast, NoBatchBetweenPolls
<1> QED BY <1>4, <1>5, <1>6 DEF Accounted

LEMMA MInvInit == Init => MInv
<1> SUFFICES ASSUME Init PROVE Accounted
  BY TypeInit DEF MInv
<1> QED
  BY GroupAssumption
  DEF Init, GroupInit, Accounted, CommittedPast, PendingPast, StoredPast,
      CursorPast, NoBatchBetweenPolls, NoOffset, Offsets

LEMMA MInvNext == MInv /\ [Next]_vars => MInv'
<1> SUFFICES ASSUME MInv, [Next]_vars PROVE Accounted'
  BY TypeNext DEF MInv
<1>1. ASSUME NEW c \in Consumers, Launch(c) PROVE Accounted'
  <2>1. /\ UNCHANGED <<committed, owner, fetched, stored, pending, done, printed, skipped>>
        /\ pc[c] \in {"off", "ended", "dead"} /\ pc' = [pc EXCEPT ![c] = "subscribe"]
    BY <1>1 DEF Launch, Join, Live, Goto, MInv, TypeOK, GroupTypeOK, Phases
  <2>2. \A p \in Partitions, o \in Offsets :
          (Past(p, o)' <=> Past(p, o)) /\ (InBatch(p, o) => InBatch(p, o)')
    BY <2>1 DEF Past, InBatch, MInv, TypeOK, GroupTypeOK
  <2>3. CommittedPast' /\ PendingPast' /\ StoredPast' /\ CursorPast'
    BY <2>1, <2>2
    DEF MInv, Accounted, CommittedPast, PendingPast, StoredPast, CursorPast
  <2>4. NoBatchBetweenPolls'
    BY <2>1 DEF MInv, TypeOK, GroupTypeOK, Accounted, NoBatchBetweenPolls
  <2> QED BY <2>3, <2>4 DEF Accounted
<1>2. ASSUME NEW c \in Consumers, SubscribeFails(c) \/ Close(c) \/ Crash(c)
      PROVE  Accounted'
  <2>1. /\ GiveUp(Owned(c)) /\ Forget(c)
        /\ committed' = committed /\ printed' = printed /\ skipped' = skipped
        /\ \A d \in Consumers \ {c} : pc'[d] = pc[d]
    BY <1>2 DEF SubscribeFails, Close, Crash, Leave, Goto, MInv, TypeOK
  <2> QED BY <2>1, GiveUpAccounted
<1>3. ASSUME NEW c \in Consumers, Revoked(c) PROVE Accounted'
  <2>1. /\ GiveUp(Owned(c)) /\ Forget(c)
        /\ committed' = committed /\ printed' = printed /\ skipped' = skipped
        /\ pc' = pc
    BY <1>3 DEF Revoked, Rejoin
  <2> QED BY <2>1, GiveUpAccounted
<1>4. ASSUME NEW c \in Consumers, CommitServed(c) \/ CommitRefused(c)
      PROVE  Accounted'
  <2>1. /\ UNCHANGED <<owner, fetched, stored, done, printed, skipped, pc>>
        /\ \A p \in Partitions :
             /\ committed'[p] = committed[p] \/ committed'[p] = pending[p]
             /\ pending'[p] = pending[p] \/ pending'[p] = NoOffset
    BY <1>4 DEF CommitServed, CommitRefused, groupVars, MInv, TypeOK, GroupTypeOK
  <2>2. \A p \in Partitions, o \in Offsets :
          (Past(p, o)' <=> Past(p, o)) /\ (InBatch(p, o)' <=> InBatch(p, o))
    BY <2>1 DEF Past, InBatch
  <2>3. CommittedPast' /\ PendingPast'
    BY <2>1, <2>2 DEF MInv, Accounted, CommittedPast, PendingPast, NoOffset, Offsets
  <2>4. StoredPast' /\ CursorPast' /\ NoBatchBetweenPolls'
    BY <2>1, <2>2 DEF MInv, Accounted, StoredPast, CursorPast, NoBatchBetweenPolls
  <2> QED BY <2>3, <2>4 DEF Accounted
<1>5. ASSUME UNCHANGED <<committed, owner, fetched, stored, pending, done, printed,
                         skipped, pc>>
      PROVE  Accounted'
  BY <1>5
  DEF MInv, Accounted, CommittedPast, PendingPast, StoredPast, CursorPast,
      NoBatchBetweenPolls, Past, InBatch
<1>6. ASSUME NEW c \in Consumers, SecondPasses(c) PROVE Accounted'
  BY <1>5, <1>6 DEF SecondPasses, groupVars
<1>7. ASSUME NEW p \in Partitions, NEW kind \in Kinds, Produced(p, kind)
      PROVE  Accounted'
  BY <1>5, <1>7 DEF Produced, Produce, programVars
<1>8. CASE UNCHANGED vars
  BY <1>5, <1>8 DEF vars, groupVars, programVars
<1> QED
  BY <1>1, <1>2, <1>3, <1>4, <1>6, <1>7, <1>8, PollAccounted, PrintAccounted,
     QuitAccounted, EndTurnAccounted, AssignedAccounted
  DEF Next

\* For every number of processes, partitions and records: no commit, however
\* late it is served, passes a record of a batch that is being printed or
\* died with its process.
THEOREM CommitsFollowPrinting == Spec => []CommittedArePrinted
<1>1. MInv => CommittedArePrinted
  <2> SUFFICES ASSUME MInv, NEW p \in Partitions, NEW r \in At(p, 0..(committed[p] - 1))
               PROVE  r \in printed \cup skipped
    BY DEF CommittedArePrinted
  <2>1. PICK o \in 0..(committed[p] - 1) : r = <<p, o>>
    BY DEF At
  <2>2. committed[p] \in Offsets \cup {NoOffset}
    BY DEF MInv, TypeOK, GroupTypeOK
  <2>3. o \in Offsets /\ o < committed[p]
    BY <2>2, GroupAssumption DEF Offsets, NoOffset
  <2> QED BY <2>1, <2>3 DEF MInv, Accounted, CommittedPast, Past
<1> QED BY <1>1, MInvInit, MInvNext, PTL DEF Spec
=============================================================================
