--------------------------- MODULE ProducerProofs ---------------------------
(***************************************************************************)
(* What Producer promises for every number of messages, attempts, launches *)
(* and partitions: its types, the order of delivered messages, and that it *)
(* implements the abstract sender of Delivery.                             *)
(***************************************************************************)
EXTENDS Producer, TLAPS

\* A copy of message m is in its partition's log.
InLog(m) == \E i \in DOMAIN log[to[m]] : log[to[m]][i] = m

-----------------------------------------------------------------------------
(* The inductive invariant. *)

\* Where the program is bounds what it may still send.
ControlInv ==
  /\ pc = "send" => Last < MaxMessages
  /\ pc = "close" => Last >= 1

\* Only the last message may lack its report, and only in close().
PendingIsLast ==
  \A m \in 1..Last : report[m] = "pending" => m = Last /\ pc = "close"

\* What is under way or recorded was sent, to the partition it is found in.
OnlySent ==
  /\ \A r \in requests : r[1] \in 1..Last
  /\ \A p \in Partitions : \A i \in DOMAIN log[p] :
       log[p][i] \in 1..Last /\ to[log[p][i]] = p

\* An answer means that the message it is awaited for is recorded.
AnsweredInLog ==
  /\ waiting => Pending
  /\ answered => waiting /\ InLog(Last)

DeliveredInLog == \A m \in 1..Last : report[m] = "delivered" => InLog(m)

PInv ==
  /\ TypeOK
  /\ ControlInv
  /\ PendingIsLast
  /\ OnlySent
  /\ AnsweredInLog
  /\ DeliveredInLog
  /\ DeliveryOrder

-----------------------------------------------------------------------------
(* Lemmas on the steps. *)

\* Appending to a log keeps the records it had where they were.
LEMMA AppendKeeps ==
  ASSUME NEW S, NEW s \in Seq(S), NEW e \in S
  PROVE  /\ Append(s, e) \in Seq(S)
         /\ Len(Append(s, e)) = Len(s) + 1
         /\ DOMAIN s = 1..Len(s)
         /\ DOMAIN Append(s, e) = 1..(Len(s) + 1)
         /\ \A i \in 1..Len(s) : Append(s, e)[i] = s[i]
         /\ Append(s, e)[Len(s) + 1] = e
  OBVIOUS

LEMMA PInvInit == Init => PInv
<1> SUFFICES ASSUME Init PROVE PInv
  OBVIOUS
<1>1. report = <<>> /\ to = <<>> /\ Len(report) = 0 /\ Last = 0
  BY DEF Init, Last
<1>2. TypeOK
  <2>1. log \in [Partitions -> Seq(Messages)]
    BY DEF Init
  <2>2. /\ to \in Seq(Partitions) /\ report \in Seq(Reports)
        /\ Len(to) = Len(report) /\ Len(report) <= MaxMessages
    BY <1>1, ProducerAssumption
  <2>3. requests \subseteq Requests
    BY DEF Init
  <2>4. attempt \in 0..MaxAttempts /\ launches \in 0..MaxLaunches
    BY ProducerAssumption DEF Init
  <2>5. /\ waiting \in BOOLEAN /\ answered \in BOOLEAN /\ running \in BOOLEAN
        /\ pc = "off"
    BY DEF Init
  <2> QED BY <2>1, <2>2, <2>3, <2>4, <2>5 DEF TypeOK
<1>3. OnlySent
  <2>1. \A p \in Partitions : log[p] = <<>>
    BY DEF Init
  <2> QED BY <2>1 DEF Init, OnlySent
<1>4. ControlInv /\ AnsweredInLog
  BY DEF Init, ControlInv, AnsweredInLog
<1>5. PendingIsLast /\ DeliveredInLog /\ DeliveryOrder
  BY <1>1 DEF PendingIsLast, DeliveredInLog, DeliveryOrder
<1> QED
  BY <1>2, <1>3, <1>4, <1>5 DEF PInv

\* A step that leaves the log and the messages alone, sends requests for sent
\* messages only and does not enter close(), nor leave it without a report,
\* keeps the invariant, if it keeps the types.
LEMMA ControlStep ==
  ASSUME PInv, TypeOK', UNCHANGED <<log, to, report>>,
         \A r \in requests' : r \in requests \/ r[1] \in 1..Last,
         ControlInv', pc = "close" => pc' = "close" \/ report[Last] # "pending",
         \/ waiting' = FALSE /\ answered' = FALSE
         \/ UNCHANGED <<waiting, answered>>
         \/ Pending /\ pc' = pc /\ waiting' = TRUE /\ answered' = answered
  PROVE  PInv'
<1>1. Last' = Last /\ DeliveryOrder' /\ OnlySent' /\ DeliveredInLog'
  BY DEF PInv, Last, DeliveryOrder, OnlySent, DeliveredInLog, InLog
<1>2. PendingIsLast'
  BY <1>1 DEF PInv, PendingIsLast
<1>3. AnsweredInLog'
  BY <1>1 DEF PInv, AnsweredInLog, Pending, InLog
<1> QED BY <1>1, <1>2, <1>3 DEF PInv

\* A step that gives the last message its report, "delivered" only if it is
\* recorded.
LEMMA ReportStep ==
  ASSUME PInv, TypeOK', Pending, UNCHANGED <<log, to, requests>>,
         NEW r \in {"delivered", "failed", "abandoned"},
         report' = [report EXCEPT ![Last] = r],
         r = "delivered" => InLog(Last),
         pc' = pc \/ pc' = "dead", waiting' = FALSE, answered' = FALSE
  PROVE  PInv'
<1>1. Last \in 1..Last /\ Last \in Nat /\ report \in Seq(Reports)
  BY DEF PInv, TypeOK, ControlInv, Pending, Last
<1>2. /\ Last' = Last /\ report'[Last] = r
      /\ \A m \in 1..Last : m # Last => report'[m] = report[m]
  BY <1>1 DEF Last
<1>3. ControlInv' /\ AnsweredInLog'
  BY <1>1, <1>2 DEF PInv, ControlInv, AnsweredInLog
<1>4. PendingIsLast'
  BY <1>2 DEF PInv, PendingIsLast
<1>5. OnlySent'
  BY <1>2 DEF PInv, OnlySent
<1>6. DeliveredInLog'
  BY <1>2 DEF PInv, DeliveredInLog, InLog
<1>7. DeliveryOrder'
  <2> SUFFICES ASSUME NEW m \in 1..Last, NEW n \in 1..Last,
                      m < n, report'[m] = "delivered", to[m] = to[n]
               PROVE  \E i \in DOMAIN log[to[m]] :
                        /\ log[to[m]][i] = m
                        /\ \A j \in 1..i : log[to[m]][j] # n
    BY <1>2 DEF DeliveryOrder
  <2>1. report[m] = "delivered"
    BY <1>1, <1>2
  <2> QED BY <2>1 DEF PInv, DeliveryOrder
<1> QED BY <1>3, <1>4, <1>5, <1>6, <1>7 DEF PInv

\* The message handed to the client is the only one without a report.
LEMMA SendStep ==
  ASSUME PInv, NEW p \in Partitions, Send(p)
  PROVE  PInv'
<1>1. /\ report' = Append(report, "pending") /\ to' = Append(to, p)
      /\ pc = "send" /\ pc' = "close" /\ UNCHANGED <<log, requests, waiting, answered>>
      /\ report \in Seq(Reports) /\ to \in Seq(Partitions) /\ Len(to) = Len(report)
      /\ Last = Len(report) /\ Last \in Nat /\ Last < MaxMessages
  BY DEF Send, netVars, PInv, TypeOK, ControlInv, Last
<1>2. /\ Last' = Last + 1 /\ Len(to') = Len(report')
      /\ \A m \in 1..Last : report'[m] = report[m] /\ to'[m] = to[m]
      /\ report'[Last + 1] = "pending"
      /\ report' \in Seq(Reports) /\ to' \in Seq(Partitions)
  BY <1>1, AppendKeeps DEF Last, Reports
<1>3. TypeOK'
  BY <1>1, <1>2, ProducerAssumption DEF Send, PInv, TypeOK, Last, netVars
<1>4. ControlInv'
  BY <1>1, <1>2 DEF ControlInv
<1>5. PendingIsLast'
  BY <1>1, <1>2 DEF PInv, PendingIsLast
<1>6. OnlySent'
  BY <1>1, <1>2 DEF PInv, OnlySent
<1>7. AnsweredInLog'
  BY <1>1 DEF PInv, AnsweredInLog, Pending
<1>8. DeliveredInLog'
  <2> SUFFICES ASSUME NEW m \in 1..Last', report'[m] = "delivered" PROVE InLog(m)'
    BY DEF DeliveredInLog
  <2>1. m \in 1..Last
    BY <1>1, <1>2
  <2>2. InLog(m) /\ to'[m] = to[m] /\ log' = log
    BY <1>1, <1>2, <2>1 DEF PInv, DeliveredInLog
  <2> QED BY <2>2 DEF InLog
<1>9. DeliveryOrder'
  <2> SUFFICES ASSUME NEW m \in 1..Last', NEW n \in 1..Last',
                      m < n, report'[m] = "delivered", to'[m] = to'[n]
               PROVE  \E i \in DOMAIN log'[to'[m]] :
                        /\ log'[to'[m]][i] = m
                        /\ \A j \in 1..i : log'[to'[m]][j] # n
    BY DEF DeliveryOrder
  <2>0. log' = log
    BY <1>1
  <2>1. m \in 1..Last /\ report[m] = "delivered" /\ to'[m] = to[m] /\ to[m] \in Partitions
    BY <1>1, <1>2
  <2>2. CASE n \in 1..Last
    <3>1. to[m] = to[n]
      BY <1>2, <2>1, <2>2
    <3>2. \E i \in DOMAIN log[to[m]] :
            log[to[m]][i] = m /\ \A j \in 1..i : log[to[m]][j] # n
      BY <2>1, <2>2, <3>1 DEF PInv, DeliveryOrder
    <3> QED BY <2>0, <2>1, <3>2
  <2>3. CASE n = Last + 1
    <3>1. PICK i \in DOMAIN log[to[m]] : log[to[m]][i] = m
      BY <2>1 DEF PInv, DeliveredInLog, InLog
    <3>2. DOMAIN log[to[m]] = 1..Len(log[to[m]])
      BY <2>1 DEF PInv, TypeOK
    <3>3. \A j \in 1..i : log[to[m]][j] \in 1..Last
      BY <2>1, <3>1, <3>2 DEF PInv, OnlySent
    <3>4. \A j \in 1..i : log[to[m]][j] # n
      BY <1>1, <2>3, <3>3
    <3> QED BY <2>0, <2>1, <3>1, <3>4
  <2>4. n \in 1..Last \/ n = Last + 1
    <3> HIDE DEF Last
    <3> QED BY <1>1, <1>2
  <2> QED BY <2>2, <2>3, <2>4
<1> QED BY <1>3, <1>4, <1>5, <1>6, <1>7, <1>8, <1>9 DEF PInv

\* A record is appended behind everything recorded, so it overtakes nothing.
LEMMA RecordStep ==
  ASSUME PInv, NEW r \in requests, BrokerRecords(r)
  PROVE  PInv'
<1> DEFINE q == to[r[1]]
<1>1. /\ r[1] \in 1..Last /\ r[1] \in Messages /\ requests' = requests \ {r}
      /\ log' = [log EXCEPT ![q] = Append(@, r[1])]
      /\ UNCHANGED <<report, to, attempt, waiting, pc, running, launches>>
      /\ Last' = Last /\ Last \in Nat
  BY DEF BrokerRecords, msgVars, programVars, PInv, OnlySent, TypeOK, Last, Requests,
     Messages
<1>2. q \in Partitions /\ log[q] \in Seq(Messages) /\ log \in [Partitions -> Seq(Messages)]
  BY <1>1 DEF PInv, TypeOK, Last
<1>3. /\ log'[q] = Append(log[q], r[1])
      /\ \A p \in Partitions : p # q => log'[p] = log[p]
  BY <1>1, <1>2
<1>4. /\ log'[q] \in Seq(Messages)
      /\ DOMAIN log[q] = 1..Len(log[q]) /\ Len(log[q]) \in Nat
      /\ DOMAIN log'[q] = 1..(Len(log[q]) + 1)
      /\ \A i \in 1..Len(log[q]) : log'[q][i] = log[q][i]
      /\ log'[q][Len(log[q]) + 1] = r[1]
  BY <1>1, <1>2, <1>3, AppendKeeps
<1>5. ASSUME NEW p \in Partitions, NEW i \in DOMAIN log[p]
      PROVE  i \in DOMAIN log'[p] /\ log'[p][i] = log[p][i]
  <2>1. CASE p = q
    BY <1>4, <2>1
  <2>2. CASE p # q
    BY <1>3, <2>2
  <2> QED BY <2>1, <2>2
<1>6. \A m \in 1..Last : to[m] \in Partitions /\ (InLog(m) => InLog(m)')
  <2>1. \A m \in 1..Last : to[m] \in Partitions
    BY <1>1 DEF PInv, TypeOK, Last
  <2>2. ASSUME NEW m \in 1..Last, InLog(m) PROVE InLog(m)'
    <3>1. PICK i \in DOMAIN log[to[m]] : log[to[m]][i] = m
      BY <2>2 DEF InLog
    <3>2. i \in DOMAIN log'[to[m]] /\ log'[to[m]][i] = m
      BY <1>5, <2>1, <3>1
    <3>3. to' = to
      BY <1>1
    <3> QED BY <3>2, <3>3 DEF InLog
  <2> QED BY <2>1, <2>2
<1>7. InLog(r[1])'
  <2>1. Len(log[q]) + 1 \in DOMAIN log'[q]
    BY <1>4
  <2> QED BY <1>1, <1>4, <2>1 DEF InLog
<1>8. TypeOK'
  <2>1. log' \in [Partitions -> Seq(Messages)]
    BY <1>1, <1>2, <1>4
  <2>2. answered' \in BOOLEAN
    BY DEF BrokerRecords, PInv, TypeOK
  <2> QED BY <1>1, <2>1, <2>2 DEF PInv, TypeOK
<1>9. ControlInv' /\ PendingIsLast'
  BY <1>1 DEF PInv, ControlInv, PendingIsLast
<1>10. OnlySent'
  <2>1. ASSUME NEW p \in Partitions, NEW i \in DOMAIN log'[p]
        PROVE  log'[p][i] \in 1..Last /\ to[log'[p][i]] = p
    <3>1. CASE p # q
      BY <1>3, <3>1 DEF PInv, OnlySent
    <3>2. CASE p = q /\ i \in 1..Len(log[q])
      <4>1. log[q][i] \in 1..Last /\ to[log[q][i]] = q
        BY <1>2, <1>4, <3>2 DEF PInv, OnlySent
      <4>2. log'[p][i] = log[q][i]
        BY <1>4, <3>2
      <4> QED BY <3>2, <4>1, <4>2
    <3>3. CASE p = q /\ i = Len(log[q]) + 1
      BY <1>1, <1>4, <3>3
    <3> QED BY <1>4, <3>1, <3>2, <3>3
  <2> QED BY <1>1, <2>1 DEF PInv, OnlySent
<1>11. AnsweredInLog'
  <2>1. waiting' => Pending'
    BY <1>1 DEF PInv, AnsweredInLog, Pending
  <2>2. ASSUME answered' PROVE waiting' /\ InLog(Last)'
    <3>1. answered \/ (waiting /\ r = <<Last, attempt>>)
      BY <2>2 DEF BrokerRecords
    <3>2. CASE answered
      <4>1. waiting /\ InLog(Last) /\ Last \in 1..Last
        BY <1>1, <3>2 DEF PInv, AnsweredInLog, Pending, ControlInv
      <4> QED BY <1>1, <1>6, <4>1 DEF InLog
    <3>3. CASE waiting /\ r = <<Last, attempt>>
      BY <1>1, <1>7, <3>3 DEF InLog
    <3> QED BY <3>1, <3>2, <3>3
  <2> QED BY <2>1, <2>2 DEF AnsweredInLog
<1>12. DeliveredInLog'
  BY <1>1, <1>6 DEF PInv, DeliveredInLog
<1>13. DeliveryOrder'
  <2> SUFFICES ASSUME NEW m \in 1..Last, NEW n \in 1..Last,
                      m < n, report[m] = "delivered", to[m] = to[n]
               PROVE  \E i \in DOMAIN log'[to[m]] :
                        /\ log'[to[m]][i] = m
                        /\ \A j \in 1..i : log'[to[m]][j] # n
    BY <1>1 DEF DeliveryOrder
  <2>1. PICK i \in DOMAIN log[to[m]] :
          log[to[m]][i] = m /\ \A j \in 1..i : log[to[m]][j] # n
    BY DEF PInv, DeliveryOrder
  <2>2. 1..i \subseteq DOMAIN log[to[m]]
    BY <1>2, <1>6, <2>1
  <2> QED BY <1>5, <1>6, <2>1, <2>2
<1> QED BY <1>8, <1>9, <1>10, <1>11, <1>12, <1>13 DEF PInv

\* Giving the last message a report keeps the types of the reports.
LEMMA ReportType ==
  ASSUME TypeOK, Last >= 1, NEW r \in Reports, report' = [report EXCEPT ![Last] = r]
  PROVE  report' \in Seq(Reports) /\ Len(report') = Len(report)
  BY DEF TypeOK, Last

LEMMA PInvNext == PInv /\ [Next]_vars => PInv'
<1> SUFFICES ASSUME PInv, [Next]_vars PROVE PInv'
  OBVIOUS
<1> USE DEF netVars, msgVars, clientVars, programVars
<1>0. TypeOK
  BY DEF PInv
<1>1. Last \in Nat /\ (pc = "close" => Last \in 1..Last)
  BY DEF PInv, TypeOK, ControlInv, Last
<1>2. CASE Launch
  <2>1. TypeOK'
    BY <1>0, <1>2, ProducerAssumption DEF Launch, TypeOK
  <2> QED BY <1>2, <2>1, ControlStep DEF Launch, Live, ControlInv
<1>3. CASE Turn
  BY <1>0, <1>3, ControlStep DEF Turn, TypeOK, ControlInv, Last
<1>4. CASE SerializeFails
  BY <1>0, <1>4, ControlStep DEF SerializeFails, TypeOK, ControlInv, Last
<1>5. CASE Close
  <2>1. Last \in Messages
    BY <1>0, <1>1, <1>5, ProducerAssumption DEF Close, Messages, TypeOK, Last
  <2>2. TypeOK'
    BY <1>0, <1>5, <2>1 DEF Close, TypeOK
  <2> QED BY <1>5, <2>2, ControlStep DEF Close, ControlInv
<1>6. CASE Wake
  BY <1>0, <1>6, ControlStep DEF Wake, TypeOK, ControlInv
<1>7. CASE Stop
  BY <1>0, <1>7, ControlStep DEF Stop, TypeOK, ControlInv
<1>8. CASE StopRunning
  BY <1>0, <1>8, ControlStep DEF StopRunning, PInv, TypeOK, ControlInv, Last
<1>9. CASE Crash
  <2>1. CASE Pending
    <3>1. report' = [report EXCEPT ![Last] = "abandoned"]
      BY <1>9, <2>1 DEF Crash
    <3>2. report' \in Seq(Reports) /\ Len(report') = Len(report)
      BY <1>0, <1>1, <2>1, <3>1, ReportType DEF Pending, Reports
    <3>3. TypeOK'
      BY <1>0, <1>9, <3>2 DEF Crash, TypeOK
    <3> QED BY <1>9, <2>1, <3>1, <3>3, ReportStep DEF Crash
  <2>2. CASE ~Pending
    BY <1>0, <1>9, <2>2, ControlStep DEF Crash, Pending, TypeOK, ControlInv
  <2> QED BY <2>1, <2>2
<1>10. ASSUME NEW p \in Partitions, Send(p) PROVE PInv'
  BY <1>10, SendStep
<1>11. CASE Transmit
  <2>1. Last \in 1..Last /\ <<Last, attempt + 1>> \in Requests
    BY <1>0, <1>1, <1>11, ProducerAssumption
    DEF Transmit, Pending, Requests, Messages, TypeOK, Last
  <2>2. TypeOK'
    <3>1. attempt' \in 0..MaxAttempts
      BY <1>0, <1>11, ProducerAssumption DEF Transmit, TypeOK
    <3>2. requests' \subseteq Requests
      BY <1>0, <1>11, <2>1 DEF Transmit, TypeOK
    <3> QED BY <1>0, <1>11, <3>1, <3>2 DEF Transmit, TypeOK
  <2>3. \A r \in requests' : r \in requests \/ r[1] \in 1..Last
    BY <1>11, <2>1 DEF Transmit
  <2> QED BY <1>11, <2>2, <2>3, ControlStep DEF Transmit, PInv, ControlInv, Last
<1>12. CASE RequestTimesOut
  BY <1>0, <1>12, ControlStep DEF RequestTimesOut, PInv, TypeOK, ControlInv, Last
<1>13. CASE Answered
  <2>1. TypeOK'
    <3>1. report' \in Seq(Reports) /\ Len(report') = Len(report)
      BY <1>0, <1>1, <1>13, ReportType DEF Answered, Pending, Reports
    <3> QED BY <1>0, <1>13, <3>1 DEF Answered, TypeOK
  <2>2. InLog(Last)
    BY <1>13 DEF Answered, PInv, AnsweredInLog
  <2> QED BY <1>13, <2>1, <2>2, ReportStep DEF Answered
<1>14. CASE MessageTimesOut
  <2>1. TypeOK'
    <3>1. report' \in Seq(Reports) /\ Len(report') = Len(report)
      BY <1>0, <1>1, <1>14, ReportType DEF MessageTimesOut, Pending, Reports
    <3> QED BY <1>0, <1>14, <3>1 DEF MessageTimesOut, TypeOK
  <2> QED BY <1>14, <2>1, ReportStep DEF MessageTimesOut
<1>15. ASSUME NEW r \in requests, BrokerRecords(r) PROVE PInv'
  BY <1>15, RecordStep
<1>16. ASSUME NEW r \in requests, Lose(r) PROVE PInv'
  BY <1>0, <1>16, ControlStep DEF Lose, PInv, TypeOK, ControlInv, Last
<1>17. CASE UNCHANGED vars
  BY <1>0, <1>17, ControlStep DEF vars, PInv, TypeOK, ControlInv, Last
<1> QED
  BY <1>2, <1>3, <1>4, <1>5, <1>6, <1>7, <1>8, <1>9, <1>10, <1>11, <1>12, <1>13,
     <1>14, <1>15, <1>16, <1>17
  DEF Next

-----------------------------------------------------------------------------
(* The theorems. *)

\* In every behaviour each variable keeps its type: the program never sends
\* more messages than were counted, nor the client more requests.
THEOREM TypeCorrect == Spec => []TypeOK
<1>1. PInv => TypeOK
  BY DEF PInv
<1> QED BY <1>1, PInvInit, PInvNext, PTL DEF Spec

\* Whatever is lost, sent again, late or refused, and whenever the program is
\* stopped, killed and launched again, a message reported as delivered is in
\* its partition's log, before every message sent after it.
THEOREM DeliveredInOrder == Spec => []DeliveryOrder
<1>1. PInv => DeliveryOrder
  BY DEF PInv
<1> QED BY <1>1, PInvInit, PInvNext, PTL DEF Spec

\* The program implements the abstract sender of Delivery: each message gets
\* one final report before the next is accepted, and is reported as delivered
\* only once it is in the log.
THEOREM ImplementsDeliverySpec == Spec => ImplementsDelivery
<1>1. Init => D!Init
  BY DEF Init, D!Init
<1>2. PInv /\ [Next]_vars => [D!Next]_(D!vars)
  <2> SUFFICES ASSUME PInv, [Next]_vars, ~UNCHANGED <<log, to, report>>
               PROVE  D!Next
    BY DEF D!vars
  <2>0. /\ Last \in Nat /\ report \in Seq(Reports)
        /\ DOMAIN report = 1..Last /\ D!Accepted = 1..Last
        /\ (pc = "close" => Last \in 1..Last)
    BY DEF PInv, TypeOK, ControlInv, Last, D!Accepted
  <2>1. ASSUME NEW p \in Partitions, Send(p) PROVE D!Next
    <3>1. \A m \in D!Accepted : report[m] # "pending"
      BY <2>0, <2>1 DEF Send, PInv, PendingIsLast
    <3> QED BY <2>1, <3>1 DEF Send, netVars, D!Next, D!Accept
  <2>2. ASSUME NEW r \in requests, BrokerRecords(r) PROVE D!Next
    <3>1. r[1] \in D!Accepted
      BY <2>0 DEF PInv, OnlySent
    <3>2. D!Record(r[1])
      BY <2>2 DEF BrokerRecords, msgVars, D!Record
    <3> QED BY <3>1, <3>2 DEF D!Next
  <2>3. CASE Answered
    <3>1. D!InLog(Last)
      BY <2>3 DEF Answered, PInv, AnsweredInLog, InLog, D!InLog
    <3>2. D!Deliver(Last)
      BY <2>3, <3>1 DEF Answered, Pending, netVars, D!Deliver
    <3> QED BY <2>0, <2>3, <3>2 DEF Answered, Pending, D!Next
  <2>4. CASE MessageTimesOut
    <3>1. D!Fail(Last)
      BY <2>4 DEF MessageTimesOut, Pending, netVars, D!Fail
    <3> QED BY <2>0, <2>4, <3>1 DEF MessageTimesOut, Pending, D!Next
  <2>5. CASE Crash
    <3>1. Pending /\ report' = [report EXCEPT ![Last] = "abandoned"]
      BY <2>5 DEF Crash, netVars
    <3>2. D!Fail(Last)
      BY <2>5, <3>1 DEF Crash, Pending, netVars, D!Fail
    <3> QED BY <2>0, <3>1, <3>2 DEF Pending, D!Next
  <2> QED
    BY <2>1, <2>2, <2>3, <2>4, <2>5
    DEF Next, Launch, Turn, SerializeFails, Close, Wake, Stop, StopRunning, Transmit,
        RequestTimesOut, Lose, vars, netVars, msgVars
<1> QED BY <1>1, <1>2, PInvInit, PInvNext, PTL DEF Spec, ImplementsDelivery, D!Spec

=============================================================================
