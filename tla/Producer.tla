------------------------------ MODULE Producer ------------------------------
(***************************************************************************)
(* The KafkaProducer program: the loop of main in KafkaProducer.cpp and    *)
(* KafkaProducerWrapper::sendMessage.                                      *)
(*                                                                         *)
(* Every turn of the loop makes a client of its own, chooses a word,       *)
(* serializes it, hands it to the client and closes the client, which      *)
(* waits for the delivery report; then the program sleeps.  The client     *)
(* (librdkafka, external) sends a request, sends it again when no answer   *)
(* comes in time, and gives up when the message has waited too long.  The  *)
(* network may lose a request or its answer, or deliver it when nobody     *)
(* waits for it any more.                                                  *)
(*                                                                         *)
(* `enable.idempotent` (KafkaProducerConfig.h) is not a property of the    *)
(* client, whose name for it is `enable.idempotence`: nothing stops a      *)
(* second copy of a message from being recorded.                           *)
(***************************************************************************)
EXTENDS Integers, Sequences

CONSTANTS
  Partitions,   \* the partitions of the topic
  MaxMessages,  \* bound: the messages sent, over all launches
  MaxAttempts,  \* bound: the requests the client sends for one message
  MaxLaunches   \* bound: how often the program is launched

ASSUME ProducerAssumption ==
  /\ MaxMessages \in Nat
  /\ MaxAttempts \in Nat
  /\ MaxLaunches \in Nat

VARIABLES
  log,       \* [Partitions -> Seq(Nat)]: what the broker recorded
  to,        \* the partition of each message sent so far
  report,    \* the delivery report of each
  requests,  \* requests <<m, attempt>> on their way to the broker
  attempt,   \* the requests sent for the last message
  waiting,   \* the client waits for the answer to the last request
  answered,  \* the broker has recorded that request: its answer may come
  pc,        \* where the program is
  running,   \* the flag the signal handler clears
  launches

netVars == <<log, requests>>
msgVars == <<to, report>>
clientVars == <<attempt, waiting, answered>>
programVars == <<pc, running, launches>>
vars == <<netVars, msgVars, clientVars, programVars>>

Messages == 1..MaxMessages
Requests == Messages \X (1..MaxAttempts)
Reports == {"pending", "delivered", "failed", "abandoned"}

TypeOK ==
  /\ log \in [Partitions -> Seq(Messages)]
  /\ to \in Seq(Partitions)
  /\ report \in Seq(Reports)
  /\ Len(to) = Len(report) /\ Len(report) <= MaxMessages
  /\ requests \subseteq Requests
  /\ attempt \in 0..MaxAttempts
  /\ waiting \in BOOLEAN /\ answered \in BOOLEAN
  /\ pc \in {"off", "loop", "send", "close", "sleep", "ended", "dead"}
  /\ running \in BOOLEAN
  /\ launches \in 0..MaxLaunches

Init ==
  /\ log = [p \in Partitions |-> <<>>]
  /\ to = <<>> /\ report = <<>>
  /\ requests = {}
  /\ attempt = 0 /\ waiting = FALSE /\ answered = FALSE
  /\ pc = "off" /\ running = TRUE /\ launches = 0

\* The message sent last, whose report the program waits for when it closes.
Last == Len(report)

Live == pc \notin {"off", "ended", "dead"}
Pending == pc = "close" /\ report[Last] = "pending"

-----------------------------------------------------------------------------
(* The program. *)

Launch ==
  /\ ~Live
  /\ launches < MaxLaunches
  /\ launches' = launches + 1
  /\ pc' = "loop"
  /\ running' = TRUE
  /\ UNCHANGED <<netVars, msgVars, clientVars>>

\* The loop of main has seen `running` true.
Turn ==
  /\ pc = "loop"
  /\ running
  /\ Last < MaxMessages
  /\ pc' = "send"
  /\ UNCHANGED <<netVars, msgVars, clientVars, running, launches>>

\* sendMessage cannot serialize its message and returns false: main gives up.
SerializeFails ==
  /\ pc = "send"
  /\ pc' = "ended"
  /\ UNCHANGED <<netVars, msgVars, clientVars, running, launches>>

\* send(): the client takes the message and chooses a partition for it.
Send(p) ==
  /\ pc = "send"
  /\ to' = Append(to, p)
  /\ report' = Append(report, "pending")
  /\ attempt' = 0
  /\ UNCHANGED <<waiting, answered>>
  /\ pc' = "close"
  /\ UNCHANGED <<netVars, running, launches>>

\* Mutants of Close: the program does not wait for the report; it waits until
\* the message is delivered.
CloseAtOnce ==
  /\ pc = "close"
  /\ pc' = "sleep"
  /\ UNCHANGED <<netVars, msgVars, clientVars, running, launches>>

CloseDelivered ==
  /\ pc = "close"
  /\ report[Last] = "delivered"
  /\ pc' = "sleep"
  /\ UNCHANGED <<netVars, msgVars, clientVars, running, launches>>

\* close() flushes, that is waits for the report; sendMessage returns true
\* whatever the report is.
Close ==
  /\ pc = "close"
  /\ report[Last] # "pending"
  /\ pc' = "sleep"
  /\ UNCHANGED <<netVars, msgVars, clientVars, running, launches>>

\* The second of sleep is over; `running` is looked at again.
Wake ==
  /\ pc = "sleep"
  /\ pc' = "loop"
  /\ UNCHANGED <<netVars, msgVars, clientVars, running, launches>>

\* The loop has seen `running` false.
Stop ==
  /\ pc = "loop"
  /\ ~running
  /\ pc' = "ended"
  /\ UNCHANGED <<netVars, msgVars, clientVars, running, launches>>

\* stopRunning, on SIGINT or SIGTSTP.
StopRunning ==
  /\ Live
  /\ running
  /\ running' = FALSE
  /\ UNCHANGED <<netVars, msgVars, clientVars, pc, launches>>

\* The process dies: SIGTERM and SIGKILL, which nothing handles, or an
\* exception of the client, which nothing catches.
Crash ==
  /\ Live
  /\ pc' = "dead"
  /\ report' = IF Pending THEN [report EXCEPT ![Last] = "abandoned"] ELSE report
  /\ waiting' = FALSE
  /\ answered' = FALSE
  /\ UNCHANGED <<netVars, to, attempt, running, launches>>

-----------------------------------------------------------------------------
(* The client, the network and the broker. *)

\* Mutant of Transmit: the client does not count its attempts.
TransmitUncounted ==
  /\ Pending
  /\ ~waiting
  /\ attempt' = attempt + 1
  /\ requests' = requests \cup {<<Last, attempt + 1>>}
  /\ waiting' = TRUE
  /\ UNCHANGED <<log, answered, msgVars, programVars>>

Transmit ==
  /\ Pending
  /\ ~waiting
  /\ attempt < MaxAttempts
  /\ attempt' = attempt + 1
  /\ requests' = requests \cup {<<Last, attempt + 1>>}
  /\ waiting' = TRUE
  /\ UNCHANGED <<log, answered, msgVars, programVars>>

\* The request arrives, be it the awaited one or one nobody waits for any
\* more; with acks "all" the answer follows the record in every replica.
BrokerRecords(r) ==
  /\ requests' = requests \ {r}
  /\ log' = [log EXCEPT ![to[r[1]]] = Append(@, r[1])]
  /\ answered' = (answered \/ (waiting /\ r = <<Last, attempt>>))
  /\ UNCHANGED <<attempt, waiting, msgVars, programVars>>

\* The request is lost, or refused for now.
Lose(r) ==
  /\ requests' = requests \ {r}
  /\ UNCHANGED <<log, msgVars, clientVars, programVars>>

\* The client's own timer: the answer is lost, or ignored if it comes late.
RequestTimesOut ==
  /\ Pending
  /\ waiting
  /\ waiting' = FALSE
  /\ answered' = FALSE
  /\ UNCHANGED <<netVars, msgVars, attempt, programVars>>

\* Mutant of Answered: with acks "0" the client reports what it has sent.
AnsweredAtOnce ==
  /\ Pending
  /\ waiting
  /\ waiting' = FALSE
  /\ answered' = FALSE
  /\ report' = [report EXCEPT ![Last] = "delivered"]
  /\ UNCHANGED <<netVars, to, attempt, programVars>>

\* The answer comes in time: close() serves the delivery callback.
Answered ==
  /\ Pending
  /\ waiting
  /\ answered
  /\ waiting' = FALSE
  /\ answered' = FALSE
  /\ report' = [report EXCEPT ![Last] = "delivered"]
  /\ UNCHANGED <<netVars, to, attempt, programVars>>

\* The message has waited too long, or was refused for good.
MessageTimesOut ==
  /\ Pending
  /\ waiting' = FALSE
  /\ answered' = FALSE
  /\ report' = [report EXCEPT ![Last] = "failed"]
  /\ UNCHANGED <<netVars, to, attempt, programVars>>

-----------------------------------------------------------------------------

Next ==
  \/ Launch \/ Turn \/ SerializeFails \/ Close \/ Wake \/ Stop
  \/ StopRunning \/ Crash
  \/ \E p \in Partitions : Send(p)
  \/ Transmit \/ RequestTimesOut \/ Answered \/ MessageTimesOut
  \/ \E r \in requests : BrokerRecords(r) \/ Lose(r)

Spec == Init /\ [][Next]_vars

\* A live program keeps executing, and message.timeout.ms runs out: close()
\* waits without a limit of its own.  Nothing makes the network deliver.
Fairness ==
  /\ WF_vars(Turn) /\ WF_vars(\E p \in Partitions : Send(p))
  /\ WF_vars(Close) /\ WF_vars(Wake) /\ WF_vars(Stop)
  /\ WF_vars(MessageTimesOut)

FairSpec == Spec /\ Fairness

-----------------------------------------------------------------------------
(* Properties. *)

\* A message reported as delivered is recorded, in its partition, before any
\* message sent after it, although every message has a client of its own,
\* requests are sent again, and late copies may be recorded at any time: the
\* close() of each turn is what keeps the order.
DeliveryOrder ==
  \A m, n \in 1..Last :
    m < n /\ report[m] = "delivered" /\ to[m] = to[n] =>
      \E i \in DOMAIN log[to[m]] :
        /\ log[to[m]][i] = m
        /\ \A j \in 1..i : log[to[m]][j] # n

\* The program implements the abstract sender: each message gets one final
\* report before the next is sent, and "delivered" only if it is in the log.
D == INSTANCE Delivery WITH
       Partitions <- Partitions, log <- log, to <- to, report <- report
ImplementsDelivery == D!Spec

\* A program told to stop leaves its loop, even while the broker is away.
StopsWhenAsked == (Live /\ ~running) ~> (pc \in {"ended", "dead"})

=============================================================================
