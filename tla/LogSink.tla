------------------------------- MODULE LogSink -------------------------------
(***************************************************************************)
(* Logging: what happens between a LOG statement and the line on the       *)
(* console.  Every program of the repository has threads that log: main,   *)
(* the client library's callback threads, the thread that watches the size *)
(* of the log files, and the thread of the UDP server.                     *)
(*                                                                         *)
(* glog (external) writes a message and calls CustomLogSink::send while it *)
(* holds one lock for the whole process.  send fills the sink's only       *)
(* ProtoLog, field by field, serializes it and sends it to the UDP server  *)
(* of the same process, which prints what it receives.  The kernel drops   *)
(* datagrams when the server's socket is not there or full.                *)
(*                                                                         *)
(* A message is the number of its turn on the lock, so that 1, 2, 3... is  *)
(* the order of the log file.                                              *)
(***************************************************************************)
EXTENDS Integers, Sequences, FiniteSets

CONSTANTS
  Threads,    \* the threads that log
  Main,       \* the thread of main
  Server,     \* the thread of the UDP server
  NoOne,      \* the holder of a free lock
  MaxLogs,    \* bound: the LOG statements executed
  SocketSize  \* the datagrams the server's socket holds

ASSUME SinkAssumption ==
  /\ Main \in Threads /\ Server \in Threads /\ Main # Server
  /\ NoOne \notin Threads
  /\ SocketSize \in Nat

VARIABLES
  stage,   \* how far initLogger and the start of the server have come
  pc,      \* where each thread is in its LOG statement
  holder,  \* the thread that holds glog's lock
  logged,  \* how many messages have got the lock
  msg,     \* the message each thread logs
  log,     \* CustomLogSink::log: the messages its fields belong to
  socket,  \* the datagrams received by the kernel and not by the server
  server,  \* "armed", "handling" or, after an error, "stopped"
  buffer,  \* recvBuffer: the datagram the server handles
  shown    \* the datagrams handled so far, as they were printed

threadVars == <<pc, holder, logged, msg>>
serverVars == <<server, buffer, shown>>
vars == <<stage, threadVars, log, socket, serverVars>>

Nothing == 0  \* a field that is not set
Fields == Nat
\* A datagram, and whether it is too long for recvBuffer.
Datagrams == [date : Fields, message : Fields, long : BOOLEAN]
EmptyLog == [date |-> Nothing, message |-> Nothing]

TypeOK ==
  /\ stage \in {"start", "sink", "bound", "serving"}
  /\ pc \in [Threads -> {"idle", "lock", "clear", "date", "message", "send",
                         "relog", "unlock"}]
  /\ holder \in Threads \cup {NoOne}
  /\ logged \in Nat
  /\ msg \in [Threads -> Fields]
  /\ log \in [date : Fields, message : Fields]
  /\ socket \in Seq(Datagrams) /\ Len(socket) <= SocketSize
  /\ server \in {"armed", "handling", "stopped"}
  /\ buffer \in Datagrams
  /\ shown \in Seq(Datagrams)

NoDatagram == [date |-> Nothing, message |-> Nothing, long |-> FALSE]

Init ==
  /\ stage = "start"
  /\ pc = [t \in Threads |-> "idle"]
  /\ holder = NoOne
  /\ logged = 0
  /\ msg = [t \in Threads |-> Nothing]
  /\ log = EmptyLog
  /\ socket = <<>>
  /\ server = "armed"
  /\ buffer = NoDatagram
  /\ shown = <<>>

Step(t, from, next) == pc[t] = from /\ pc' = [pc EXCEPT ![t] = next]

-----------------------------------------------------------------------------
(* The start of a program: initLogger adds the sink to glog, the UDP server *)
(* binds its socket, its thread arms the first receive.                     *)

Advance(from, next) ==
  /\ stage = from
  /\ pc[Main] = "idle"
  /\ stage' = next
  /\ UNCHANGED <<threadVars, log, socket, serverVars>>

AddLogSink == Advance("start", "sink")
BindServer == Advance("sink", "bound")
StartServer == Advance("bound", "serving")

-----------------------------------------------------------------------------
(* A LOG statement of thread t. *)

Waiting == {t \in Threads : pc[t] \in {"lock", "relog"}}
Room == logged + Cardinality(Waiting) < MaxLogs

Log(t) ==
  /\ t # Server
  /\ t = Main \/ stage = "serving"
  /\ Room
  /\ Step(t, "idle", "lock")
  /\ UNCHANGED <<stage, holder, logged, msg, log, socket, serverVars>>

\* Mutant of Lock: the sink is called without the lock.
LockNothing(t) ==
  /\ \E from \in {"lock", "relog"} :
       Step(t, from, IF stage = "start" THEN "unlock" ELSE "clear")
  /\ logged' = logged + 1
  /\ msg' = [msg EXCEPT ![t] = logged + 1]
  /\ UNCHANGED <<stage, holder, log, socket, serverVars>>

\* The message is written to the log file; then the sinks are called, of
\* which there is none before initLogger has added it.  The lock is not
\* recursive: a LOG statement inside of send waits for itself.
Lock(t) ==
  /\ holder = NoOne
  /\ \E from \in {"lock", "relog"} :
       Step(t, from, IF stage = "start" THEN "unlock" ELSE "clear")
  /\ holder' = t
  /\ logged' = logged + 1
  /\ msg' = [msg EXCEPT ![t] = logged + 1]
  /\ UNCHANGED <<stage, log, socket, serverVars>>

\* CustomLogSink::send clears its ProtoLog...
ClearLog(t) ==
  /\ Step(t, "clear", "date")
  /\ log' = EmptyLog
  /\ UNCHANGED <<stage, holder, logged, msg, socket, serverVars>>

\* Mutant of SetDate: a LOG statement is left in send.
SetDateAndLog(t) ==
  /\ Step(t, "date", "lock")
  /\ log' = [log EXCEPT !.date = msg[t]]
  /\ UNCHANGED <<stage, holder, logged, msg, socket, serverVars>>

\* ...sets its date and severity...
SetDate(t) ==
  /\ Step(t, "date", "message")
  /\ log' = [log EXCEPT !.date = msg[t]]
  /\ UNCHANGED <<stage, holder, logged, msg, socket, serverVars>>

\* Mutant of SetMessage: the lock is given back before the datagram is sent.
SetMessageAndUnlock(t) ==
  /\ Step(t, "message", "send")
  /\ log' = [log EXCEPT !.message = msg[t]]
  /\ holder' = NoOne
  /\ UNCHANGED <<stage, logged, msg, socket, serverVars>>

\* ...sets its message...
SetMessage(t) ==
  /\ Step(t, "message", "send")
  /\ log' = [log EXCEPT !.message = msg[t]]
  /\ UNCHANGED <<stage, holder, logged, msg, socket, serverVars>>

\* Mutant of SendLog: the socket's buffer grows as needed.
SendLogUnbounded(t, long) ==
  /\ Step(t, "send", "unlock")
  /\ socket' = Append(socket, [date |-> log.date, message |-> log.message, long |-> long])
  /\ UNCHANGED <<stage, holder, logged, msg, log, serverVars>>

\* ...and serializes it and sends it to the server.
SendLog(t, long) ==
  /\ Step(t, "send", "unlock")
  /\ \/ /\ stage \in {"bound", "serving"}
        /\ Len(socket) < SocketSize
        /\ socket' = Append(socket,
             [date |-> log.date, message |-> log.message, long |-> long])
     \/ /\ stage = "sink" \/ Len(socket) = SocketSize
        /\ UNCHANGED socket
  /\ UNCHANGED <<stage, holder, logged, msg, log, serverVars>>

\* Sending fails (serializing, whose error send logs likewise, does not for a
\* message of this size): a LOG statement is executed inside of send, which asks
\* for the lock this thread already holds.
SendFails(t) ==
  /\ Step(t, "send", "relog")
  /\ UNCHANGED <<stage, holder, logged, msg, log, socket, serverVars>>

Unlock(t) ==
  /\ Step(t, "unlock", "idle")
  /\ holder' = NoOne
  /\ UNCHANGED <<stage, logged, msg, log, socket, serverVars>>

-----------------------------------------------------------------------------
(* The UDP server. *)

\* A datagram completes the pending receive.
Receive ==
  /\ stage = "serving"
  /\ server = "armed"
  /\ socket # <<>>
  /\ buffer' = Head(socket)
  /\ socket' = Tail(socket)
  /\ server' = "handling"
  /\ UNCHANGED <<stage, threadVars, log, shown>>

\* Mutant of HandleReceive: only a datagram that can be parsed arms the next
\* receive.
HandleReceiveParsed ==
  /\ server = "handling"
  /\ shown' = Append(shown, buffer)
  /\ server' = IF buffer.long THEN "stopped" ELSE "armed"
  /\ UNCHANGED <<stage, threadVars, log, socket, buffer>>

\* handleReceive prints the message, or that it cannot be parsed, which is
\* the case when recvBuffer cut it off; either way it receives again.
HandleReceive ==
  /\ server = "handling"
  /\ shown' = Append(shown, buffer)
  /\ server' = "armed"
  /\ UNCHANGED <<stage, threadVars, log, socket, buffer>>

\* handleReceive is given an error: it logs it and receives no more, and the
\* server's thread comes to its end.
ReceiveError ==
  /\ stage = "serving"
  /\ server = "armed"
  /\ server' = "stopped"
  /\ Room
  /\ Step(Server, "idle", "lock")
  /\ UNCHANGED <<stage, holder, logged, msg, log, socket, buffer, shown>>

-----------------------------------------------------------------------------

Next ==
  \/ AddLogSink \/ BindServer \/ StartServer
  \/ \E t \in Threads :
       \/ Log(t) \/ Lock(t) \/ ClearLog(t) \/ SetDate(t) \/ SetMessage(t)
       \/ SendFails(t) \/ Unlock(t)
       \/ \E long \in BOOLEAN : SendLog(t, long)
  \/ Receive \/ HandleReceive \/ ReceiveError

Spec == Init /\ [][Next]_vars

\* A thread that can go on in a LOG statement does, the start of the program
\* goes on, and the server's thread runs.  Whether the lock is fair is left
\* open: the bound on the LOG statements keeps anyone from waiting for ever.
Fairness ==
  /\ WF_vars(AddLogSink) /\ WF_vars(BindServer) /\ WF_vars(StartServer)
  /\ \A t \in Threads :
       /\ WF_vars(Lock(t)) /\ WF_vars(ClearLog(t)) /\ WF_vars(SetDate(t))
       /\ WF_vars(SetMessage(t)) /\ WF_vars(Unlock(t))
       /\ WF_vars(SendFails(t) \/ \E long \in BOOLEAN : SendLog(t, long))
  /\ WF_vars(Receive) /\ WF_vars(HandleReceive)

FairSpec == Spec /\ Fairness

-----------------------------------------------------------------------------
(* Properties. *)

\* No datagram mixes the fields of two messages, although all threads fill
\* the one ProtoLog of the sink.
NoTornLog ==
  /\ \A i \in DOMAIN socket : socket[i].date = socket[i].message
  /\ \A i \in DOMAIN shown : shown[i].date = shown[i].message

\* The console shows messages at most once and in the order of the log file,
\* whatever it misses.
ShownInOrder ==
  \A i, j \in DOMAIN shown : i < j => shown[i].message < shown[j].message

SendFailed == \E t \in Threads : pc[t] = "relog"
ReceiveFailed == pc[Server] # "idle" \/ msg[Server] # Nothing

\* As long as no message fails to be sent, every LOG statement returns.
EveryLogReturns ==
  \A t \in Threads : (pc[t] # "idle") ~> (pc[t] = "idle" \/ SendFailed)

\* What reached the server's socket is printed, be it after messages that
\* cannot be parsed, unless receiving itself fails or main, failing to send a
\* message, never starts the server's thread.
EveryDatagramShown ==
  \A m \in 1..MaxLogs :
    (\E i \in DOMAIN socket : socket[i].message = m)
      ~> ((\E i \in DOMAIN shown : shown[i].message = m) \/ ReceiveFailed
            \/ pc[Main] = "relog")

\* "Failed to send log: " is logged when sending fails (UDPLogger.cpp:44), so
\* that every LOG statement returns, this one and the one it is about.
FailedSendIsLogged == \A t \in Threads : (pc[t] # "idle") ~> (pc[t] = "idle")

=============================================================================
