---------------------------- MODULE LogSinkProofs ----------------------------
(***************************************************************************)
(* What LogSink promises for every number of threads, messages and places  *)
(* in the socket: its types, that no datagram mixes two messages, and that *)
(* the console keeps the order of the log file.                            *)
(***************************************************************************)
EXTENDS LogSink, TLAPS

-----------------------------------------------------------------------------
(* The inductive invariant. *)

\* A thread between getting the lock and giving it back is its holder, and
\* logs the message that got the lock last.
Inside == {"clear", "date", "message", "send", "relog", "unlock"}

HolderInside ==
  \A t \in Threads : pc[t] \in Inside => holder = t /\ msg[t] = logged

\* What the holder has put into the ProtoLog so far.
LogFilled ==
  \A t \in Threads :
    /\ pc[t] = "message" => log.date = logged
    /\ pc[t] = "send" => log.date = logged /\ log.message = logged

\* A datagram in the socket is whole, and its message is one that was logged
\* and is not still to be sent.
Behind(d) ==
  /\ d.date = d.message
  /\ d.message <= logged
  /\ \A t \in Threads : pc[t] \in Inside \ {"unlock"} => d.message < logged

SentBefore ==
  /\ \A i \in DOMAIN socket : Behind(socket[i])
  /\ \A i \in DOMAIN shown : Behind(shown[i])
  /\ server = "handling" => Behind(buffer)

\* The datagrams printed, handled and waiting, in this order, increase.
Increasing ==
  /\ ShownInOrder
  /\ \A i, j \in DOMAIN socket : i < j => socket[i].message < socket[j].message
  /\ \A i \in DOMAIN shown, j \in DOMAIN socket : shown[i].message < socket[j].message
  /\ server = "handling" =>
       /\ \A i \in DOMAIN shown : shown[i].message < buffer.message
       /\ \A j \in DOMAIN socket : buffer.message < socket[j].message

LInv ==
  /\ TypeOK
  /\ HolderInside
  /\ LogFilled
  /\ SentBefore
  /\ Increasing

-----------------------------------------------------------------------------
(* Sequences. *)

LEMMA AppendFacts ==
  ASSUME NEW S, NEW s \in Seq(S), NEW e \in S
  PROVE  /\ Append(s, e) \in Seq(S)
         /\ Len(Append(s, e)) = Len(s) + 1 /\ Len(s) \in Nat
         /\ DOMAIN s = 1..Len(s) /\ DOMAIN Append(s, e) = 1..(Len(s) + 1)
         /\ \A i \in 1..Len(s) : Append(s, e)[i] = s[i]
         /\ Append(s, e)[Len(s) + 1] = e
  OBVIOUS

LEMMA TailFacts ==
  ASSUME NEW S, NEW s \in Seq(S), s # <<>>
  PROVE  /\ Head(s) \in S /\ Tail(s) \in Seq(S)
         /\ Len(Tail(s)) = Len(s) - 1 /\ Len(s) \in Nat \ {0}
         /\ DOMAIN s = 1..Len(s) /\ DOMAIN Tail(s) = 1..(Len(s) - 1)
         /\ Head(s) = s[1]
         /\ \A i \in 1..(Len(s) - 1) : Tail(s)[i] = s[i + 1]
  OBVIOUS

-----------------------------------------------------------------------------

LEMMA LInvInit == Init => LInv
<1> SUFFICES ASSUME Init PROVE LInv
  OBVIOUS
<1>1. /\ \A t \in Threads : pc[t] = "idle"
      /\ socket = <<>> /\ shown = <<>> /\ server = "armed"
  BY DEF Init
<1>2. TypeOK
  <2>1. /\ pc \in [Threads -> {"idle", "lock", "clear", "date", "message", "send",
                               "relog", "unlock"}]
        /\ msg \in [Threads -> Fields]
    BY DEF Init, Fields, Nothing
  <2>2. /\ socket \in Seq(Datagrams) /\ shown \in Seq(Datagrams)
        /\ Len(socket) <= SocketSize
    BY <1>1, SinkAssumption
  <2>3. buffer \in Datagrams /\ log \in [date : Fields, message : Fields]
    BY DEF Init, NoDatagram, Datagrams, EmptyLog, Fields, Nothing
  <2> QED BY <2>1, <2>2, <2>3, SinkAssumption DEF Init, TypeOK
<1>3. HolderInside /\ LogFilled
  BY <1>1 DEF HolderInside, LogFilled, Inside
<1>4. SentBefore /\ Increasing
  BY <1>1 DEF SentBefore, Increasing, ShownInOrder
<1> QED BY <1>2, <1>3, <1>4 DEF LInv

\* A step of the threads that sends nothing and lets no thread in.
LEMMA QuietStep ==
  ASSUME LInv, TypeOK', UNCHANGED <<socket, serverVars, logged>>,
         HolderInside', LogFilled',
         \A t \in Threads : pc'[t] \in Inside \ {"unlock"} =>
           \E u \in Threads : pc[u] \in Inside \ {"unlock"}
  PROVE  LInv'
<1>1. \A d : Behind(d) => Behind(d)'
  BY DEF Behind
<1>2. SentBefore'
  BY <1>1 DEF LInv, SentBefore, serverVars
<1>3. Increasing'
  BY DEF LInv, Increasing, ShownInOrder, serverVars
<1> QED BY <1>2, <1>3 DEF LInv

\* The message that gets the lock is behind everything that was sent.
LEMMA LockStep ==
  ASSUME LInv, NEW t \in Threads, Lock(t)
  PROVE  LInv'
<1>1. /\ holder = NoOne /\ holder' = t /\ logged' = logged + 1 /\ logged \in Nat
      /\ msg' = [msg EXCEPT ![t] = logged + 1]
      /\ UNCHANGED <<stage, log, socket, server, buffer, shown>>
  BY DEF Lock, LInv, TypeOK, serverVars
<1>2. PICK next \in {"unlock", "clear"} : pc' = [pc EXCEPT ![t] = next]
  BY DEF Lock, Step
<1>3. \A u \in Threads : pc[u] \notin Inside
  BY <1>1, SinkAssumption DEF LInv, HolderInside
<1>4. TypeOK'
  BY <1>1, <1>2 DEF LInv, TypeOK, Fields
<1>5. \A u \in Threads : u # t => pc'[u] \notin Inside
  BY <1>2, <1>3 DEF LInv, TypeOK
<1>6. HolderInside'
  BY <1>1, <1>5 DEF HolderInside, LInv, TypeOK
<1>7. LogFilled'
  BY <1>2, <1>5 DEF LogFilled, LInv, TypeOK, Inside
<1>8. \A d \in Datagrams : Behind(d) => Behind(d)'
  <2> SUFFICES ASSUME NEW d \in Datagrams, Behind(d) PROVE Behind(d)'
    OBVIOUS
  <2>1. d.message \in Nat
    BY DEF Datagrams, Fields
  <2> QED BY <1>1, <2>1 DEF Behind
<1>9. SentBefore'
  BY <1>1, <1>8 DEF LInv, SentBefore, TypeOK
<1>10. Increasing'
  BY <1>1 DEF LInv, Increasing, ShownInOrder
<1> QED BY <1>4, <1>6, <1>7, <1>9, <1>10 DEF LInv

\* A datagram is sent behind all others, and whole.
LEMMA SendLogStep ==
  ASSUME LInv, NEW t \in Threads, NEW long \in BOOLEAN, SendLog(t, long)
  PROVE  LInv'
<1> DEFINE d == [date |-> log.date, message |-> log.message, long |-> long]
<1>1. /\ pc[t] = "send" /\ pc' = [pc EXCEPT ![t] = "unlock"]
      /\ UNCHANGED <<stage, holder, logged, msg, log, server, buffer, shown>>
      /\ \/ Len(socket) < SocketSize /\ socket' = Append(socket, d)
         \/ socket' = socket
  BY DEF SendLog, Step, serverVars
<1>2. /\ log.date = logged /\ log.message = logged /\ logged \in Nat
      /\ d \in Datagrams /\ d.date = logged /\ d.message = logged
      /\ log \in [date : Fields, message : Fields]
  BY <1>1 DEF LInv, LogFilled, TypeOK, Datagrams, Fields
<1>3. /\ holder = t
      /\ \A u \in Threads : u # t => pc[u] \notin Inside /\ pc'[u] = pc[u]
  BY <1>1 DEF LInv, HolderInside, TypeOK, Inside
<1>4. TypeOK'
  <2>1. socket' \in Seq(Datagrams) /\ Len(socket') <= SocketSize
    <3>1. Append(socket, d) \in Seq(Datagrams) /\ Len(Append(socket, d)) = Len(socket) + 1
      BY <1>2, AppendFacts DEF LInv, TypeOK
    <3>2. socket \in Seq(Datagrams) /\ Len(socket) \in Nat /\ Len(socket) <= SocketSize
      BY DEF LInv, TypeOK
    <3> QED BY <1>1, <3>1, <3>2, SinkAssumption
  <2>2. pc' \in [Threads -> {"idle", "lock", "clear", "date", "message", "send",
                             "relog", "unlock"}]
    BY <1>1 DEF LInv, TypeOK
  <2> QED BY <1>1, <2>1, <2>2 DEF LInv, TypeOK
<1>5. HolderInside' /\ LogFilled'
  BY <1>1, <1>3 DEF LInv, HolderInside, LogFilled, TypeOK, Inside
<1>6. ASSUME NEW e \in Datagrams, Behind(e) PROVE Behind(e)' /\ e.message < d.message
  BY <1>1, <1>2, <1>3, <1>6 DEF Behind, LInv, TypeOK, Inside
<1>7. Behind(d)'
  BY <1>1, <1>2, <1>3 DEF Behind, LInv, TypeOK, Inside
<1>8. CASE socket' = socket
  <2>1. SentBefore'
    BY <1>1, <1>6, <1>8 DEF LInv, SentBefore, TypeOK
  <2>2. Increasing'
    BY <1>1, <1>8 DEF LInv, Increasing, ShownInOrder
  <2> QED BY <1>4, <1>5, <2>1, <2>2 DEF LInv
<1>9. CASE socket' = Append(socket, d)
  <2>1. /\ Len(socket) \in Nat /\ DOMAIN socket = 1..Len(socket)
        /\ DOMAIN socket' = 1..(Len(socket) + 1)
        /\ \A i \in 1..Len(socket) : socket'[i] = socket[i] /\ socket[i] \in Datagrams
        /\ socket'[Len(socket) + 1] = d
    BY <1>2, <1>9, AppendFacts DEF LInv, TypeOK
  <2>2. \A i \in DOMAIN shown : shown[i] \in Datagrams
    BY DEF LInv, TypeOK
  <2>3. SentBefore'
    <3>1. ASSUME NEW i \in DOMAIN socket' PROVE Behind(socket[i])'
      <4>1. CASE i \in 1..Len(socket)
        BY <1>6, <2>1, <4>1 DEF LInv, SentBefore
      <4>2. CASE i = Len(socket) + 1
        <5>1. socket'[i] = d /\ d' = d
          BY <1>1, <2>1, <4>2
        <5> QED BY <1>7, <5>1
      <4> QED BY <2>1, <4>1, <4>2
    <3>2. ASSUME NEW i \in DOMAIN shown' PROVE Behind(shown[i])'
      BY <1>1, <1>6, <2>2 DEF LInv, SentBefore
    <3>3. ASSUME server' = "handling" PROVE Behind(buffer)'
      BY <1>1, <1>6, <3>3 DEF LInv, SentBefore, TypeOK
    <3> QED BY <3>1, <3>2, <3>3 DEF SentBefore
  <2>4. Increasing'
    <3>1. \A i \in 1..Len(socket) : socket[i].message < d.message
      BY <1>6, <2>1 DEF LInv, SentBefore
    <3>2. \A i \in DOMAIN shown : shown[i].message < d.message
      BY <1>6, <2>2 DEF LInv, SentBefore
    <3>3. server = "handling" => buffer.message < d.message
      BY <1>6 DEF LInv, SentBefore, TypeOK
    <3>4. \A i, j \in DOMAIN socket' : i < j => socket'[i].message < socket'[j].message
      BY <2>1, <3>1 DEF LInv, Increasing
    <3>5. \A i \in DOMAIN shown, j \in DOMAIN socket' :
            shown[i].message < socket'[j].message
      BY <2>1, <3>2 DEF LInv, Increasing
    <3>6. server = "handling" => \A j \in DOMAIN socket' : buffer.message < socket'[j].message
      BY <2>1, <3>3 DEF LInv, Increasing
    <3> QED BY <1>1, <3>4, <3>5, <3>6 DEF LInv, Increasing, ShownInOrder
  <2> QED BY <1>4, <1>5, <2>3, <2>4 DEF LInv
<1> QED BY <1>1, <1>8, <1>9

\* The first datagram of the socket moves to recvBuffer.
LEMMA ReceiveStep == ASSUME LInv, Receive PROVE LInv'
<1>1. /\ socket # <<>> /\ server = "armed" /\ server' = "handling"
      /\ buffer' = Head(socket) /\ socket' = Tail(socket)
      /\ UNCHANGED <<stage, pc, holder, logged, msg, log, shown>>
  BY DEF Receive, threadVars
<1>2. /\ Len(socket) \in Nat \ {0} /\ DOMAIN socket = 1..Len(socket)
      /\ DOMAIN socket' = 1..(Len(socket) - 1) /\ Len(socket') = Len(socket) - 1
      /\ buffer' = socket[1] /\ buffer' \in Datagrams /\ socket' \in Seq(Datagrams)
      /\ \A i \in 1..(Len(socket) - 1) : socket'[i] = socket[i + 1]
  BY <1>1, TailFacts DEF LInv, TypeOK
<1>3. TypeOK'
  BY <1>1, <1>2, SinkAssumption DEF LInv, TypeOK
<1>4. HolderInside' /\ LogFilled'
  BY <1>1 DEF LInv, HolderInside, LogFilled
<1>5. SentBefore'
  BY <1>1, <1>2 DEF LInv, SentBefore, Behind
<1>6. Increasing'
  BY <1>1, <1>2 DEF LInv, Increasing, ShownInOrder
<1> QED BY <1>3, <1>4, <1>5, <1>6 DEF LInv

\* What recvBuffer holds is printed behind what was printed.
LEMMA HandleReceiveStep == ASSUME LInv, HandleReceive PROVE LInv'
<1>1. /\ server = "handling" /\ server' = "armed" /\ shown' = Append(shown, buffer)
      /\ UNCHANGED <<stage, pc, holder, logged, msg, log, socket, buffer>>
  BY DEF HandleReceive, threadVars
<1>2. /\ Len(shown) \in Nat /\ DOMAIN shown = 1..Len(shown)
      /\ DOMAIN shown' = 1..(Len(shown) + 1) /\ shown' \in Seq(Datagrams)
      /\ \A i \in 1..Len(shown) : shown'[i] = shown[i]
      /\ shown'[Len(shown) + 1] = buffer
  BY <1>1, AppendFacts DEF LInv, TypeOK
<1>3. TypeOK'
  BY <1>1, <1>2 DEF LInv, TypeOK
<1>4. HolderInside' /\ LogFilled'
  BY <1>1 DEF LInv, HolderInside, LogFilled
<1>5. SentBefore'
  BY <1>1, <1>2 DEF LInv, SentBefore, Behind
<1>6. Increasing'
  BY <1>1, <1>2 DEF LInv, Increasing, ShownInOrder
<1> QED BY <1>3, <1>4, <1>5, <1>6 DEF LInv

LEMMA LInvNext == LInv /\ [Next]_vars => LInv'
<1> SUFFICES ASSUME LInv, [Next]_vars PROVE LInv'
  OBVIOUS
<1> USE DEF Step, serverVars
<1>0. TypeOK /\ HolderInside /\ LogFilled
  BY DEF LInv
\* At most one thread is inside.
<1>a. ASSUME NEW t \in Threads, pc[t] \in Inside, NEW u \in Threads, u # t
      PROVE  pc[u] \notin Inside
  BY <1>0, <1>a DEF HolderInside
<1>1. CASE AddLogSink \/ BindServer \/ StartServer
  <2>1. /\ UNCHANGED <<threadVars, log, socket, serverVars>>
        /\ stage' \in {"sink", "bound", "serving"}
    BY <1>1 DEF AddLogSink, BindServer, StartServer, Advance
  <2>2. TypeOK'
    BY <1>0, <2>1 DEF TypeOK, threadVars
  <2> QED BY <1>0, <2>1, <2>2, QuietStep DEF threadVars, HolderInside, LogFilled
<1>2. ASSUME NEW t \in Threads, Log(t) PROVE LInv'
  <2>1. TypeOK' /\ HolderInside' /\ LogFilled'
    BY <1>0, <1>2 DEF Log, TypeOK, HolderInside, LogFilled, Inside
  <2> QED BY <1>0, <1>2, <2>1, QuietStep DEF Log, TypeOK, Inside
<1>3. ASSUME NEW t \in Threads, Lock(t) PROVE LInv'
  BY <1>3, LockStep
<1>4. ASSUME NEW t \in Threads, ClearLog(t) PROVE LInv'
  <2>1. TypeOK'
    BY <1>0, <1>4 DEF ClearLog, TypeOK, EmptyLog, Fields, Nothing
  <2>2. HolderInside' /\ LogFilled'
    BY <1>0, <1>4, <1>a DEF ClearLog, TypeOK, HolderInside, LogFilled, Inside
  <2> QED BY <1>0, <1>4, <2>1, <2>2, QuietStep DEF ClearLog, TypeOK, Inside
<1>5. ASSUME NEW t \in Threads, SetDate(t) PROVE LInv'
  <2>1. TypeOK' /\ log'.date = logged
    BY <1>0, <1>5 DEF SetDate, TypeOK, HolderInside, Inside
  <2>2. HolderInside' /\ LogFilled'
    BY <1>0, <1>5, <1>a, <2>1 DEF SetDate, TypeOK, HolderInside, LogFilled, Inside
  <2> QED BY <1>0, <1>5, <2>1, <2>2, QuietStep DEF SetDate, TypeOK, Inside
<1>6. ASSUME NEW t \in Threads, SetMessage(t) PROVE LInv'
  <2>1. TypeOK' /\ log'.date = logged /\ log'.message = logged
    BY <1>0, <1>6 DEF SetMessage, TypeOK, HolderInside, LogFilled, Inside
  <2>2. HolderInside' /\ LogFilled'
    BY <1>0, <1>6, <1>a, <2>1 DEF SetMessage, TypeOK, HolderInside, LogFilled, Inside
  <2> QED BY <1>0, <1>6, <2>1, <2>2, QuietStep DEF SetMessage, TypeOK, Inside
<1>7. ASSUME NEW t \in Threads, SendFails(t) PROVE LInv'
  <2>1. TypeOK' /\ HolderInside' /\ LogFilled'
    BY <1>0, <1>7 DEF SendFails, TypeOK, HolderInside, LogFilled, Inside
  <2> QED BY <1>0, <1>7, <2>1, QuietStep DEF SendFails, TypeOK, Inside
<1>8. ASSUME NEW t \in Threads, Unlock(t) PROVE LInv'
  <2>1. TypeOK'
    BY <1>0, <1>8 DEF Unlock, TypeOK
  <2>2. HolderInside' /\ LogFilled'
    BY <1>0, <1>8, <1>a DEF Unlock, TypeOK, HolderInside, LogFilled, Inside
  <2> QED BY <1>0, <1>8, <2>1, <2>2, QuietStep DEF Unlock, TypeOK, Inside
<1>9. ASSUME NEW t \in Threads, NEW long \in BOOLEAN, SendLog(t, long) PROVE LInv'
  BY <1>9, SendLogStep
<1>10. CASE Receive \/ HandleReceive
  BY <1>10, ReceiveStep, HandleReceiveStep
<1>11. CASE ReceiveError
  <2>1. /\ pc' = [pc EXCEPT ![Server] = "lock"] /\ pc[Server] = "idle"
        /\ server = "armed" /\ server' = "stopped"
        /\ UNCHANGED <<stage, holder, logged, msg, log, socket, buffer, shown>>
    BY <1>11 DEF ReceiveError
  <2>2. TypeOK'
    BY <1>0, <2>1, SinkAssumption DEF TypeOK
  <2>3. HolderInside' /\ LogFilled'
    BY <1>0, <2>1, SinkAssumption DEF TypeOK, HolderInside, LogFilled, Inside
  <2>4. \A t \in Threads : pc'[t] \in Inside => pc'[t] = pc[t]
    BY <1>0, <2>1, SinkAssumption DEF TypeOK, Inside
  <2>5. \A d : Behind(d) => Behind(d)'
    BY <2>1, <2>4 DEF Behind
  <2>6. SentBefore'
    BY <2>1, <2>5 DEF LInv, SentBefore
  <2>7. Increasing'
    BY <2>1 DEF LInv, Increasing, ShownInOrder
  <2> QED BY <2>2, <2>3, <2>6, <2>7 DEF LInv
<1>12. CASE UNCHANGED vars
  BY <1>0, <1>12, QuietStep DEF vars, threadVars, TypeOK, HolderInside, LogFilled
<1> QED
  BY <1>1, <1>2, <1>3, <1>4, <1>5, <1>6, <1>7, <1>8, <1>9, <1>10, <1>11, <1>12
  DEF Next

-----------------------------------------------------------------------------
(* The theorems. *)

\* In every behaviour each variable keeps its type: the server's socket never
\* holds more than it can.
THEOREM TypeCorrect == Spec => []TypeOK
<1>1. LInv => TypeOK
  BY DEF LInv
<1> QED BY <1>1, LInvInit, LInvNext, PTL DEF Spec

\* However many threads log through the sink's one ProtoLog, no datagram that
\* is waiting or was printed mixes two messages: glog's lock covers the whole
\* of send.
THEOREM NothingIsTorn == Spec => []NoTornLog
<1>1. LInv => NoTornLog
  BY DEF LInv, SentBefore, Behind, NoTornLog
<1> QED BY <1>1, LInvInit, LInvNext, PTL DEF Spec

\* The console prints messages at most once and in the order of the log file,
\* however many the kernel drops.
THEOREM ConsoleKeepsOrder == Spec => []ShownInOrder
<1>1. LInv => ShownInOrder
  BY DEF LInv, Increasing
<1> QED BY <1>1, LInvInit, LInvNext, PTL DEF Spec

=============================================================================
