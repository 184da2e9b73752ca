---------------------------- MODULE LifeCycleProofs ----------------------------
(***************************************************************************)
(* Proofs about LifeCycle, for every set of processes and launches: a      *)
(* server's thread never runs without its server, a bound port is kept to  *)
(* the end and then free, and a bad word comes from a bad file.            *)
(***************************************************************************)
EXTENDS LifeCycle, FiniteSetTheorems, TLAPS

Places == {"signals", "initLogger", "bind", "serve", "load", "loop", "turn", "stop",
           "shutdown", "return 0", "return -1"}

\* main is past the construction of udpServer.
PastBind(p) ==
  pc[p] \notin {"initLogger", "bind"} /\ (p \in Producers => pc[p] # "signals")

SInv ==
  /\ pc \in [Processes -> Places]
  /\ server \in [Processes -> {"none", "there", "destroyed"}]
  /\ thread \in [Processes -> {"none", "serving", "over"}]
  /\ \A p \in Processes : PastBind(p) => server[p] = "there"
  /\ ServerOutlivesThread

\* The place main goes to from one of the statements before its loop.
LEMMA NextPlace ==
  ASSUME NEW p \in Processes, NEW place \in {"signals", "initLogger", "bind", "serve", "load"},
         Passes(p, place)
  PROVE  /\ pc[p] = place /\ fate' = fate
         /\ \/ pc' = [pc EXCEPT ![p] = "initLogger"] /\ p \in Producers /\ place = "signals"
            \/ pc' = [pc EXCEPT ![p] = "bind"] /\ place = "initLogger"
            \/ pc' = [pc EXCEPT ![p] = "serve"] /\ place = "bind"
            \/ pc' = [pc EXCEPT ![p] = "load"] /\ place = "serve"
            \/ pc' = [pc EXCEPT ![p] = "signals"] /\ p \notin Producers /\ place = "serve"
            \/ pc' = [pc EXCEPT ![p] = "loop"] /\ place = "load"
            \/ pc' = [pc EXCEPT ![p] = "loop"] /\ p \notin Producers /\ place = "signals"
<1>1. PICK i \in DOMAIN Start(p) :
        /\ Start(p)[i] = place
        /\ pc[p] = place /\ fate' = fate /\ pc' = [pc EXCEPT ![p] = Start(p)[i + 1]]
  BY DEF Passes, At, GoTo
<1>2. CASE p \in Producers
  <2>1. Start(p) = ProducerStart
    BY <1>2 DEF Start
  <2>2. /\ DOMAIN ProducerStart = 1..6
        /\ ProducerStart[1] = "signals" /\ ProducerStart[2] = "initLogger"
        /\ ProducerStart[3] = "bind" /\ ProducerStart[4] = "serve"
        /\ ProducerStart[5] = "load" /\ ProducerStart[6] = "loop"
    BY DEF ProducerStart
  <2>3. i \in 1..6 /\ ProducerStart[i] = place
    BY <1>1, <2>1, <2>2
  <2>4. \/ place = "signals" /\ ProducerStart[i + 1] = "initLogger"
        \/ place = "initLogger" /\ ProducerStart[i + 1] = "bind"
        \/ place = "bind" /\ ProducerStart[i + 1] = "serve"
        \/ place = "serve" /\ ProducerStart[i + 1] = "load"
        \/ place = "load" /\ ProducerStart[i + 1] = "loop"
    BY <2>2, <2>3
  <2> QED BY <1>1, <1>2, <2>1, <2>4
<1>3. CASE p \notin Producers
  <2>1. Start(p) = ConsumerStart
    BY <1>3 DEF Start
  <2>2. /\ DOMAIN ConsumerStart = 1..5
        /\ ConsumerStart[1] = "initLogger" /\ ConsumerStart[2] = "bind"
        /\ ConsumerStart[3] = "serve" /\ ConsumerStart[4] = "signals"
        /\ ConsumerStart[5] = "loop"
    BY DEF ConsumerStart
  <2>3. i \in 1..5 /\ ConsumerStart[i] = place
    BY <1>1, <2>1, <2>2
  <2>4. \/ place = "initLogger" /\ ConsumerStart[i + 1] = "bind"
        \/ place = "bind" /\ ConsumerStart[i + 1] = "serve"
        \/ place = "serve" /\ ConsumerStart[i + 1] = "signals"
        \/ place = "signals" /\ ConsumerStart[i + 1] = "loop"
    BY <2>2, <2>3
  <2> QED BY <1>1, <1>3, <2>1, <2>4
<1> QED BY <1>2, <1>3

LEMMA SInit == Init => SInv
<1> SUFFICES ASSUME Init PROVE SInv
  OBVIOUS
<1>1. /\ pc = [p \in Processes |-> Start(p)[1]]
      /\ server = [p \in Processes |-> "none"]
      /\ thread = [p \in Processes |-> "none"]
  BY DEF Init
<1>2. \A p \in Processes :
        Start(p)[1] = IF p \in Producers THEN "signals" ELSE "initLogger"
  BY DEF Start, ProducerStart, ConsumerStart
<1>3. pc \in [Processes -> Places] /\ \A p \in Processes : ~PastBind(p)
  BY <1>1, <1>2 DEF Places, PastBind
<1>4. server \in [Processes -> {"none", "there", "destroyed"}]
  BY <1>1
<1>5. thread \in [Processes -> {"none", "serving", "over"}]
  BY <1>1
<1>6. ServerOutlivesThread
  BY <1>1 DEF ServerOutlivesThread
<1> QED BY <1>3, <1>4, <1>5, <1>6 DEF SInv

\* A process that goes on where its server is there, or not yet.
LEMMA GoesOn ==
  ASSUME SInv, NEW p \in Processes, NEW place \in Places,
         pc' = [pc EXCEPT ![p] = place], UNCHANGED <<server, thread>>,
         \/ PastBind(p)
         \/ place \in {"initLogger", "bind"}
         \/ p \in Producers /\ place = "signals"
  PROVE  SInv'
<1>1. /\ pc' \in [Processes -> Places] /\ pc'[p] = place
      /\ \A q \in Processes : q # p => pc'[q] = pc[q]
  BY DEF SInv
<1>2. \A q \in Processes : PastBind(q)' => PastBind(q)
  BY <1>1 DEF PastBind
<1> QED BY <1>1, <1>2 DEF SInv, ServerOutlivesThread

\* The end of a process leaves nothing to be said of its thread.
LEMMA EndsStep ==
  ASSUME SInv, NEW p \in Processes, NEW how, Ends(p, how), UNCHANGED server
  PROVE  SInv'
<1>1. /\ thread' \in [Processes -> {"none", "serving", "over"}] /\ thread'[p] = "none"
      /\ \A q \in Processes : q # p => thread'[q] = thread[q]
      /\ UNCHANGED pc
  BY DEF Ends, SInv
<1> QED BY <1>1 DEF SInv, ServerOutlivesThread, PastBind

LEMMA BindStep ==
  ASSUME SInv, NEW p \in Processes, BindServer(p)
  PROVE  SInv'
<1>1. /\ pc' = [pc EXCEPT ![p] = "serve"]
      /\ server' = [server EXCEPT ![p] = "there"] /\ UNCHANGED thread
  BY NextPlace DEF BindServer
<1>2. /\ pc' \in [Processes -> Places]
      /\ \A q \in Processes : q # p => pc'[q] = pc[q]
  BY <1>1 DEF SInv, Places
<1>3. /\ server' \in [Processes -> {"none", "there", "destroyed"}] /\ server'[p] = "there"
      /\ \A q \in Processes : q # p => server'[q] = server[q]
  BY <1>1 DEF SInv
<1>4. \A q \in Processes : PastBind(q)' => server'[q] = "there"
  BY <1>2, <1>3 DEF SInv, PastBind
<1> QED BY <1>1, <1>2, <1>3, <1>4 DEF SInv, ServerOutlivesThread

LEMMA StartServerStep ==
  ASSUME SInv, NEW p \in Processes, StartServer(p)
  PROVE  SInv'
<1>1. /\ PastBind(p) /\ thread' = [thread EXCEPT ![p] = "serving"] /\ UNCHANGED server
      /\ \E place \in {"load", "signals"} : pc' = [pc EXCEPT ![p] = place]
  BY NextPlace DEF StartServer, PastBind
<1>2. /\ pc' \in [Processes -> Places]
      /\ \A q \in Processes : q # p => pc'[q] = pc[q]
  BY <1>1 DEF SInv, Places
<1>3. /\ thread' \in [Processes -> {"none", "serving", "over"}]
      /\ \A q \in Processes : q # p => thread'[q] = thread[q]
  BY <1>1 DEF SInv
<1>4. \A q \in Processes : PastBind(q)' => server'[q] = "there"
  BY <1>1, <1>2 DEF SInv, PastBind
<1>5. ServerOutlivesThread'
  BY <1>1, <1>3 DEF SInv, ServerOutlivesThread
<1> QED BY <1>1, <1>2, <1>3, <1>4, <1>5 DEF SInv

\* The statements before the loop that start neither server nor thread.
LEMMA StartStep ==
  ASSUME SInv, NEW p \in Processes, NEW place \in {"signals", "initLogger", "load"},
         Passes(p, place), UNCHANGED <<server, thread>>
  PROVE  SInv'
<1>1. /\ place \in {"signals", "initLogger", "bind", "serve", "load"}
      /\ place # "bind" /\ place # "serve"
  OBVIOUS
<1>2. "initLogger" \in Places /\ "bind" \in Places /\ "loop" \in Places
  BY DEF Places
<1>3. CASE pc' = [pc EXCEPT ![p] = "initLogger"] \/ pc' = [pc EXCEPT ![p] = "bind"]
  BY <1>2, <1>3, GoesOn
<1>4. CASE pc' = [pc EXCEPT ![p] = "loop"] /\ (place = "load" \/ (p \notin Producers /\ place = "signals"))
  <2>1. pc[p] = place
    BY DEF Passes, At
  <2>2. PastBind(p)
    BY <1>4, <2>1 DEF PastBind
  <2> QED BY <1>2, <1>4, <2>2, GoesOn
<1>5. \/ pc' = [pc EXCEPT ![p] = "initLogger"] \/ pc' = [pc EXCEPT ![p] = "bind"]
      \/ place = "bind" \/ place = "serve"
      \/ pc' = [pc EXCEPT ![p] = "loop"] /\ (place = "load" \/ (p \notin Producers /\ place = "signals"))
  BY <1>1, NextPlace, Zenon
<1> QED BY <1>1, <1>3, <1>4, <1>5, Zenon

LEMMA NoFilesStep ==
  ASSUME SInv, UNCHANGED <<pc, server, thread>>
  PROVE  SInv'
BY DEF SInv, PastBind, ServerOutlivesThread

\* The loop and what follows it.
LEMMA LoopStep ==
  ASSUME SInv, NEW p \in Processes, NEW from \in {"loop", "turn", "stop", "shutdown"},
         At(p, from), NEW place \in {"loop", "turn", "stop", "shutdown", "return 0", "return -1"},
         GoTo(p, place), UNCHANGED <<server, thread>>
  PROVE  SInv'
<1>1. PastBind(p) /\ place \in Places /\ pc' = [pc EXCEPT ![p] = place]
  BY DEF PastBind, At, GoTo, Places
<1> QED BY <1>1, GoesOn

LEMMA SNext == SInv /\ [Next]_vars => SInv'
<1> SUFFICES ASSUME SInv, [Next]_vars PROVE SInv'
  OBVIOUS
<1> USE DEF serverVars, mainVars, wordVars
<1>1. ASSUME NEW p \in Processes, Launch(p) \/ StopRunning(p) \/ Suspend(p) \/ Continue(p)
      PROVE  SInv'
  BY <1>1, NoFilesStep DEF Launch, StopRunning, Suspend, Continue
<1>2. ASSUME NEW p \in Processes, InstallHandlers(p) \/ InitLogger(p) \/ LoadVocabulary(p)
      PROVE  SInv'
  BY <1>2, StartStep DEF InstallHandlers, InitLogger, LoadVocabulary
<1>3. ASSUME NEW p \in Processes, BindServer(p) PROVE SInv'
  BY <1>3, BindStep
<1>4. ASSUME NEW p \in Processes, StartServer(p) PROVE SInv'
  BY <1>4, StartServerStep
<1>5. ASSUME NEW p \in Processes, PortTaken(p) \/ LoadTerminates(p) \/ EndOfMain(p) \/ Terminate(p)
      PROVE  SInv'
  BY <1>5, EndsStep DEF PortTaken, LoadTerminates, EndOfMain, Terminate
<1>6. ASSUME NEW p \in Processes, ReceiveError(p) PROVE SInv'
  <2>1. /\ thread' = [thread EXCEPT ![p] = "over"] /\ UNCHANGED <<pc, server>>
        /\ thread' \in [Processes -> {"none", "serving", "over"}]
        /\ \A q \in Processes : thread'[q] = "serving" => thread[q] = "serving"
    BY <1>6 DEF ReceiveError, SInv
  <2> QED BY <2>1 DEF SInv, ServerOutlivesThread, PastBind
<1>7. ASSUME NEW p \in Processes, TestRunning(p) PROVE SInv'
  BY <1>7, LoopStep DEF TestRunning
<1>8. ASSUME NEW p \in Processes, SendMessage(p) PROVE SInv'
  <2>1. CASE Ends(p, "aborted")
    BY <1>8, <2>1, EndsStep DEF SendMessage
  <2>2. CASE GoTo(p, "loop") /\ UNCHANGED <<thread, port>>
    BY <1>8, <2>2, LoopStep DEF SendMessage
  <2> QED BY <1>8, <2>1, <2>2 DEF SendMessage
<1>9. ASSUME NEW p \in Processes, SendFails(p) \/ PollTurn(p) \/ Stop(p) \/ ShutdownGoogleLogging(p)
      PROVE  SInv'
  BY <1>9, LoopStep DEF SendFails, PollTurn, Stop, ShutdownGoogleLogging
<1>10. CASE UNCHANGED vars
  BY <1>10, NoFilesStep DEF vars
<1> QED BY <1>1, <1>2, <1>3, <1>4, <1>5, <1>6, <1>7, <1>8, <1>9, <1>10 DEF Next, MainStep

\* The server is there as long as its thread runs.
THEOREM ServerIsThere == Spec => []ServerOutlivesThread
<1>1. SInv => ServerOutlivesThread
  BY DEF SInv
<1> QED BY <1>1, SInit, SNext, PTL DEF Spec

-----------------------------------------------------------------------------
(* A bound port is kept. *)

Programs == {"KafkaProducer", "KafkaConsumer"}

\* fate and port are functions of all processes and all programs.
FInv ==
  /\ fate = [p \in Processes |-> fate[p]]
  /\ port = [program \in Programs |-> port[program]]

Keeps(p) == port[Program(p)] = p => port'[Program(p)] = p \/ fate'[p] \in Ended

LEMMA FInit == Init => FInv
BY DEF Init, FInv, Programs

LEMMA FEnds ==
  ASSUME FInv, NEW p \in Processes, NEW how \in Ended, Ends(p, how)
  PROVE  FInv' /\ \A q \in Processes : Keeps(q)
<1>1. /\ fate'[p] = how /\ fate' = [q \in Processes |-> fate'[q]]
      /\ port' = [program \in Programs |-> port'[program]]
  BY DEF Ends, FInv
<1>2. \A program \in Programs :
        port'[program] = port[program] \/ (program = Program(p) /\ port[program] = p)
  BY DEF Ends, FInv
<1>3. \A q \in Processes : Program(q) \in Programs
  BY DEF Program, Programs
<1> QED BY <1>1, <1>2, <1>3 DEF FInv, Keeps

LEMMA FBind ==
  ASSUME FInv, NEW p \in Processes, BindServer(p)
  PROVE  FInv' /\ \A q \in Processes : Keeps(q)
<1>1. /\ port[Program(p)] = NoOne /\ port' = [port EXCEPT ![Program(p)] = p] /\ fate' = fate
  BY NextPlace DEF BindServer
<1>2. \A q \in Processes : Program(q) \in Programs /\ q # NoOne
  BY LifeCycleAssumption DEF Program, Programs, Processes
<1>3. \A program \in Programs : program # Program(p) => port'[program] = port[program]
  BY <1>1 DEF FInv
<1> QED BY <1>1, <1>2, <1>3 DEF FInv, Keeps

LEMMA FSame ==
  ASSUME FInv, UNCHANGED port,
         fate' = fate \/ \E p \in Processes : \E how : fate' = [fate EXCEPT ![p] = how]
  PROVE  FInv' /\ \A q \in Processes : Keeps(q)
BY DEF FInv, Keeps

LEMMA FNext == FInv /\ [Next]_vars => FInv' /\ (\A q \in Processes : Keeps(q))
<1> SUFFICES ASSUME FInv, [Next]_vars PROVE FInv' /\ \A q \in Processes : Keeps(q)
  OBVIOUS
<1> USE DEF serverVars, mainVars, wordVars
<1>1. ASSUME NEW p \in Processes, Launch(p) \/ Suspend(p) \/ Continue(p)
      PROVE  FInv' /\ \A q \in Processes : Keeps(q)
  BY <1>1, FSame DEF Launch, Suspend, Continue
<1>2. ASSUME NEW p \in Processes,
             InstallHandlers(p) \/ InitLogger(p) \/ StartServer(p) \/ LoadVocabulary(p)
      PROVE  FInv' /\ \A q \in Processes : Keeps(q)
  BY <1>2, FSame DEF InstallHandlers, InitLogger, StartServer, LoadVocabulary, Passes, GoTo
<1>3. ASSUME NEW p \in Processes,
             ReceiveError(p) \/ TestRunning(p) \/ SendFails(p) \/ PollTurn(p) \/ Stop(p)
               \/ ShutdownGoogleLogging(p) \/ StopRunning(p)
      PROVE  FInv' /\ \A q \in Processes : Keeps(q)
  BY <1>3, FSame DEF ReceiveError, TestRunning, SendFails, PollTurn, Stop,
                     ShutdownGoogleLogging, StopRunning, GoTo
<1>4. "aborted" \in Ended /\ "killed" \in Ended
  BY DEF Ended
<1>5. ASSUME NEW p \in Processes,
             PortTaken(p) \/ LoadTerminates(p) \/ EndOfMain(p) \/ Terminate(p)
      PROVE  FInv' /\ \A q \in Processes : Keeps(q)
  BY <1>4, <1>5, FEnds DEF PortTaken, LoadTerminates, EndOfMain, Terminate
<1>6. ASSUME NEW p \in Processes, SendMessage(p)
      PROVE  FInv' /\ \A q \in Processes : Keeps(q)
  <2>1. CASE Ends(p, "aborted")
    BY <1>4, <2>1, FEnds
  <2>2. CASE GoTo(p, "loop") /\ UNCHANGED <<thread, port>>
    BY <2>2, FSame DEF GoTo
  <2> QED BY <1>6, <2>1, <2>2 DEF SendMessage
<1>7. ASSUME NEW p \in Processes, BindServer(p)
      PROVE  FInv' /\ \A q \in Processes : Keeps(q)
  BY <1>7, FBind
<1>8. CASE UNCHANGED vars
  BY <1>8, FSame DEF vars
<1> QED BY <1>1, <1>2, <1>3, <1>5, <1>6, <1>7, <1>8 DEF Next, MainStep

\* A process that has bound its port keeps it as long as it lives.
THEOREM PortIsKept == Spec => BoundUntilEnd
<1>1. FInv /\ [Next]_vars
        => [\A p \in Processes : port[Program(p)] = p => port'[Program(p)] = p \/ fate'[p] \in Ended]_vars
  BY FNext DEF Keeps
<1> QED BY <1>1, FInit, FNext, PTL DEF Spec, BoundUntilEnd

-----------------------------------------------------------------------------
(* The state is of its types, and a port belongs to a live process.         *)

Fates == {"unborn", "alive", "suspended"} \cup Ended

Flags ==
  /\ handlers \in [Processes -> BOOLEAN] /\ running \in [Processes -> BOOLEAN]
  /\ logging \in [Processes -> {"off", "on", "shut down"}]
  /\ closed \in [Processes -> BOOLEAN]

MayHold(program, p) == Live(p) /\ Program(p) = program /\ server[p] = "there"

PortInv ==
  /\ fate \in [Processes -> Fates]
  /\ \A program \in Programs :
       \/ port[program] = NoOne
       \/ port[program] \in Processes /\ MayHold(program, port[program])

LEMMA FlagsInit == Init => Flags
<1> SUFFICES ASSUME Init PROVE Flags
  OBVIOUS
<1>1. handlers \in [Processes -> BOOLEAN]
  BY DEF Init
<1>2. running \in [Processes -> BOOLEAN]
  BY DEF Init
<1>3. closed \in [Processes -> BOOLEAN]
  BY DEF Init
<1>4. logging \in [Processes -> {"off", "on", "shut down"}]
  BY DEF Init
<1> QED BY <1>1, <1>2, <1>3, <1>4 DEF Flags

LEMMA FlagsNext == Flags /\ [Next]_vars => Flags'
<1> SUFFICES ASSUME Flags, [Next]_vars PROVE Flags'
  OBVIOUS
<1> USE DEF mainVars
<1>1. CASE UNCHANGED mainVars
  BY <1>1 DEF Flags
<1>2. ASSUME NEW p \in Processes, InstallHandlers(p) PROVE Flags'
  BY <1>2 DEF InstallHandlers, Flags
<1>3. ASSUME NEW p \in Processes, StopRunning(p) PROVE Flags'
  BY <1>3 DEF StopRunning, Flags
<1>4. ASSUME NEW p \in Processes, InitLogger(p) \/ ShutdownGoogleLogging(p) PROVE Flags'
  BY <1>4 DEF InitLogger, ShutdownGoogleLogging, Flags
<1>5. ASSUME NEW p \in Processes, Stop(p) PROVE Flags'
  BY <1>5 DEF Stop, Flags
<1>6. ASSUME NEW p \in Processes,
             Launch(p) \/ BindServer(p) \/ PortTaken(p) \/ StartServer(p) \/ LoadVocabulary(p)
               \/ LoadTerminates(p) \/ TestRunning(p)
      PROVE  UNCHANGED mainVars
  BY <1>6 DEF Launch, BindServer, PortTaken, StartServer, LoadVocabulary, LoadTerminates,
              TestRunning
<1>7. ASSUME NEW p \in Processes,
             SendMessage(p) \/ SendFails(p) \/ PollTurn(p) \/ EndOfMain(p) \/ ReceiveError(p)
               \/ Terminate(p) \/ Suspend(p) \/ Continue(p)
      PROVE  UNCHANGED mainVars
  BY <1>7 DEF SendMessage, SendFails, PollTurn, EndOfMain, ReceiveError, Terminate, Suspend,
              Continue
<1>8. CASE UNCHANGED vars
  BY <1>1, <1>8 DEF vars
<1> QED BY <1>1, <1>2, <1>3, <1>4, <1>5, <1>6, <1>7, <1>8 DEF Next, MainStep

LEMMA PortInit == Init => PortInv
<1> SUFFICES ASSUME Init PROVE PortInv
  OBVIOUS
<1>1. fate \in [Processes -> Fates]
  BY DEF Init, Fates
<1>2. \A program \in Programs : port[program] = NoOne
  BY DEF Init, Programs
<1> QED BY <1>1, <1>2 DEF PortInv

LEMMA PortEnds ==
  ASSUME PortInv, FInv, NEW p \in Processes, NEW how \in Ended, Ends(p, how), UNCHANGED server
  PROVE  PortInv'
<1>1. /\ fate' = [fate EXCEPT ![p] = how] /\ how \in Fates
      /\ port' = [port EXCEPT ![Program(p)] = IF @ = p THEN NoOne ELSE @]
  BY DEF Ends, Fates
<1>2. /\ fate' \in [Processes -> Fates]
      /\ \A q \in Processes : q # p => fate'[q] = fate[q]
  BY <1>1 DEF PortInv
<1>3. ASSUME NEW program \in Programs, port'[program] # NoOne
      PROVE  port'[program] = port[program] /\ (program = Program(p) => port[program] # p)
  BY <1>1, <1>3 DEF FInv
<1>4. ASSUME NEW program \in Programs, port'[program] # NoOne
      PROVE  port'[program] \in Processes /\ MayHold(program, port[program])'
  <2> DEFINE q == port[program]
  <2>1. q \in Processes /\ MayHold(program, q) /\ q = port'[program]
    BY <1>3, <1>4 DEF PortInv
  <2>2. q # p
    BY <1>3, <1>4, <2>1 DEF MayHold
  <2>3. fate'[q] = fate[q] /\ server' = server
    BY <1>2, <2>1, <2>2
  <2> QED BY <2>1, <2>3 DEF MayHold, Live
<1> QED BY <1>2, <1>4 DEF PortInv

LEMMA PortBind ==
  ASSUME PortInv, FInv, SInv, NEW p \in Processes, BindServer(p)
  PROVE  PortInv'
<1>1. /\ fate' = fate /\ fate[p] = "alive"
      /\ port' = [port EXCEPT ![Program(p)] = p]
      /\ server' = [server EXCEPT ![p] = "there"]
  BY NextPlace DEF BindServer, Passes, At
<1>2. server'[p] = "there" /\ \A q \in Processes : q # p => server'[q] = server[q]
  BY <1>1 DEF SInv
<1>3. /\ port'[Program(p)] = p
      /\ \A program \in Programs : program # Program(p) => port'[program] = port[program]
  <2>1. Program(p) \in Programs
    BY DEF Program, Programs
  <2> QED BY <1>1, <2>1 DEF FInv
<1>4. ASSUME NEW program \in Programs, port'[program] # NoOne
      PROVE  port'[program] \in Processes /\ MayHold(program, port[program])'
  <2>1. CASE program = Program(p)
    BY <1>1, <1>2, <1>3, <2>1 DEF MayHold, Live
  <2>2. CASE program # Program(p)
    BY <1>1, <1>2, <1>3, <1>4, <2>2 DEF PortInv, MayHold, Live
  <2> QED BY <2>1, <2>2
<1> QED BY <1>1, <1>4 DEF PortInv

\* A process that is launched, suspended or continued holds what it held.
LEMMA PortSame ==
  ASSUME PortInv, UNCHANGED <<port, server>>,
         \/ fate' = fate
         \/ \E p \in Processes, how \in {"alive", "suspended"} : fate' = [fate EXCEPT ![p] = how]
  PROVE  PortInv'
<1>1. fate' \in [Processes -> Fates] /\ \A q \in Processes : Live(q) => Live(q)'
  BY DEF PortInv, Fates, Live
<1> QED BY <1>1 DEF PortInv, MayHold

LEMMA PortNext == PortInv /\ FInv /\ SInv /\ [Next]_vars => PortInv'
<1> SUFFICES ASSUME PortInv, FInv, SInv, [Next]_vars PROVE PortInv'
  OBVIOUS
<1> USE DEF serverVars
<1>1. ASSUME NEW p \in Processes, Launch(p) \/ Suspend(p) \/ Continue(p)
      PROVE  PortInv'
  BY <1>1, PortSame DEF Launch, Suspend, Continue
<1>2. ASSUME NEW p \in Processes,
             InstallHandlers(p) \/ InitLogger(p) \/ StartServer(p) \/ LoadVocabulary(p)
      PROVE  PortInv'
  BY <1>2, PortSame DEF InstallHandlers, InitLogger, StartServer, LoadVocabulary, Passes, GoTo
<1>3. ASSUME NEW p \in Processes,
             ReceiveError(p) \/ TestRunning(p) \/ SendFails(p) \/ PollTurn(p) \/ Stop(p)
               \/ ShutdownGoogleLogging(p) \/ StopRunning(p)
      PROVE  PortInv'
  BY <1>3, PortSame DEF ReceiveError, TestRunning, SendFails, PollTurn, Stop,
                        ShutdownGoogleLogging, StopRunning, GoTo
<1>4. "aborted" \in Ended /\ "killed" \in Ended
  BY DEF Ended
<1>5. ASSUME NEW p \in Processes,
             PortTaken(p) \/ LoadTerminates(p) \/ EndOfMain(p) \/ Terminate(p)
      PROVE  PortInv'
  BY <1>4, <1>5, PortEnds DEF PortTaken, LoadTerminates, EndOfMain, Terminate
<1>6. ASSUME NEW p \in Processes, SendMessage(p) PROVE PortInv'
  <2>1. CASE Ends(p, "aborted")
    BY <1>4, <1>6, <2>1, PortEnds DEF SendMessage
  <2>2. CASE GoTo(p, "loop") /\ UNCHANGED <<thread, port>>
    BY <1>6, <2>2, PortSame DEF SendMessage, GoTo
  <2> QED BY <1>6, <2>1, <2>2 DEF SendMessage
<1>7. ASSUME NEW p \in Processes, BindServer(p) PROVE PortInv'
  BY <1>7, PortBind
<1>8. CASE UNCHANGED vars
  BY <1>8, PortSame DEF vars
<1> QED BY <1>1, <1>2, <1>3, <1>5, <1>6, <1>7, <1>8 DEF Next, MainStep

-----------------------------------------------------------------------------
(* What is loaded of a good file is words, and a word that is chosen fits   *)
(* the file it was read from.                                               *)

LEMMA ConstructedFacts ==
  /\ \A content \in Contents : Constructed(content) \subseteq Loaded
  /\ Constructed("good") = {"words"} /\ Constructed("missing") = {"keyless"}
BY DEF Constructed, Contents, Loaded

Keys == {"verbs", "advanced_verbs", "phrasal_verbs", "nouns", "advanced_nouns", "adjectives",
         "advanced_adjectives", "adverbs", "advanced_adverbs", "prepositions",
         "advanced_prepositions"}

\* The map and the container take each type to the class of its name.
LEMMA TypeIsClass ==
  /\ DOMAIN jsonVocabularyContainer = Keys
  /\ \A n \in 1..11 :
       /\ VocabularyType[n] \in Classes
       /\ mapStringToVocabularyType[VocabularyType[n]] \in Keys
       /\ jsonVocabularyContainer[mapStringToVocabularyType[VocabularyType[n]]] = VocabularyType[n]
<1>1. DOMAIN jsonVocabularyContainer = Keys
  BY DEF jsonVocabularyContainer, Keys
<1>2. \A n \in 1..11 : VocabularyType[n] \in Classes
  BY DEF Classes, ToSet, VocabularyType
<1>3. \A n \in 1..11 : mapStringToVocabularyType[VocabularyType[n]] \in Keys
  BY DEF mapStringToVocabularyType, VocabularyType, Keys
<1>4. \A n \in 1..11 :
        jsonVocabularyContainer[mapStringToVocabularyType[VocabularyType[n]]] = VocabularyType[n]
  BY DEF jsonVocabularyContainer, mapStringToVocabularyType, VocabularyType
<1> QED BY <1>1, <1>2, <1>3, <1>4

\* The container has an entry for each type and no more.
LEMMA ContainerSize == Cardinality(DOMAIN jsonVocabularyContainer) \in 0..11
<1> DEFINE Key == [n \in 1..11 |-> mapStringToVocabularyType[VocabularyType[n]]]
<1>1. Key \in Surjection(1..11, Keys)
  <2>1. Key \in [1..11 -> Keys]
    BY TypeIsClass
  <2>2. \A x \in Keys : \E n \in 1..11 : Key[n] = x
    BY DEF mapStringToVocabularyType, VocabularyType, Keys
  <2> QED BY <2>1, <2>2 DEF Surjection
<1>2. IsFiniteSet(1..11) /\ Cardinality(1..11) = 11
  <2>1. 1 \in Int /\ 11 \in Int
    OBVIOUS
  <2>2. IsFiniteSet(1..11) /\ Cardinality(1..11) = IF 1 > 11 THEN 0 ELSE 11 - 1 + 1
    BY <2>1, FS_Interval, Zenon
  <2> QED BY <2>2
<1>3. IsFiniteSet(Keys) /\ Cardinality(Keys) <= 11
  <2> HIDE DEF Key
  <2> QED BY <1>1, <1>2, FS_Surjection
<1>4. Cardinality(Keys) \in Nat
  BY <1>3, FS_CardinalityType
<1> QED BY <1>3, <1>4, TypeIsClass

\* getVocabulary reads from the class of the type it has chosen, and gets a
\* whole word where words were loaded: the number it draws is one of theirs.
LEMMA WordOfClass ==
  ASSUME NEW d, NEW w \in getVocabulary(d)
  PROVE  /\ w.type \in Classes /\ w.class = w.type
         /\ d[w.class] = "words" => w.word = "whole"
<1>1. PICK n \in 0..Cardinality(DOMAIN jsonVocabularyContainer) - 1 :
        LET type == VocabularyType[n + 1]
            class == jsonVocabularyContainer[mapStringToVocabularyType[type]]
            j == d[class]
            words == {Read(j, i) : i \in WordNumbers(j)}
        IN  \/ j = "keyless" /\ w = [type |-> type, class |-> class, word |-> "terminate"]
            \/ /\ j # "keyless"
               /\ \/ \E x \in words \ {"exception"} : w = [type |-> type, class |-> class, word |-> x]
                  \/ /\ words \cap {"exception", "undefined"} # {}
                     /\ w = [type |-> type, class |-> class, word |-> "terminate"]
  BY DEF getVocabulary
<1>2. n + 1 \in 1..11
  BY ContainerSize
<1> DEFINE class == VocabularyType[n + 1]
<1>3. /\ class \in Classes
      /\ jsonVocabularyContainer[mapStringToVocabularyType[class]] = class
  BY <1>2, TypeIsClass
<1>4. w.type = class /\ w.class = class
  BY <1>1, <1>3
<1>5. ASSUME d[class] = "words" PROVE w.word = "whole"
  <2>1. \A i \in WordNumbers("words") : Read("words", i) = "whole"
    BY DatabaseAssumption DEF WordNumbers, Size, Read
  <2> QED BY <1>1, <1>3, <1>5, <2>1
<1> QED BY <1>3, <1>4, <1>5

FitsFile(w) ==
  /\ w.word \notin {"none", "whole"} => files[w.class] # "good"
  /\ w.class = w.type

WordInv ==
  /\ files \in [Classes -> Contents]
  /\ \A c \in Classes \ Damaged : files[c] \in {"good", "missing"}
  /\ db \in [Producers -> [Classes -> Loaded]]
  /\ \A p \in Producers : \A c \in Classes : files[c] = "good" => db[p][c] = "words"
  /\ word = [p \in Producers |-> word[p]]
  /\ \A p \in Producers : FitsFile(word[p])

LEMMA WordInit == Init => WordInv
<1> SUFFICES ASSUME Init PROVE WordInv
  OBVIOUS
<1>1. /\ files \in [Classes -> Contents]
      /\ \A c \in Classes \ Damaged : files[c] \in {"good", "missing"}
  <2>1. CASE files \in {[c \in Classes |-> "good"], [c \in Classes |-> "missing"]}
    BY <2>1 DEF Contents
  <2>2. ASSUME NEW d \in Damaged, NEW x \in Contents,
               files = [c \in Classes |-> IF c = d THEN x ELSE "good"]
        PROVE  /\ files \in [Classes -> Contents]
               /\ \A c \in Classes \ Damaged : files[c] \in {"good", "missing"}
    BY <2>2 DEF Contents
  <2> QED BY <2>1, <2>2 DEF Init
<1>2. db = [p \in Producers |-> [c \in Classes |-> "words"]]
  BY DEF Init
<1>3. /\ db \in [Producers -> [Classes -> Loaded]]
      /\ \A p \in Producers : \A c \in Classes : db[p][c] = "words"
  BY <1>2 DEF Loaded
<1>4. word = [p \in Producers |-> NoWord]
  BY DEF Init
<1>5. /\ word = [p \in Producers |-> word[p]]
      /\ \A p \in Producers : FitsFile(word[p])
  BY <1>4 DEF FitsFile, NoWord
<1> QED BY <1>1, <1>3, <1>5 DEF WordInv

LEMMA LoadWord ==
  ASSUME WordInv, NEW p \in Processes, LoadVocabulary(p)
  PROVE  WordInv'
<1>1. UNCHANGED <<files, word>>
  BY DEF LoadVocabulary
<1>2. PICK damaged \in [Damaged -> Loaded] :
        /\ \A c \in Damaged : damaged[c] \in Constructed(files[c])
        /\ db' = [db EXCEPT ![p] = [c \in Classes |->
             IF c \in Damaged THEN damaged[c] ELSE CHOOSE l \in Constructed(files[c]) : TRUE]]
  BY DEF LoadVocabulary
<1> DEFINE new == [c \in Classes |->
             IF c \in Damaged THEN damaged[c] ELSE CHOOSE l \in Constructed(files[c]) : TRUE]
<1>3. \A c \in Classes : new[c] \in Constructed(files[c])
  <2> SUFFICES ASSUME NEW c \in Classes, c \notin Damaged
               PROVE  (CHOOSE l \in Constructed(files[c]) : TRUE) \in Constructed(files[c])
    BY <1>2
  <2>1. Constructed(files[c]) # {}
    BY ConstructedFacts DEF WordInv
  <2> QED BY <2>1
<1>4. new \in [Classes -> Loaded]
  <2>1. \A c \in Classes : new[c] \in Loaded
    BY <1>3, ConstructedFacts DEF WordInv
  <2> QED BY <2>1
<1>5. \A c \in Classes : files[c] = "good" => new[c] = "words"
  BY <1>3, ConstructedFacts
<1> HIDE DEF new
<1>6. /\ db' \in [Producers -> [Classes -> Loaded]]
      /\ \A q \in Producers : db'[q] = db[q] \/ db'[q] = new
  BY <1>2, <1>4 DEF WordInv, new
<1> QED BY <1>1, <1>5, <1>6 DEF WordInv, FitsFile

\* A new word that fits its file.
LEMMA SetWord ==
  ASSUME WordInv, NEW p \in Producers, NEW w, FitsFile(w),
         word' = [word EXCEPT ![p] = w], UNCHANGED <<files, db>>
  PROVE  WordInv'
<1>1. /\ word' = [q \in Producers |-> word'[q]]
      /\ \A q \in Producers : word'[q] = word[q] \/ word'[q] = w
  BY DEF WordInv
<1> QED BY <1>1 DEF WordInv, FitsFile

LEMMA SameWord ==
  ASSUME WordInv, UNCHANGED <<files, db, word>>
  PROVE  WordInv'
BY DEF WordInv, FitsFile

LEMMA WordNext == WordInv /\ [Next]_vars => WordInv'
<1> SUFFICES ASSUME WordInv, [Next]_vars PROVE WordInv'
  OBVIOUS
<1> USE DEF wordVars
<1>1. ASSUME NEW p \in Processes, LoadVocabulary(p) PROVE WordInv'
  BY <1>1, LoadWord
<1>2. ASSUME NEW p \in Processes, TestRunning(p) PROVE WordInv'
  <2>1. UNCHANGED <<files, db>>
    BY <1>2 DEF TestRunning
  <2>2. FitsFile(NoWord)
    BY DEF FitsFile, NoWord
  <2>3. \/ p \in Producers /\ word' = [word EXCEPT ![p] = NoWord]
        \/ word' = word
    BY <1>2 DEF TestRunning
  <2> QED BY <2>1, <2>2, <2>3, SetWord, SameWord
<1>3. ASSUME NEW p \in Processes, SendMessage(p) PROVE WordInv'
  <2>1. PICK w \in getVocabulary(db[p]) : word' = [word EXCEPT ![p] = w]
    BY <1>3 DEF SendMessage
  <2>2. p \in Producers /\ UNCHANGED <<files, db>>
    BY <1>3 DEF SendMessage
  <2>3. /\ w.type \in Classes /\ w.class = w.type
        /\ db[p][w.class] = "words" => w.word = "whole"
    BY <2>1, WordOfClass
  <2>4. FitsFile(w)
    BY <2>2, <2>3 DEF FitsFile, WordInv
  <2> QED BY <2>1, <2>2, <2>4, SetWord
<1>4. ASSUME NEW p \in Processes,
             Launch(p) \/ InstallHandlers(p) \/ InitLogger(p) \/ BindServer(p) \/ PortTaken(p)
               \/ StartServer(p) \/ LoadTerminates(p) \/ SendFails(p) \/ PollTurn(p)
      PROVE  UNCHANGED <<files, db, word>>
  BY <1>4 DEF Launch, InstallHandlers, InitLogger, BindServer, PortTaken, StartServer,
              LoadTerminates, SendFails, PollTurn
<1>5. ASSUME NEW p \in Processes,
             Stop(p) \/ ShutdownGoogleLogging(p) \/ EndOfMain(p) \/ ReceiveError(p)
               \/ StopRunning(p) \/ Terminate(p) \/ Suspend(p) \/ Continue(p)
      PROVE  UNCHANGED <<files, db, word>>
  BY <1>5 DEF Stop, ShutdownGoogleLogging, EndOfMain, ReceiveError, StopRunning, Terminate,
              Suspend, Continue
<1>6. CASE UNCHANGED vars
  BY <1>6, SameWord DEF vars
<1> QED BY <1>1, <1>2, <1>3, <1>4, <1>5, <1>6, SameWord DEF Next, MainStep

\* A bad word comes from a bad file, and every word is one of the type that
\* was chosen.
THEOREM BadWordsComeFromBadFiles == Spec => []BadWordNeedsBadFile
<1>1. WordInv => BadWordNeedsBadFile
  BY DEF WordInv, FitsFile, BadWordNeedsBadFile
<1> QED BY <1>1, WordInit, WordNext, PTL DEF Spec

-----------------------------------------------------------------------------

LEMMA TypesTogether ==
  ASSUME SInv, FInv, Flags, PortInv, WordInv
  PROVE  TypeOK
<1>1. \A program \in DOMAIN port : port[program] \in {NoOne} \cup
        {p \in Processes : Live(p) /\ Program(p) = program /\ server[p] = "there"}
  BY DEF FInv, PortInv, MayHold
<1>2. \A p \in Producers : \A c \in Classes : db[p][c] \in Loaded
  BY DEF WordInv
<1> QED BY <1>1, <1>2 DEF TypeOK, SInv, Flags, PortInv, WordInv, Places, Fates

\* The state is of its types, and a port belongs to a live process of its
\* program, one that has bound it.
THEOREM TypeCorrect == Spec => []TypeOK
<1>1. SInv /\ FInv /\ Flags /\ PortInv /\ WordInv => TypeOK
  BY TypesTogether
<1> QED BY <1>1, SInit, SNext, FInit, FNext, FlagsInit, FlagsNext, PortInit, PortNext,
           WordInit, WordNext, PTL DEF Spec

=============================================================================
