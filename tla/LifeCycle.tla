------------------------------ MODULE LifeCycle ------------------------------
(***************************************************************************)
(* The processes of KafkaProducer and KafkaConsumer on one host, from      *)
(* their launch to their end: the handlers of stop signals, the logger,    *)
(* the UDP server and its thread, which all processes of one program want  *)
(* to have on the same port, the vocabulary the producer loads, the loop,  *)
(* and what main leaves behind.                                            *)
(*                                                                         *)
(* A turn of a loop is one step here; what happens in it is the matter of  *)
(* Producer and KafkaConsumer.                                             *)
(***************************************************************************)
EXTENDS VocabularyDatabase

CONSTANTS
  Producers, Consumers,  \* the processes of the two programs
  NoOne,                 \* who holds a free port
  Damaged,               \* the classes whose file may be damaged
  MaxLaunches            \* bound: processes launched

ASSUME LifeCycleAssumption ==
  /\ Producers \cap Consumers = {}
  /\ NoOne \notin Producers \cup Consumers
  /\ Damaged \subseteq Classes
  /\ MaxLaunches \in Nat

VARIABLES
  files,     \* the contents of the vocabulary files
  fate,      \* "unborn", "alive", "suspended", or how the process ended
  pc,        \* the statement of main a process is at
  handlers,  \* whether its signal handlers are installed
  running,   \* its global flag
  logging,   \* its logger: "off", "on" or "shut down"
  server,    \* its udpServer: "none", "there" or "destroyed"
  thread,    \* its serverThread: "none", "serving" or "over"
  port,      \* for each program, the process whose server is bound
  db,        \* what each producer has loaded
  word,      \* the word it has just sent, or none
  closed     \* whether a consumer has left its group

mainVars == <<handlers, running, logging, closed>>
serverVars == <<server, thread, port>>
wordVars == <<db, word>>
vars == <<files, fate, pc, mainVars, serverVars, wordVars>>

Processes == Producers \cup Consumers
Program(p) == IF p \in Producers THEN "KafkaProducer" ELSE "KafkaConsumer"
Ended == {"killed", "aborted", "exited"}
NoWord == [type |-> "none", class |-> "none", word |-> "none"]

\* The order of main's statements up to its loop.
ProducerStart == <<"signals", "initLogger", "bind", "serve", "load", "loop">>
ConsumerStart == <<"initLogger", "bind", "serve", "signals", "loop">>
Start(p) == IF p \in Producers THEN ProducerStart ELSE ConsumerStart

\* The files as they are shipped, one of them damaged, or the program started
\* in a directory from which none is found.
Init ==
  /\ files \in {[c \in Classes |-> "good"], [c \in Classes |-> "missing"]}
       \cup {[c \in Classes |-> IF c = d THEN x ELSE "good"] : d \in Damaged, x \in Contents}
  /\ fate = [p \in Processes |-> "unborn"]
  /\ pc = [p \in Processes |-> Start(p)[1]]
  /\ handlers = [p \in Processes |-> FALSE]
  /\ running = [p \in Processes |-> TRUE]
  /\ logging = [p \in Processes |-> "off"]
  /\ server = [p \in Processes |-> "none"]
  /\ thread = [p \in Processes |-> "none"]
  /\ port = [program \in {"KafkaProducer", "KafkaConsumer"} |-> NoOne]
  /\ db = [p \in Producers |-> [c \in Classes |-> "words"]]
  /\ word = [p \in Producers |-> NoWord]
  /\ closed = [p \in Processes |-> FALSE]

At(p, place) == fate[p] = "alive" /\ pc[p] = place
GoTo(p, place) == pc' = [pc EXCEPT ![p] = place] /\ UNCHANGED fate
Passes(p, place) ==
  /\ At(p, place)
  /\ \E i \in DOMAIN Start(p) : Start(p)[i] = place /\ GoTo(p, Start(p)[i + 1])

\* Mutant of Ends: the port stays taken.
EndsBound(p, how) ==
  /\ fate' = [fate EXCEPT ![p] = how]
  /\ thread' = [thread EXCEPT ![p] = "none"]
  /\ UNCHANGED <<pc, port>>

\* The process ends: the kernel frees its port and its threads are no more.
Ends(p, how) ==
  /\ fate' = [fate EXCEPT ![p] = how]
  /\ thread' = [thread EXCEPT ![p] = "none"]
  /\ port' = [port EXCEPT ![Program(p)] = IF @ = p THEN NoOne ELSE @]
  /\ UNCHANGED pc

-----------------------------------------------------------------------------
(* The start of main. *)

Launch(p) ==
  /\ fate[p] = "unborn"
  /\ Cardinality({q \in Processes : fate[q] # "unborn"}) < MaxLaunches
  /\ fate' = [fate EXCEPT ![p] = "alive"]
  /\ UNCHANGED <<files, pc, mainVars, serverVars, wordVars>>

InstallHandlers(p) ==
  /\ Passes(p, "signals")
  /\ handlers' = [handlers EXCEPT ![p] = TRUE]
  /\ UNCHANGED <<files, running, logging, closed, serverVars, wordVars>>

\* Mutant of InitLogger: the sink's flag of the same name is the global one.
InitLoggerOnOneFlag(p) ==
  /\ Passes(p, "initLogger")
  /\ logging' = [logging EXCEPT ![p] = "on"]
  /\ running' = [running EXCEPT ![p] = TRUE]
  /\ UNCHANGED <<files, handlers, closed, serverVars, wordVars>>

InitLogger(p) ==
  /\ Passes(p, "initLogger")
  /\ logging' = [logging EXCEPT ![p] = "on"]
  /\ UNCHANGED <<files, handlers, running, closed, serverVars, wordVars>>

\* Mutant of BindServer: the socket is opened to share its address.
BindServerShared(p) ==
  /\ Passes(p, "bind")
  /\ port' = [port EXCEPT ![Program(p)] = p]
  /\ server' = [server EXCEPT ![p] = "there"]
  /\ UNCHANGED <<files, mainVars, thread, wordVars>>

BindServer(p) ==
  /\ port[Program(p)] = NoOne
  /\ Passes(p, "bind")
  /\ port' = [port EXCEPT ![Program(p)] = p]
  /\ server' = [server EXCEPT ![p] = "there"]
  /\ UNCHANGED <<files, mainVars, thread, wordVars>>

\* The port is taken: the constructor throws, and nobody catches.
PortTaken(p) ==
  /\ At(p, "bind")
  /\ port[Program(p)] # NoOne
  /\ Ends(p, "aborted")
  /\ UNCHANGED <<files, mainVars, server, wordVars>>

StartServer(p) ==
  /\ Passes(p, "serve")
  /\ thread' = [thread EXCEPT ![p] = "serving"]
  /\ UNCHANGED <<files, mainVars, server, port, wordVars>>

\* Receiving fails: the server's thread comes to its end.
ReceiveError(p) ==
  /\ fate[p] = "alive" /\ thread[p] = "serving"
  /\ thread' = [thread EXCEPT ![p] = "over"]
  /\ UNCHANGED <<files, fate, pc, mainVars, server, port, wordVars>>

\* initialize_JSON_Vocabulary_Classes: every class loads its file.
LoadVocabulary(p) ==
  /\ Passes(p, "load")
  /\ \E damaged \in [Damaged -> Loaded] :
       /\ \A c \in Damaged : damaged[c] \in Constructed(files[c])
       /\ db' = [db EXCEPT ![p] = [c \in Classes |->
            IF c \in Damaged THEN damaged[c] ELSE CHOOSE l \in Constructed(files[c]) : TRUE]]
  /\ UNCHANGED <<files, mainVars, serverVars, word>>

\* size() throws in a constructor, out of a function that cannot throw.
LoadTerminates(p) ==
  /\ At(p, "load")
  /\ \E c \in Classes : Constructed(files[c]) = {}
  /\ Ends(p, "aborted")
  /\ UNCHANGED <<files, mainVars, server, wordVars>>

-----------------------------------------------------------------------------
(* The loop. *)

\* while (running)
TestRunning(p) ==
  /\ At(p, "loop")
  /\ GoTo(p, IF running[p] THEN "turn" ELSE IF p \in Producers THEN "shutdown" ELSE "stop")
  /\ word' = IF p \in Producers THEN [word EXCEPT ![p] = NoWord] ELSE word
  /\ UNCHANGED <<files, mainVars, serverVars, db>>

\* sendMessage, with the word getVocabulary has chosen.
SendMessage(p) ==
  /\ p \in Producers
  /\ At(p, "turn")
  /\ \E w \in getVocabulary(db[p]) :
       /\ word' = [word EXCEPT ![p] = w]
       /\ IF w.word = "terminate"
          THEN Ends(p, "aborted")
          ELSE GoTo(p, "loop") /\ UNCHANGED <<thread, port>>
  /\ UNCHANGED <<files, mainVars, server, db>>

\* A message that cannot be serialized: main returns at once.
SendFails(p) ==
  /\ p \in Producers
  /\ At(p, "turn")
  /\ GoTo(p, "return -1")
  /\ UNCHANGED <<files, mainVars, serverVars, wordVars>>

\* A poll and the records it returned.
PollTurn(p) ==
  /\ p \in Consumers
  /\ At(p, "turn")
  /\ GoTo(p, "loop")
  /\ UNCHANGED <<files, mainVars, serverVars, wordVars>>

-----------------------------------------------------------------------------
(* The end of main. *)

\* stop() closes the consumer.
Stop(p) ==
  /\ At(p, "stop")
  /\ GoTo(p, "shutdown")
  /\ closed' = [closed EXCEPT ![p] = TRUE]
  /\ UNCHANGED <<files, handlers, running, logging, serverVars, wordVars>>

ShutdownGoogleLogging(p) ==
  /\ At(p, "shutdown")
  /\ GoTo(p, "return 0")
  /\ logging' = [logging EXCEPT ![p] = "shut down"]
  /\ UNCHANGED <<files, handlers, running, closed, serverVars, wordVars>>

\* Mutant of EndOfMain: the thread has been detached.
EndOfMainDetached(p) ==
  /\ At(p, "return 0") \/ At(p, "return -1")
  /\ server' = [server EXCEPT ![p] = "destroyed"]
  /\ fate' = [fate EXCEPT ![p] = "exited"]
  /\ UNCHANGED <<files, pc, mainVars, thread, port, wordVars>>

\* main's objects are destroyed, the last first: the serverThread, which can
\* still be joined, ends the process before udpServer is reached.
EndOfMain(p) ==
  /\ At(p, "return 0") \/ At(p, "return -1")
  /\ Ends(p, "aborted")
  /\ UNCHANGED <<files, mainVars, server, wordVars>>

-----------------------------------------------------------------------------
(* Signals: SIGINT and SIGTSTP have handlers once they are installed,       *)
(* SIGTERM never has one.                                                   *)

StopRunning(p) ==
  /\ fate[p] = "alive" /\ handlers[p]
  /\ running' = [running EXCEPT ![p] = FALSE]
  /\ UNCHANGED <<files, fate, pc, handlers, logging, closed, serverVars, wordVars>>

Terminate(p) ==
  /\ fate[p] = "alive"
  /\ Ends(p, "killed")
  /\ UNCHANGED <<files, mainVars, server, wordVars>>

\* SIGTSTP before the handlers: the process stands still, and keeps its port.
Suspend(p) ==
  /\ fate[p] = "alive" /\ ~handlers[p]
  /\ fate' = [fate EXCEPT ![p] = "suspended"]
  /\ UNCHANGED <<files, pc, mainVars, serverVars, wordVars>>

Continue(p) ==
  /\ fate[p] = "suspended"
  /\ fate' = [fate EXCEPT ![p] = "alive"]
  /\ UNCHANGED <<files, pc, mainVars, serverVars, wordVars>>

-----------------------------------------------------------------------------

\* What main itself does next.
MainStep(p) ==
  \/ InstallHandlers(p) \/ InitLogger(p) \/ BindServer(p) \/ PortTaken(p)
  \/ StartServer(p) \/ LoadVocabulary(p) \/ LoadTerminates(p)
  \/ TestRunning(p) \/ SendMessage(p) \/ SendFails(p) \/ PollTurn(p)
  \/ Stop(p) \/ ShutdownGoogleLogging(p) \/ EndOfMain(p)

Next ==
  \E p \in Processes :
    \/ Launch(p) \/ MainStep(p) \/ ReceiveError(p)
    \/ StopRunning(p) \/ Terminate(p) \/ Suspend(p) \/ Continue(p)

Spec == Init /\ [][Next]_vars

\* A process that is not suspended runs.  Nobody has to launch it, to signal
\* it or to continue it.
FairSpec == Spec /\ \A p \in Processes : WF_vars(MainStep(p))

-----------------------------------------------------------------------------
(* Properties. *)

Live(p) == fate[p] \in {"alive", "suspended"}

\* The state is of its types, and a port belongs to a live process of its
\* program, so that a process that ends leaves it to the next.
TypeOK ==
  /\ files \in [Classes -> Contents]
  /\ fate \in [Processes -> {"unborn", "alive", "suspended"} \cup Ended]
  /\ pc \in [Processes -> {"signals", "initLogger", "bind", "serve", "load", "loop", "turn",
                          "stop", "shutdown", "return 0", "return -1"}]
  /\ handlers \in [Processes -> BOOLEAN] /\ running \in [Processes -> BOOLEAN]
  /\ logging \in [Processes -> {"off", "on", "shut down"}]
  /\ closed \in [Processes -> BOOLEAN]
  /\ server \in [Processes -> {"none", "there", "destroyed"}]
  /\ thread \in [Processes -> {"none", "serving", "over"}]
  /\ \A program \in DOMAIN port : port[program] \in {NoOne} \cup
       {p \in Processes : Live(p) /\ Program(p) = program /\ server[p] = "there"}
  /\ \A p \in Producers : \A c \in Classes : db[p][c] \in Loaded

\* The server's thread uses udpServer by reference: it is there as long as the
\* thread runs, whatever the end of main destroys.
ServerOutlivesThread ==
  \A p \in Processes : thread[p] = "serving" => server[p] = "there"

\* A process that has bound its port keeps it as long as it lives, and with it
\* the log messages of its own: no second instance takes them away.
BoundUntilEnd ==
  [][\A p \in Processes : port[Program(p)] = p => port'[Program(p)] = p \/ fate'[p] \in Ended]_vars

\* A word that was cut off, is undefined or ends the program is a word of a
\* file that was not good when the program was started; and every word is one
\* of the type that was chosen.
BadWordNeedsBadFile ==
  \A p \in Producers :
    /\ word[p].word \notin {"none", "whole"} => files[word[p].class] # "good"
    /\ word[p].class = word[p].type

Failed(p) == fate[p] = "aborted" /\ pc[p] \in {"bind", "load", "turn", "return -1"}

\* A process whose handler has cleared running, be it while it was starting,
\* comes to its end, with its logs shut down and its group left, unless it
\* fails or is killed on the way.
AskedToStopEnds ==
  \A p \in Processes :
    ~running[p] ~> \/ fate[p] = "killed" \/ Failed(p)
                   \/ fate[p] \in Ended /\ logging[p] = "shut down" /\ (p \in Consumers => closed[p])

\* main "return 0" (KafkaConsumer.cpp:62): a process that gets there exits.
ReturnMeansExit ==
  \A p \in Processes : pc[p] = "return 0" => fate[p] # "aborted"

=============================================================================
