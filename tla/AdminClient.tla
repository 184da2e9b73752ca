------------------------------ MODULE AdminClient ------------------------------
(***************************************************************************)
(* Processes of KafkaAdminClient and their broker: each process asks for   *)
(* the metadata of the topic "what", creates it, lists all topics and      *)
(* deletes it.  Every call has a time-out, after which the next one is     *)
(* made, whatever has become of the request.                               *)
(*                                                                         *)
(* Of all topics only "what" is modelled.                                  *)
(***************************************************************************)
EXTENDS Integers, FiniteSets

CONSTANT Clients  \* the processes

VARIABLES
  present,      \* whether the topic is there
  autoCreate,  \* whether the broker makes a topic it is asked about
  step,        \* the call a client is at; Done when main has returned
  answer,      \* what became of each call of a client
  requests,    \* the calls on their way to the broker
  replies      \* what is on its way back

clientVars == <<step, answer>>
vars == <<present, autoCreate, clientVars, requests, replies>>

CallKinds == {"metadata", "create", "list", "delete"}

\* Mutant of CallAt: the topics are listed first.
CallAtListFirst(i) ==
  CASE i = 1 -> "metadata" [] i = 2 -> "list" [] i = 3 -> "create" [] i = 4 -> "delete"

\* The order of main's calls.
CallAt(i) ==
  CASE i = 1 -> "metadata" [] i = 2 -> "create" [] i = 3 -> "list" [] i = 4 -> "delete"

Done == 5
Results == {"ok", "exists", "listed", "not listed", "answered"}
Answers == Results \cup {"not called", "waiting", "timed out"}

Init ==
  /\ present \in BOOLEAN
  /\ autoCreate \in BOOLEAN
  /\ step = [c \in Clients |-> 1]
  /\ answer = [call \in Clients \X CallKinds |-> "not called"]
  /\ requests = {}
  /\ replies = {}

Runs(c) == step[c] # Done
Waits(c, kind) == Runs(c) /\ CallAt(step[c]) = kind /\ answer[<<c, kind>>] = "waiting"

-----------------------------------------------------------------------------
(* main. *)

Call(c, kind) ==
  /\ Runs(c) /\ CallAt(step[c]) = kind
  /\ answer[<<c, kind>>] = "not called"
  /\ answer' = [answer EXCEPT ![<<c, kind>>] = "waiting"]
  /\ requests' = requests \cup {<<c, kind>>}
  /\ UNCHANGED <<present, autoCreate, step, replies>>

FetchBrokerMetadata(c) == Call(c, "metadata")
CreateTopics(c) == Call(c, "create")
ListTopics(c) == Call(c, "list")

\* Mutant of DeleteTopics: only a topic that this client has created.
DeleteTopicsCreated(c) ==
  IF answer[<<c, "create">>] = "ok" \/ step[c] # 4 THEN Call(c, "delete")
  ELSE /\ Runs(c)
       /\ step' = [step EXCEPT ![c] = Done]
       /\ UNCHANGED <<present, autoCreate, answer, requests, replies>>

DeleteTopics(c) == Call(c, "delete")

\* A result: it is printed, and the next call made.
Return(c) ==
  /\ \E r \in replies :
       /\ r.client = c /\ Waits(c, r.kind)
       /\ answer' = [answer EXCEPT ![<<c, r.kind>>] = r.result]
  /\ replies' = {r \in replies : r.client # c}
  /\ step' = [step EXCEPT ![c] = @ + 1]
  /\ UNCHANGED <<present, autoCreate, requests>>

\* Mutant of TimesOut: listTopics is given no time-out.
TimesOutButList(c) ==
  /\ \E kind \in CallKinds \ {"list"} :
       /\ Waits(c, kind)
       /\ answer' = [answer EXCEPT ![<<c, kind>>] = "timed out"]
  /\ step' = [step EXCEPT ![c] = @ + 1]
  /\ replies' = {r \in replies : r.client # c}
  /\ UNCHANGED <<present, autoCreate, requests>>

\* Mutant of TimesOut: the next call is made while this one is waited for.
TimesOutWaiting(c) ==
  /\ \E kind \in CallKinds : Waits(c, kind)
  /\ step' = [step EXCEPT ![c] = @ + 1]
  /\ replies' = {r \in replies : r.client # c}
  /\ UNCHANGED <<present, autoCreate, answer, requests>>

\* No result in time.  The request is not taken back, its reply is dropped.
TimesOut(c) ==
  /\ \E kind \in CallKinds :
       /\ Waits(c, kind)
       /\ answer' = [answer EXCEPT ![<<c, kind>>] = "timed out"]
  /\ step' = [step EXCEPT ![c] = @ + 1]
  /\ replies' = {r \in replies : r.client # c}
  /\ UNCHANGED <<present, autoCreate, requests>>

-----------------------------------------------------------------------------
(* The broker and the network. *)

Effect(kind) ==
  CASE kind = "create" -> TRUE
    [] kind = "metadata" -> present \/ autoCreate
    [] kind = "list" -> present
    [] kind = "delete" -> FALSE

Result(kind) ==
  CASE kind = "create" -> IF present THEN "exists" ELSE "ok"
    [] kind = "list" -> IF present THEN "listed" ELSE "not listed"
    [] OTHER -> "answered"

\* A request may be served long after its call has timed out, its reply is not
\* waited for any more then.  A request that is lost is one that is never
\* served, a reply that is lost one that does not return in time.
Serve(c, kind) ==
  /\ <<c, kind>> \in requests
  /\ requests' = requests \ {<<c, kind>>}
  /\ present' = Effect(kind)
  /\ replies' = IF Waits(c, kind)
                THEN replies \cup {[client |-> c, kind |-> kind, result |-> Result(kind)]}
                ELSE replies
  /\ UNCHANGED <<autoCreate, clientVars>>

-----------------------------------------------------------------------------

MainStep(c) ==
  \/ FetchBrokerMetadata(c) \/ CreateTopics(c) \/ ListTopics(c) \/ DeleteTopics(c)
  \/ Return(c) \/ TimesOut(c)

Next ==
  \E c \in Clients :
    \/ MainStep(c)
    \/ \E kind \in CallKinds : Serve(c, kind)

Spec == Init /\ [][Next]_vars

\* A client runs, and its time-outs strike.  The broker need not answer.  (A
\* client that is killed is one that takes no further step: Spec allows it.)
FairSpec == Spec /\ \A c \in Clients : WF_vars(MainStep(c))

-----------------------------------------------------------------------------
(* Properties. *)

\* The state is of its types, and a client waits for the call it is at and
\* for no other: its time-outs never leave a call behind it open.
TypeOK ==
  /\ present \in BOOLEAN /\ autoCreate \in BOOLEAN
  /\ step \in [Clients -> 1..Done]
  /\ answer \in [Clients \X CallKinds -> Answers]
  /\ requests \subseteq Clients \X CallKinds
  /\ replies \subseteq [client : Clients, kind : CallKinds, result : Results]
  /\ \A c \in Clients, kind \in CallKinds :
       answer[<<c, kind>>] = "waiting" => step[c] # Done /\ CallAt(step[c]) = kind

\* Whether such a call makes the topic.
Makes(kind) == kind = "create" \/ (kind = "metadata" /\ autoCreate)

\* A call that can leave the topic there, timed out: a deletion, or what makes
\* the topic, which may then be served when the deletion has been.
TimedOut(c) ==
  \E kind \in CallKinds :
    (kind = "delete" \/ Makes(kind)) /\ answer[<<c, kind>>] = "timed out"

\* When all clients have returned and the topic is still there, one of them has
\* waited in vain for its deletion, or for a call that makes it: whoever made
\* the topic, be it the broker when it was asked about it, in whatever order the
\* clients took their turns, and whatever became of the other calls.
NoTopicLeft ==
  (\A c \in Clients : step[c] = Done /\ ~TimedOut(c)) => ~present \/ Clients = {}

\* A client that has created the topic finds it in its list, unless another
\* one has called for its deletion.
ListShowsCreated ==
  \A c \in Clients :
    answer[<<c, "create">>] = "ok" /\ answer[<<c, "list">>] = "not listed"
      => \E d \in Clients \ {c} : answer[<<d, "delete">>] # "not called"

\* Every client comes to the end of main, whatever the broker does.
EveryClientEnds == \A c \in Clients : <>(step[c] = Done)

=============================================================================
