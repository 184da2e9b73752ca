--------------------------- MODULE AdminClientProofs ---------------------------
(***************************************************************************)
(* Proofs about AdminClient, for any set of clients: its state is of its   *)
(* types, no topic is left behind, and a list shows what its client has    *)
(* created.                                                                *)
(***************************************************************************)
EXTENDS AdminClient, TLAPS

LEMMA CallAtFacts ==
  /\ \A i \in 1..4 : CallAt(i) \in CallKinds /\ (CallAt(i) = "delete" <=> i = 4)
  /\ "delete" \in CallKinds
BY DEF CallAt, CallKinds

\* The deletion is what main does before it returns.
LEMMA DeleteBeforeDone ==
  ASSUME NEW i \in 1..4
  PROVE  /\ i + 1 < 4 => CallAt(i) # "delete" /\ i < 4
         /\ i + 1 = Done => CallAt(i) = "delete"
BY CallAtFacts DEF Done

\* The parts of the type invariant.
LEMMA Types ==
  ASSUME TypeOK
  PROVE  /\ step \in [Clients -> 1..5]
         /\ answer \in [Clients \X CallKinds -> Answers]
         /\ requests \subseteq Clients \X CallKinds
         /\ \A r \in replies : r.client \in Clients /\ r.kind \in CallKinds /\ r.result \in Results
BY DEF TypeOK, Done

\* A client that runs is at one of its calls.
LEMMA StepInRange ==
  ASSUME TypeOK, NEW c \in Clients, Runs(c)
  PROVE  step[c] \in 1..4 /\ CallAt(step[c]) \in CallKinds
<1>1. step[c] \in 1..5 /\ step[c] # 5
  BY Types DEF Runs, Done
<1>2. step[c] \in 1..4
  BY <1>1
<1> QED BY <1>2, CallAtFacts

\* One answer is changed, and no other.
LEMMA AnswerChanged ==
  ASSUME TypeOK, NEW c \in Clients, NEW kind \in CallKinds, NEW new \in Answers,
         answer' = [answer EXCEPT ![<<c, kind>>] = new]
  PROVE  /\ answer' \in [Clients \X CallKinds -> Answers]
         /\ answer'[<<c, kind>>] = new
         /\ \A d \in Clients, k \in CallKinds :
              ~(d = c /\ k = kind) => answer'[<<d, k>>] = answer[<<d, k>>]
<1>1. answer \in [Clients \X CallKinds -> Answers]
  BY Types
<1> QED BY <1>1

\* One client goes on to its next call.
LEMMA StepChanged ==
  ASSUME TypeOK, NEW c \in Clients, Runs(c), step' = [step EXCEPT ![c] = @ + 1]
  PROVE  /\ step' \in [Clients -> 1..5]
         /\ step'[c] = step[c] + 1
         /\ \A d \in Clients : d # c => step'[d] = step[d]
<1>1. step \in [Clients -> 1..5] /\ step[c] \in 1..4
  BY Types, StepInRange
<1> QED BY <1>1

-----------------------------------------------------------------------------

LEMMA TypeInit == Init => TypeOK
<1> SUFFICES ASSUME Init PROVE TypeOK
  OBVIOUS
<1>1. answer \in [Clients \X CallKinds -> Answers]
  BY DEF Init, Answers
<1>2. \A c \in Clients, kind \in CallKinds : answer[<<c, kind>>] # "waiting"
  BY DEF Init
<1>3. step \in [Clients -> 1..5]
  <2>1. step = [c \in Clients |-> 1]
    BY DEF Init
  <2> QED BY <2>1
<1>4. present \in BOOLEAN /\ autoCreate \in BOOLEAN /\ requests = {} /\ replies = {}
  BY DEF Init
<1> QED BY <1>1, <1>2, <1>3, <1>4 DEF TypeOK, Done

LEMMA CallType ==
  ASSUME TypeOK, NEW c \in Clients, NEW kind \in CallKinds, Call(c, kind)
  PROVE  TypeOK'
<1>1. /\ answer' = [answer EXCEPT ![<<c, kind>>] = "waiting"]
      /\ requests' = requests \cup {<<c, kind>>}
      /\ UNCHANGED <<present, autoCreate, step, replies>>
      /\ step[c] # Done /\ CallAt(step[c]) = kind
  BY DEF Call, Runs
<1>2. "waiting" \in Answers
  BY DEF Answers
<1>3. requests' \subseteq Clients \X CallKinds
  BY <1>1, Types
<1>4. ASSUME NEW d \in Clients, NEW k \in CallKinds, answer'[<<d, k>>] = "waiting"
      PROVE  step'[d] # Done /\ CallAt(step'[d]) = k
  <2>1. CASE d = c /\ k = kind
    BY <1>1, <2>1
  <2>2. CASE ~(d = c /\ k = kind)
    <3>1. answer[<<d, k>>] = "waiting"
      BY <1>1, <1>2, <1>4, <2>2, AnswerChanged
    <3> QED BY <1>1, <3>1 DEF TypeOK
  <2> QED BY <2>1, <2>2
<1>5. answer' \in [Clients \X CallKinds -> Answers]
  BY <1>1, <1>2, AnswerChanged
<1> QED BY <1>1, <1>3, <1>4, <1>5 DEF TypeOK

\* What Return and TimesOut have in common: the call that is waited for gets
\* its end, and main goes on.
LEMMA GoesOnType ==
  ASSUME TypeOK, NEW c \in Clients, NEW kind \in CallKinds, Waits(c, kind),
         NEW end \in Results \cup {"timed out"},
         answer' = [answer EXCEPT ![<<c, kind>>] = end],
         step' = [step EXCEPT ![c] = @ + 1],
         replies' \subseteq replies,
         UNCHANGED <<present, autoCreate, requests>>
  PROVE  TypeOK'
<1>1. Runs(c) /\ CallAt(step[c]) = kind
  BY DEF Waits
<1>2. end \in Answers /\ end # "waiting"
  BY DEF Answers, Results
<1>3. ASSUME NEW d \in Clients, NEW k \in CallKinds, answer'[<<d, k>>] = "waiting"
      PROVE  step'[d] # Done /\ CallAt(step'[d]) = k
  <2>1. answer[<<d, k>>] = "waiting"
    BY <1>2, <1>3, AnswerChanged
  <2>2. step[d] # Done /\ CallAt(step[d]) = k
    BY <2>1 DEF TypeOK
  <2>3. d # c
    BY <1>1, <1>2, <1>3, <2>2, AnswerChanged
  <2> QED BY <1>1, <2>2, <2>3, StepChanged
<1>4. answer' \in [Clients \X CallKinds -> Answers]
  BY <1>2, AnswerChanged
<1>5. step' \in [Clients -> 1..Done]
  BY <1>1, StepChanged DEF Done
<1> QED BY <1>3, <1>4, <1>5 DEF TypeOK

LEMMA ServeType ==
  ASSUME TypeOK, NEW c \in Clients, NEW kind \in CallKinds, Serve(c, kind)
  PROVE  TypeOK'
<1>1. present' \in BOOLEAN
  BY DEF TypeOK, Serve, Effect, CallKinds
<1>2. [client |-> c, kind |-> kind, result |-> Result(kind)]
        \in [client : Clients, kind : CallKinds, result : Results]
  BY DEF Result, Results
<1>3. \/ replies' = replies
      \/ replies' = replies \cup {[client |-> c, kind |-> kind, result |-> Result(kind)]}
  BY DEF Serve
<1>4. replies' \subseteq [client : Clients, kind : CallKinds, result : Results]
  BY <1>2, <1>3 DEF TypeOK
<1> QED BY <1>1, <1>4 DEF TypeOK, Serve, clientVars

LEMMA ReturnEnds ==
  ASSUME TypeOK, NEW c \in Clients, Return(c)
  PROVE  \E r \in replies :
           /\ r.client = c /\ r.kind \in CallKinds /\ Waits(c, r.kind)
           /\ r.result \in Results
           /\ answer' = [answer EXCEPT ![<<c, r.kind>>] = r.result]
           /\ replies' = {s \in replies : s.client # c}
BY DEF TypeOK, Return

LEMMA TypeStep == TypeOK /\ [Next]_vars => TypeOK'
<1> SUFFICES ASSUME TypeOK, [Next]_vars PROVE TypeOK'
  OBVIOUS
<1>1. ASSUME NEW c \in Clients,
             FetchBrokerMetadata(c) \/ CreateTopics(c) \/ ListTopics(c) \/ DeleteTopics(c)
      PROVE  TypeOK'
  BY <1>1, CallType DEF FetchBrokerMetadata, CreateTopics, ListTopics, DeleteTopics, CallKinds
<1>2. ASSUME NEW c \in Clients, Return(c) PROVE TypeOK'
  <2>1. PICK r \in replies :
          /\ r.client = c /\ r.kind \in CallKinds /\ Waits(c, r.kind)
          /\ r.result \in Results
          /\ answer' = [answer EXCEPT ![<<c, r.kind>>] = r.result]
          /\ replies' = {s \in replies : s.client # c}
    BY <1>2, ReturnEnds
  <2>2. replies' \subseteq replies /\ r.result \in Results \cup {"timed out"}
    BY <2>1
  <2>3. step' = [step EXCEPT ![c] = @ + 1] /\ UNCHANGED <<present, autoCreate, requests>>
    BY <1>2 DEF Return
  <2> QED BY <2>1, <2>2, <2>3, GoesOnType
<1>3. ASSUME NEW c \in Clients, TimesOut(c) PROVE TypeOK'
  <2>1. PICK kind \in CallKinds :
          Waits(c, kind) /\ answer' = [answer EXCEPT ![<<c, kind>>] = "timed out"]
    BY <1>3 DEF TimesOut
  <2>2. /\ replies' \subseteq replies /\ "timed out" \in Results \cup {"timed out"}
        /\ step' = [step EXCEPT ![c] = @ + 1] /\ UNCHANGED <<present, autoCreate, requests>>
    BY <1>3 DEF TimesOut
  <2> QED BY <2>1, <2>2, GoesOnType
<1>4. ASSUME NEW c \in Clients, NEW kind \in CallKinds, Serve(c, kind) PROVE TypeOK'
  BY <1>4, ServeType
<1>5. CASE UNCHANGED vars
  BY <1>5 DEF TypeOK, vars, clientVars
<1> QED BY <1>1, <1>2, <1>3, <1>4, <1>5 DEF Next, MainStep

\* The state is of its types, and a client waits for the call it is at and
\* for no other.
THEOREM TypeCorrect == Spec => []TypeOK
BY TypeInit, TypeStep, PTL DEF Spec

-----------------------------------------------------------------------------
(* No topic is left: as long as it exists, there is a client from which its *)
(* deletion is still to come, or one whose deletion, or call that makes it, *)
(* timed out.                                                              *)

NoReply(c, kind) == \A r \in replies : ~(r.client = c /\ r.kind = kind)

DeletionToCome(c) ==
  \/ answer[<<c, "delete">>] = "not called"
  \/ answer[<<c, "delete">>] = "waiting" /\ NoReply(c, "delete")
  \/ TimedOut(c)

\* What is on its way belongs to a call that was made; a reply to one that is
\* waited for and has been served.
OnlyCalled ==
  /\ \A c \in Clients, kind \in CallKinds :
       <<c, kind>> \in requests => answer[<<c, kind>>] \in {"waiting", "timed out"}
  /\ \A r \in replies :
       answer[<<r.client, r.kind>>] = "waiting" /\ <<r.client, r.kind>> \notin requests

\* The deletion is called last, and by everyone who returns.
DeleteIsLast ==
  \A c \in Clients :
    /\ step[c] < 4 => answer[<<c, "delete">>] = "not called"
    /\ step[c] = Done => answer[<<c, "delete">>] # "not called"

CleanInv ==
  /\ TypeOK
  /\ OnlyCalled
  /\ DeleteIsLast
  /\ present => Clients = {} \/ \E c \in Clients : DeletionToCome(c)

LEMMA CleanInit == Init => CleanInv
<1> SUFFICES ASSUME Init PROVE CleanInv
  OBVIOUS
<1>1. "delete" \in CallKinds
  BY CallAtFacts
<1>2. \A c \in Clients : step[c] = 1 /\ \A kind \in CallKinds : answer[<<c, kind>>] = "not called"
  BY DEF Init
<1>3. OnlyCalled
  BY DEF Init, OnlyCalled
<1>4. DeleteIsLast
  <2>1. \A c \in Clients : step[c] = 1 /\ answer[<<c, "delete">>] = "not called"
    BY <1>1, <1>2
  <2>2. 1 # 5
    OBVIOUS
  <2> QED BY <2>1, <2>2, Zenon DEF DeleteIsLast, Done
<1>5. \A c \in Clients : DeletionToCome(c)
  BY <1>1, <1>2 DEF DeletionToCome
<1> QED BY <1>3, <1>4, <1>5, TypeInit DEF CleanInv

LEMMA CallClean ==
  ASSUME CleanInv, TypeOK', NEW c \in Clients, NEW kind \in CallKinds, Call(c, kind)
  PROVE  CleanInv'
<1>0. TypeOK
  BY DEF CleanInv
<1>1. /\ answer' = [answer EXCEPT ![<<c, kind>>] = "waiting"]
      /\ answer[<<c, kind>>] = "not called" /\ UNCHANGED <<present, step, replies>>
      /\ requests' = requests \cup {<<c, kind>>} /\ "delete" \in CallKinds
      /\ step[c] \in 1..4 /\ CallAt(step[c]) = kind
  BY <1>0, StepInRange, CallAtFacts DEF Call
<1>2. /\ answer'[<<c, kind>>] = "waiting"
      /\ \A d \in Clients, k \in CallKinds :
           ~(d = c /\ k = kind) => answer'[<<d, k>>] = answer[<<d, k>>]
  BY <1>0, <1>1, AnswerChanged DEF Answers
<1>3. \A r \in replies :
        ~(r.client = c /\ r.kind = kind) /\ r.client \in Clients /\ r.kind \in CallKinds
  BY <1>0, <1>1, Types DEF CleanInv, OnlyCalled
<1>4. OnlyCalled'
  <2>1. ASSUME NEW d \in Clients, NEW k \in CallKinds, <<d, k>> \in requests'
        PROVE  answer'[<<d, k>>] \in {"waiting", "timed out"}
    BY <1>1, <1>2, <2>1 DEF CleanInv, OnlyCalled
  <2>2. ASSUME NEW r \in replies'
        PROVE  answer'[<<r.client, r.kind>>] = "waiting" /\ <<r.client, r.kind>> \notin requests'
    <3>1. r \in replies /\ r.client \in Clients /\ r.kind \in CallKinds
      BY <1>1, <1>3, <2>2
    <3>2. ~(r.client = c /\ r.kind = kind)
      BY <1>3, <3>1
    <3>3. answer[<<r.client, r.kind>>] = "waiting" /\ <<r.client, r.kind>> \notin requests
      BY <3>1 DEF CleanInv, OnlyCalled
    <3>4. answer'[<<r.client, r.kind>>] = answer[<<r.client, r.kind>>]
      BY <1>2, <3>1, <3>2
    <3>5. <<r.client, r.kind>> \notin requests'
      BY <1>1, <3>2, <3>3
    <3> QED BY <3>3, <3>4, <3>5
  <2> QED BY <2>1, <2>2 DEF OnlyCalled
<1>5. step[c] < 4 => kind # "delete"
  <2>1. step[c] \in 1..4 /\ CallAt(step[c]) = kind
    BY <1>1
  <2> QED BY <2>1, CallAtFacts
<1>6. DeleteIsLast'
  BY <1>1, <1>2, <1>5 DEF CleanInv, DeleteIsLast
<1>7. ASSUME NEW d \in Clients, DeletionToCome(d) PROVE DeletionToCome(d)'
  <2>1. autoCreate' = autoCreate
    BY DEF Call
  <2>2. TimedOut(d) => TimedOut(d)'
    BY <1>1, <1>2, <2>1 DEF TimedOut, Makes
  <2> QED BY <1>1, <1>2, <1>3, <1>7, <2>2 DEF DeletionToCome, NoReply
<1> QED BY <1>1, <1>4, <1>6, <1>7 DEF CleanInv

LEMMA GoesOnClean ==
  ASSUME CleanInv, TypeOK', NEW c \in Clients, NEW kind \in CallKinds, Waits(c, kind),
         NEW end \in Results \cup {"timed out"},
         answer' = [answer EXCEPT ![<<c, kind>>] = end],
         step' = [step EXCEPT ![c] = @ + 1],
         replies' \subseteq replies, NoReply(c, kind)',
         end = "timed out" \/ ~NoReply(c, kind),
         UNCHANGED <<present, autoCreate, requests>>
  PROVE  CleanInv'
<1>0. TypeOK /\ end \in Answers
  BY DEF CleanInv, Answers
<1>1. /\ step[c] \in 1..4 /\ CallAt(step[c]) = kind /\ "delete" \in CallKinds
      /\ answer[<<c, kind>>] = "waiting" /\ Runs(c)
  BY <1>0, StepInRange, CallAtFacts DEF Waits
<1>2. /\ answer'[<<c, kind>>] = end
      /\ \A d \in Clients, k \in CallKinds :
           ~(d = c /\ k = kind) => answer'[<<d, k>>] = answer[<<d, k>>]
  BY <1>0, AnswerChanged
<1>3. \A r \in replies : r.client \in Clients /\ r.kind \in CallKinds
  BY <1>0, Types
<1>4. end = "timed out" \/ <<c, kind>> \notin requests
  BY DEF CleanInv, OnlyCalled, NoReply
<1>5. OnlyCalled'
  BY <1>2, <1>3, <1>4 DEF CleanInv, OnlyCalled, NoReply
<1>6. /\ step'[c] = step[c] + 1
      /\ \A d \in Clients : d # c => step'[d] = step[d]
  BY <1>0, <1>1, StepChanged
<1>7. /\ step'[c] < 4 => kind # "delete" /\ step[c] < 4
      /\ step'[c] = Done => kind = "delete"
  <2>1. /\ step[c] + 1 < 4 => CallAt(step[c]) # "delete" /\ step[c] < 4
        /\ step[c] + 1 = Done => CallAt(step[c]) = "delete"
    BY <1>1, DeleteBeforeDone, Zenon
  <2>2. CallAt(step[c]) = kind /\ step'[c] = step[c] + 1
    BY <1>1, <1>6, Zenon
  <2> QED BY <2>1, <2>2, Zenon
<1>8. end # "not called"
  BY DEF Results
<1>9. DeleteIsLast'
  BY <1>1, <1>2, <1>6, <1>7, <1>8 DEF CleanInv, DeleteIsLast
<1>10. ASSUME NEW d \in Clients, DeletionToCome(d) PROVE DeletionToCome(d)'
  <2>1. TimedOut(d) => TimedOut(d)'
    BY <1>1, <1>2 DEF TimedOut, Makes
  <2>2. CASE d # c
    BY <1>1, <1>2, <1>10, <2>1, <2>2 DEF DeletionToCome, NoReply
  <2>3. CASE d = c /\ kind # "delete"
    <3>1. answer[<<c, "delete">>] # "waiting"
      BY <1>0, <1>1, <2>3 DEF TypeOK
    <3>2. answer'[<<c, "delete">>] = answer[<<c, "delete">>]
      BY <1>1, <1>2, <2>3
    <3> QED BY <1>10, <2>1, <2>3, <3>1, <3>2 DEF DeletionToCome
  <2>4. CASE d = c /\ kind = "delete" /\ end = "timed out"
    BY <1>2, <2>4 DEF DeletionToCome, TimedOut
  <2>5. CASE d = c /\ kind = "delete" /\ end # "timed out"
    <3>1. answer[<<c, "delete">>] = "waiting" /\ ~NoReply(c, "delete")
      BY <1>1, <2>5
    <3> QED BY <1>10, <2>1, <2>5, <3>1 DEF DeletionToCome
  <2> QED BY <2>2, <2>3, <2>4, <2>5
<1> QED BY <1>5, <1>9, <1>10 DEF CleanInv

LEMMA ServeClean ==
  ASSUME CleanInv, TypeOK', NEW c \in Clients, NEW kind \in CallKinds, Serve(c, kind)
  PROVE  CleanInv'
<1>1. /\ <<c, kind>> \in requests /\ requests' = requests \ {<<c, kind>>}
      /\ UNCHANGED <<answer, step>> /\ present' = Effect(kind)
  BY DEF Serve, clientVars
<1>2. \A r \in replies' :
        r \in replies \/ (Waits(c, kind) /\ r.client = c /\ r.kind = kind)
  BY DEF Serve
<1>3. OnlyCalled'
  BY <1>1, <1>2 DEF CleanInv, OnlyCalled, Waits
<1>4. DeleteIsLast'
  BY <1>1 DEF CleanInv, DeleteIsLast
<1>5. present' => \E d \in Clients : DeletionToCome(d)'
  <2>0. autoCreate' = autoCreate /\ \A d \in Clients : TimedOut(d) => TimedOut(d)'
    BY <1>1 DEF Serve, TimedOut, Makes
  <2>1. CASE kind = "delete"
    BY <1>1, <2>1 DEF Effect
  <2>2. CASE kind # "delete" /\ ~Makes(kind)
    <3>1. present' = present
      BY <1>1, <2>2 DEF Effect, Makes, CallKinds, CleanInv, TypeOK
    <3>2. \A d \in Clients : DeletionToCome(d) => DeletionToCome(d)'
      BY <1>1, <1>2, <2>0, <2>2 DEF DeletionToCome, NoReply
    <3> QED BY <3>1, <3>2 DEF CleanInv
  <2>3. CASE Makes(kind)
    <3>1. CASE answer[<<c, kind>>] = "timed out"
      <4>1. TimedOut(c)
        BY <2>3, <3>1 DEF TimedOut
      <4> QED BY <2>0, <4>1 DEF DeletionToCome
    <3>2. CASE answer[<<c, kind>>] # "timed out"
      <4>1. answer[<<c, kind>>] = "waiting"
        BY <1>1, <3>2 DEF CleanInv, OnlyCalled
      <4>2. step[c] \in 1..4 /\ CallAt(step[c]) = kind
        BY <4>1, StepInRange DEF CleanInv, TypeOK, Runs
      <4>3. step[c] < 4
        BY <2>3, <4>2, CallAtFacts DEF Makes
      <4> QED BY <1>1, <4>3 DEF CleanInv, DeleteIsLast, DeletionToCome
    <3> QED BY <3>1, <3>2
  <2> QED BY <2>1, <2>2, <2>3
<1> QED BY <1>3, <1>4, <1>5 DEF CleanInv

LEMMA CleanStep == CleanInv /\ [Next]_vars => CleanInv'
<1> SUFFICES ASSUME CleanInv, [Next]_vars PROVE CleanInv'
  OBVIOUS
<1>0. TypeOK /\ TypeOK'
  BY TypeStep DEF CleanInv
<1>1. ASSUME NEW c \in Clients,
             FetchBrokerMetadata(c) \/ CreateTopics(c) \/ ListTopics(c) \/ DeleteTopics(c)
      PROVE  CleanInv'
  BY <1>0, <1>1, CallClean
     DEF FetchBrokerMetadata, CreateTopics, ListTopics, DeleteTopics, CallKinds
<1>2. ASSUME NEW c \in Clients, Return(c) PROVE CleanInv'
  <2>1. PICK r \in replies :
          /\ r.client = c /\ r.kind \in CallKinds /\ Waits(c, r.kind)
          /\ r.result \in Results
          /\ answer' = [answer EXCEPT ![<<c, r.kind>>] = r.result]
          /\ replies' = {s \in replies : s.client # c}
    BY <1>0, <1>2, ReturnEnds
  <2>2. replies' \subseteq replies /\ r.result \in Results \cup {"timed out"}
    BY <2>1
  <2>3. step' = [step EXCEPT ![c] = @ + 1] /\ UNCHANGED <<present, autoCreate, requests>>
    BY <1>2 DEF Return
  <2>4. ~NoReply(c, r.kind)
    BY <2>1 DEF NoReply
  <2>5. NoReply(c, r.kind)'
    BY <2>1 DEF NoReply
  <2> QED BY <1>0, <2>1, <2>2, <2>3, <2>4, <2>5, GoesOnClean
<1>3. ASSUME NEW c \in Clients, TimesOut(c) PROVE CleanInv'
  <2>1. PICK kind \in CallKinds :
          Waits(c, kind) /\ answer' = [answer EXCEPT ![<<c, kind>>] = "timed out"]
    BY <1>3 DEF TimesOut
  <2>2. /\ replies' \subseteq replies /\ "timed out" \in Results \cup {"timed out"}
        /\ step' = [step EXCEPT ![c] = @ + 1] /\ UNCHANGED <<present, autoCreate, requests>>
        /\ NoReply(c, kind)'
    BY <1>3 DEF TimesOut, NoReply
  <2> QED BY <1>0, <2>1, <2>2, GoesOnClean
<1>4. ASSUME NEW c \in Clients, NEW kind \in CallKinds, Serve(c, kind) PROVE CleanInv'
  BY <1>0, <1>4, ServeClean
<1>5. CASE UNCHANGED vars
  <2>1. UNCHANGED <<present, step, answer, requests, replies>>
    BY <1>5 DEF vars, clientVars
  <2>2. OnlyCalled' /\ DeleteIsLast'
    BY <2>1 DEF CleanInv, OnlyCalled, DeleteIsLast
  <2>3. \A c \in Clients : DeletionToCome(c) => DeletionToCome(c)'
    BY <1>5, <2>1 DEF DeletionToCome, NoReply, TimedOut, Makes, vars
  <2> QED BY <1>0, <2>1, <2>2, <2>3 DEF CleanInv
<1> QED BY <1>1, <1>2, <1>3, <1>4, <1>5 DEF Next, MainStep

LEMMA CleanImplies == CleanInv => NoTopicLeft
<1> SUFFICES ASSUME CleanInv, NEW c \in Clients, DeletionToCome(c), step[c] = Done
             PROVE  TimedOut(c)
  BY DEF CleanInv, NoTopicLeft
<1>1. "delete" \in CallKinds
  BY CallAtFacts
<1> QED BY <1>1 DEF CleanInv, TypeOK, DeleteIsLast, DeletionToCome

\* When all clients have returned, and neither a deletion nor a call that makes
\* the topic timed out, the topic is gone.
THEOREM NoTopicIsLeft == Spec => []NoTopicLeft
BY CleanInit, CleanStep, CleanImplies, PTL DEF Spec

-----------------------------------------------------------------------------
(* A list shows what its client has created: the topic is there from the    *)
(* creation on until some client asks for its deletion, which this client   *)
(* does only when its list has been answered or given up.                   *)

OthersDelete(c) == \E d \in Clients \ {c} : answer[<<d, "delete">>] # "not called"

\* The client was told that it has created the topic, or is about to be.
Created(c) ==
  \/ answer[<<c, "create">>] = "ok"
  \/ \E r \in replies : r.client = c /\ r.kind = "create" /\ r.result = "ok"

SeesTopic(c) ==
  /\ step[c] < 4 => present
  /\ answer[<<c, "list">>] # "not listed"
  /\ \A r \in replies : ~(r.client = c /\ r.kind = "list" /\ r.result = "not listed")

\* The topics are listed after the creation.
ListIsThird == \A c \in Clients : step[c] < 3 => answer[<<c, "list">>] = "not called"

ListInv ==
  /\ CleanInv
  /\ ListIsThird
  /\ \A c \in Clients : Created(c) => OthersDelete(c) \/ SeesTopic(c)

LEMMA CallAtOrder ==
  /\ "create" \in CallKinds /\ "list" \in CallKinds
  /\ \A i \in 1..4 : /\ CallAt(i) = "create" => i < 3
                     /\ CallAt(i) = "list" => ~(i < 3) /\ i < 4
BY DEF CallAt, CallKinds

\* What is to come after a call was to come before it.
LEMMA StepForward ==
  ASSUME TypeOK, NEW c \in Clients, Runs(c), step' = [step EXCEPT ![c] = @ + 1]
  PROVE  \A d \in Clients : (step'[d] < 3 => step[d] < 3) /\ (step'[d] < 4 => step[d] < 4)
<1>1. step[c] \in 1..4
  BY StepInRange
<1>2. /\ step[c] + 1 < 3 => step[c] < 3
      /\ step[c] + 1 < 4 => step[c] < 4
  BY <1>1
<1> QED BY <1>2, StepChanged

LEMMA ListInit == Init => ListInv
<1> SUFFICES ASSUME Init PROVE ListInv
  OBVIOUS
<1>1. \A c \in Clients, kind \in CallKinds : answer[<<c, kind>>] = "not called"
  BY DEF Init
<1>2. replies = {}
  BY DEF Init
<1>3. ListIsThird /\ \A c \in Clients : ~Created(c)
  BY <1>1, <1>2, CallAtOrder DEF ListIsThird, Created
<1> QED BY <1>3, CleanInit DEF ListInv

\* A call that was made stays one.
LEMMA OthersDeleteStays ==
  ASSUME TypeOK, NEW c \in Clients, NEW kind \in CallKinds,
         NEW new \in Answers, new # "not called",
         answer' = [answer EXCEPT ![<<c, kind>>] = new]
  PROVE  \A d \in Clients : OthersDelete(d) => OthersDelete(d)'
BY AnswerChanged, CallAtFacts DEF OthersDelete

LEMMA CallLists ==
  ASSUME ListInv, CleanInv', NEW c \in Clients, NEW kind \in CallKinds, Call(c, kind)
  PROVE  ListInv'
<1>0. TypeOK /\ "waiting" \in Answers
  BY DEF ListInv, CleanInv, Answers
<1>1. /\ answer' = [answer EXCEPT ![<<c, kind>>] = "waiting"]
      /\ UNCHANGED <<present, step, replies>>
      /\ step[c] \in 1..4 /\ CallAt(step[c]) = kind
  BY <1>0, StepInRange DEF Call
<1>2. /\ answer'[<<c, kind>>] = "waiting"
      /\ \A d \in Clients, k \in CallKinds :
           ~(d = c /\ k = kind) => answer'[<<d, k>>] = answer[<<d, k>>]
  BY <1>0, <1>1, AnswerChanged
<1>3. ListIsThird'
  <2>1. step[c] < 3 => kind # "list"
    BY <1>1, CallAtOrder
  <2> QED BY <1>1, <1>2, <2>1, CallAtOrder DEF ListInv, ListIsThird
<1>4. ASSUME NEW d \in Clients, Created(d)' PROVE Created(d)
  BY <1>1, <1>2, <1>4, CallAtOrder DEF Created
<1>5. ASSUME NEW d \in Clients, SeesTopic(d) PROVE SeesTopic(d)'
  BY <1>1, <1>2, <1>5, CallAtOrder DEF SeesTopic
<1>6. \A d \in Clients : OthersDelete(d) => OthersDelete(d)'
  BY <1>0, <1>1, OthersDeleteStays
<1> QED BY <1>3, <1>4, <1>5, <1>6 DEF ListInv

LEMMA GoesOnLists ==
  ASSUME ListInv, CleanInv', NEW c \in Clients, NEW kind \in CallKinds, Waits(c, kind),
         NEW end \in Results \cup {"timed out"},
         \/ end = "timed out"
         \/ \E r \in replies : r.client = c /\ r.kind = kind /\ r.result = end,
         answer' = [answer EXCEPT ![<<c, kind>>] = end],
         step' = [step EXCEPT ![c] = @ + 1],
         replies' \subseteq replies, UNCHANGED present
  PROVE  ListInv'
<1>0. TypeOK /\ end \in Answers /\ end # "not called"
  BY DEF ListInv, CleanInv, Answers, Results
<1>1. step[c] \in 1..4 /\ CallAt(step[c]) = kind /\ Runs(c)
  BY <1>0, StepInRange DEF Waits
<1>2. /\ answer'[<<c, kind>>] = end
      /\ \A d \in Clients, k \in CallKinds :
           ~(d = c /\ k = kind) => answer'[<<d, k>>] = answer[<<d, k>>]
  BY <1>0, AnswerChanged
<1>3. \A d \in Clients : (step'[d] < 3 => step[d] < 3) /\ (step'[d] < 4 => step[d] < 4)
  BY <1>0, <1>1, StepForward
<1>4. ASSUME NEW d \in Clients, step'[d] < 3 PROVE answer'[<<d, "list">>] = "not called"
  <2>1. step[d] < 3 /\ answer[<<d, "list">>] = "not called"
    BY <1>3, <1>4 DEF ListInv, ListIsThird
  <2>2. ~(d = c /\ kind = "list")
    BY <1>1, <2>1, CallAtOrder, Zenon
  <2> QED BY <1>2, <2>1, <2>2, CallAtOrder
<1>5. ASSUME NEW d \in Clients, Created(d)' PROVE Created(d)
  <2>1. CASE \E r \in replies' : r.client = d /\ r.kind = "create" /\ r.result = "ok"
    BY <2>1 DEF Created
  <2>2. CASE answer'[<<d, "create">>] = "ok" /\ ~(d = c /\ kind = "create")
    BY <1>2, <2>2, CallAtOrder DEF Created
  <2>3. CASE answer'[<<d, "create">>] = "ok" /\ d = c /\ kind = "create"
    BY <1>2, <2>3 DEF Created
  <2> QED BY <1>5, <2>1, <2>2, <2>3 DEF Created
<1>6. ASSUME NEW d \in Clients, SeesTopic(d) PROVE SeesTopic(d)'
  <2>1. step'[d] < 4 => present'
    BY <1>3, <1>6 DEF SeesTopic
  <2>2. answer'[<<d, "list">>] # "not listed"
    <3>1. CASE d = c /\ kind = "list"
      BY <1>2, <1>6, <3>1 DEF SeesTopic
    <3>2. CASE ~(d = c /\ kind = "list")
      BY <1>2, <1>6, <3>2, CallAtOrder DEF SeesTopic
    <3> QED BY <3>1, <3>2
  <2> QED BY <1>6, <2>1, <2>2 DEF SeesTopic
<1>7. \A d \in Clients : OthersDelete(d) => OthersDelete(d)'
  BY <1>0, OthersDeleteStays
<1> QED BY <1>4, <1>5, <1>6, <1>7 DEF ListInv, ListIsThird

LEMMA ServeLists ==
  ASSUME ListInv, CleanInv', NEW c \in Clients, NEW kind \in CallKinds, Serve(c, kind)
  PROVE  ListInv'
<1>0. TypeOK /\ OnlyCalled /\ DeleteIsLast
  BY DEF ListInv, CleanInv
<1>1. /\ <<c, kind>> \in requests /\ UNCHANGED <<answer, step>> /\ present' = Effect(kind)
      /\ present \in BOOLEAN
  BY <1>0 DEF Serve, clientVars, TypeOK
<1>2. \A r \in replies' :
        \/ r \in replies
        \/ Waits(c, kind) /\ r.client = c /\ r.kind = kind /\ r.result = Result(kind)
  BY DEF Serve
<1>3. ListIsThird'
  BY <1>1 DEF ListInv, ListIsThird
<1>4. \A d \in Clients : OthersDelete(d) => OthersDelete(d)'
  BY <1>1 DEF OthersDelete
<1>5. ASSUME NEW d \in Clients, SeesTopic(d) PROVE OthersDelete(d)' \/ SeesTopic(d)'
  <2>1. CASE kind = "delete" /\ d # c
    <3>1. answer[<<c, "delete">>] # "not called"
      BY <1>0, <1>1, <2>1 DEF OnlyCalled
    <3> QED BY <1>1, <2>1, <3>1 DEF OthersDelete
  <2>2. CASE kind = "delete" /\ d = c
    <3>1. answer[<<c, "delete">>] # "not called"
      BY <1>0, <1>1, <2>2 DEF OnlyCalled
    <3>2. ~(step'[c] < 4)
      BY <1>0, <1>1, <3>1 DEF DeleteIsLast
    <3> QED BY <1>1, <1>2, <1>5, <2>2, <3>2 DEF SeesTopic
  <2>3. CASE kind = "list"
    <3>1. present' = present /\ step' = step /\ answer' = answer
      BY <1>1, <2>3 DEF Effect
    <3>2. Waits(c, "list") => step[c] < 4
      BY <1>0, StepInRange, CallAtOrder DEF Waits
    <3>3. d = c /\ Waits(c, "list") => Result("list") = "listed"
      BY <1>5, <3>2 DEF SeesTopic, Result
    <3>4. \A r \in replies' : ~(r.client = d /\ r.kind = "list" /\ r.result = "not listed")
      BY <1>2, <1>5, <2>3, <3>3 DEF SeesTopic
    <3>5. (step'[d] < 4 => present') /\ answer'[<<d, "list">>] # "not listed"
      BY <1>5, <3>1, Zenon DEF SeesTopic
    <3> QED BY <3>4, <3>5 DEF SeesTopic
  <2>4. CASE kind \in {"metadata", "create"}
    <3>1. present => present'
      BY <1>1, <2>4 DEF Effect
    <3> QED BY <1>1, <1>2, <1>5, <2>4, <3>1 DEF SeesTopic
  <2> QED BY <2>1, <2>2, <2>3, <2>4 DEF CallKinds
<1>6. ASSUME NEW d \in Clients, Created(d)', ~Created(d) PROVE SeesTopic(d)'
  <2>1. d = c /\ kind = "create" /\ Waits(c, "create")
    BY <1>1, <1>2, <1>6 DEF Created
  <2>2. present'
    BY <1>1, <2>1 DEF Effect
  <2>3. step[c] < 3
    <3>1. step[c] \in 1..4
      BY <1>0, <2>1, StepInRange DEF Waits
    <3>2. CallAt(step[c]) = "create"
      BY <2>1 DEF Waits
    <3> QED BY <3>1, <3>2, CallAtOrder, Zenon
  <2>4. answer[<<c, "list">>] = "not called"
    BY <2>3 DEF ListInv, ListIsThird
  <2>5. \A r \in replies : ~(r.client = c /\ r.kind = "list")
    BY <1>0, <2>4 DEF OnlyCalled
  <2> QED BY <1>1, <1>2, <2>1, <2>2, <2>4, <2>5 DEF SeesTopic
<1> QED BY <1>3, <1>4, <1>5, <1>6 DEF ListInv

LEMMA ListStep == ListInv /\ [Next]_vars => ListInv'
<1> SUFFICES ASSUME ListInv, [Next]_vars PROVE ListInv'
  OBVIOUS
<1>0. TypeOK /\ CleanInv'
  BY CleanStep DEF ListInv, CleanInv
<1>1. ASSUME NEW c \in Clients,
             FetchBrokerMetadata(c) \/ CreateTopics(c) \/ ListTopics(c) \/ DeleteTopics(c)
      PROVE  ListInv'
  BY <1>0, <1>1, CallLists
     DEF FetchBrokerMetadata, CreateTopics, ListTopics, DeleteTopics, CallKinds
<1>2. ASSUME NEW c \in Clients, Return(c) PROVE ListInv'
  <2>1. PICK r \in replies :
          /\ r.client = c /\ r.kind \in CallKinds /\ Waits(c, r.kind)
          /\ r.result \in Results
          /\ answer' = [answer EXCEPT ![<<c, r.kind>>] = r.result]
          /\ replies' = {s \in replies : s.client # c}
    BY <1>0, <1>2, ReturnEnds
  <2>2. /\ replies' \subseteq replies /\ r.result \in Results \cup {"timed out"}
        /\ \E s \in replies : s.client = c /\ s.kind = r.kind /\ s.result = r.result
    BY <2>1
  <2>3. step' = [step EXCEPT ![c] = @ + 1] /\ UNCHANGED present
    BY <1>2 DEF Return
  <2> QED BY <1>0, <2>1, <2>2, <2>3, GoesOnLists
<1>3. ASSUME NEW c \in Clients, TimesOut(c) PROVE ListInv'
  <2>1. PICK kind \in CallKinds :
          Waits(c, kind) /\ answer' = [answer EXCEPT ![<<c, kind>>] = "timed out"]
    BY <1>3 DEF TimesOut
  <2>2. /\ replies' \subseteq replies /\ "timed out" \in Results \cup {"timed out"}
        /\ step' = [step EXCEPT ![c] = @ + 1] /\ UNCHANGED present
    BY <1>3 DEF TimesOut
  <2> QED BY <1>0, <2>1, <2>2, GoesOnLists
<1>4. ASSUME NEW c \in Clients, NEW kind \in CallKinds, Serve(c, kind) PROVE ListInv'
  BY <1>0, <1>4, ServeLists
<1>5. CASE UNCHANGED vars
  <2>1. UNCHANGED <<present, step, answer, replies>>
    BY <1>5 DEF vars, clientVars
  <2>2. ListIsThird'
    BY <2>1 DEF ListInv, ListIsThird
  <2>3. \A c \in Clients : /\ Created(c)' => Created(c)
                           /\ OthersDelete(c) => OthersDelete(c)'
                           /\ SeesTopic(c) => SeesTopic(c)'
    BY <2>1 DEF Created, OthersDelete, SeesTopic
  <2> QED BY <1>0, <2>2, <2>3 DEF ListInv
<1> QED BY <1>1, <1>2, <1>3, <1>4, <1>5 DEF Next, MainStep

\* A client that has created the topic finds it in its list, unless another
\* one has called for its deletion; its own deletion never comes before.
THEOREM CreatedIsListed == Spec => []ListShowsCreated
<1>1. ListInv => ListShowsCreated
  BY DEF ListInv, ListShowsCreated, Created, OthersDelete, SeesTopic
<1> QED BY <1>1, ListInit, ListStep, PTL DEF Spec

=============================================================================
