-------------------------------- MODULE Codec --------------------------------
(***************************************************************************)
(* Message objects at work: clients fill, merge, copy, swap, write and     *)
(* read Vocabulary objects, as KafkaProducer does with a new one for each  *)
(* message and KafkaConsumer with one object for all records it reads; the *)
(* log sink writes its one ProtoLog for each message, the UDP server reads *)
(* it from a buffer of RecvSize bytes.                                     *)
(*                                                                         *)
(* What is read need not be what was written: a record may come from       *)
(* another program, with fields this one does not know, or be cut off.     *)
(***************************************************************************)
EXTENDS Messages, FiniteSets

CONSTANTS
  Objects,   \* the Vocabulary objects
  Words,     \* the objects getVocabulary can make of a JSON element
  Dates, Severities, Texts,  \* the fields of log messages
  RecvSize,  \* the size of the server's recvBuffer
  MaxCalls   \* bound: calls made

HeaderSize(date, severity) == StringFieldSize(date) + StringFieldSize(severity)

\* JSON has no fields a Vocabulary does not know.  Date and severity are ASCII,
\* and always fit into recvBuffer, which has 4096 bytes.
ASSUME CodecAssumption ==
  /\ \A w \in Words : /\ w \in VocabularyObjects /\ VocabularyContent(w) = w
                      /\ w.unknown = <<>>
                      /\ \A i \in DOMAIN w.synonyms : w.synonyms[i].unknown = <<>>
  /\ \A s \in Dates \cup Severities : s \in Seq(0..NotUtf8) /\ IsUtf8(s)
  /\ Texts \subseteq Seq(0..NotUtf8)
  /\ \A d \in Dates, s \in Severities : HeaderSize(d, s) < RecvSize
  /\ RecvSize \in Nat /\ MaxCalls \in Nat

VARIABLES
  vocabulary,  \* the Vocabulary objects
  wire,        \* the bytes written last
  origin,      \* the content they stand for, or none
  parsed,      \* whether the last ParseFromArray succeeded
  log,         \* CustomLogSink::log
  datagram,    \* the datagrams in the server's buffer, at most one
  line,        \* the messages the server printed last, at most one
  calls        \* calls made so far

vocabularyVars == <<vocabulary, wire, origin, parsed>>
logVars == <<log, datagram, line>>
vars == <<vocabularyVars, logVars, calls>>

None == {}

Init ==
  /\ vocabulary = [o \in Objects |-> VocabularyDefault]
  /\ wire = <<>>
  /\ origin = {VocabularyDefault}
  /\ parsed = TRUE
  /\ log = ProtoLogDefault
  /\ datagram = None
  /\ line = None
  /\ calls = 0

Call == calls < MaxCalls /\ calls' = calls + 1
Becomes(o, m) == vocabulary' = [vocabulary EXCEPT ![o] = m]
ObjectsOnly == UNCHANGED <<wire, origin, parsed, logVars>>

-----------------------------------------------------------------------------
(* Calls on Vocabulary objects. *)

\* getVocabulary fills a new object.
GetVocabulary(o) ==
  /\ Call
  /\ \E w \in Words : Becomes(o, w)
  /\ ObjectsOnly

Edit(o) ==
  /\ Call
  /\ \E m \in VocabularyEdits(vocabulary[o]) : Becomes(o, m)
  /\ ObjectsOnly

Clear(o) ==
  /\ Call
  /\ Becomes(o, VocabularyClear(vocabulary[o]))
  /\ ObjectsOnly

MergeFrom(o, from) ==
  /\ o # from
  /\ Call
  /\ Becomes(o, VocabularyMerge(vocabulary[o], vocabulary[from]))
  /\ ObjectsOnly

\* Copying an object to itself leaves it alone.
CopyFrom(o, from) ==
  /\ o # from
  /\ Call
  /\ Becomes(o, VocabularyCopyFrom(vocabulary[o], vocabulary[from]))
  /\ ObjectsOnly

\* A new object, constructed as a copy, takes the place of an old one.
CopyConstruct(o, from) ==
  /\ Call
  /\ Becomes(o, VocabularyCopy(vocabulary[from]))
  /\ ObjectsOnly

\* Swap, and assignment from an object that is given up.
Swap(o, other) ==
  /\ o # other
  /\ Call
  /\ vocabulary' = [vocabulary EXCEPT ![o] = vocabulary[other], ![other] = vocabulary[o]]
  /\ ObjectsOnly

\* sendMessage asks for the size, makes a buffer of it and writes into it.
SerializeToArray(o) ==
  /\ Call
  /\ Becomes(o, VocabularySized(vocabulary[o]))
  /\ LET written == VocabularyWrite(vocabulary'[o])
     IN wire' = SubSeq(written, 1, VocabularySize(vocabulary[o]))
  /\ origin' = {VocabularyContent(vocabulary[o])}
  /\ UNCHANGED <<parsed, logVars>>

\* The bytes are those of a newer program, which sets a field of its own.
Extend ==
  /\ wire # <<>>
  /\ Call
  /\ wire' = wire \o <<56, 1>>
  /\ origin' = {[m EXCEPT !.unknown = @ \o <<56, 1>>] : m \in origin}
  /\ UNCHANGED <<vocabulary, parsed, logVars>>

\* The bytes end too early.
CutOff ==
  /\ Call
  /\ \E n \in 1..Len(wire) - 1 : wire' = SubSeq(wire, 1, n)
  /\ origin' = None
  /\ UNCHANGED <<vocabulary, parsed, logVars>>

\* processRecord reads them into an object that has been read into before.
Parse(o) ==
  /\ Call
  /\ LET r == ParseFromArray(vocabulary[o], wire)
     IN Becomes(o, r.msg) /\ parsed' = r.ok
  /\ UNCHANGED <<wire, origin, logVars>>

-----------------------------------------------------------------------------
(* Log messages. *)

\* CustomLogSink::send fills and writes the log; what does not fit into
\* recvBuffer is lost.
Send(date, severity, text) ==
  /\ Call
  /\ datagram = None
  /\ log' = SetLogMessage(SetLogSeverity(SetLogDate(ProtoLogClear(log), date), severity), text)
  /\ LET written == SubSeq(ProtoLogWrite(log'), 1, ProtoLogSize(log'))
     IN datagram' = {[bytes |-> SubSeq(written, 1, IF Len(written) < RecvSize THEN Len(written)
                                                   ELSE RecvSize),
                      cut |-> Len(written) > RecvSize]}
  /\ line' = None
  /\ UNCHANGED vocabularyVars

\* Mutant of HandleReceive: the message is printed without a look at the result.
HandleReceiveUnchecked ==
  /\ Call
  /\ \E d \in datagram :
       LET r == ProtoLogReadAll(ProtoLogDefault, d.bytes)
       IN line' = {[shown |-> TRUE, of |-> r.msg, cut |-> d.cut]}
  /\ datagram' = None
  /\ UNCHANGED <<vocabularyVars, log>>

\* handleReceive reads the datagram into a new ProtoLog and prints it.
HandleReceive ==
  /\ Call
  /\ \E d \in datagram :
       LET r == ProtoLogReadAll(ProtoLogDefault, d.bytes)
       IN line' = {[shown |-> r.ok, of |-> r.msg, cut |-> d.cut]}
  /\ datagram' = None
  /\ UNCHANGED <<vocabularyVars, log>>

-----------------------------------------------------------------------------

Next ==
  \/ \E o \in Objects :
       \/ GetVocabulary(o) \/ Edit(o) \/ Clear(o) \/ SerializeToArray(o) \/ Parse(o)
       \/ \E other \in Objects :
            MergeFrom(o, other) \/ CopyFrom(o, other) \/ CopyConstruct(o, other)
              \/ Swap(o, other)
  \/ Extend \/ CutOff
  \/ \E d \in Dates, s \in Severities, t \in Texts : Send(d, s, t)
  \/ HandleReceive

Spec == Init /\ [][Next]_vars

-----------------------------------------------------------------------------
(* Properties. *)

\* The state is of the shape of the objects; and what a repeated field keeps
\* of the elements it was cleared of is clear, or the next element handed out
\* would start with what another one was filled with.
TypeOK ==
  /\ vocabulary \in [Objects -> VocabularyObjects]
  /\ wire \in Seq(Nat) /\ origin \subseteq VocabularyObjects /\ parsed \in BOOLEAN
  /\ log \in LogObjects
  /\ \A d \in datagram : Len(d.bytes) <= RecvSize
  /\ \A l \in line : l.of \in LogObjects
  /\ \A o \in Objects : LET spare == vocabulary[o].spare
       IN \A i \in DOMAIN spare : SynonymContent(spare[i]) = SynonymDefault

SynonymIsUtf8(m) ==
  IsUtf8(m.synonym) /\ IsUtf8(m.turkish_meaning) /\ IsUtf8(m.sample_sentences)
VocabularyIsUtf8(m) ==
  /\ IsUtf8(m.word) /\ IsUtf8(m.macmillan_url) /\ IsUtf8(m.youglish_url)
  /\ IsUtf8(m.reverso_url)
  /\ \A i \in DOMAIN m.synonyms : SynonymIsUtf8(m.synonyms[i])

\* A record that was written from a message is read as this message, with
\* nothing of what was in the object before, whoever filled it how; unless a
\* string is not UTF-8: it is written all the same, and never read.
ReadsWhatWasWritten ==
  [][\A o \in Objects, m \in origin :
       Parse(o) => IF VocabularyIsUtf8(m)
                   THEN parsed' /\ VocabularyContent(vocabulary'[o]) = m
                   ELSE ~parsed']_vars

\* The buffer sendMessage makes is exactly as long as the message it writes.
SizeIsExact ==
  \A o \in Objects :
    VocabularySize(vocabulary[o]) = Len(VocabularyWrite(VocabularySized(vocabulary[o])))

\* Merging a message into an object is reading it behind the one written from
\* the object: the last of two strings counts, elements are put together.
MergeIsReadingBoth ==
  \A o, from \in Objects :
    LET Bytes(m) == VocabularyWrite(VocabularySized(m))
        both == ParseFromArray(VocabularyDefault, Bytes(vocabulary[o]) \o Bytes(vocabulary[from]))
    IN both.ok => VocabularyContent(both.msg)
                    = VocabularyContent(VocabularyMerge(vocabulary[o], vocabulary[from]))

\* A copy has the content of what it is copied from, whatever it held before.
CopiesAreEqual ==
  [][\A o, from \in Objects :
       CopyFrom(o, from) \/ CopyConstruct(o, from)
         => VocabularyContent(vocabulary'[o]) = VocabularyContent(vocabulary[from])]_vars

\* The server prints a log message as it was logged, or says that it cannot
\* read it, which it does of the messages recvBuffer cut off and of those that
\* are not UTF-8; it never prints a part of one.
LogIsShownWhole ==
  \A l \in line :
    IF l.cut \/ ~IsUtf8(log.log_message) THEN ~l.shown ELSE l.shown /\ l.of = log

=============================================================================
