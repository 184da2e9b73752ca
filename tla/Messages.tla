------------------------------ MODULE Messages ------------------------------
(***************************************************************************)
(* The classes protoc generates for Vocabulary.proto and ProtoLog.proto:   *)
(* the state of an object, what each of its operations makes of it, and    *)
(* the bytes it is written as and read from.                               *)
(*                                                                         *)
(* A string is a short sequence of bytes; the byte NotUtf8 stands for      *)
(* whatever is not UTF-8.  Lengths and numbers are below 128, so that each *)
(* is one byte on the wire.  The libraries below the classes (the wire     *)
(* format, the parser that walks their tables, RepeatedPtrField) are       *)
(* modelled as the generated code uses them.                               *)
(***************************************************************************)
EXTENDS Integers, Sequences, SequencesExt

CONSTANTS
  Strings,  \* the strings the setters are called with
  Ids       \* the numbers set_id is called with

NotUtf8 == 255

ASSUME MessagesAssumption ==
  /\ <<>> \in Strings
  /\ \A s \in Strings : s \in Seq(0..NotUtf8) /\ Len(s) < 128
  /\ 0 \in Ids /\ Ids \subseteq 0..127

-----------------------------------------------------------------------------
(* The wire format. *)

IsUtf8(s) == \A i \in DOMAIN s : s[i] # NotUtf8

\* A string that is set, after its tag and its length; an empty one is not
\* written.
StringField(tag, s) == IF s = <<>> THEN <<>> ELSE <<tag, Len(s)>> \o s
StringFieldSize(s) == IF s = <<>> THEN 0 ELSE 1 + (1 + Len(s))

\* What a string is merged into stays when the string is empty.
Merged(new, old) == IF new = <<>> THEN old ELSE new

Broken == [tag |-> 0, value |-> <<>>]

\* The fields in the bytes of a message: a tag whose last three bits are 0 is
\* followed by a number, 2 by a length and as many bytes; anything else, and
\* bytes that end too early, break the rest.
FieldsIn(wire) ==
  LET End == Len(wire) + 1
      from[i \in 1..End] ==
        IF i = End THEN <<>>
        ELSE LET last == i + 1 + (IF wire[i] % 8 = 2 THEN wire[i + 1] ELSE 0)
             IN  IF i + 1 = End \/ wire[i] % 8 \notin {0, 2} \/ last >= End
                 THEN <<Broken>>
                 ELSE <<[tag |-> wire[i],
                         value |-> SubSeq(wire, IF wire[i] % 8 = 0 THEN i + 1 ELSE i + 2, last)]>>
                        \o from[last + 1]
  IN from[1]

FieldBytes(f) ==
  IF f.tag % 8 = 0 THEN <<f.tag>> \o f.value ELSE <<f.tag, Len(f.value)>> \o f.value

\* Reading: whether it went well so far, and the message read into.
Reading(m) == [ok |-> TRUE, msg |-> m]

\* A string is stored before it is checked.
ReadString(r, name, f) == [ok |-> IsUtf8(f.value), msg |-> [r.msg EXCEPT ![name] = f.value]]
ReadUnknown(r, f) == [r EXCEPT !.msg.unknown = @ \o FieldBytes(f)]
-----------------------------------------------------------------------------
(* Synonym. *)

SynonymObjects == [id : Nat, synonym : Seq(Nat), turkish_meaning : Seq(Nat),
                   sample_sentences : Seq(Nat), unknown : Seq(Nat), cached_size : Nat]

SynonymDefault == [id |-> 0, synonym |-> <<>>, turkish_meaning |-> <<>>,
                   sample_sentences |-> <<>>, unknown |-> <<>>, cached_size |-> 0]

\* The accessors: set, mutable and set_allocated may leave any string in a
\* field, clear and release leave it empty.
EditId(m) == {[m EXCEPT !.id = n] : n \in Ids}
EditSynonym(m) == {[m EXCEPT !.synonym = s] : s \in Strings}
EditTurkishMeaning(m) == {[m EXCEPT !.turkish_meaning = s] : s \in Strings}
EditSampleSentences(m) == {[m EXCEPT !.sample_sentences = s] : s \in Strings}
SynonymEdits(m) == EditId(m) \cup EditSynonym(m) \cup EditTurkishMeaning(m)
                     \cup EditSampleSentences(m)

\* Mutant of SynonymClear: the number is forgotten.
SynonymClearButId(m) == [SynonymDefault EXCEPT !.id = m.id, !.cached_size = m.cached_size]

\* The size of the last serialization is the one thing that stays.
SynonymClear(m) == [SynonymDefault EXCEPT !.cached_size = m.cached_size]

SynonymWrite(m) ==
  (IF m.id = 0 THEN <<>> ELSE <<8, m.id>>)
    \o StringField(18, m.synonym)
    \o StringField(26, m.turkish_meaning)
    \o StringField(34, m.sample_sentences)
    \o m.unknown

SynonymSize(m) ==
  StringFieldSize(m.synonym) + StringFieldSize(m.turkish_meaning)
    + StringFieldSize(m.sample_sentences)
    + (IF m.id = 0 THEN 0 ELSE 2)
    + Len(m.unknown)

\* ByteSizeLong also keeps the size it returns.
SynonymSized(m) == [m EXCEPT !.cached_size = SynonymSize(m)]

SynonymMerge(to, from) ==
  [to EXCEPT !.synonym = Merged(from.synonym, @),
             !.turkish_meaning = Merged(from.turkish_meaning, @),
             !.sample_sentences = Merged(from.sample_sentences, @),
             !.id = IF from.id # 0 THEN from.id ELSE @,
             !.unknown = @ \o from.unknown]

SynonymCopyFrom(to, from) == SynonymMerge(SynonymClear(to), from)

\* InternalSwap exchanges everything but the sizes kept: m with the fields of o.
SynonymSwapped(m, o) == [o EXCEPT !.cached_size = m.cached_size]

SynonymTable == [tag \in {8, 18, 26, 34} |->
  CASE tag = 8 -> "id" [] tag = 18 -> "synonym" [] tag = 26 -> "turkish_meaning"
    [] tag = 34 -> "sample_sentences"]

SynonymRead(r, f) ==
  IF ~r.ok \/ f = Broken THEN [r EXCEPT !.ok = FALSE]
  ELSE CASE f.tag \notin DOMAIN SynonymTable -> ReadUnknown(r, f)
         [] f.tag = 8 -> [r EXCEPT !.msg.id = f.value[1]]
         [] OTHER -> ReadString(r, SynonymTable[f.tag], f)

SynonymReadAll(m, wire) == FoldLeft(SynonymRead, Reading(m), FieldsIn(wire))

\* What a reader of the object can see of it.
SynonymContent(m) == [m EXCEPT !.cached_size = 0]

-----------------------------------------------------------------------------
(* Vocabulary.  The elements a repeated field is cleared of stay allocated, *)
(* cleared themselves, and are the next to be handed out: spare.            *)

VocabularyObjects == [word : Seq(Nat), synonyms : Seq(SynonymObjects),
                      macmillan_url : Seq(Nat), youglish_url : Seq(Nat),
                      reverso_url : Seq(Nat), unknown : Seq(Nat),
                      spare : Seq(SynonymObjects)]

VocabularyDefault == [word |-> <<>>, synonyms |-> <<>>, macmillan_url |-> <<>>,
                      youglish_url |-> <<>>, reverso_url |-> <<>>,
                      unknown |-> <<>>, spare |-> <<>>]

Cleared(elements) == [i \in DOMAIN elements |-> SynonymClear(elements[i])]

VocabularyClear(m) ==
  [VocabularyDefault EXCEPT !.spare = Cleared(m.synonyms) \o m.spare]

\* RepeatedPtrField: a spare element is handed out before a new one is made.
AddSynonym(m) ==
  IF m.spare = <<>>
  THEN [m EXCEPT !.synonyms = Append(@, SynonymDefault)]
  ELSE [m EXCEPT !.synonyms = Append(@, Head(m.spare)), !.spare = Tail(@)]

\* The last element, as replaced by s.
WithLast(m, s) == [m EXCEPT !.synonyms[Len(m.synonyms)] = s]

AddMerged(m, s) == LET a == AddSynonym(m) IN WithLast(a, SynonymMerge(Last(a.synonyms), s))

EditWord(m) == {[m EXCEPT !.word = s] : s \in Strings}

\* What can become of the repeated field: an element more, none, or one of them
\* edited, copied to, or swapped with another.
ElementsCleared(m) == [m EXCEPT !.synonyms = <<>>, !.spare = Cleared(m.synonyms) \o @]
ElementCopied(m, i, j) == [m EXCEPT !.synonyms[i] = SynonymCopyFrom(@, m.synonyms[j])]
ElementsSwapped(m, i, j) ==
  [m EXCEPT !.synonyms[i] = SynonymSwapped(@, m.synonyms[j]),
            !.synonyms[j] = SynonymSwapped(@, m.synonyms[i])]
ElementEdits(m, i) ==
  {[m EXCEPT !.synonyms[i] = s] : s \in SynonymEdits(m.synonyms[i])}
    \cup {ElementCopied(m, i, j) : j \in DOMAIN m.synonyms}
    \cup {ElementsSwapped(m, i, j) : j \in DOMAIN m.synonyms}
EditSynonyms(m) ==
  {AddSynonym(m), ElementsCleared(m)}
    \cup UNION {ElementEdits(m, i) : i \in DOMAIN m.synonyms}
EditMacmillanUrl(m) == {[m EXCEPT !.macmillan_url = s] : s \in Strings}
EditYouglishUrl(m) == {[m EXCEPT !.youglish_url = s] : s \in Strings}
EditReversoUrl(m) == {[m EXCEPT !.reverso_url = s] : s \in Strings}
VocabularyEdits(m) == EditWord(m) \cup EditSynonyms(m) \cup EditMacmillanUrl(m)
                        \cup EditYouglishUrl(m) \cup EditReversoUrl(m)

\* The copy constructor copies what there is to see and no more.
VocabularyCopy(from) == [from EXCEPT !.spare = <<>>,
  !.synonyms = [i \in DOMAIN @ |-> SynonymMerge(SynonymDefault, @[i])]]

\* An element is written after the size it has kept, not the size it has.
SynonymField(m) == <<18, m.cached_size>> \o SynonymWrite(m)

VocabularyWrite(m) ==
  StringField(10, m.word)
    \o FlattenSeq([i \in DOMAIN m.synonyms |-> SynonymField(m.synonyms[i])])
    \o StringField(26, m.macmillan_url)
    \o StringField(34, m.youglish_url)
    \o StringField(42, m.reverso_url)
    \o m.unknown

Sum2(a, b) == a + b

\* Mutant of VocabularySize: the length of an element is not counted.
VocabularySizeShort(m) ==
  Len(m.synonyms)
    + FoldLeft(Sum2, 0, [i \in DOMAIN m.synonyms |-> SynonymSize(m.synonyms[i])])
    + StringFieldSize(m.word) + StringFieldSize(m.macmillan_url)
    + StringFieldSize(m.youglish_url) + StringFieldSize(m.reverso_url)
    + Len(m.unknown)

VocabularySize(m) ==
  Len(m.synonyms)
    + FoldLeft(Sum2, 0, [i \in DOMAIN m.synonyms |-> 1 + SynonymSize(m.synonyms[i])])
    + StringFieldSize(m.word) + StringFieldSize(m.macmillan_url)
    + StringFieldSize(m.youglish_url) + StringFieldSize(m.reverso_url)
    + Len(m.unknown)

\* ByteSizeLong asks every element for its size, which the element keeps.
VocabularySized(m) ==
  [m EXCEPT !.synonyms = [i \in DOMAIN @ |-> SynonymSized(@[i])]]

\* Mutant of VocabularyMerge: the elements replace those there are.
VocabularyMergeOver(to, from) ==
  [FoldLeft(AddMerged, [to EXCEPT !.synonyms = <<>>], from.synonyms) EXCEPT
     !.word = Merged(from.word, @),
     !.macmillan_url = Merged(from.macmillan_url, @),
     !.youglish_url = Merged(from.youglish_url, @),
     !.reverso_url = Merged(from.reverso_url, @),
     !.unknown = @ \o from.unknown]

VocabularyMerge(to, from) ==
  [FoldLeft(AddMerged, to, from.synonyms) EXCEPT
     !.word = Merged(from.word, @),
     !.macmillan_url = Merged(from.macmillan_url, @),
     !.youglish_url = Merged(from.youglish_url, @),
     !.reverso_url = Merged(from.reverso_url, @),
     !.unknown = @ \o from.unknown]

\* Mutant of VocabularyCopyFrom: what the object holds is not cleared.
CopyWithoutClear(to, from) == VocabularyMerge(to, from)

VocabularyCopyFrom(to, from) == VocabularyMerge(VocabularyClear(to), from)

VocabularyTable == [tag \in {10, 18, 26, 34, 42} |->
  CASE tag = 10 -> "word" [] tag = 18 -> "synonyms" [] tag = 26 -> "macmillan_url"
    [] tag = 34 -> "youglish_url" [] tag = 42 -> "reverso_url"]

\* An element is read into the object the repeated field hands out.
ReadElement(r, f) ==
  LET a == AddSynonym(r.msg)
      e == SynonymReadAll(Last(a.synonyms), f.value)
  IN [ok |-> e.ok, msg |-> WithLast(a, e.msg)]

VocabularyRead(r, f) ==
  IF ~r.ok \/ f = Broken THEN [r EXCEPT !.ok = FALSE]
  ELSE CASE f.tag \notin DOMAIN VocabularyTable -> ReadUnknown(r, f)
         [] f.tag = 18 -> ReadElement(r, f)
         [] OTHER -> ReadString(r, VocabularyTable[f.tag], f)

VocabularyReadAll(m, wire) == FoldLeft(VocabularyRead, Reading(m), FieldsIn(wire))

\* Mutant of ParseFromArray: the object is read into as it is.
ParseWithoutClear(m, wire) == VocabularyReadAll(m, wire)

\* ParseFromArray clears the object and reads the bytes into it.
ParseFromArray(m, wire) == VocabularyReadAll(VocabularyClear(m), wire)

VocabularyContent(m) ==
  [m EXCEPT !.spare = <<>>, !.synonyms = [i \in DOMAIN @ |-> SynonymContent(@[i])]]

-----------------------------------------------------------------------------
(* ProtoLog. *)

LogObjects == [log_date : Seq(Nat), log_severity : Seq(Nat), log_message : Seq(Nat),
               unknown : Seq(Nat)]

ProtoLogDefault ==
  [log_date |-> <<>>, log_severity |-> <<>>, log_message |-> <<>>, unknown |-> <<>>]

SetLogDate(m, s) == [m EXCEPT !.log_date = s]
SetLogSeverity(m, s) == [m EXCEPT !.log_severity = s]
SetLogMessage(m, s) == [m EXCEPT !.log_message = s]

ProtoLogClear(m) == ProtoLogDefault

ProtoLogWrite(m) ==
  StringField(10, m.log_date) \o StringField(18, m.log_severity)
    \o StringField(26, m.log_message) \o m.unknown

ProtoLogSize(m) ==
  StringFieldSize(m.log_date) + StringFieldSize(m.log_severity)
    + StringFieldSize(m.log_message) + Len(m.unknown)

ProtoLogTable == [tag \in {10, 18, 26} |->
  CASE tag = 10 -> "log_date" [] tag = 18 -> "log_severity" [] tag = 26 -> "log_message"]

ProtoLogRead(r, f) ==
  IF ~r.ok \/ f = Broken THEN [r EXCEPT !.ok = FALSE]
  ELSE IF f.tag \notin DOMAIN ProtoLogTable THEN ReadUnknown(r, f)
  ELSE ReadString(r, ProtoLogTable[f.tag], f)

ProtoLogReadAll(m, wire) == FoldLeft(ProtoLogRead, Reading(m), FieldsIn(wire))

=============================================================================
