-------------------------- MODULE VocabularyDatabase --------------------------
(***************************************************************************)
(* The vocabulary of KafkaProducer: eleven JSON files, each loaded into    *)
(* the one instance of its class, the container that finds a class by its  *)
(* name, and getVocabulary, which chooses a class and one of its words.    *)
(*                                                                         *)
(* A file is described by what can be wrong with it, and what is loaded of *)
(* it by what size() and read() make of it.                                *)
(***************************************************************************)
EXTENDS Integers, Sequences, FiniteSets, SequencesExt

CONSTANT Elements  \* the elements of a vocabulary that has any

ASSUME DatabaseAssumption == Elements \in Nat \ {0}

VocabularyType ==
  <<"Verbs", "Advanced_Verbs", "Phrasal_Verbs", "Nouns", "Advanced_Nouns", "Adjectives",
    "Advanced_Adjectives", "Adverbs", "Advanced_Adverbs", "Prepositions",
    "Advanced_Prepositions">>

Classes == ToSet(VocabularyType)

mapStringToVocabularyType ==
  [Verbs |-> "verbs",                       Advanced_Verbs |-> "advanced_verbs",
   Phrasal_Verbs |-> "phrasal_verbs",       Nouns |-> "nouns",
   Advanced_Nouns |-> "advanced_nouns",     Adjectives |-> "adjectives",
   Advanced_Adjectives |-> "advanced_adjectives",
   Adverbs |-> "adverbs",                   Advanced_Adverbs |-> "advanced_adverbs",
   Prepositions |-> "prepositions",         Advanced_Prepositions |-> "advanced_prepositions"]

\* The class whose instance an entry returns.
jsonVocabularyContainer ==
  [verbs |-> "Verbs",                       advanced_verbs |-> "Advanced_Verbs",
   phrasal_verbs |-> "Phrasal_Verbs",       nouns |-> "Nouns",
   advanced_nouns |-> "Advanced_Nouns",     adjectives |-> "Adjectives",
   advanced_adjectives |-> "Advanced_Adjectives",
   adverbs |-> "Adverbs",                   advanced_adverbs |-> "Advanced_Adverbs",
   prepositions |-> "Prepositions",         advanced_prepositions |-> "Advanced_Prepositions"]

-----------------------------------------------------------------------------
(* Files and what is loaded of them. *)

\* "no key": valid JSON without the class's key; "bad word": an element that
\* is not a Vocabulary message.
Contents == {"good", "missing", "truncated", "no key", "empty", "bad word"}

\* json without the key, with null under it, an empty list, a list whose last
\* element is cut off, one whose first is not a word, a list of words.
Loaded == {"keyless", "null", "no elements", "cut off", "with bad word", "words"}

\* What a constructor may leave in j.  A file that is missing or cut off is
\* logged, and j is what was read of it.  A file without the key makes size(),
\* which cannot throw, end the program: nothing is left.
Constructed(content) ==
  CASE content = "good" -> {"words"}
    [] content = "missing" -> {"keyless"}
    [] content = "truncated" -> {"keyless", "null", "no elements", "cut off"}
    [] content = "no key" -> {}
    [] content = "empty" -> {"no elements"}
    [] content = "bad word" -> {"with bad word"}

\* size(), where the key is there.
Size(j) == IF j \in {"null", "no elements"} THEN 0 ELSE Elements

\* read(index): a whole word, one that is cut off or cannot be converted,
\* undefined behind the last element, an exception where there is no list.
Read(j, index) ==
  CASE j = "null" -> "exception"
    [] j # "null" /\ (index \notin 0..Elements - 1 \/ j = "no elements") -> "undefined"
    [] j = "cut off" /\ index = Elements - 1 -> "half"
    [] j = "with bad word" /\ index = 0 -> "half"
    [] OTHER -> "whole"

\* Mutant of WordNumbers: the bound of the distribution is the size.
WordNumbersUpToSize(j) == IF Size(j) > 0 THEN 0..Size(j) ELSE {-1, 0}

\* A distribution from 0 to -1 may give anything.
WordNumbers(j) == IF Size(j) > 0 THEN 0..Size(j) - 1 ELSE {-1, 0}

\* The outcomes of getVocabulary: the type chosen, the class it was read from,
\* and the word; "terminate" ends the program.  An undefined word may be
\* anything, or the end of the program as well.
getVocabulary(db) ==
  UNION {
    LET type == VocabularyType[n + 1]
        class == jsonVocabularyContainer[mapStringToVocabularyType[type]]
        Result(w) == [type |-> type, class |-> class, word |-> w]
        j == db[class]
        words == {Read(j, i) : i \in WordNumbers(j)}
    IN IF j = "keyless" THEN {Result("terminate")}
       ELSE {Result(w) : w \in words \ {"exception"}}
              \cup {Result("terminate") : w \in words \cap {"exception", "undefined"}}
    : n \in 0..Cardinality(DOMAIN jsonVocabularyContainer) - 1}

=============================================================================
