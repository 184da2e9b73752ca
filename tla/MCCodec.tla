------------------------------- MODULE MCCodec -------------------------------
(* Instance of Codec for TLC. *)
EXTENDS Codec, TLC

CONSTANTS o1, o2
Two == {o1, o2}
Symmetry == Permutations(Two)

MCStrings == {<<>>, <<97>>, <<98, NotUtf8>>}
MCIds == {0, 7}

Related == [SynonymDefault EXCEPT !.id = 1, !.synonym = <<115>>, !.turkish_meaning = <<116, 117>>]
Sentence == [SynonymDefault EXCEPT !.sample_sentences = <<120>>]

\* A word without related words, one with two of them, one with a half-filled
\* one, and what is left of an element that could not be converted.
MCWords == {
  [VocabularyDefault EXCEPT !.word = <<97>>, !.reverso_url = <<114>>],
  [VocabularyDefault EXCEPT !.word = <<119>>, !.synonyms = <<Related, Sentence>>,
                            !.macmillan_url = <<109>>, !.youglish_url = <<121>>],
  [VocabularyDefault EXCEPT !.synonyms = <<Sentence>>]}

MCDates == {<<49>>, <<50>>}
MCSeverities == {<<>>, <<73>>}
MCTexts == {<<97>>, <<97, NotUtf8>>, <<97, 98, 99>>, <<97, 98, 99, 100>>}
=============================================================================
