--------------------------- MODULE MCKafkaConsumer ---------------------------
(* Instances of KafkaConsumer for TLC. *)
EXTENDS KafkaConsumer, TLC

\* Sound for the safety runs only.
GroupSymmetry == Permutations(Consumers) \cup Permutations(Partitions)
=============================================================================
