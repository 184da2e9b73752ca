------------------------------ MODULE Delivery ------------------------------
(***************************************************************************)
(* What sending messages one by one to a topic promises, whatever the      *)
(* program and the network do: a message is accepted only once the one     *)
(* before it has its report, and one reported as delivered is in the log.  *)
(* Copies of a message may be recorded more than once and at any time,     *)
(* even after it was reported as failed or its sender died.                *)
(***************************************************************************)
EXTENDS Integers, Sequences

CONSTANT Partitions  \* the partitions of the topic

VARIABLES
  log,    \* [Partitions -> Seq(Nat)]: the messages recorded, by number
  to,     \* the partition of each message accepted so far
  report  \* the report of each: "pending", "delivered", "failed" or "abandoned"

vars == <<log, to, report>>

Accepted == DOMAIN report

\* A copy of message m is in the log.
InLog(m) == \E i \in DOMAIN log[to[m]] : log[to[m]][i] = m

Init ==
  /\ log = [p \in Partitions |-> <<>>]
  /\ to = <<>>
  /\ report = <<>>

Accept(p) ==
  /\ \A m \in Accepted : report[m] # "pending"
  /\ to' = Append(to, p)
  /\ report' = Append(report, "pending")
  /\ UNCHANGED log

Record(m) ==
  /\ log' = [log EXCEPT ![to[m]] = Append(@, m)]
  /\ UNCHANGED <<to, report>>

Deliver(m) ==
  /\ report[m] = "pending"
  /\ InLog(m)
  /\ report' = [report EXCEPT ![m] = "delivered"]
  /\ UNCHANGED <<log, to>>

Fail(m) ==
  /\ report[m] = "pending"
  /\ \E r \in {"failed", "abandoned"} : report' = [report EXCEPT ![m] = r]
  /\ UNCHANGED <<log, to>>

Next ==
  \/ \E p \in Partitions : Accept(p)
  \/ \E m \in Accepted : Record(m) \/ Deliver(m) \/ Fail(m)

Spec == Init /\ [][Next]_vars

=============================================================================
