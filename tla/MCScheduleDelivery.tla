------------------------- MODULE MCScheduleDelivery -------------------------
(* Instances of ScheduleDelivery for TLC. *)
EXTENDS ScheduleDelivery, TLC

CONSTANTS v, c, p1, p2, k1, k2, k3

VoiceAndChannel == [i \in Items |-> IF i = v THEN "voice" ELSE "channel"]
NoExpiry == [i \in Items |-> None]
VoiceExpiry == [i \in Items |-> IF i = v THEN 2 ELSE None]
OneTickBackoff == [n \in 1..3 |-> 1]

\* Behaviours in which at most one of the rows is ever inserted: rows meet in nothing but
\* the capacity of the host, and each keeps the promises of its own destination.
OneRow == Cardinality({i \in Items : rows[i].state # "absent"}) <= 1
OneRowStep == OneRow'

Symmetry == Permutations(Procs) \cup Permutations(Tokens)
=============================================================================
