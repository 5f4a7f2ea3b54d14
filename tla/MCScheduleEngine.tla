-------------------------- MODULE MCScheduleEngine --------------------------
(* Instances of ScheduleEngine for TLC. *)
EXTENDS ScheduleEngine, TLC

CONSTANTS p1, p2

Policy(concurrency, misfire, once) ==
    [concurrency |-> concurrency, misfire |-> misfire, once |-> once]

SkipAndQueue == {Policy("skip", "fire_once", FALSE), Policy("queue", "fire_once", FALSE)}
SkipLate == {Policy("skip", "skip", FALSE)}

OnlyQueue == {Policy("queue", "fire_once", FALSE)}

Symmetry == Permutations(Procs)
=============================================================================
