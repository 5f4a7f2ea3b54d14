---------------------------- MODULE MCRunService ----------------------------
(* Two requests of clients with two keys, and one death of the host.  The    *)
(* keys differ only in their names: the first request comes under k1.        *)
EXTENDS RunService
CONSTANT k1
MCAsking == {1}
FirstKey == requests = 0 => \A k \in Keys \ {k1} : call'[k].pc = "idle"
OneNameSpec == RunInit /\ [][RunNext /\ FirstKey]_vars /\ WF_vars(Machine)
=============================================================================
