-------------------------- MODULE DeliveryContract --------------------------
(***************************************************************************)
(* What the delivery outbox promises about each of its rows, whatever the  *)
(* number of processors, whatever crashes, expires or arrives late:        *)
(*                                                                         *)
(*   - a row is attempted at most MaxTries times;                          *)
(*   - a row that was allowed to sound is never offered for another        *)
(*     attempt: it can only settle;                                        *)
(*   - a settled row stays settled, and only a voice row can be opened     *)
(*     again, by an explicit replay, with its tries restored.              *)
(*                                                                         *)
(* One step may move several rows: recovery and revocation do.             *)
(***************************************************************************)
EXTENDS Integers

CONSTANTS
    Items,       \* the rows
    VoiceItems,  \* those whose delivery makes a sound
    MaxTries     \* attempts per authorisation

VARIABLES
    phase,  \* phase[i]: "absent", "open", "held", "sounding" or "settled"
    tries   \* tries[i]: attempts begun since insert or replay

Phases == {"absent", "open", "held", "sounding", "settled"}

Init == /\ phase = [i \in Items |-> "absent"]
        /\ tries = [i \in Items |-> 0]

\* [from -> to, change of tries] for one row.
Appear(i)  == phase[i] = "absent" /\ phase'[i] \in {"open", "settled"} /\ tries'[i] = 0
Take(i)    == /\ phase[i] = "open" /\ phase'[i] = "held"
              /\ tries[i] < MaxTries /\ tries'[i] = tries[i] + 1
GiveBack(i) == /\ phase[i] = "held" /\ phase'[i] = "open"
               /\ tries[i] < MaxTries /\ tries'[i] = tries[i]
Sound(i)   == /\ i \in VoiceItems
              /\ phase[i] = "held" /\ phase'[i] = "sounding" /\ tries'[i] = tries[i]
Settle(i)  == /\ phase[i] \in {"open", "held", "sounding"} /\ phase'[i] = "settled"
              /\ tries'[i] = tries[i]
Replay(i)  == /\ i \in VoiceItems
              /\ phase[i] \in {"open", "settled"} /\ phase'[i] = "open" /\ tries'[i] = 0

Stay(i) == phase'[i] = phase[i] /\ tries'[i] = tries[i]

Move(i) == Appear(i) \/ Take(i) \/ GiveBack(i) \/ Sound(i) \/ Settle(i) \/ Replay(i)

Next == /\ phase' \in [Items -> Phases]
        /\ tries' \in [Items -> 0..MaxTries]
        /\ \A i \in Items : Move(i) \/ Stay(i)

Spec == Init /\ [][Next]_<<phase, tries>>
=============================================================================
