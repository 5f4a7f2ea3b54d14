-------------------------- MODULE ScheduleDelivery --------------------------
(***************************************************************************)
(* The durable delivery outbox of the scheduler: the rows of one schedule, *)
(* the processors (one per engine process) that claim and attempt them,    *)
(* the desktop voice adapter with the playback host behind it, and the     *)
(* user's edits of the schedule.                                           *)
(*                                                                         *)
(* Every store operation is one SQLite transaction, so one step; whatever  *)
(* the code awaits between two of them is a point where anything else can  *)
(* happen: the claim of another process, the expiry of a claim, an edit of *)
(* the schedule, a crash.                                                  *)
(*                                                                         *)
(* Time is relative.  The present is 0 and an instant t lies t ticks       *)
(* ahead; Tick moves every stored instant one closer.  A pump reads the    *)
(* clock once and keeps using that reading, so its clock falls behind the  *)
(* present, by at most MaxLag ticks.  Instants stop at -MaxLag: no clock   *)
(* in use is older, so every comparison the code makes keeps its outcome.  *)
(*                                                                         *)
(* expectedVersion is modelled by its effect: a write makes the row leave  *)
(* the batch of every pump that listed it earlier, and only a row still in *)
(* the batch can be claimed from it.                                       *)
(***************************************************************************)
EXTENDS DeliveryStore, FiniteSets

CONSTANTS
    Items,        \* the rows that may be inserted
    Destination,  \* Destination[i]: where row i goes
    Lifetime,     \* Lifetime[i]: ticks until row i expires, or None
    Procs,        \* the processes that run a delivery processor on this store
    ClaimTTL,     \* CLAIM_TTL_MS, in ticks
    Backoff,      \* Backoff[n]: ticks before the attempt after the n-th
    Capacity,     \* attempts one processor runs at a time
    MaxLag        \* ticks a pump's clock can fall behind the present

ASSUME DeliveryAssumption ==
    /\ Destination \in [Items -> Destinations]
    /\ Lifetime \in [Items -> OptInstant]
    /\ ClaimTTL \in Nat \ {0}
    /\ Backoff \in [1..MaxAttempts -> Nat]
    /\ Capacity \in Nat \ {0}
    /\ MaxLag \in Nat
    /\ None \notin Items

VARIABLES
    rows,      \* the table
    voice,     \* the schedule's voice delivery: "on", "off" or, for good, "deleted"
    life,      \* life[p]: "up", "closing" or "down"
    leader,    \* leader[p]: the engine's leader flag, as this process last read it
    pump,      \* pump[p]: the pass in progress
    batch,     \* batch[p]: rows this pass listed and nobody has written since
    attempt,   \* attempt[p][i]: the attempt in flight, or None
    deferred,  \* deferred[p][i]: the claim of an accepted, unresolved attempt, or None
    inbox,     \* play requests the playback host holds: <<row, claim>>
    sounds,    \* ghost: sound permissions granted since insert or replay
    calls      \* ghost: attempts begun since insert or replay

vars == <<rows, voice, life, leader, pump, batch, attempt, deferred, inbox, sounds, calls>>

Now == 0

\* "retry" is a failure that recordResult finds retryable.
Results == {"delivered", "played", "failed", "retry", "suppressed", "interrupted",
            "uncertain"}

\* Where an attempt stands: in the adapter ("deliver", "synthesize"), waiting for the
\* playback host ("outcome"), allowed to sound ("sounding"), or at its result.
Steps == {"deliver", "synthesize", "outcome", "sounding"}
Attempt == [token: Tokens, step: Steps \cup Results]

PumpIdle == [pc |-> "idle", clock |-> 0, todo |-> {}, item |-> None]

TypeOK ==
    /\ rows \in [Items -> Row]
    /\ voice \in {"on", "off", "deleted"}
    /\ life \in [Procs -> {"up", "closing", "down"}]
    /\ leader \in [Procs -> BOOLEAN]
    /\ pump \in [Procs -> [pc   : {"idle", "reconcile", "inspect", "claim"},
                           clock: Int,
                           todo : SUBSET Items,
                           item : Items \cup {None}]]
    /\ batch \in [Procs -> SUBSET Items]
    /\ attempt \in [Procs -> [Items -> Attempt \cup {None}]]
    /\ deferred \in [Procs -> [Items -> Tokens \cup {None}]]
    /\ inbox \in SUBSET (Items \X Tokens)
    /\ sounds \in [Items -> Nat]
    /\ calls \in [Items -> Nat]

Absent(i) == [destination |-> Destination[i], state |-> "absent", attempts |-> 0,
              claimToken |-> None, claimExpiresAt |-> None,
              nextAttemptAt |-> None, expiresAt |-> None]

Init ==
    /\ rows = [i \in Items |-> Absent(i)]
    /\ voice = "on"
    /\ life = [p \in Procs |-> "up"]
    /\ leader = [p \in Procs |-> FALSE]
    /\ pump = [p \in Procs |-> PumpIdle]
    /\ batch = [p \in Procs |-> {}]
    /\ attempt = [p \in Procs |-> [i \in Items |-> None]]
    /\ deferred = [p \in Procs |-> [i \in Items |-> None]]
    /\ inbox = {}
    /\ sounds = [i \in Items |-> 0]
    /\ calls = [i \in Items |-> 0]

----------------------------------------------------------------------------
(* The table *)

\* Write the table; listed copies of a changed row are stale from here on.
Save(table) ==
    /\ rows' = table
    /\ batch' = [p \in Procs |-> {i \in batch[p] : table[i] = rows[i]}]

Put(i, row) == Save([rows EXCEPT ![i] = row])

\* A recovery that is due comes first and refuses the acknowledgement.
AckAccepted(i, token, to) ==
    /\ ~ NeedsRecovery(rows[i], Now)
    /\ CanAck(rows[i], token, Now, to)

AfterAck(i, token, to, retryAt) ==
    IF NeedsRecovery(rows[i], Now) THEN Recovered(rows[i], Now)
    ELSE IF CanAck(rows[i], token, Now, to) THEN Acked(rows[i], to, retryAt)
    ELSE rows[i]

AfterRenew(i, token, now) ==
    IF NeedsRecovery(rows[i], now) THEN Recovered(rows[i], now)
    ELSE IF CanRenew(rows[i], token, now) THEN Renewed(rows[i], now, ClaimTTL)
    ELSE rows[i]

RenewAccepted(i, token, now) ==
    ~ NeedsRecovery(rows[i], now) /\ CanRenew(rows[i], token, now)

AfterClaim(i, token, now) ==
    IF NeedsRecovery(rows[i], now) THEN Recovered(rows[i], now)
    ELSE IF CanClaim(rows[i], now) THEN Claimed(rows[i], token, now, ClaimTTL)
    ELSE rows[i]

ClaimAccepted(i, now) == ~ NeedsRecovery(rows[i], now) /\ CanClaim(rows[i], now)

\* Mutant: rows nobody claimed are not looked at.
ScanFindsHeld(row, now) ==
    row.state \in Held /\ (Passed(row.expiresAt, now) \/ Passed(row.claimExpiresAt, now))

\* What the SQL of recoverDeliveries selects.
ScanFinds(row, now) ==
    /\ row.state \in Held \cup {"pending", "failed"}
    /\ Passed(row.expiresAt, now) \/ Passed(row.claimExpiresAt, now)

\* What the SQL of listDeliveries selects with dueAt.
Due(row, now) ==
    /\ row.state \in {"pending", "preparing", "ready", "failed"}
    /\ row.state = "failed" => row.nextAttemptAt # None
    /\ row.claimExpiresAt = None
    /\ row.attempts < MaxAttempts
    /\ row.nextAttemptAt = None \/ row.nextAttemptAt <= now
    /\ ~ Passed(row.expiresAt, now)

\* Run termination inserts the row; voice is revoked at once if it is off by then.
Insert(i) ==
    LET fresh == [rows[i] EXCEPT !.state = "pending", !.expiresAt = Lifetime[i]] IN
    /\ rows[i].state = "absent"
    /\ Put(i, IF voice # "on" /\ CanRevoke(fresh) THEN Revoked(fresh) ELSE fresh)
    /\ UNCHANGED <<voice, life, leader, pump, attempt, deferred, inbox, sounds, calls>>

RevokeAll ==
    Save([i \in Items |-> IF CanRevoke(rows[i]) THEN Revoked(rows[i]) ELSE rows[i]])

\* update: turning voice off revokes; turning it on touches no row.
SetVoice(to) ==
    /\ voice # "deleted" /\ to \in {"on", "off"} /\ to # voice
    /\ voice' = to
    /\ IF to = "off" THEN RevokeAll ELSE UNCHANGED <<rows, batch>>
    /\ UNCHANGED <<life, leader, pump, attempt, deferred, inbox, sounds, calls>>

SoftDelete ==
    /\ voice # "deleted"
    /\ voice' = "deleted"
    /\ RevokeAll
    /\ UNCHANGED <<life, leader, pump, attempt, deferred, inbox, sounds, calls>>

\* The user asks to hear it again: a new authorisation, so the ghosts restart.
ReplayDelivery(p, i) ==
    /\ life[p] = "up"
    /\ voice = "on"
    /\ CanReplay(rows[i], Now)
    /\ Put(i, Replayed(rows[i]))
    /\ sounds' = [sounds EXCEPT ![i] = 0]
    /\ calls' = [calls EXCEPT ![i] = 0]
    /\ UNCHANGED <<voice, life, leader, pump, attempt, deferred, inbox>>

----------------------------------------------------------------------------
(* performPump *)

PumpTo(p, pc) == pump' = [pump EXCEPT ![p].pc = pc]

\* Read the clock, recover lost and expired rows; then look at the deferred ones.
StartPump(p) ==
    /\ life[p] = "up" /\ leader[p] /\ pump[p].pc = "idle"
    /\ Save([i \in Items |-> IF ScanFinds(rows[i], Now) /\ NeedsRecovery(rows[i], Now)
                             THEN Recovered(rows[i], Now) ELSE rows[i]])
    /\ pump' = [pump EXCEPT ![p] =
                  [pc |-> "reconcile", clock |-> Now, item |-> None,
                   todo |-> {i \in Items : deferred[p][i] # None}]]
    /\ UNCHANGED <<voice, life, leader, attempt, deferred, inbox, sounds, calls>>

\* reconcileDeferred, up to the call of inspect: renew the claim or forget the entry.
RenewDeferred(p, i) ==
    LET token == deferred[p][i]
        now == pump[p].clock
        ours == rows[i].claimToken = token /\ rows[i].state = "claimed"
    IN
    /\ pump[p].pc = "reconcile" /\ i \in pump[p].todo
    /\ IF ours THEN Put(i, AfterRenew(i, token, now)) ELSE UNCHANGED <<rows, batch>>
    /\ IF ours /\ RenewAccepted(i, token, now)
       THEN /\ pump' = [pump EXCEPT ![p].pc = "inspect", ![p].item = i,
                                    ![p].todo = @ \ {i}]
            /\ UNCHANGED deferred
       ELSE /\ pump' = [pump EXCEPT ![p].todo = @ \ {i}]
            /\ deferred' = [deferred EXCEPT ![p][i] = None]
    /\ UNCHANGED <<voice, life, leader, attempt, inbox, sounds, calls>>

\* The delay recordResult asks for, from the attempt count the claim wrote.
RetryAt(i, result) ==
    IF result = "retry" /\ rows[i].attempts \in 1..(MaxAttempts - 1)
    THEN Now + Backoff[rows[i].attempts] ELSE None

StateOf(result) == IF result = "retry" THEN "failed" ELSE result

\* recordResult
Record(i, token, result) ==
    Put(i, AfterAck(i, token, StateOf(result), RetryAt(i, result)))

\* inspect answered: still deferred, or (or a throw) leave it, or a final result.
InspectDeferred(p, result) ==
    LET i == pump[p].item IN
    /\ pump[p].pc = "inspect"
    /\ pump' = [pump EXCEPT ![p].pc = "reconcile", ![p].item = None]
    /\ IF result = "deferred"
       THEN UNCHANGED <<rows, batch, deferred>>
       ELSE /\ Record(i, deferred[p][i], result)
            /\ deferred' = [deferred EXCEPT ![p][i] = None]
    /\ UNCHANGED <<voice, life, leader, attempt, inbox, sounds, calls>>

ListDue(p) ==
    /\ pump[p].pc = "reconcile" /\ pump[p].todo = {}
    /\ PumpTo(p, "claim")
    /\ batch' = [batch EXCEPT ![p] = {i \in Items : Due(rows[i], pump[p].clock)}]
    /\ UNCHANGED <<rows, voice, life, leader, attempt, deferred, inbox, sounds, calls>>

Active(p) == {i \in Items : attempt[p][i] # None}

\* The loop of performPump goes on while the processor is open, leading and not full.
MayClaim(p) == life[p] = "up" /\ leader[p] /\ Cardinality(Active(p)) < Capacity

\* A token nobody remembers stands for a new one.
FreshToken(token) ==
    /\ \A i \in Items : rows[i].claimToken # token /\ <<i, token>> \notin inbox
    /\ \A p \in Procs, i \in Items :
          /\ deferred[p][i] # token
          /\ attempt[p][i] # None => attempt[p][i].token # token

ClaimNext(p, i, token) ==
    LET now == pump[p].clock
        table == [rows EXCEPT ![i] = AfterClaim(i, token, now)]
    IN
    /\ pump[p].pc = "claim" /\ i \in batch[p] /\ MayClaim(p)
    /\ attempt[p][i] = None
    /\ FreshToken(token)
    /\ rows' = table
    /\ batch' = [q \in Procs |-> {j \in batch[q] \ (IF q = p THEN {i} ELSE {}) :
                                     table[j] = rows[j]}]
    /\ IF ClaimAccepted(i, now)
       THEN /\ attempt' = [attempt EXCEPT ![p][i] =
                             [token |-> token, step |-> "deliver"]]
            /\ calls' = [calls EXCEPT ![i] = @ + 1]
       ELSE UNCHANGED <<attempt, calls>>
    /\ UNCHANGED <<voice, life, leader, pump, deferred, inbox, sounds>>

\* Rows this processor still attempts are skipped; the pass ends when nothing is left
\* or the loop must break.
EndPump(p) ==
    /\ pump[p].pc = "claim"
    /\ \A i \in batch[p] : attempt[p][i] # None \/ ~ MayClaim(p)
    /\ pump' = [pump EXCEPT ![p] = PumpIdle]
    /\ batch' = [batch EXCEPT ![p] = {}]
    /\ UNCHANGED <<rows, voice, life, leader, attempt, deferred, inbox, sounds, calls>>

----------------------------------------------------------------------------
(* attempt: the adapters *)

At(p, i, step) == attempt[p][i] # None /\ attempt[p][i].step = step

\* The attempt of p at i has its result.
Resolve(p, i, result) == attempt' = [attempt EXCEPT ![p][i].step = result]
Resolved(p, i) == attempt[p][i] # None /\ attempt[p][i].step \in Results

\* The conversation and channel adapters, and the notification one: one external call.
DeliverPlain(p, i, result) ==
    /\ At(p, i, "deliver") /\ rows[i].destination # "voice"
    /\ result \in Results \ {"played"}
    /\ Resolve(p, i, result)
    /\ UNCHANGED <<rows, voice, life, leader, pump, batch, deferred, inbox, sounds, calls>>

\* A channel that accepted the message for later: the attempt ends, the claim stays.
DeferDelivery(p, i) ==
    /\ At(p, i, "deliver") /\ rows[i].destination = "channel"
    /\ deferred' = [deferred EXCEPT ![p][i] = attempt[p][i].token]
    /\ attempt' = [attempt EXCEPT ![p][i] = None]
    /\ UNCHANGED <<rows, voice, life, leader, pump, batch, inbox, sounds, calls>>

\* Voice: settings refuse it, or the row goes to preparing before any synthesis.
PrepareVoice(p, i) ==
    LET token == attempt[p][i].token IN
    /\ At(p, i, "deliver") /\ rows[i].destination = "voice"
    /\ \/ /\ \E result \in {"failed", "suppressed", "interrupted"} : Resolve(p, i, result)
          /\ UNCHANGED <<rows, batch>>
       \/ /\ Put(i, AfterAck(i, token, "preparing", None))
          /\ IF AckAccepted(i, token, "preparing")
             THEN attempt' = [attempt EXCEPT ![p][i].step = "synthesize"]
             ELSE Resolve(p, i, "uncertain")
    /\ UNCHANGED <<voice, life, leader, pump, deferred, inbox, sounds, calls>>

\* Synthesis ends; the row goes to ready and the host is asked to play.
SynthesizeVoice(p, i) ==
    LET token == attempt[p][i].token IN
    /\ At(p, i, "synthesize")
    /\ \/ /\ \E result \in {"failed", "retry", "interrupted", "uncertain"} :
                Resolve(p, i, result)
          /\ UNCHANGED <<rows, batch, inbox>>
       \/ /\ Put(i, AfterAck(i, token, "ready", None))
          /\ IF AckAccepted(i, token, "ready")
             THEN /\ attempt' = [attempt EXCEPT ![p][i].step = "outcome"]
                  /\ inbox' = inbox \cup {<<i, token>>}
             ELSE /\ Resolve(p, i, "uncertain")
                  /\ UNCHANGED inbox
    /\ UNCHANGED <<voice, life, leader, pump, deferred, sounds, calls>>

\* The host asks to start: any running worker answers, by acknowledging "playing".
\* The host reports a refusal as a failure.
StartSound(i, token) ==
    LET granted == AckAccepted(i, token, "playing") IN
    /\ <<i, token>> \in inbox
    /\ \E p \in Procs : life[p] = "up"
    /\ inbox' = inbox \ {<<i, token>>}
    /\ Put(i, AfterAck(i, token, "playing", None))
    /\ sounds' = [sounds EXCEPT ![i] = IF granted THEN @ + 1 ELSE @]
    /\ attempt' = [p \in Procs |-> [j \in Items |->
                     IF j = i /\ At(p, i, "outcome") /\ attempt[p][i].token = token
                     THEN [attempt[p][i] EXCEPT !.step = IF granted THEN "sounding" ELSE "failed"]
                     ELSE attempt[p][j]]]
    /\ UNCHANGED <<voice, life, leader, pump, deferred, calls>>

\* A cancelled, expired or suppressed request leaves the host's queue.
DropRequest(i, token) ==
    /\ <<i, token>> \in inbox
    /\ inbox' = inbox \ {<<i, token>>}
    /\ UNCHANGED <<rows, voice, life, leader, pump, batch, attempt, deferred, sounds, calls>>

\* The host's outcome, its silence past the timeout, or a cancellation.  Only a sound
\* that was allowed can end as played; a request may outlive the answer.
HostOutcome(p, i, result) ==
    /\ \/ At(p, i, "outcome")
             /\ result \in {"failed", "suppressed", "interrupted", "uncertain"}
       \/ At(p, i, "sounding")
             /\ result \in {"played", "failed", "suppressed", "interrupted", "uncertain"}
    /\ Resolve(p, i, result)
    /\ UNCHANGED <<rows, voice, life, leader, pump, batch, deferred, inbox, sounds, calls>>

\* The five-second renewal of the desktop adapter; a refusal aborts the attempt.
RenewAttempt(p, i) ==
    LET token == attempt[p][i].token IN
    /\ attempt[p][i] # None /\ ~ Resolved(p, i)
    /\ rows[i].destination \in {"voice", "notification"}
    /\ Put(i, AfterRenew(i, token, Now))
    /\ IF RenewAccepted(i, token, Now) THEN UNCHANGED attempt
       ELSE Resolve(p, i, "interrupted")
    /\ UNCHANGED <<voice, life, leader, pump, deferred, inbox, sounds, calls>>

ReportResult(p, i) ==
    /\ Resolved(p, i)
    /\ Record(i, attempt[p][i].token, attempt[p][i].step)
    /\ attempt' = [attempt EXCEPT ![p][i] = None]
    /\ UNCHANGED <<voice, life, leader, pump, deferred, inbox, sounds, calls>>

----------------------------------------------------------------------------
(* Processes and time *)

\* close waits for the pump, then aborts every attempt: the race ends as uncertain.
CloseProcessor(p) ==
    /\ life[p] = "up" /\ pump[p].pc = "idle"
    /\ life' = [life EXCEPT ![p] = "closing"]
    /\ attempt' = [attempt EXCEPT ![p] = [i \in Items |->
                     IF attempt[p][i] = None \/ Resolved(p, i) THEN attempt[p][i]
                     ELSE [attempt[p][i] EXCEPT !.step = "uncertain"]]]
    /\ UNCHANGED <<rows, voice, leader, pump, batch, deferred, inbox, sounds, calls>>

\* The process dies at any point, or exits after close: its memory is gone.
StopProcess(p) ==
    /\ life[p] # "down"
    /\ life' = [life EXCEPT ![p] = "down"]
    /\ leader' = [leader EXCEPT ![p] = FALSE]
    /\ pump' = [pump EXCEPT ![p] = PumpIdle]
    /\ batch' = [batch EXCEPT ![p] = {}]
    /\ attempt' = [attempt EXCEPT ![p] = [i \in Items |-> None]]
    /\ deferred' = [deferred EXCEPT ![p] = [i \in Items |-> None]]
    /\ UNCHANGED <<rows, voice, inbox, sounds, calls>>

StartProcess(p) ==
    /\ life[p] = "down"
    /\ life' = [life EXCEPT ![p] = "up"]
    /\ UNCHANGED <<rows, voice, leader, pump, batch, attempt, deferred, inbox, sounds, calls>>

\* The engine's wake refreshes the flag; two processes can both hold it for a while.
ReadLease(p) ==
    /\ life[p] = "up"
    /\ leader' = [leader EXCEPT ![p] = ~ @]
    /\ UNCHANGED <<rows, voice, life, pump, batch, attempt, deferred, inbox, sounds, calls>>

Earlier(instant) ==
    IF instant = None \/ instant <= -MaxLag THEN instant ELSE instant - 1

Aged(row) == [row EXCEPT !.claimExpiresAt = Earlier(@), !.nextAttemptAt = Earlier(@),
                         !.expiresAt = Earlier(@)]

Tick ==
    /\ \A p \in Procs : pump[p].pc # "idle" => pump[p].clock > -MaxLag
    /\ rows' = [i \in Items |-> Aged(rows[i])]
    /\ pump' = [p \in Procs |-> IF pump[p].pc = "idle" THEN pump[p]
                                ELSE [pump[p] EXCEPT !.clock = @ - 1]]
    /\ UNCHANGED <<voice, life, leader, batch, attempt, deferred, inbox, sounds, calls>>

----------------------------------------------------------------------------
Edit ==
    \/ \E i \in Items : Insert(i)
    \/ \E to \in {"on", "off"} : SetVoice(to)
    \/ SoftDelete
    \/ \E p \in Procs, i \in Items : ReplayDelivery(p, i)

Pumping(p) ==
    \/ StartPump(p)
    \/ \E i \in Items : RenewDeferred(p, i)
    \/ \E result \in {"deferred", "delivered", "failed", "retry", "suppressed"} :
          InspectDeferred(p, result)
    \/ ListDue(p)
    \/ \E i \in Items, token \in Tokens : ClaimNext(p, i, token)
    \/ EndPump(p)

Attempting(p, i) ==
    \/ \E result \in Results : DeliverPlain(p, i, result)
    \/ DeferDelivery(p, i)
    \/ PrepareVoice(p, i)
    \/ SynthesizeVoice(p, i)
    \/ \E result \in Results : HostOutcome(p, i, result)
    \/ ReportResult(p, i)

Hosting ==
    \E i \in Items, token \in Tokens : StartSound(i, token) \/ DropRequest(i, token)

Living(p) == CloseProcessor(p) \/ StopProcess(p) \/ StartProcess(p) \/ ReadLease(p)

Next ==
    \/ Edit
    \/ \E p \in Procs : Pumping(p) \/ Living(p)
    \/ \E p \in Procs, i \in Items : Attempting(p, i) \/ RenewAttempt(p, i)
    \/ Hosting
    \/ Tick

Spec == Init /\ [][Next]_vars
----------------------------------------------------------------------------
(* Liveness: what the timers and the event loop keep running *)

\* poke, the one-second timer and the awaited adapters all come back; a process that
\* went down is started again; the host answers, drops a request or times out; a channel
\* asked again and again for a deferred message at last has a final answer.
Fairness ==
    /\ SF_vars(Tick)
    /\ WF_vars(Hosting)
    /\ \A p \in Procs :
         /\ WF_vars(Pumping(p))
         /\ SF_vars(\E result \in Results : InspectDeferred(p, result))
         /\ WF_vars(StartProcess(p))
         /\ \A i \in Items :
              /\ WF_vars(Attempting(p, i))
              /\ WF_vars(\E result \in Results : HostOutcome(p, i, result))
              /\ WF_vars(ReportResult(p, i))

FairSpec == Spec /\ Fairness

----------------------------------------------------------------------------
(* Properties *)

\* A row is under way exactly while a claim with an end holds it: nothing can be left
\* "playing" or "preparing" where neither an acknowledgement nor recovery frees it.
HeldIffClaimed ==
    \A i \in Items :
        /\ rows[i].state \in Held <=> rows[i].claimToken # None
        /\ rows[i].claimToken # None <=> rows[i].claimExpiresAt # None

\* A sound permission is granted at most once per insert or replay of a row, over all
\* processes, lost claims, late starts of a dead worker's request, retries and restarts.
SoundsOnce == \A i \in Items : sounds[i] <= 1

\* A row recorded as played did sound, and what sounded is recorded as nothing that a
\* processor could pick up again.
PlayedSounded ==
    \A i \in Items :
        /\ rows[i].state = "played" => sounds[i] = 1
        /\ sounds[i] > 0 => rows[i].state \in {"playing", "played", "suppressed",
                                               "interrupted", "uncertain", "cancelled"}

\* Once the schedule's voice is off or deleted no voice row can reach the speaker:
\* nothing is left to claim, to prepare or to start.
SilencedStaysSilent ==
    voice # "on" =>
        \A i \in Items : rows[i].destination = "voice" =>
            rows[i].state \notin {"pending", "claimed", "preparing", "ready", "failed"}

\* The adapter is called at most three times per insert or replay, also when claims are
\* lost between the call and its record.
CallsBounded == \A i \in Items : calls[i] <= MaxAttempts

Outcome(i) == rows[i].state \in Final

\* An outcome stands: no late acknowledgement, renewal, recovery or claim changes a row
\* with a final state; only a voice replay, with the voice on, opens it again.
OutcomesStand ==
    [][\A i \in Items : Outcome(i) =>
          \/ rows'[i].state = rows[i].state
          \/ rows[i].destination = "voice" /\ voice = "on"
                /\ rows'[i].state = "pending" /\ rows'[i].attempts = 0]_vars

\* What the contract sees of a row.
PhaseOf(row) ==
    IF row.state = "absent" THEN "absent"
    ELSE IF row.state = "pending" \/ (row.state = "failed" /\ row.nextAttemptAt # None)
         THEN "open"
    ELSE IF row.state \in {"claimed", "preparing", "ready"} THEN "held"
    ELSE IF row.state = "playing" THEN "sounding"
    ELSE "settled"

Contract ==
    INSTANCE DeliveryContract WITH
        VoiceItems <- {i \in Items : Destination[i] = "voice"},
        MaxTries   <- MaxAttempts,
        phase      <- [i \in Items |-> PhaseOf(rows[i])],
        tries      <- [i \in Items |-> rows[i].attempts]

\* The table, with its processors, hosts, crashes and edits, implements the contract of
\* the outbox: a claim counts a try, a try given back leaves another, sound and outcome
\* come in order.
ImplementsContract == Contract!Spec

Settled(i) == rows[i].state \in Final \/ (rows[i].state = "failed" /\ rows[i].nextAttemptAt = None)
StableLeader == \E p \in Procs : <>[](life[p] = "up" /\ leader[p])

\* While some processor stays up and leading, an inserted row comes to rest: delivered,
\* played, given up, expired or left uncertain, but not pending, held or waiting for a
\* retry for ever.
EverySettles ==
    StableLeader => \A i \in Items : (rows[i].state # "absent") ~> Settled(i)
=============================================================================
