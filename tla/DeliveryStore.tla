--------------------------- MODULE DeliveryStore ---------------------------
(***************************************************************************)
(* The rows of schedule_delivery_items and the pure functions that the     *)
(* schedule store applies to one row inside one transaction                *)
(* (packages/scheduler/src/store.ts).  A row keeps the fields these        *)
(* functions read or write.                                                *)
(*                                                                         *)
(* Instants are integers; None stands for a field that is not set.  The    *)
(* claim identity (claimToken, playbackId, generation) is created in one   *)
(* piece, one per claim, and compared in one piece: it is one token.       *)
(***************************************************************************)
EXTENDS Integers

CONSTANTS
    Tokens,       \* the claim identities
    None          \* an unset field

ASSUME NoneAssumption == None \notin Int /\ None \notin Tokens

Destinations == {"conversation", "notification", "voice", "channel"}

\* Rows a worker owns through a live or lost claim.
Held == {"claimed", "preparing", "ready", "playing"}

\* Rows no recovery looks at again.
Final == {"played", "delivered", "suppressed", "expired", "uncertain",
          "interrupted", "cancelled"}

\* "absent": the row has not been inserted yet.
States == {"absent", "pending", "failed"} \cup Held \cup Final

MaxAttempts == 3

OptInstant == Int \cup {None}

Row == [destination   : Destinations,
        state         : States,
        attempts      : 0..MaxAttempts,
        claimToken    : Tokens \cup {None},
        claimExpiresAt: OptInstant,
        nextAttemptAt : OptInstant,
        expiresAt     : OptInstant]

----------------------------------------------------------------------------
Passed(instant, now) == instant # None /\ instant <= now

Unclaimed(row) == [row EXCEPT !.claimToken = None, !.claimExpiresAt = None]

\* min(now + ttl, expiresAt)
ClaimEnd(row, now, ttl) ==
    IF row.expiresAt # None /\ row.expiresAt < now + ttl
    THEN row.expiresAt ELSE now + ttl

MatchesClaim(row, token) == row.claimToken = token

ClaimAlive(row, now) ==
    /\ row.claimExpiresAt # None /\ row.claimExpiresAt > now
    /\ ~ Passed(row.expiresAt, now)

----------------------------------------------------------------------------
(* recoverScheduleDelivery *)

LostClaim(row, now) ==
    /\ row.claimToken # None
    /\ row.claimExpiresAt = None \/ row.claimExpiresAt <= now

NeedsRecovery(row, now) ==
    /\ row.state \notin Final \cup {"absent"}
    /\ Passed(row.expiresAt, now) \/ LostClaim(row, now)

\* Mutants: a lost voice claim is retried like any other; the third attempt is
\* followed by a fourth.
RecoveredRetriesVoice(row, now) ==
    [Unclaimed(row) EXCEPT !.state = "failed",
        !.nextAttemptAt = IF row.attempts < MaxAttempts THEN now ELSE None]

RecoveredOnceMore(row, now) ==
    [Unclaimed(row) EXCEPT !.state = "failed", !.nextAttemptAt = now]

\* A lost voice claim may already have sounded: it is never failed into a retry.
Recovered(row, now) ==
    LET mayHaveSounded == row.destination = "voice" /\ row.claimToken # None
        expired == Passed(row.expiresAt, now)
    IN  [Unclaimed(row) EXCEPT
            !.state = IF mayHaveSounded THEN "uncertain"
                      ELSE IF expired THEN "expired" ELSE "failed",
            !.nextAttemptAt = IF ~ mayHaveSounded /\ ~ expired
                                 /\ row.attempts < MaxAttempts
                              THEN now ELSE None]

----------------------------------------------------------------------------
(* claimScheduleDelivery and the listing that offers rows to claim *)

CanClaim(row, now) ==
    /\ row.claimToken = None
    /\ row.state \in {"pending", "preparing", "ready", "failed"}
    /\ row.state = "failed" => row.nextAttemptAt # None
    /\ row.attempts < MaxAttempts
    /\ row.nextAttemptAt = None \/ row.nextAttemptAt <= now
    /\ ~ Passed(row.expiresAt, now)

\* Mutant: the attempt is counted twice.
ClaimedCountedTwice(row, token, now, ttl) ==
    [row EXCEPT !.state = "claimed", !.claimToken = token, !.attempts = @ + 2,
                !.claimExpiresAt = ClaimEnd(row, now, ttl), !.nextAttemptAt = None]

Claimed(row, token, now, ttl) ==
    [row EXCEPT !.state = "claimed", !.attempts = @ + 1, !.claimToken = token,
                !.claimExpiresAt = ClaimEnd(row, now, ttl),
                !.nextAttemptAt = None]

----------------------------------------------------------------------------
(* renewScheduleDelivery *)

CanRenew(row, token, now) ==
    /\ MatchesClaim(row, token)
    /\ ClaimAlive(row, now)
    /\ row.state \in Held

Renewed(row, now, ttl) == [row EXCEPT !.claimExpiresAt = ClaimEnd(row, now, ttl)]

----------------------------------------------------------------------------
(* ackScheduleDelivery *)

\* The moves an acknowledgement may ask for, by destination and current state.
AckMove(row, to) ==
    LET voice == row.destination = "voice" IN
    /\ to \in {"preparing", "ready", "playing", "played", "delivered", "failed",
               "suppressed", "interrupted", "uncertain", "cancelled"}
    /\ to = "played" => voice /\ row.state = "playing"
    /\ to = "delivered" => ~ voice
    /\ to \in {"preparing", "ready", "playing"} => voice
    /\ to \in {"preparing", "ready"} => row.state # "playing"
    /\ to = "preparing" => row.state # "ready"

CanAck(row, token, now, to) ==
    /\ MatchesClaim(row, token)
    /\ ClaimAlive(row, now)
    /\ row.state \in Held
    /\ AckMove(row, to)

\* Mutant: a failure while playing is a failure.
AckedFailsPlaying(row, to, retryAt) ==
    LET next == [row EXCEPT !.state = to, !.nextAttemptAt = retryAt]
    IN  IF to \in {"preparing", "ready", "playing"} THEN next ELSE Unclaimed(next)

\* A voice that fails while playing may have been heard: uncertain, not failed.
Acked(row, to, retryAt) ==
    LET state == IF to = "failed" /\ row.destination = "voice" /\ row.state = "playing"
                 THEN "uncertain" ELSE to
        retry == /\ state = "failed" /\ retryAt # None /\ row.attempts < MaxAttempts
                 /\ row.expiresAt = None \/ retryAt < row.expiresAt
        next  == [row EXCEPT !.state = state,
                             !.nextAttemptAt = IF retry THEN retryAt ELSE None]
    IN  IF state \in {"preparing", "ready", "playing"} THEN next ELSE Unclaimed(next)

----------------------------------------------------------------------------
(* replayScheduleDelivery and revokeScheduleVoice *)

CanReplay(row, now) ==
    /\ row.destination = "voice"
    /\ row.state \in {"played", "failed", "suppressed", "uncertain", "interrupted"}
    /\ ~ Passed(row.expiresAt, now)

Replayed(row) ==
    [Unclaimed(row) EXCEPT !.state = "pending", !.attempts = 0, !.nextAttemptAt = None]

\* Mutants: a claimed row is left alone; a row with an outcome is not.
CanRevokeUnclaimed(row) ==
    row.destination = "voice" /\ row.state \in {"pending", "preparing", "ready", "failed"}

CanRevokeAny(row) == row.destination = "voice" /\ row.state \notin {"absent", "playing"}

CanRevoke(row) ==
    /\ row.destination = "voice"
    /\ row.state \in {"pending", "preparing", "ready", "claimed", "failed"}

Revoked(row) == [Unclaimed(row) EXCEPT !.state = "suppressed", !.nextAttemptAt = None]
=============================================================================
