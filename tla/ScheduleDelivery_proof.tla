----------------------- MODULE ScheduleDelivery_proof -----------------------
(***************************************************************************)
(* Proofs about the delivery outbox, for any set of rows, processes and    *)
(* claim tokens, any lifetimes, lease, backoff, capacity and clock lag.    *)
(*                                                                         *)
(* Many actors write the table, but each of them moves a row in one of few *)
(* ways.  RowMove lists those ways, with what they do to the two ghosts;   *)
(* StepMovesRows shows that every step of the system is made of them, and  *)
(* the invariants below are proved over RowMove.                           *)
(***************************************************************************)
EXTENDS ScheduleDelivery, TLAPS

----------------------------------------------------------------------------
(* What the store functions return for one row, whatever the row, the instant *)
(* and the claim token                                                        *)

\* A row whose mutable fields are all overwritten, with values of their types.
With(row, s, a, t, e, n) ==
    [row EXCEPT !.state = s, !.attempts = a, !.claimToken = t, !.claimExpiresAt = e,
                !.nextAttemptAt = n]

\* Such a row is a row, and has the values it was given.
LEMMA WithRow ==
    ASSUME NEW row \in Row, NEW s \in States, NEW a \in 0..MaxAttempts,
           NEW t \in Tokens \cup {None}, NEW e \in OptInstant, NEW n \in OptInstant
    PROVE  /\ With(row, s, a, t, e, n) \in Row
           /\ With(row, s, a, t, e, n).destination = row.destination
           /\ With(row, s, a, t, e, n).state = s
           /\ With(row, s, a, t, e, n).attempts = a
           /\ With(row, s, a, t, e, n).claimToken = t
           /\ With(row, s, a, t, e, n).claimExpiresAt = e
           /\ With(row, s, a, t, e, n).nextAttemptAt = n
  BY DEF With, Row

\* The fields of a row, one by one.
LEMMA RowFields ==
    ASSUME NEW row \in Row
    PROVE  /\ row.destination \in Destinations
           /\ row.state \in States
           /\ row.attempts \in 0..MaxAttempts
           /\ row.claimToken \in Tokens \cup {None}
           /\ row.claimExpiresAt \in OptInstant
           /\ row.nextAttemptAt \in OptInstant
           /\ row.expiresAt \in OptInstant
  BY DEF Row

----------------------------------------------------------------------------
\* Recovery returns a row, of the same destination, that no claim holds; a claimed voice
\* row never comes back to be attempted again.
LEMMA RecoveredRow ==
    ASSUME NEW row \in Row, NEW now \in Int
    PROVE  /\ Recovered(row, now) \in Row
           /\ Recovered(row, now).destination = row.destination
           /\ Recovered(row, now).attempts = row.attempts
           /\ Recovered(row, now).claimToken = None
           /\ Recovered(row, now).claimExpiresAt = None
           /\ Recovered(row, now).state \in {"uncertain", "expired", "failed"}
           /\ row.destination = "voice" /\ row.claimToken # None
                => Recovered(row, now).state = "uncertain"
           /\ Recovered(row, now).nextAttemptAt # None => row.attempts < MaxAttempts
<1> DEFINE heard == row.destination = "voice" /\ row.claimToken # None
           expired == Passed(row.expiresAt, now)
           s == IF heard THEN "uncertain" ELSE IF expired THEN "expired" ELSE "failed"
           n == IF ~ heard /\ ~ expired /\ row.attempts < MaxAttempts THEN now ELSE None
<1>1. Recovered(row, now) = [Unclaimed(row) EXCEPT !.state = s, !.nextAttemptAt = n]
  BY DEF Recovered
<1>2. s \in {"uncertain", "expired", "failed"} /\ (heard => s = "uncertain")
  OBVIOUS
<1>3. n \in OptInstant /\ (n # None => row.attempts < MaxAttempts)
  BY DEF OptInstant
<1>4. s \in States
  BY <1>2 DEF States, Final
<1> HIDE DEF s, n
<1>5. Recovered(row, now) = With(row, s, row.attempts, None, None, n)
  BY <1>1 DEF With, Unclaimed, Row
<1>6. row.attempts \in 0..MaxAttempts /\ None \in OptInstant
  BY RowFields DEF OptInstant
<1> QED BY <1>2, <1>3, <1>4, <1>5, <1>6, WithRow

\* A claim ends at a known instant.
LEMMA ClaimEndInt ==
    ASSUME NEW row \in Row, NEW now \in Int, NEW ttl \in Int
    PROVE  ClaimEnd(row, now, ttl) \in Int
  BY DEF ClaimEnd, Row, OptInstant

\* Claiming counts an attempt and binds the row to the token.
LEMMA ClaimedRow ==
    ASSUME NEW row \in Row, NEW token \in Tokens, NEW now \in Int, NEW ttl \in Int,
           CanClaim(row, now)
    PROVE  /\ Claimed(row, token, now, ttl) \in Row
           /\ Claimed(row, token, now, ttl).destination = row.destination
           /\ Claimed(row, token, now, ttl).state = "claimed"
           /\ Claimed(row, token, now, ttl).attempts = row.attempts + 1
           /\ Claimed(row, token, now, ttl).claimToken = token
           /\ Claimed(row, token, now, ttl).claimExpiresAt \in Int
           /\ Claimed(row, token, now, ttl).nextAttemptAt = None
<1> DEFINE a == row.attempts + 1
           e == ClaimEnd(row, now, ttl)
<1>1. Claimed(row, token, now, ttl) = With(row, "claimed", a, token, e, None)
  BY DEF Claimed, With
<1>2. a \in 0..MaxAttempts
  BY RowFields DEF CanClaim, MaxAttempts
<1>3. e \in Int
  BY ClaimEndInt
<1> HIDE DEF a, e
<1>4. e \in OptInstant /\ None \in OptInstant /\ "claimed" \in States
  BY <1>3 DEF OptInstant, States, Held
<1>5. a = row.attempts + 1
  BY DEF a
<1> QED BY <1>1, <1>2, <1>3, <1>4, <1>5, WithRow

\* Renewal moves the end of the claim and nothing else.
LEMMA RenewedRow ==
    ASSUME NEW row \in Row, NEW now \in Int, NEW ttl \in Int
    PROVE  /\ Renewed(row, now, ttl) \in Row
           /\ Renewed(row, now, ttl).claimExpiresAt \in Int
           /\ Renewed(row, now, ttl).destination = row.destination
           /\ Renewed(row, now, ttl).state = row.state
           /\ Renewed(row, now, ttl).attempts = row.attempts
           /\ Renewed(row, now, ttl).claimToken = row.claimToken
           /\ Renewed(row, now, ttl).nextAttemptAt = row.nextAttemptAt
<1> DEFINE e == ClaimEnd(row, now, ttl)
<1>1. e \in Int
  BY ClaimEndInt
<1>2. Renewed(row, now, ttl) = [row EXCEPT !.claimExpiresAt = e]
  BY DEF Renewed
<1> HIDE DEF e
<1>3. Renewed(row, now, ttl)
        = With(row, row.state, row.attempts, row.claimToken, e, row.nextAttemptAt)
  BY <1>2 DEF With, Row
<1>4. e \in OptInstant
  BY <1>1 DEF OptInstant
<1>5. /\ row.state \in States /\ row.attempts \in 0..MaxAttempts
      /\ row.claimToken \in Tokens \cup {None} /\ row.nextAttemptAt \in OptInstant
  BY RowFields
<1> DEFINE r == With(row, row.state, row.attempts, row.claimToken, e, row.nextAttemptAt)
<1>6. /\ r \in Row /\ r.destination = row.destination /\ r.state = row.state
      /\ r.attempts = row.attempts /\ r.claimToken = row.claimToken
      /\ r.claimExpiresAt = e /\ r.nextAttemptAt = row.nextAttemptAt
  BY <1>4, <1>5, WithRow
<1> HIDE DEF r
<1>7. Renewed(row, now, ttl) = r
  BY <1>3 DEF r
<1> QED BY <1>1, <1>6, <1>7

\* The row an acknowledgement leaves, by the state it recorded.
LEMMA AckedRow ==
    ASSUME NEW row \in Row, NEW now \in Int, NEW token, NEW to,
           NEW retryAt \in OptInstant, CanAck(row, token, now, to)
    PROVE  LET next == Acked(row, to, retryAt) IN
           /\ next \in Row
           /\ next.destination = row.destination
           /\ next.attempts = row.attempts
           /\ next.state = IF to = "failed" /\ row.destination = "voice"
                              /\ row.state = "playing" THEN "uncertain" ELSE to
           /\ next.nextAttemptAt # None
                => next.state = "failed" /\ row.attempts < MaxAttempts
           /\ IF to \in {"preparing", "ready", "playing"}
              THEN next.claimToken = token /\ next.claimExpiresAt = row.claimExpiresAt
              ELSE next.claimToken = None /\ next.claimExpiresAt = None
<1> DEFINE s == IF to = "failed" /\ row.destination = "voice" /\ row.state = "playing"
                THEN "uncertain" ELSE to
           retry == /\ s = "failed" /\ retryAt # None /\ row.attempts < MaxAttempts
                    /\ row.expiresAt = None \/ retryAt < row.expiresAt
           n == IF retry THEN retryAt ELSE None
           keeps == s \in {"preparing", "ready", "playing"}
           t == IF keeps THEN row.claimToken ELSE None
           e == IF keeps THEN row.claimExpiresAt ELSE None
           r == With(row, s, row.attempts, t, e, n)
<1>1. s \in States
  BY DEF CanAck, AckMove, States, Held, Final
<1>2. n \in OptInstant /\ (n # None => s = "failed" /\ row.attempts < MaxAttempts)
  BY DEF OptInstant
<1>3. keeps <=> to \in {"preparing", "ready", "playing"}
  OBVIOUS
<1>4. row.attempts \in 0..MaxAttempts /\ t \in Tokens \cup {None} /\ e \in OptInstant
  BY RowFields DEF OptInstant
<1>5. IF to \in {"preparing", "ready", "playing"}
      THEN t = token /\ e = row.claimExpiresAt ELSE t = None /\ e = None
  BY <1>3 DEF CanAck, MatchesClaim
<1>6. Acked(row, to, retryAt) = r
  <2>1. CASE keeps
    <3>1. Acked(row, to, retryAt) = [row EXCEPT !.state = s, !.nextAttemptAt = n]
      BY <2>1 DEF Acked
    <3>2. t = row.claimToken /\ e = row.claimExpiresAt
      BY <2>1
    <3> HIDE DEF s, n, t, e
    <3> QED BY <3>1, <3>2 DEF With, Row
  <2>2. CASE ~ keeps
    <3>1. Acked(row, to, retryAt) = Unclaimed([row EXCEPT !.state = s, !.nextAttemptAt = n])
      BY <2>2 DEF Acked
    <3>2. t = None /\ e = None
      BY <2>2
    <3> HIDE DEF s, n, t, e
    <3> QED BY <3>1, <3>2 DEF Unclaimed, With, Row
  <2> QED BY <2>1, <2>2
<1>7. /\ r \in Row /\ r.destination = row.destination /\ r.state = s
      /\ r.attempts = row.attempts /\ r.claimToken = t
      /\ r.claimExpiresAt = e /\ r.nextAttemptAt = n
  <2> HIDE DEF s, n, t, e
  <2> QED BY <1>1, <1>2, <1>4, WithRow
<1>8. s = IF to = "failed" /\ row.destination = "voice" /\ row.state = "playing"
          THEN "uncertain" ELSE to
  OBVIOUS
<1> HIDE DEF s, n, t, e, r
<1> QED BY <1>2, <1>5, <1>6, <1>7, <1>8

\* Replay opens the row with its attempts restored.
LEMMA ReplayedRow ==
    ASSUME NEW row \in Row
    PROVE  /\ Replayed(row) \in Row
           /\ Replayed(row).destination = row.destination
           /\ Replayed(row).state = "pending"
           /\ Replayed(row).attempts = 0
           /\ Replayed(row).claimToken = None
           /\ Replayed(row).claimExpiresAt = None
           /\ Replayed(row).nextAttemptAt = None
<1>1. Replayed(row) = With(row, "pending", 0, None, None, None)
  BY DEF Replayed, Unclaimed, With, Row
<1>2. "pending" \in States /\ 0 \in 0..MaxAttempts /\ None \in OptInstant
  BY DEF States, MaxAttempts, OptInstant
<1> QED BY <1>1, <1>2, WithRow

\* Revocation silences the row for good.
LEMMA RevokedRow ==
    ASSUME NEW row \in Row
    PROVE  /\ Revoked(row) \in Row
           /\ Revoked(row).destination = row.destination
           /\ Revoked(row).state = "suppressed"
           /\ Revoked(row).attempts = row.attempts
           /\ Revoked(row).claimToken = None
           /\ Revoked(row).claimExpiresAt = None
           /\ Revoked(row).nextAttemptAt = None
<1>1. Revoked(row) = With(row, "suppressed", row.attempts, None, None, None)
  BY DEF Revoked, Unclaimed, With, Row
<1>2. "suppressed" \in States /\ row.attempts \in 0..MaxAttempts /\ None \in OptInstant
  BY RowFields DEF States, Final, OptInstant
<1> QED BY <1>1, <1>2, WithRow

----------------------------------------------------------------------------
(* How one row can move in one step *)

Counted(i, dSounds, dCalls) ==
    sounds'[i] = sounds[i] + dSounds /\ calls'[i] = calls[i] + dCalls

Kept(i) == sounds'[i] = sounds[i] /\ calls'[i] = calls[i]

MoveStay(i) == Kept(i) /\ rows'[i] = rows[i]
MoveAge(i)  == Kept(i) /\ rows'[i] = Aged(rows[i])
MoveInsert(i) ==
    /\ Kept(i) /\ rows[i].state = "absent"
    /\ rows'[i] \in Row /\ rows'[i].destination = rows[i].destination
    /\ rows'[i].attempts = rows[i].attempts
    /\ \/ /\ rows'[i].state = "pending"
          /\ rows'[i].claimToken = rows[i].claimToken
          /\ rows'[i].claimExpiresAt = rows[i].claimExpiresAt
          /\ rows[i].destination = "voice" => voice = "on"
       \/ /\ rows'[i].state = "suppressed"
          /\ rows'[i].claimToken = None /\ rows'[i].claimExpiresAt = None
MoveRecover(i) ==
    /\ Kept(i)
    /\ \E now \in Int : NeedsRecovery(rows[i], now) /\ rows'[i] = Recovered(rows[i], now)
MoveRenew(i) ==
    /\ Kept(i)
    /\ \E now \in Int, token \in Tokens \cup {None} :
          CanRenew(rows[i], token, now) /\ rows'[i] = Renewed(rows[i], now, ClaimTTL)
MoveAck(i) ==
    /\ Kept(i)
    /\ \E token \in Tokens \cup {None}, to \in States \ {"playing"}, retryAt \in OptInstant :
          /\ CanAck(rows[i], token, Now, to)
          /\ rows'[i] = Acked(rows[i], to, retryAt)
MoveSound(i) ==
    /\ Counted(i, 1, 0)
    /\ \E token \in Tokens :
          /\ <<i, token>> \in inbox /\ <<i, token>> \notin inbox'
          /\ CanAck(rows[i], token, Now, "playing")
          /\ rows'[i] = Acked(rows[i], "playing", None)
MoveClaim(i) ==
    /\ Counted(i, 0, 1)
    /\ \E now \in Int, token \in Tokens :
          /\ CanClaim(rows[i], now) /\ <<i, token>> \notin inbox
          /\ rows'[i] = Claimed(rows[i], token, now, ClaimTTL)
MoveReplay(i) ==
    /\ sounds'[i] = 0 /\ calls'[i] = 0
    /\ voice = "on" /\ voice' = voice
    /\ CanReplay(rows[i], Now) /\ rows'[i] = Replayed(rows[i])
MoveRevoke(i) ==
    Kept(i) /\ CanRevoke(rows[i]) /\ rows'[i] = Revoked(rows[i])

RowMove(i) ==
    \/ MoveStay(i) \/ MoveAge(i) \/ MoveInsert(i) \/ MoveRecover(i) \/ MoveRenew(i)
    \/ MoveAck(i) \/ MoveSound(i) \/ MoveClaim(i) \/ MoveReplay(i) \/ MoveRevoke(i)

----------------------------------------------------------------------------
(* Type correctness *)

\* Growing older keeps every field but the instants, and what is set stays set.
LEMMA AgedRow ==
    ASSUME NEW row \in Row
    PROVE  /\ Aged(row) \in Row
           /\ Aged(row).destination = row.destination
           /\ Aged(row).state = row.state
           /\ Aged(row).attempts = row.attempts
           /\ Aged(row).claimToken = row.claimToken
           /\ Aged(row).claimExpiresAt = None <=> row.claimExpiresAt = None
           /\ Aged(row).nextAttemptAt = None <=> row.nextAttemptAt = None
<1>1. ASSUME NEW x \in OptInstant
      PROVE  Earlier(x) \in OptInstant /\ (Earlier(x) = None <=> x = None)
  BY NoneAssumption DEF Earlier, OptInstant
<1> DEFINE e == Earlier(row.claimExpiresAt)
           n == Earlier(row.nextAttemptAt)
           x == Earlier(row.expiresAt)
<1>2. Aged(row) = [row EXCEPT !.claimExpiresAt = e, !.nextAttemptAt = n, !.expiresAt = x]
  BY DEF Aged
<1>3. /\ e \in OptInstant /\ n \in OptInstant /\ x \in OptInstant
      /\ e = None <=> row.claimExpiresAt = None
      /\ n = None <=> row.nextAttemptAt = None
  BY <1>1, RowFields
<1> HIDE DEF e, n, x
<1> QED BY <1>2, <1>3 DEF Row

\* A row moves to a row of the same destination.
LEMMA MovedRow ==
    ASSUME NEW i \in Items, rows[i] \in Row, RowMove(i)
    PROVE  rows'[i] \in Row /\ rows'[i].destination = rows[i].destination
<1>1. CASE MoveStay(i) BY <1>1 DEF MoveStay
<1>2. CASE MoveAge(i) BY <1>2, AgedRow DEF MoveAge
<1>3. CASE MoveInsert(i) BY <1>3 DEF MoveInsert
<1>4. CASE MoveRecover(i) BY <1>4, RecoveredRow DEF MoveRecover
<1>5. CASE MoveRenew(i)
  <2>1. PICK now \in Int : rows'[i] = Renewed(rows[i], now, ClaimTTL)
    BY <1>5 DEF MoveRenew
  <2>2. ClaimTTL \in Int
    BY DeliveryAssumption
  <2> QED BY <2>1, <2>2, RenewedRow
<1>6. CASE MoveAck(i)
  <2>1. PICK token \in Tokens \cup {None}, to \in States, retryAt \in OptInstant :
           CanAck(rows[i], token, 0, to) /\ rows'[i] = Acked(rows[i], to, retryAt)
    BY <1>6 DEF MoveAck, Now
  <2> QED BY <2>1, AckedRow
<1>7. CASE MoveSound(i)
  <2>1. PICK token \in Tokens :
           CanAck(rows[i], token, 0, "playing") /\ rows'[i] = Acked(rows[i], "playing", None)
    BY <1>7 DEF MoveSound, Now
  <2>2. None \in OptInstant
    BY DEF OptInstant
  <2> QED BY <2>1, <2>2, AckedRow
<1>8. CASE MoveClaim(i)
  <2>1. PICK now \in Int, token \in Tokens :
           CanClaim(rows[i], now) /\ rows'[i] = Claimed(rows[i], token, now, ClaimTTL)
    BY <1>8 DEF MoveClaim
  <2>2. ClaimTTL \in Int
    BY DeliveryAssumption
  <2> QED BY <2>1, <2>2, ClaimedRow
<1>9. CASE MoveReplay(i) BY <1>9, ReplayedRow DEF MoveReplay
<1>10. CASE MoveRevoke(i) BY <1>10, RevokedRow DEF MoveRevoke
<1> QED BY <1>1, <1>2, <1>3, <1>4, <1>5, <1>6, <1>7, <1>8, <1>9, <1>10 DEF RowMove

\* Writing one row moves that row and no other.
LEMMA PutMoves ==
    ASSUME TypeOK, UNCHANGED <<sounds, calls>>, NEW j, NEW row, Put(j, row), NEW i \in Items
    PROVE  /\ i # j => RowMove(i)
           /\ i = j => rows'[i] = row /\ Kept(i)
  BY DEF Put, Save, RowMove, MoveStay, Kept, TypeOK

\* An acknowledgement recovers the row, records the state asked for, or does nothing.
LEMMA AckMoves ==
    ASSUME TypeOK, UNCHANGED <<sounds, calls>>, NEW j, NEW token \in Tokens \cup {None},
           NEW to \in States \ {"playing"}, NEW retryAt \in OptInstant,
           Put(j, AfterAck(j, token, to, retryAt)), NEW i \in Items
    PROVE  RowMove(i)
<1>1. CASE i # j BY <1>1, PutMoves
<1>2. CASE i = j
  <2>1. Kept(i) /\ rows'[i] = AfterAck(i, token, to, retryAt)
    BY <1>2, PutMoves
  <2>2. CASE NeedsRecovery(rows[i], Now)
    BY <2>1, <2>2 DEF AfterAck, RowMove, MoveRecover, Now
  <2>3. CASE ~ NeedsRecovery(rows[i], Now) /\ CanAck(rows[i], token, Now, to)
    BY <2>1, <2>3 DEF AfterAck, RowMove, MoveAck
  <2>4. CASE ~ NeedsRecovery(rows[i], Now) /\ ~ CanAck(rows[i], token, Now, to)
    BY <2>1, <2>4 DEF AfterAck, RowMove, MoveStay
  <2> QED BY <2>2, <2>3, <2>4
<1> QED BY <1>1, <1>2

\* A renewal recovers the row, moves the end of its claim, or does nothing.
LEMMA RenewMoves ==
    ASSUME TypeOK, UNCHANGED <<sounds, calls>>, NEW j, NEW token \in Tokens \cup {None},
           NEW now \in Int, Put(j, AfterRenew(j, token, now)), NEW i \in Items
    PROVE  RowMove(i)
<1>1. CASE i # j BY <1>1, PutMoves
<1>2. CASE i = j
  <2>1. Kept(i) /\ rows'[i] = AfterRenew(i, token, now)
    BY <1>2, PutMoves
  <2>2. CASE NeedsRecovery(rows[i], now)
    BY <2>1, <2>2 DEF AfterRenew, RowMove, MoveRecover
  <2>3. CASE ~ NeedsRecovery(rows[i], now) /\ CanRenew(rows[i], token, now)
    BY <2>1, <2>3 DEF AfterRenew, RowMove, MoveRenew
  <2>4. CASE ~ NeedsRecovery(rows[i], now) /\ ~ CanRenew(rows[i], token, now)
    BY <2>1, <2>4 DEF AfterRenew, RowMove, MoveStay
  <2> QED BY <2>2, <2>3, <2>4
<1> QED BY <1>1, <1>2

\* What recordResult asks for is a state other than "playing", and an instant or nothing.
LEMMA RecordMoves ==
    ASSUME TypeOK, UNCHANGED <<sounds, calls>>, NEW j, NEW token \in Tokens \cup {None},
           NEW result \in Results, Record(j, token, result), NEW i \in Items
    PROVE  RowMove(i)
<1>1. CASE i # j BY <1>1, PutMoves DEF Record
<1>2. CASE i = j
  <2>1. StateOf(result) \in States \ {"playing"}
    BY <1>2 DEF StateOf, Results, States, Final
  <2>2. RetryAt(i, result) \in OptInstant
    BY <1>2, DeliveryAssumption DEF RetryAt, OptInstant, Now, MaxAttempts
  <2> QED BY <1>2, <2>1, <2>2, AckMoves DEF Record
<1> QED BY <1>1, <1>2

\* A step of the system moves every row, and revokes the voice rows whenever it silences
\* the schedule.
LEMMA StepMovesRows ==
    ASSUME TypeOK, Next, NEW i \in Items
    PROVE  /\ RowMove(i)
           /\ voice' = voice \/ voice' = "on"
              \/ rows'[i] = IF CanRevoke(rows[i]) THEN Revoked(rows[i]) ELSE rows[i]
<1>1. ASSUME UNCHANGED <<rows, sounds, calls>> PROVE RowMove(i)
  BY <1>1 DEF RowMove, MoveStay, Kept
<1>2. ASSUME RevokeAll, UNCHANGED <<sounds, calls>>
      PROVE  /\ RowMove(i)
             /\ rows'[i] = IF CanRevoke(rows[i]) THEN Revoked(rows[i]) ELSE rows[i]
  BY <1>2 DEF RevokeAll, Save, RowMove, MoveStay, MoveRevoke, Kept
<1>3. ASSUME NEW j \in Items, Insert(j) PROVE RowMove(i) /\ voice' = voice
  <2> DEFINE fresh == [rows[j] EXCEPT !.state = "pending", !.expiresAt = Lifetime[j]]
             new == IF voice # "on" /\ CanRevoke(fresh) THEN Revoked(fresh) ELSE fresh
  <2>1. Put(j, new) /\ UNCHANGED <<voice, sounds, calls>> /\ rows[j].state = "absent"
    BY <1>3 DEF Insert
  <2>2. CASE i # j BY <2>1, <2>2, PutMoves
  <2>3. CASE i = j
    <3>1. Kept(i) /\ rows'[i] = new
      BY <2>1, <2>3, PutMoves
    <3>2. rows[i] \in Row /\ Lifetime[i] \in OptInstant /\ "pending" \in States
      BY DeliveryAssumption DEF TypeOK, States
    <3>3. /\ fresh \in Row /\ fresh.state = "pending"
          /\ fresh.destination = rows[i].destination /\ fresh.attempts = rows[i].attempts
          /\ fresh.claimToken = rows[i].claimToken
          /\ fresh.claimExpiresAt = rows[i].claimExpiresAt
      BY <2>3, <3>2 DEF Row
    <3> HIDE DEF fresh
    <3>4. CASE voice # "on" /\ CanRevoke(fresh)
      BY <2>1, <2>3, <3>1, <3>3, <3>4, RevokedRow DEF RowMove, MoveInsert
    <3>5. CASE ~ (voice # "on" /\ CanRevoke(fresh))
      BY <2>1, <2>3, <3>1, <3>3, <3>5 DEF RowMove, MoveInsert, CanRevoke
    <3> QED BY <2>1, <3>4, <3>5
  <2> QED BY <2>1, <2>2, <2>3
<1>4. ASSUME NEW to, SetVoice(to)
      PROVE  RowMove(i) /\ (voice' = "on"
              \/ rows'[i] = IF CanRevoke(rows[i]) THEN Revoked(rows[i]) ELSE rows[i])
  BY <1>1, <1>2, <1>4 DEF SetVoice
<1>5. ASSUME SoftDelete
      PROVE  RowMove(i) /\
               rows'[i] = IF CanRevoke(rows[i]) THEN Revoked(rows[i]) ELSE rows[i]
  BY <1>2, <1>5 DEF SoftDelete
<1>6. ASSUME NEW p \in Procs, NEW j \in Items, ReplayDelivery(p, j)
      PROVE  RowMove(i) /\ voice' = voice
  BY <1>6 DEF ReplayDelivery, Put, Save, TypeOK, RowMove, MoveStay, MoveReplay, Kept
<1>7. ASSUME NEW p \in Procs, StartPump(p) PROVE RowMove(i) /\ voice' = voice
  BY <1>7 DEF StartPump, Save, RowMove, MoveStay, MoveRecover, Kept, Now
<1>8. ASSUME NEW p \in Procs, NEW j \in Items, RenewDeferred(p, j)
      PROVE  RowMove(i) /\ voice' = voice
  <2>1. /\ deferred[p][j] \in Tokens \cup {None} /\ pump[p].clock \in Int
        /\ UNCHANGED <<sounds, calls, voice>>
        /\ \/ Put(j, AfterRenew(j, deferred[p][j], pump[p].clock))
           \/ UNCHANGED rows
    BY <1>8 DEF RenewDeferred, TypeOK
  <2> QED BY <1>1, <2>1, RenewMoves
<1>9. ASSUME NEW p \in Procs, NEW result \in Results \cup {"deferred"},
             InspectDeferred(p, result)
      PROVE  RowMove(i) /\ voice' = voice
  <2> DEFINE j == pump[p].item
  <2>1. /\ UNCHANGED <<sounds, calls, voice>>
        /\ UNCHANGED rows \/ (result \in Results /\ Record(j, deferred[p][j], result))
    BY <1>9 DEF InspectDeferred
  <2>2. CASE j \in Items
    <3>1. deferred[p][j] \in Tokens \cup {None}
      BY <2>2 DEF TypeOK
    <3> QED BY <1>1, <2>1, <3>1, RecordMoves
  <2>3. CASE j \notin Items
    BY <1>1, <2>1, <2>3, PutMoves DEF Record
  <2> QED BY <2>2, <2>3
<1>10. ASSUME NEW p \in Procs, NEW j \in Items, NEW token \in Tokens, ClaimNext(p, j, token)
       PROVE  RowMove(i) /\ voice' = voice
  <2> DEFINE now == pump[p].clock
  <2>1. /\ now \in Int /\ UNCHANGED <<sounds, voice>> /\ FreshToken(token)
        /\ rows' = [rows EXCEPT ![j] = AfterClaim(j, token, now)]
        /\ IF ClaimAccepted(j, now) THEN calls' = [calls EXCEPT ![j] = @ + 1]
           ELSE UNCHANGED calls
    BY <1>10 DEF ClaimNext, TypeOK
  <2>2. CASE i # j
    BY <2>1, <2>2 DEF TypeOK, RowMove, MoveStay, Kept
  <2>3. CASE i = j /\ ClaimAccepted(j, now)
    <3>1. /\ rows'[i] = Claimed(rows[i], token, now, ClaimTTL) /\ CanClaim(rows[i], now)
          /\ <<i, token>> \notin inbox
      BY <2>1, <2>3 DEF TypeOK, AfterClaim, ClaimAccepted, FreshToken
    <3>2. Counted(i, 0, 1)
      BY <2>1, <2>3 DEF TypeOK, Counted
    <3> QED BY <2>1, <3>1, <3>2 DEF RowMove, MoveClaim
  <2>4. CASE i = j /\ ~ ClaimAccepted(j, now)
    <3>1. Kept(i) /\ rows'[i] = AfterClaim(i, token, now)
      BY <2>1, <2>4 DEF TypeOK, Kept
    <3> QED BY <2>1, <2>4, <3>1
            DEF AfterClaim, ClaimAccepted, RowMove, MoveRecover, MoveStay
  <2> QED BY <2>2, <2>3, <2>4
<1>11. ASSUME NEW p \in Procs, NEW j \in Items, PrepareVoice(p, j)
       PROVE  RowMove(i) /\ voice' = voice
  <2>1. /\ UNCHANGED <<sounds, calls, voice>>
        /\ UNCHANGED rows \/ Put(j, AfterAck(j, attempt[p][j].token, "preparing", None))
    BY <1>11 DEF PrepareVoice
  <2>2. attempt[p][j].token \in Tokens
    BY <1>11 DEF PrepareVoice, At, TypeOK, Attempt
  <2>3. "preparing" \in States \ {"playing"} /\ None \in OptInstant
    BY DEF States, Held, OptInstant
  <2> QED BY <1>1, <2>1, <2>2, <2>3, AckMoves
<1>12. ASSUME NEW p \in Procs, NEW j \in Items, SynthesizeVoice(p, j)
       PROVE  RowMove(i) /\ voice' = voice
  <2>1. /\ UNCHANGED <<sounds, calls, voice>>
        /\ UNCHANGED rows \/ Put(j, AfterAck(j, attempt[p][j].token, "ready", None))
    BY <1>12 DEF SynthesizeVoice
  <2>2. attempt[p][j].token \in Tokens
    BY <1>12 DEF SynthesizeVoice, At, TypeOK, Attempt
  <2>3. "ready" \in States \ {"playing"} /\ None \in OptInstant
    BY DEF States, Held, OptInstant
  <2> QED BY <1>1, <2>1, <2>2, <2>3, AckMoves
<1>13. ASSUME NEW j \in Items, NEW token \in Tokens, StartSound(j, token)
       PROVE  RowMove(i) /\ voice' = voice
  <2>1. /\ Put(j, AfterAck(j, token, "playing", None)) /\ UNCHANGED <<calls, voice>>
        /\ <<j, token>> \in inbox /\ <<j, token>> \notin inbox'
        /\ sounds' = [sounds EXCEPT ![j] =
                        IF AckAccepted(j, token, "playing") THEN @ + 1 ELSE @]
    BY <1>13 DEF StartSound
  <2>2. CASE i # j
    BY <2>1, <2>2 DEF Put, Save, TypeOK, RowMove, MoveStay, Kept
  <2>3. CASE i = j
    <3>1. rows'[i] = AfterAck(i, token, "playing", None)
      BY <2>1, <2>3 DEF Put, Save, TypeOK
    <3>2. /\ calls'[i] = calls[i] /\ calls[i] \in Nat /\ sounds[i] \in Nat
          /\ sounds'[i] = IF AckAccepted(i, token, "playing") THEN sounds[i] + 1
                          ELSE sounds[i]
      BY <2>1, <2>3 DEF TypeOK
    <3>3. CASE NeedsRecovery(rows[i], Now)
      <4>1. ~ AckAccepted(i, token, "playing")
        BY <3>3 DEF AckAccepted
      <4>2. Kept(i)
        BY <3>2, <4>1 DEF Kept
      <4>3. rows'[i] = Recovered(rows[i], 0) /\ NeedsRecovery(rows[i], 0)
        BY <3>1, <3>3 DEF AfterAck, Now
      <4> QED BY <2>1, <4>2, <4>3 DEF RowMove, MoveRecover
    <3>4. CASE AckAccepted(i, token, "playing")
      <4>1. Counted(i, 1, 0)
        BY <3>2, <3>4 DEF Counted
      <4>2. ~ NeedsRecovery(rows[i], Now) /\ CanAck(rows[i], token, Now, "playing")
        BY <3>4 DEF AckAccepted
      <4>3. rows'[i] = Acked(rows[i], "playing", None)
        BY <3>1, <4>2 DEF AfterAck
      <4> QED BY <2>1, <2>3, <4>1, <4>2, <4>3 DEF RowMove, MoveSound
    <3>5. CASE ~ NeedsRecovery(rows[i], Now) /\ ~ CanAck(rows[i], token, Now, "playing")
      <4>1. ~ AckAccepted(i, token, "playing")
        BY <3>5 DEF AckAccepted
      <4>2. Kept(i)
        BY <3>2, <4>1 DEF Kept
      <4>3. rows'[i] = rows[i]
        BY <3>1, <3>5 DEF AfterAck
      <4> QED BY <2>1, <4>2, <4>3 DEF RowMove, MoveStay
    <3> QED BY <3>3, <3>4, <3>5 DEF AckAccepted
  <2> QED BY <2>1, <2>2, <2>3
<1>14. ASSUME NEW p \in Procs, NEW j \in Items, RenewAttempt(p, j)
       PROVE  RowMove(i) /\ voice' = voice
  <2>1. /\ UNCHANGED <<sounds, calls, voice>>
        /\ Put(j, AfterRenew(j, attempt[p][j].token, Now))
    BY <1>14 DEF RenewAttempt
  <2>2. attempt[p][j].token \in Tokens /\ Now \in Int
    BY <1>14 DEF RenewAttempt, TypeOK, Attempt, Now
  <2> QED BY <2>1, <2>2, RenewMoves
<1>15. ASSUME NEW p \in Procs, NEW j \in Items, ReportResult(p, j)
       PROVE  RowMove(i) /\ voice' = voice
  <2>1. /\ UNCHANGED <<sounds, calls, voice>>
        /\ Record(j, attempt[p][j].token, attempt[p][j].step)
    BY <1>15 DEF ReportResult
  <2>2. attempt[p][j].token \in Tokens /\ attempt[p][j].step \in Results
    BY <1>15 DEF ReportResult, Resolved, TypeOK, Attempt
  <2> QED BY <2>1, <2>2, RecordMoves
<1>16. ASSUME Tick PROVE RowMove(i) /\ voice' = voice
  BY <1>16 DEF Tick, RowMove, MoveAge, Kept
<1>17. ASSUME NEW p \in Procs,
              \/ ListDue(p) \/ EndPump(p) \/ CloseProcessor(p) \/ StopProcess(p)
              \/ StartProcess(p) \/ ReadLease(p)
       PROVE  RowMove(i) /\ voice' = voice
  BY <1>1, <1>17 DEF ListDue, EndPump, CloseProcessor, StopProcess, StartProcess, ReadLease
<1>18. ASSUME NEW p \in Procs, NEW j \in Items, NEW result,
              DeliverPlain(p, j, result) \/ DeferDelivery(p, j) \/ HostOutcome(p, j, result)
       PROVE  RowMove(i) /\ voice' = voice
  BY <1>1, <1>18 DEF DeliverPlain, DeferDelivery, HostOutcome
<1>19. ASSUME NEW j \in Items, NEW token \in Tokens, DropRequest(j, token)
       PROVE  RowMove(i) /\ voice' = voice
  BY <1>1, <1>19 DEF DropRequest
<1>20. CASE Edit
  BY <1>3, <1>4, <1>5, <1>6, <1>20 DEF Edit
<1>21. CASE \E p \in Procs : Pumping(p)
  BY <1>7, <1>8, <1>9, <1>10, <1>17, <1>21 DEF Pumping, Results
<1>22. CASE \E p \in Procs : Living(p)
  BY <1>17, <1>22 DEF Living
<1>23. CASE \E p \in Procs, j \in Items : Attempting(p, j) \/ RenewAttempt(p, j)
  BY <1>11, <1>12, <1>14, <1>15, <1>18, <1>23 DEF Attempting
<1>24. CASE Hosting
  BY <1>13, <1>19, <1>24 DEF Hosting
<1> QED BY <1>16, <1>20, <1>21, <1>22, <1>23, <1>24 DEF Next

----------------------------------------------------------------------------
(* Type correctness *)

\* A step keeps the table and the ghosts in their types.
LEMMA TypedTable ==
    ASSUME TypeOK, Next
    PROVE  /\ rows' \in [Items -> Row]
           /\ sounds' \in [Items -> Nat]
           /\ calls' \in [Items -> Nat]
<1>1. rows' = [i \in Items |-> rows'[i]]
  <2>1. ASSUME NEW j, NEW row, Put(j, row) PROVE rows' = [i \in Items |-> rows'[i]]
    BY <2>1 DEF Put, Save, TypeOK
  <2>2. RevokeAll => rows' = [i \in Items |-> rows'[i]]
    BY DEF RevokeAll, Save
  <2>3. rows' = rows => rows' = [i \in Items |-> rows'[i]]
    BY DEF TypeOK
  <2>4. CASE Edit
    BY <2>1, <2>2, <2>3, <2>4 DEF Edit, Insert, SetVoice, SoftDelete, ReplayDelivery
  <2>5. ASSUME NEW p \in Procs, Pumping(p) PROVE rows' = [i \in Items |-> rows'[i]]
    <3>1. StartPump(p) => rows' = [i \in Items |-> rows'[i]]
      BY DEF StartPump, Save
    <3>2. ASSUME NEW i \in Items, NEW token \in Tokens, ClaimNext(p, i, token)
          PROVE  rows' = [j \in Items |-> rows'[j]]
      BY <3>2 DEF ClaimNext, TypeOK
    <3> QED BY <2>1, <2>3, <2>5, <3>1, <3>2
            DEF Pumping, RenewDeferred, InspectDeferred, Record, ListDue, EndPump
  <2>6. ASSUME NEW p \in Procs, Living(p) PROVE rows' = [i \in Items |-> rows'[i]]
    BY <2>3, <2>6 DEF Living, CloseProcessor, StopProcess, StartProcess, ReadLease
  <2>7. ASSUME NEW p \in Procs, NEW i \in Items, Attempting(p, i) \/ RenewAttempt(p, i)
        PROVE  rows' = [j \in Items |-> rows'[j]]
    BY <2>1, <2>3, <2>7 DEF Attempting, DeliverPlain, DeferDelivery, PrepareVoice,
                            SynthesizeVoice, HostOutcome, ReportResult, RenewAttempt, Record
  <2>8. CASE Hosting
    BY <2>1, <2>3, <2>8 DEF Hosting, StartSound, DropRequest
  <2>9. CASE Tick
    BY <2>9 DEF Tick
  <2> QED BY <2>4, <2>5, <2>6, <2>7, <2>8, <2>9 DEF Next
<1>2. ASSUME NEW i \in Items PROVE rows'[i] \in Row
  BY <1>2, StepMovesRows, MovedRow DEF TypeOK
<1>3. rows' \in [Items -> Row]
  BY <1>1, <1>2
<1> DEFINE Ghosts == sounds' \in [Items -> Nat] /\ calls' \in [Items -> Nat]
<1>4. Ghosts
  <2>1. UNCHANGED <<sounds, calls>> => Ghosts
    BY DEF TypeOK
  <2>2. ASSUME NEW p \in Procs, NEW i \in Items, ReplayDelivery(p, i) PROVE Ghosts
    BY <2>2 DEF ReplayDelivery, TypeOK
  <2>3. ASSUME NEW p \in Procs, NEW i \in Items, NEW token \in Tokens, ClaimNext(p, i, token)
        PROVE  Ghosts
    <3>1. sounds' = sounds /\ (calls' = calls \/ calls' = [calls EXCEPT ![i] = @ + 1])
      BY <2>3 DEF ClaimNext
    <3> QED BY <3>1 DEF TypeOK
  <2>4. ASSUME NEW i \in Items, NEW token \in Tokens, StartSound(i, token)
        PROVE  Ghosts
    <3> DEFINE n == IF AckAccepted(i, token, "playing") THEN sounds[i] + 1 ELSE sounds[i]
    <3>1. sounds' = [sounds EXCEPT ![i] = n]
      BY <2>4 DEF StartSound
    <3>3. n \in Nat
      BY DEF TypeOK
    <3> HIDE DEF n
    <3>2. calls' = calls
      BY <2>4 DEF StartSound
    <3> QED BY <3>1, <3>2, <3>3 DEF TypeOK
  <2> HIDE DEF Ghosts
  <2>5. CASE Edit
    BY <2>1, <2>2, <2>5 DEF Edit, Insert, SetVoice, SoftDelete
  <2>6. ASSUME NEW p \in Procs, Pumping(p) PROVE Ghosts
    BY <2>1, <2>3, <2>6 DEF Pumping, StartPump, RenewDeferred, InspectDeferred, ListDue, EndPump
  <2>7. ASSUME NEW p \in Procs, Living(p) PROVE Ghosts
    BY <2>1, <2>7 DEF Living, CloseProcessor, StopProcess, StartProcess, ReadLease
  <2>8. ASSUME NEW p \in Procs, NEW i \in Items, Attempting(p, i) \/ RenewAttempt(p, i)
        PROVE  Ghosts
    BY <2>1, <2>8 DEF Attempting, DeliverPlain, DeferDelivery, PrepareVoice,
                      SynthesizeVoice, HostOutcome, ReportResult, RenewAttempt
  <2>9. CASE Hosting
    BY <2>1, <2>4, <2>9 DEF Hosting, DropRequest
  <2>10. CASE Tick
    BY <2>1, <2>10 DEF Tick
  <2> QED BY <2>5, <2>6, <2>7, <2>8, <2>9, <2>10 DEF Next
<1> QED BY <1>3, <1>4

\* A step keeps what a process remembers in its types.
LEMMA TypedMemory ==
    ASSUME TypeOK, Next
    PROVE  /\ voice' \in {"on", "off", "deleted"}
           /\ life' \in [Procs -> {"up", "closing", "down"}]
           /\ leader' \in [Procs -> BOOLEAN]
           /\ pump' \in [Procs -> [pc   : {"idle", "reconcile", "inspect", "claim"},
                                   clock: Int,
                                   todo : SUBSET Items,
                                   item : Items \cup {None}]]
           /\ batch' \in [Procs -> SUBSET Items]
           /\ attempt' \in [Procs -> [Items -> Attempt \cup {None}]]
           /\ deferred' \in [Procs -> [Items -> Tokens \cup {None}]]
           /\ inbox' \in SUBSET (Items \X Tokens)
<1> DEFINE PumpType == [pc   : {"idle", "reconcile", "inspect", "claim"},
                      clock: Int, todo : SUBSET Items, item : Items \cup {None}]
           Memory == <<voice, life, leader, pump, batch, attempt, deferred, inbox>>
           Typed == /\ voice' \in {"on", "off", "deleted"}
                    /\ life' \in [Procs -> {"up", "closing", "down"}]
                    /\ leader' \in [Procs -> BOOLEAN]
                    /\ pump' \in [Procs -> PumpType]
                    /\ batch' \in [Procs -> SUBSET Items]
                    /\ attempt' \in [Procs -> [Items -> Attempt \cup {None}]]
                    /\ deferred' \in [Procs -> [Items -> Tokens \cup {None}]]
                    /\ inbox' \in SUBSET (Items \X Tokens)
<1>1. ASSUME NEW table, Save(table) PROVE batch' \in [Procs -> SUBSET Items]
  BY <1>1 DEF Save, TypeOK
<1>2. ASSUME NEW j, NEW row, Put(j, row) PROVE batch' \in [Procs -> SUBSET Items]
  BY <1>1, <1>2 DEF Put
<1>3. UNCHANGED batch => batch' \in [Procs -> SUBSET Items]
  BY DEF TypeOK
<1>a. ASSUME NEW p \in Procs, NEW r \in PumpType, pump' = [pump EXCEPT ![p] = r]
      PROVE  pump' \in [Procs -> PumpType]
  BY <1>a DEF TypeOK
<1>c. ASSUME NEW p \in Procs PROVE pump[p] \in PumpType
  BY DEF TypeOK
<1>b. ASSUME NEW p \in Procs, NEW j \in Items, NEW t \in Tokens \cup {None},
             deferred' = [deferred EXCEPT ![p][j] = t]
      PROVE  deferred' \in [Procs -> [Items -> Tokens \cup {None}]]
  BY <1>b DEF TypeOK
<1>4. ASSUME NEW p \in Procs, NEW j \in Items, attempt[p][j] # None,
             NEW step \in Steps \cup Results,
             attempt' = [attempt EXCEPT ![p][j].step = step]
      PROVE  attempt' \in [Procs -> [Items -> Attempt \cup {None}]]
  <2>1. attempt[p][j] \in Attempt
    BY <1>4 DEF TypeOK
  <2>2. [attempt[p][j] EXCEPT !.step = step] \in Attempt
    BY <2>1 DEF Attempt
  <2>3. attempt' = [attempt EXCEPT ![p] = [attempt[p] EXCEPT ![j] =
                      [attempt[p][j] EXCEPT !.step = step]]]
    BY <1>4
  <2> QED BY <2>2, <2>3 DEF TypeOK
<1>5. ASSUME NEW p \in Procs, NEW j \in Items, NEW a \in Attempt \cup {None},
             attempt' = [attempt EXCEPT ![p][j] = a]
      PROVE  attempt' \in [Procs -> [Items -> Attempt \cup {None}]]
  BY <1>5 DEF TypeOK
<1>6. CASE Edit
  BY <1>1, <1>2, <1>3, <1>6
     DEF Edit, Insert, SetVoice, SoftDelete, ReplayDelivery, RevokeAll, TypeOK
<1>7. ASSUME NEW p \in Procs, Pumping(p) PROVE Typed
  <2>1. CASE StartPump(p)
    <3>1. [pc |-> "reconcile", clock |-> Now, item |-> None,
           todo |-> {i \in Items : deferred[p][i] # None}] \in PumpType
      BY DEF Now
    <3>2. pump' \in [Procs -> PumpType]
      BY <2>1, <3>1 DEF StartPump, TypeOK
    <3>3. batch' \in [Procs -> SUBSET Items]
      BY <1>1, <2>1 DEF StartPump
    <3> QED BY <2>1, <3>2, <3>3 DEF StartPump, TypeOK
  <2>2. ASSUME NEW j \in Items, RenewDeferred(p, j) PROVE Typed
    <3>1. batch' \in [Procs -> SUBSET Items]
      BY <1>2, <1>3, <2>2 DEF RenewDeferred
    <3>2. pump' \in [Procs -> PumpType]
      <4> DEFINE inspected == [pump[p] EXCEPT !.pc = "inspect", !.item = j, !.todo = @ \ {j}]
                 forgotten == [pump[p] EXCEPT !.todo = @ \ {j}]
      <4>1. inspected \in PumpType /\ forgotten \in PumpType
        BY <1>c
      <4>2. pump' = [pump EXCEPT ![p] = inspected] \/ pump' = [pump EXCEPT ![p] = forgotten]
        BY <2>2 DEF RenewDeferred
      <4> QED BY <1>a, <4>1, <4>2
    <3>3. deferred' \in [Procs -> [Items -> Tokens \cup {None}]]
      <4>1. deferred' = deferred \/ deferred' = [deferred EXCEPT ![p][j] = None]
        BY <2>2 DEF RenewDeferred
      <4> QED BY <1>b, <4>1 DEF TypeOK
    <3> QED BY <2>2, <3>1, <3>2, <3>3 DEF RenewDeferred, TypeOK
  <2>3. ASSUME NEW result, InspectDeferred(p, result) PROVE Typed
    <3>1. batch' \in [Procs -> SUBSET Items]
      BY <1>2, <1>3, <2>3 DEF InspectDeferred, Record
    <3>2. pump' \in [Procs -> PumpType]
      <4> DEFINE back == [pump[p] EXCEPT !.pc = "reconcile", !.item = None]
      <4>1. back \in PumpType
        BY <1>c
      <4>2. pump' = [pump EXCEPT ![p] = back]
        BY <2>3 DEF InspectDeferred
      <4> QED BY <1>a, <4>1, <4>2
    <3>3. deferred' \in [Procs -> [Items -> Tokens \cup {None}]]
      <4>1. deferred' = deferred \/ deferred' = [deferred EXCEPT ![p][pump[p].item] = None]
        BY <2>3 DEF InspectDeferred
      <4>2. CASE pump[p].item \in Items
        BY <1>b, <4>1, <4>2 DEF TypeOK
      <4>3. CASE pump[p].item \notin Items
        BY <4>1, <4>3 DEF TypeOK
      <4> QED BY <4>2, <4>3
    <3> QED BY <2>3, <3>1, <3>2, <3>3 DEF InspectDeferred, TypeOK
  <2>4. CASE ListDue(p)
    <3>1. pump' \in [Procs -> PumpType]
      <4>1. [pump[p] EXCEPT !.pc = "claim"] \in PumpType
        BY <1>c
      <4>2. pump' = [pump EXCEPT ![p] = [pump[p] EXCEPT !.pc = "claim"]]
        BY <2>4 DEF ListDue, PumpTo
      <4> QED BY <1>a, <4>1, <4>2
    <3> QED BY <2>4, <3>1 DEF ListDue, TypeOK
  <2>5. ASSUME NEW j \in Items, NEW token \in Tokens, ClaimNext(p, j, token) PROVE Typed
    <3>1. batch' \in [Procs -> SUBSET Items]
      <4> DEFINE kept(q) == {i \in batch[q] \ (IF q = p THEN {j} ELSE {}) :
                    [rows EXCEPT ![j] = AfterClaim(j, token, pump[p].clock)][i] = rows[i]}
      <4>1. batch' = [q \in Procs |-> kept(q)]
        BY <2>5 DEF ClaimNext
      <4>2. ASSUME NEW q \in Procs PROVE kept(q) \subseteq Items
        BY DEF TypeOK
      <4> HIDE DEF kept
      <4> QED BY <4>1, <4>2
    <3>2. [token |-> token, step |-> "deliver"] \in Attempt
      BY DEF Attempt, Steps
    <3>3. \/ UNCHANGED attempt
          \/ attempt' = [attempt EXCEPT ![p][j] = [token |-> token, step |-> "deliver"]]
      BY <2>5 DEF ClaimNext
    <3>4. attempt' \in [Procs -> [Items -> Attempt \cup {None}]]
      BY <1>5, <3>2, <3>3 DEF TypeOK
    <3> QED BY <2>5, <3>1, <3>4 DEF ClaimNext, TypeOK
  <2>6. CASE EndPump(p)
    <3>1. pump' \in [Procs -> PumpType]
      BY <2>6 DEF EndPump, PumpIdle, TypeOK
    <3> QED BY <2>6, <3>1 DEF EndPump, TypeOK
  <2> HIDE DEF Typed
  <2> QED BY <1>7, <2>1, <2>2, <2>3, <2>4, <2>5, <2>6 DEF Pumping
<1>8. ASSUME NEW p \in Procs, Living(p) PROVE Typed
  <2>1. CASE CloseProcessor(p)
    <3> DEFINE ended(i) == IF attempt[p][i] = None \/ Resolved(p, i) THEN attempt[p][i]
                          ELSE [attempt[p][i] EXCEPT !.step = "uncertain"]
    <3>1. attempt' = [attempt EXCEPT ![p] = [i \in Items |-> ended(i)]]
      BY <2>1 DEF CloseProcessor
    <3>2. ASSUME NEW i \in Items PROVE ended(i) \in Attempt \cup {None}
      <4>1. attempt[p][i] \in Attempt \cup {None} /\ "uncertain" \in Results
        BY DEF TypeOK, Results
      <4> QED BY <4>1 DEF Attempt
    <3> HIDE DEF ended
    <3>3. attempt' \in [Procs -> [Items -> Attempt \cup {None}]]
      BY <3>1, <3>2 DEF TypeOK
    <3> QED BY <2>1, <3>3 DEF CloseProcessor, TypeOK
  <2>2. CASE StopProcess(p)
    <3>1. pump' \in [Procs -> PumpType]
      BY <2>2 DEF StopProcess, PumpIdle, TypeOK
    <3>2. attempt' \in [Procs -> [Items -> Attempt \cup {None}]]
      BY <2>2 DEF StopProcess, TypeOK
    <3>3. deferred' \in [Procs -> [Items -> Tokens \cup {None}]]
      BY <2>2 DEF StopProcess, TypeOK
    <3> QED BY <2>2, <3>1, <3>2, <3>3 DEF StopProcess, TypeOK
  <2>3. CASE StartProcess(p)
    BY <2>3 DEF StartProcess, TypeOK
  <2>4. CASE ReadLease(p)
    BY <2>4 DEF ReadLease, TypeOK
  <2> QED BY <1>8, <2>1, <2>2, <2>3, <2>4 DEF Living
<1>9. ASSUME NEW p \in Procs, NEW j \in Items, Attempting(p, j) \/ RenewAttempt(p, j)
      PROVE  Typed
  <2> DEFINE Quiet == UNCHANGED <<voice, life, leader, pump>>
             Batched == batch' \in [Procs -> SUBSET Items]
             Attempted == attempt' \in [Procs -> [Items -> Attempt \cup {None}]]
  <2>1. ASSUME NEW result \in Results, attempt[p][j] # None, Resolve(p, j, result)
        PROVE  Attempted
    BY <1>4, <2>1 DEF Resolve
  <2>2. ASSUME Quiet, Batched, Attempted, UNCHANGED <<deferred, inbox>> PROVE Typed
    BY <2>2 DEF TypeOK
  <2>3. ASSUME NEW result, DeliverPlain(p, j, result) \/ HostOutcome(p, j, result),
               result \in Results
        PROVE  Typed
    BY <1>3, <2>1, <2>2, <2>3 DEF DeliverPlain, HostOutcome, At
  <2>4. CASE DeferDelivery(p, j)
    <3>1. attempt[p][j].token \in Tokens
      BY <2>4 DEF DeferDelivery, At, TypeOK, Attempt
    <3>2. deferred' \in [Procs -> [Items -> Tokens \cup {None}]]
      BY <2>4, <3>1 DEF DeferDelivery, TypeOK
    <3>3. Attempted
      BY <1>5, <2>4 DEF DeferDelivery
    <3> QED BY <2>4, <3>2, <3>3 DEF DeferDelivery, TypeOK
  <2>5. CASE PrepareVoice(p, j)
    <3>1. Batched
      BY <1>2, <1>3, <2>5 DEF PrepareVoice
    <3>2. Attempted
      BY <1>4, <2>1, <2>5 DEF PrepareVoice, At, Steps, Results
    <3> QED BY <2>2, <2>5, <3>1, <3>2 DEF PrepareVoice
  <2>6. CASE SynthesizeVoice(p, j)
    <3>1. Batched
      BY <1>2, <1>3, <2>6 DEF SynthesizeVoice
    <3>2. Attempted
      BY <1>4, <2>1, <2>6 DEF SynthesizeVoice, At, Steps, Results
    <3>3. attempt[p][j].token \in Tokens
      BY <2>6 DEF SynthesizeVoice, At, TypeOK, Attempt
    <3>4. inbox' \in SUBSET (Items \X Tokens)
      BY <2>6, <3>3 DEF SynthesizeVoice, TypeOK
    <3> QED BY <2>6, <3>1, <3>2, <3>4 DEF SynthesizeVoice, TypeOK
  <2>7. CASE RenewAttempt(p, j)
    <3>1. Batched
      BY <1>2, <2>7 DEF RenewAttempt
    <3>2. Attempted
      BY <2>1, <2>7 DEF RenewAttempt, Results, TypeOK
    <3> QED BY <2>2, <2>7, <3>1, <3>2 DEF RenewAttempt
  <2>8. CASE ReportResult(p, j)
    <3>1. Batched
      BY <1>2, <2>8 DEF ReportResult, Record
    <3>2. Attempted
      BY <1>5, <2>8 DEF ReportResult
    <3> QED BY <2>2, <2>8, <3>1, <3>2 DEF ReportResult
  <2> HIDE DEF Typed
  <2> QED BY <1>9, <2>3, <2>4, <2>5, <2>6, <2>7, <2>8 DEF Attempting
<1>10. CASE Hosting
  <2>1. ASSUME NEW j \in Items, NEW token \in Tokens, StartSound(j, token) PROVE Typed
    <3> DEFINE granted == AckAccepted(j, token, "playing")
               moved(p, i) == IF i = j /\ At(p, i, "outcome") /\ attempt[p][i].token = token
                              THEN [attempt[p][i] EXCEPT !.step = IF granted THEN "sounding"
                                                                  ELSE "failed"]
                              ELSE attempt[p][i]
    <3>1. attempt' = [p \in Procs |-> [i \in Items |-> moved(p, i)]]
      BY <2>1 DEF StartSound
    <3>2. ASSUME NEW p \in Procs, NEW i \in Items PROVE moved(p, i) \in Attempt \cup {None}
      <4>1. attempt[p][i] \in Attempt \cup {None}
        BY DEF TypeOK
      <4>2. "sounding" \in Steps \cup Results /\ "failed" \in Steps \cup Results
        BY DEF Steps, Results
      <4> HIDE DEF granted
      <4> QED BY <4>1, <4>2 DEF Attempt, At
    <3> HIDE DEF moved
    <3>3. attempt' \in [Procs -> [Items -> Attempt \cup {None}]]
      BY <3>1, <3>2
    <3>4. batch' \in [Procs -> SUBSET Items]
      BY <1>2, <2>1 DEF StartSound
    <3> QED BY <2>1, <3>3, <3>4 DEF StartSound, TypeOK
  <2>2. ASSUME NEW j \in Items, NEW token \in Tokens, DropRequest(j, token) PROVE Typed
    BY <2>2 DEF DropRequest, TypeOK
  <2> QED BY <1>10, <2>1, <2>2 DEF Hosting
<1>11. CASE Tick
  <2>1. pump' \in [Procs -> PumpType]
    <3> DEFINE later(p) == IF pump[p].pc = "idle" THEN pump[p]
                           ELSE [pump[p] EXCEPT !.clock = @ - 1]
    <3>1. ASSUME NEW p \in Procs PROVE later(p) \in PumpType
      <4>1. pump[p].clock - 1 \in Int
        BY <1>c
      <4> QED BY <1>c, <4>1
    <3>2. pump' = [p \in Procs |-> later(p)]
      BY <1>11 DEF Tick
    <3> HIDE DEF later
    <3> QED BY <3>1, <3>2
  <2> QED BY <1>11, <2>1 DEF Tick, TypeOK
<1> QED BY <1>6, <1>7, <1>8, <1>9, <1>10, <1>11 DEF Next

\* The table starts empty and every process idle: all in their types.
LEMMA InitTyped == Init => TypeOK
<1> SUFFICES ASSUME Init PROVE TypeOK
  OBVIOUS
<1>1. ASSUME NEW i \in Items PROVE Absent(i) \in Row
  BY DeliveryAssumption DEF Absent, Row, States, MaxAttempts, OptInstant
<1>2. rows \in [Items -> Row]
  BY <1>1 DEF Init
<1>3. PumpIdle \in [pc   : {"idle", "reconcile", "inspect", "claim"},
                   clock: Int, todo : SUBSET Items, item : Items \cup {None}]
  BY DEF PumpIdle
<1>4. pump \in [Procs -> [pc   : {"idle", "reconcile", "inspect", "claim"},
                         clock: Int, todo : SUBSET Items, item : Items \cup {None}]]
  BY <1>3 DEF Init
<1> QED BY <1>2, <1>4 DEF Init, TypeOK

\* No step, of any process, leaves a type.
LEMMA StepTyped == ASSUME TypeOK, [Next]_vars PROVE TypeOK'
<1>1. CASE Next
  BY <1>1, TypedTable, TypedMemory DEF TypeOK
<1>2. CASE UNCHANGED vars
  BY <1>2 DEF TypeOK, vars
<1> QED BY <1>1, <1>2

\* Every reachable state has the declared types, in particular no row is ever attempted
\* more than MaxAttempts times between two authorisations.
THEOREM TypeCorrect == Spec => []TypeOK
  BY InitTyped, StepTyped, PTL DEF Spec

----------------------------------------------------------------------------
(* The inductive invariant *)

\* A request the host holds for the live claim of a row finds that row ready: it has not
\* sounded under this claim yet.  Without it a second start could repeat a sound.
InboxReady(i) ==
    \A token \in Tokens :
        <<i, token>> \in inbox /\ rows[i].claimToken = token => rows[i].state = "ready"

HeldOK(i) ==
    /\ rows[i].state \in Held <=> rows[i].claimToken # None
    /\ rows[i].claimToken # None <=> rows[i].claimExpiresAt # None

\* Where a row can be once it was allowed to sound.
AfterSound == {"playing", "played", "suppressed", "interrupted", "uncertain", "cancelled"}

SoundOK(i) ==
    /\ sounds[i] \in {0, 1}
    /\ sounds[i] = 1 => rows[i].destination = "voice" /\ rows[i].state \in AfterSound
    /\ rows[i].state \in {"playing", "played"} => sounds[i] = 1

\* The durable count is the number of attempts begun.
CountOK(i) ==
    /\ calls[i] = rows[i].attempts
    /\ rows[i].state = "absent" => rows[i].attempts = 0

RowOK(i) ==
    /\ rows[i].destination = Destination[i]
    /\ InboxReady(i) /\ HeldOK(i) /\ SoundOK(i) /\ CountOK(i)

DeliveryInv == TypeOK /\ \A i \in Items : RowOK(i)

\* Whatever way a row moves, it stays right; the host may gain a request for a ready row.
LEMMA MoveKeepsRow ==
    ASSUME TypeOK, NEW i \in Items, RowOK(i), RowMove(i),
           \A token \in Tokens : <<i, token>> \in inbox' =>
               <<i, token>> \in inbox \/ rows'[i].state = "ready"
    PROVE  RowOK(i)'
<1>1. /\ rows[i] \in Row /\ sounds[i] \in Nat /\ calls[i] \in Nat
      /\ rows[i].state \in States /\ rows[i].attempts \in 0..MaxAttempts
  BY RowFields DEF TypeOK
<1>2. rows'[i].destination = rows[i].destination
  BY <1>1, MovedRow
<1> USE DEF RowOK, InboxReady, HeldOK, SoundOK, CountOK, AfterSound
<1>3. CASE MoveStay(i)
  BY <1>1, <1>3 DEF MoveStay, Kept
<1>4. CASE MoveAge(i)
  BY <1>1, <1>4, AgedRow DEF MoveAge, Kept
<1>5. CASE MoveInsert(i)
  BY <1>1, <1>5 DEF MoveInsert, Kept, Held
<1>6. CASE MoveRecover(i)
  <2>1. PICK now \in Int : NeedsRecovery(rows[i], now) /\ rows'[i] = Recovered(rows[i], now)
    BY <1>6 DEF MoveRecover
  <2>2. /\ rows'[i].claimToken = None /\ rows'[i].claimExpiresAt = None
        /\ rows'[i].state \in {"uncertain", "expired", "failed"}
        /\ rows'[i].attempts = rows[i].attempts
        /\ rows[i].destination = "voice" /\ rows[i].claimToken # None
             => rows'[i].state = "uncertain"
    BY <1>1, <2>1, RecoveredRow
  <2>3. rows[i].state \notin Final \cup {"absent"}
    BY <2>1 DEF NeedsRecovery
  <2> QED BY <1>1, <1>2, <1>6, <2>2, <2>3, NoneAssumption DEF MoveRecover, Kept, Held, Final
<1>7. CASE MoveRenew(i)
  <2>1. PICK now \in Int : rows'[i] = Renewed(rows[i], now, ClaimTTL)
    BY <1>7 DEF MoveRenew
  <2>2. PICK token \in Tokens \cup {None} : \E clock \in Int : CanRenew(rows[i], token, clock)
    BY <1>7 DEF MoveRenew
  <2>3. rows[i].state \in Held
    BY <2>2 DEF CanRenew
  <2>4. ClaimTTL \in Int
    BY DeliveryAssumption
  <2>5. /\ rows'[i].claimExpiresAt \in Int /\ rows'[i].state = rows[i].state
        /\ rows'[i].attempts = rows[i].attempts /\ rows'[i].claimToken = rows[i].claimToken
    BY <1>1, <2>1, <2>4, RenewedRow
  <2> QED BY <1>1, <1>2, <1>7, <2>3, <2>5, NoneAssumption DEF MoveRenew, Kept
<1>8. CASE MoveAck(i)
  <2>1. PICK token \in Tokens \cup {None}, to \in States \ {"playing"}, retryAt \in OptInstant :
           CanAck(rows[i], token, 0, to) /\ rows'[i] = Acked(rows[i], to, retryAt)
    BY <1>8 DEF MoveAck, Now
  <2>2. /\ rows'[i].attempts = rows[i].attempts
        /\ rows'[i].state = IF to = "failed" /\ rows[i].destination = "voice"
                              /\ rows[i].state = "playing" THEN "uncertain" ELSE to
        /\ IF to \in {"preparing", "ready", "playing"}
           THEN /\ rows'[i].claimToken = token
                /\ rows'[i].claimExpiresAt = rows[i].claimExpiresAt
           ELSE rows'[i].claimToken = None /\ rows'[i].claimExpiresAt = None
    BY <1>1, <2>1, AckedRow
  <2>3. rows[i].claimToken = token /\ rows[i].state \in Held /\ AckMove(rows[i], to)
    BY <2>1 DEF CanAck, MatchesClaim
  <2>4. token # None /\ token \in Tokens
    BY <1>1, <2>3
  <2>5. CASE to \in {"preparing", "ready"}
    BY <1>1, <1>2, <1>8, <2>2, <2>3, <2>4, <2>5 DEF MoveAck, Kept, Held, AckMove
  <2>6. CASE to \notin {"preparing", "ready"}
    BY <1>1, <1>2, <1>8, <2>1, <2>2, <2>3, <2>4, <2>6, NoneAssumption
       DEF MoveAck, Kept, Held, AckMove
  <2> QED BY <2>5, <2>6
<1>9. CASE MoveSound(i)
  <2>1. PICK token \in Tokens :
           /\ <<i, token>> \in inbox /\ <<i, token>> \notin inbox'
           /\ CanAck(rows[i], token, 0, "playing")
           /\ rows'[i] = Acked(rows[i], "playing", None)
    BY <1>9 DEF MoveSound, Now
  <2>2. None \in OptInstant
    BY DEF OptInstant
  <2>3. /\ rows'[i].attempts = rows[i].attempts /\ rows'[i].state = "playing"
        /\ rows'[i].claimToken = token /\ rows'[i].claimExpiresAt = rows[i].claimExpiresAt
    BY <1>1, <2>1, <2>2, AckedRow
  <2>4. rows[i].claimToken = token /\ rows[i].destination = "voice"
    BY <2>1 DEF CanAck, MatchesClaim, AckMove
  <2>5. rows[i].state = "ready" /\ token # None
    BY <2>1, <2>4, NoneAssumption
  <2>6. sounds[i] = 0 /\ sounds'[i] = 1 /\ calls'[i] = calls[i]
    BY <1>1, <1>9, <2>5 DEF MoveSound, Counted
  <2> QED BY <1>1, <1>2, <2>1, <2>3, <2>4, <2>5, <2>6 DEF Held
<1>10. CASE MoveClaim(i)
  <2>1. PICK now \in Int, token \in Tokens :
           /\ CanClaim(rows[i], now) /\ <<i, token>> \notin inbox
           /\ rows'[i] = Claimed(rows[i], token, now, ClaimTTL)
    BY <1>10 DEF MoveClaim
  <2>2. ClaimTTL \in Int
    BY DeliveryAssumption
  <2>3. /\ rows'[i].state = "claimed" /\ rows'[i].attempts = rows[i].attempts + 1
        /\ rows'[i].claimToken = token /\ rows'[i].claimExpiresAt \in Int
    BY <1>1, <2>1, <2>2, ClaimedRow
  <2>4. rows[i].state \in {"pending", "preparing", "ready", "failed"}
    BY <2>1 DEF CanClaim
  <2>5. sounds[i] = 0 /\ sounds'[i] = 0 /\ calls'[i] = calls[i] + 1
    BY <1>1, <1>10, <2>4 DEF MoveClaim, Counted
  <2> QED BY <1>1, <1>2, <2>1, <2>3, <2>5, NoneAssumption DEF Held
<1>11. CASE MoveReplay(i)
  BY <1>1, <1>2, <1>11, ReplayedRow, NoneAssumption DEF MoveReplay, Held
<1>12. CASE MoveRevoke(i)
  BY <1>1, <1>12, RevokedRow, NoneAssumption DEF MoveRevoke, Kept, Held, CanRevoke
<1> QED BY <1>3, <1>4, <1>5, <1>6, <1>7, <1>8, <1>9, <1>10, <1>11, <1>12 DEF RowMove

\* Only a synthesis that made its row ready sends the host a request.
LEMMA StepInbox ==
    ASSUME TypeOK, Next, NEW i \in Items, NEW token \in Tokens, <<i, token>> \in inbox'
    PROVE  <<i, token>> \in inbox \/ rows'[i].state = "ready"
<1>1. UNCHANGED inbox => <<i, token>> \in inbox
  OBVIOUS
<1>2. CASE Edit
  BY <1>1, <1>2 DEF Edit, Insert, SetVoice, SoftDelete, ReplayDelivery
<1>3. ASSUME NEW p \in Procs, Pumping(p) \/ Living(p) PROVE <<i, token>> \in inbox
  BY <1>1, <1>3 DEF Pumping, StartPump, RenewDeferred, InspectDeferred, ListDue, ClaimNext,
                    EndPump, Living, CloseProcessor, StopProcess, StartProcess, ReadLease
<1>4. ASSUME NEW p \in Procs, NEW j \in Items, SynthesizeVoice(p, j)
      PROVE  <<i, token>> \in inbox \/ rows'[i].state = "ready"
  <2> DEFINE t == attempt[p][j].token
  <2>1. \/ inbox' = inbox
        \/ /\ inbox' = inbox \cup {<<j, t>>} /\ AckAccepted(j, t, "ready")
           /\ Put(j, AfterAck(j, t, "ready", None))
    BY <1>4 DEF SynthesizeVoice
  <2>2. CASE <<i, token>> \notin inbox
    <3>1. i = j /\ AckAccepted(i, t, "ready") /\ Put(i, AfterAck(i, t, "ready", None))
      BY <2>1, <2>2
    <3>2. CanAck(rows[i], t, 0, "ready") /\ rows'[i] = Acked(rows[i], "ready", None)
      BY <3>1 DEF AckAccepted, AfterAck, Put, Save, TypeOK, Now
    <3>3. rows[i] \in Row /\ None \in OptInstant
      BY DEF TypeOK, OptInstant
    <3>4. rows'[i].state = "ready"
      BY <3>2, <3>3, AckedRow
    <3> QED BY <3>4
  <2> QED BY <2>2
<1>5. ASSUME NEW p \in Procs, NEW j \in Items, Attempting(p, j) \/ RenewAttempt(p, j)
      PROVE  <<i, token>> \in inbox \/ rows'[i].state = "ready"
  BY <1>1, <1>4, <1>5 DEF Attempting, DeliverPlain, DeferDelivery, PrepareVoice, HostOutcome,
                          ReportResult, RenewAttempt
<1>6. CASE Hosting
  BY <1>6 DEF Hosting, StartSound, DropRequest
<1>7. CASE Tick
  BY <1>1, <1>7 DEF Tick
<1> QED BY <1>2, <1>3, <1>5, <1>6, <1>7 DEF Next

\* Rows that do not exist yet are right.
LEMMA InitInv == Init => DeliveryInv
<1> SUFFICES ASSUME Init PROVE DeliveryInv
  OBVIOUS
<1>1. TypeOK
  BY InitTyped
<1>2. ASSUME NEW i \in Items PROVE RowOK(i)
  BY <1>2, NoneAssumption
     DEF Init, Absent, RowOK, InboxReady, HeldOK, SoundOK, CountOK, Held
<1> QED BY <1>1, <1>2 DEF DeliveryInv

\* Every step keeps every row right: it moves the row in one of the ways of RowMove.
LEMMA StepInv == ASSUME DeliveryInv, [Next]_vars PROVE DeliveryInv'
<1>1. CASE Next
  <2>1. TypeOK'
    BY <1>1, StepTyped DEF DeliveryInv
  <2>2. ASSUME NEW i \in Items PROVE RowOK(i)'
    BY <1>1, <2>2, StepMovesRows, StepInbox, MoveKeepsRow DEF DeliveryInv
  <2> QED BY <2>1, <2>2 DEF DeliveryInv
<1>2. CASE UNCHANGED vars
  <2>1. ASSUME NEW i \in Items PROVE RowOK(i)'
    BY <1>2, <2>1 DEF vars, DeliveryInv, RowOK, InboxReady, HeldOK, SoundOK, CountOK
  <2>2. TypeOK'
    BY <1>2, StepTyped DEF DeliveryInv
  <2> QED BY <2>1, <2>2 DEF DeliveryInv
<1> QED BY <1>1, <1>2

\* The invariant holds in every reachable state.
THEOREM InvCorrect == Spec => []DeliveryInv
  BY InitInv, StepInv, PTL DEF Spec

----------------------------------------------------------------------------
(* The properties the runs check *)

\* No row is left under way without a claim that an acknowledgement or recovery can end.
THEOREM HeldCorrect == Spec => []HeldIffClaimed
<1>1. DeliveryInv => HeldIffClaimed
  BY DEF DeliveryInv, RowOK, HeldOK, HeldIffClaimed
<1> QED BY <1>1, InvCorrect, PTL

\* One authorisation sounds at most once, whatever crashes, expires or starts late.
THEOREM SoundsOnceCorrect == Spec => []SoundsOnce
<1>1. DeliveryInv => SoundsOnce
  BY DEF DeliveryInv, RowOK, SoundOK, SoundsOnce
<1> QED BY <1>1, InvCorrect, PTL

\* "played" is never recorded without a sound, and what sounded is never offered again.
THEOREM PlayedSoundedCorrect == Spec => []PlayedSounded
<1>1. DeliveryInv => PlayedSounded
  BY DEF DeliveryInv, RowOK, SoundOK, AfterSound, PlayedSounded
<1> QED BY <1>1, InvCorrect, PTL

\* The durable count bounds the calls of the adapter.
THEOREM CallsBoundedCorrect == Spec => []CallsBounded
<1>1. DeliveryInv => CallsBounded
  <2> SUFFICES ASSUME DeliveryInv, NEW i \in Items PROVE calls[i] <= MaxAttempts
    BY DEF CallsBounded
  <2>1. rows[i].attempts \in 0..MaxAttempts /\ calls[i] = rows[i].attempts
    BY RowFields DEF DeliveryInv, RowOK, CountOK, TypeOK
  <2> QED BY <2>1 DEF MaxAttempts
<1> QED BY <1>1, InvCorrect, PTL

\* Voice turned off or a schedule deleted leaves nothing that could still sound.
THEOREM SilencedCorrect == Spec => []SilencedStaysSilent
<1>1. Init => SilencedStaysSilent
  BY DEF Init, SilencedStaysSilent
<1>2. ASSUME DeliveryInv, SilencedStaysSilent, [Next]_vars PROVE SilencedStaysSilent'
  <2>1. CASE UNCHANGED vars
    BY <1>2, <2>1 DEF vars, SilencedStaysSilent
  <2>2. CASE Next
    <3> SUFFICES ASSUME voice' # "on", NEW i \in Items, rows'[i].destination = "voice"
                 PROVE  rows'[i].state
                          \notin {"pending", "claimed", "preparing", "ready", "failed"}
      BY DEF SilencedStaysSilent
    <3>1. rows[i] \in Row /\ RowOK(i)
      BY <1>2 DEF DeliveryInv, TypeOK
    <3>2. RowMove(i)
      BY <1>2, <2>2, StepMovesRows DEF DeliveryInv
    <3>3. rows[i].destination = "voice"
      BY <3>1, <3>2, MovedRow
    <3>4. CASE voice' = voice
      <4>1. rows[i].state \notin {"pending", "claimed", "preparing", "ready", "failed"}
        BY <1>2, <3>3, <3>4 DEF SilencedStaysSilent
      <4>2. CASE MoveStay(i) BY <4>1, <4>2 DEF MoveStay
      <4>3. CASE MoveAge(i) BY <3>1, <4>1, <4>3, AgedRow DEF MoveAge
      <4>4. CASE MoveInsert(i) BY <3>3, <3>4, <4>4 DEF MoveInsert
      <4>5. CASE MoveRecover(i)
        <5>1. PICK now \in Int : /\ NeedsRecovery(rows[i], now)
                                 /\ rows'[i] = Recovered(rows[i], now)
          BY <4>5 DEF MoveRecover
        <5>2. rows[i].state \in Held
          BY <3>1, <4>1, <5>1, RowFields DEF NeedsRecovery, States
        <5>3. rows[i].claimToken # None
          BY <3>1, <5>2 DEF RowOK, HeldOK
        <5> QED BY <3>1, <3>3, <5>1, <5>3, RecoveredRow
      <4>6. CASE MoveRenew(i)
        <5>1. PICK now \in Int : rows'[i] = Renewed(rows[i], now, ClaimTTL)
          BY <4>6 DEF MoveRenew
        <5> QED BY <3>1, <4>1, <5>1, RenewedRow, DeliveryAssumption
      <4>7. CASE MoveAck(i)
        <5>1. PICK token \in Tokens \cup {None}, to \in States \ {"playing"},
                   retryAt \in OptInstant :
                 CanAck(rows[i], token, 0, to) /\ rows'[i] = Acked(rows[i], to, retryAt)
          BY <4>7 DEF MoveAck, Now
        <5>2. rows'[i].state = IF to = "failed" /\ rows[i].destination = "voice"
                                  /\ rows[i].state = "playing" THEN "uncertain" ELSE to
          BY <3>1, <5>1, AckedRow
        <5>3. AckMove(rows[i], to) /\ rows[i].state = "playing"
          BY <4>1, <5>1 DEF CanAck, Held
        <5> QED BY <3>3, <5>2, <5>3 DEF AckMove
      <4>8. CASE MoveSound(i)
        <5>1. PICK token \in Tokens :
                 /\ CanAck(rows[i], token, 0, "playing")
                 /\ rows'[i] = Acked(rows[i], "playing", None)
          BY <4>8 DEF MoveSound, Now
        <5>2. None \in OptInstant
          BY DEF OptInstant
        <5>3. rows'[i].state = "playing"
          BY <3>1, <5>1, <5>2, AckedRow
        <5> QED BY <5>3
      <4>9. CASE MoveClaim(i) BY <4>1, <4>9 DEF MoveClaim, CanClaim
      <4>10. CASE MoveReplay(i) BY <3>4, <4>10 DEF MoveReplay
      <4>11. CASE MoveRevoke(i) BY <3>1, <4>11, RevokedRow DEF MoveRevoke
      <4> QED BY <3>2, <4>2, <4>3, <4>4, <4>5, <4>6, <4>7, <4>8, <4>9, <4>10, <4>11
              DEF RowMove
    <3>5. CASE rows'[i] = IF CanRevoke(rows[i]) THEN Revoked(rows[i]) ELSE rows[i]
      BY <3>1, <3>3, <3>5, RevokedRow DEF CanRevoke
    <3> QED BY <1>2, <2>2, <3>4, <3>5, StepMovesRows DEF DeliveryInv
  <2> QED BY <1>2, <2>1, <2>2
<1> QED BY <1>1, <1>2, InvCorrect, PTL DEF Spec

\* No late answer, claim, renewal or recovery changes an outcome; a voice replay does, and
\* only with the voice on.
THEOREM OutcomesStandCorrect == Spec => OutcomesStand
<1> DEFINE Stands == \A i \in Items : Outcome(i) =>
              \/ rows'[i].state = rows[i].state
              \/ rows[i].destination = "voice" /\ voice = "on"
                    /\ rows'[i].state = "pending" /\ rows'[i].attempts = 0
<1>1. ASSUME TypeOK, [Next]_vars PROVE [Stands]_vars
  <2> SUFFICES ASSUME Next, NEW i \in Items, Outcome(i)
               PROVE  \/ rows'[i].state = rows[i].state
                      \/ rows[i].destination = "voice" /\ voice = "on"
                            /\ rows'[i].state = "pending" /\ rows'[i].attempts = 0
    BY <1>1
  <2>1. rows[i] \in Row /\ RowMove(i)
    BY <1>1, StepMovesRows DEF TypeOK
  <2>2. rows[i].state \in Final
    BY DEF Outcome
  <2>3. CASE MoveStay(i) BY <2>3 DEF MoveStay
  <2>4. CASE MoveAge(i) BY <2>1, <2>4, AgedRow DEF MoveAge
  <2>5. CASE MoveInsert(i) BY <2>2, <2>5 DEF MoveInsert, Final
  <2>6. CASE MoveRecover(i) BY <2>2, <2>6 DEF MoveRecover, NeedsRecovery
  <2>7. CASE MoveRenew(i) BY <2>2, <2>7 DEF MoveRenew, CanRenew, Held, Final
  <2>8. CASE MoveAck(i) BY <2>2, <2>8 DEF MoveAck, CanAck, Held, Final
  <2>9. CASE MoveSound(i) BY <2>2, <2>9 DEF MoveSound, CanAck, Held, Final
  <2>10. CASE MoveClaim(i) BY <2>2, <2>10 DEF MoveClaim, CanClaim, Final
  <2>11. CASE MoveReplay(i) BY <2>1, <2>11, ReplayedRow DEF MoveReplay, CanReplay
  <2>12. CASE MoveRevoke(i) BY <2>2, <2>12 DEF MoveRevoke, CanRevoke, Final
  <2> QED BY <2>1, <2>3, <2>4, <2>5, <2>6, <2>7, <2>8, <2>9, <2>10, <2>11, <2>12
          DEF RowMove
<1>2. OutcomesStand <=> [][Stands]_vars
  BY DEF OutcomesStand
<1> QED BY <1>1, <1>2, TypeCorrect, PTL DEF Spec

----------------------------------------------------------------------------
(* Refinement *)

\* The moves of the contract, in the states of a row.
Moves(i) ==
    LET from == PhaseOf(rows[i]) to == PhaseOf(rows'[i])
        n == rows[i].attempts m == rows'[i].attempts
    IN  \/ from = "absent" /\ to \in {"open", "settled"} /\ m = 0
        \/ from = "open" /\ to = "held" /\ n < MaxAttempts /\ m = n + 1
        \/ from = "held" /\ to = "open" /\ n < MaxAttempts /\ m = n
        \/ rows[i].destination = "voice" /\ from = "held" /\ to = "sounding" /\ m = n
        \/ from \in {"open", "held", "sounding"} /\ to = "settled" /\ m = n
        \/ rows[i].destination = "voice" /\ from \in {"open", "settled"} /\ to = "open" /\ m = 0
        \/ from = to /\ m = n

\* Each way a row moves is a step of the contract, or none.
LEMMA MoveRefines ==
    ASSUME DeliveryInv, NEW i \in Items, RowMove(i)
    PROVE  Moves(i)
<1>1. /\ rows[i] \in Row /\ rows[i].state \in States
      /\ rows[i].attempts \in 0..MaxAttempts /\ RowOK(i)
  BY RowFields DEF DeliveryInv, TypeOK
<1> USE DEF Moves, PhaseOf
<1>2. CASE MoveStay(i) BY <1>2 DEF MoveStay
<1>3. CASE MoveAge(i) BY <1>1, <1>3, AgedRow DEF MoveAge
<1>4. CASE MoveInsert(i) BY <1>1, <1>4 DEF MoveInsert, RowOK, CountOK
<1>5. CASE MoveRecover(i)
  <2>1. PICK now \in Int : NeedsRecovery(rows[i], now) /\ rows'[i] = Recovered(rows[i], now)
    BY <1>5 DEF MoveRecover
  <2>2. /\ rows'[i].attempts = rows[i].attempts
        /\ rows'[i].state \in {"uncertain", "expired", "failed"}
        /\ rows'[i].nextAttemptAt # None => rows[i].attempts < MaxAttempts
        /\ rows[i].destination = "voice" /\ rows[i].claimToken # None
             => rows'[i].state = "uncertain"
    BY <1>1, <2>1, RecoveredRow
  <2>3. rows[i].state = "playing" => sounds[i] = 1 /\ rows[i].claimToken # None
    BY <1>1 DEF RowOK, SoundOK, HeldOK, Held
  <2>4. sounds[i] = 1 => rows[i].destination = "voice"
    BY <1>1 DEF RowOK, SoundOK
  <2>5. rows[i].state \in {"pending", "failed"} \cup Held
    BY <1>1, <2>1 DEF NeedsRecovery, States
  <2>6. rows[i].claimToken = None => rows'[i].nextAttemptAt = None /\ rows'[i].state = "expired"
    BY <2>1 DEF NeedsRecovery, LostClaim, Recovered
  <2>7. rows[i].state \in {"pending", "failed"} => rows[i].claimToken = None
    BY <1>1 DEF RowOK, HeldOK, Held
  <2> QED BY <2>2, <2>3, <2>4, <2>5, <2>6, <2>7 DEF Held
<1>6. CASE MoveRenew(i)
  <2>1. PICK now \in Int : rows'[i] = Renewed(rows[i], now, ClaimTTL)
    BY <1>6 DEF MoveRenew
  <2>2. ClaimTTL \in Int
    BY DeliveryAssumption
  <2> QED BY <1>1, <2>1, <2>2, RenewedRow
<1>7. CASE MoveAck(i)
  <2>1. PICK token \in Tokens \cup {None}, to \in States \ {"playing"}, retryAt \in OptInstant :
           CanAck(rows[i], token, 0, to) /\ rows'[i] = Acked(rows[i], to, retryAt)
    BY <1>7 DEF MoveAck, Now
  <2>2. /\ rows'[i].attempts = rows[i].attempts
        /\ rows'[i].state = IF to = "failed" /\ rows[i].destination = "voice"
                              /\ rows[i].state = "playing" THEN "uncertain" ELSE to
        /\ rows'[i].nextAttemptAt # None => rows[i].attempts < MaxAttempts
    BY <1>1, <2>1, AckedRow
  <2>3. rows[i].state \in Held /\ AckMove(rows[i], to)
    BY <2>1 DEF CanAck
  <2>4. rows[i].state = "playing" => rows[i].destination = "voice"
    BY <1>1 DEF RowOK, SoundOK
  <2> QED BY <2>2, <2>3, <2>4 DEF Held, AckMove
<1>8. CASE MoveSound(i)
  <2>1. PICK token \in Tokens :
           /\ <<i, token>> \in inbox /\ CanAck(rows[i], token, 0, "playing")
           /\ rows'[i] = Acked(rows[i], "playing", None)
    BY <1>8 DEF MoveSound, Now
  <2>2. None \in OptInstant
    BY DEF OptInstant
  <2>3. rows'[i].attempts = rows[i].attempts /\ rows'[i].state = "playing"
    BY <1>1, <2>1, <2>2, AckedRow
  <2>4. rows[i].state = "ready" /\ rows[i].destination = "voice"
    BY <1>1, <2>1 DEF CanAck, MatchesClaim, AckMove, RowOK, InboxReady
  <2> QED BY <2>3, <2>4
<1>9. CASE MoveClaim(i)
  <2>1. PICK now \in Int, token \in Tokens :
           CanClaim(rows[i], now) /\ rows'[i] = Claimed(rows[i], token, now, ClaimTTL)
    BY <1>9 DEF MoveClaim
  <2>2. ClaimTTL \in Int
    BY DeliveryAssumption
  <2>3. rows'[i].state = "claimed" /\ rows'[i].attempts = rows[i].attempts + 1
    BY <1>1, <2>1, <2>2, ClaimedRow
  <2>4. /\ rows[i].state = "pending" \/ (rows[i].state = "failed" /\ rows[i].nextAttemptAt # None)
        /\ rows[i].attempts < MaxAttempts
    BY <1>1, <2>1 DEF CanClaim, RowOK, HeldOK, Held
  <2> QED BY <2>3, <2>4
<1>10. CASE MoveReplay(i) BY <1>1, <1>10, ReplayedRow DEF MoveReplay, CanReplay
<1>11. CASE MoveRevoke(i) BY <1>1, <1>11, RevokedRow DEF MoveRevoke, CanRevoke
<1> QED BY <1>2, <1>3, <1>4, <1>5, <1>6, <1>7, <1>8, <1>9, <1>10, <1>11 DEF RowMove

\* The table implements the contract of the outbox, step by step: at most MaxAttempts
\* tries, no second offer of what may have sounded, no way out of an outcome but a replay.
THEOREM ContractImplemented == Spec => ImplementsContract
<1> DEFINE ph == [i \in Items |-> PhaseOf(rows[i])]
           tr == [i \in Items |-> rows[i].attempts]
<1>1. Init => Contract!Init
  BY DEF Init, Contract!Init, Absent, PhaseOf
<1>2. ASSUME DeliveryInv, [Next]_vars PROVE [Contract!Next]_<<ph, tr>>
  <2>1. CASE UNCHANGED vars
    BY <2>1 DEF vars, PhaseOf
  <2>2. CASE Next
    <3>1. ASSUME NEW i \in Items
          PROVE  /\ PhaseOf(rows'[i]) \in Contract!Phases
                 /\ rows'[i].attempts \in 0..MaxAttempts
      <4>1. rows'[i] \in Row
        BY <1>2, <2>2, StepTyped DEF DeliveryInv, TypeOK
      <4> QED BY <4>1, RowFields DEF PhaseOf, Contract!Phases
    <3>2. ASSUME NEW i \in Items PROVE Contract!Move(i) \/ Contract!Stay(i)
      <4>1. Moves(i)
        BY <1>2, <2>2, StepMovesRows, MoveRefines DEF DeliveryInv
      <4>2. rows[i].destination = Destination[i]
        BY <1>2 DEF DeliveryInv, RowOK
      <4>3. /\ ph[i] = PhaseOf(rows[i]) /\ ph'[i] = PhaseOf(rows'[i])
            /\ tr[i] = rows[i].attempts /\ tr'[i] = rows'[i].attempts
        OBVIOUS
      <4> QED BY <4>1, <4>2, <4>3
              DEF Moves, Contract!Move, Contract!Stay, Contract!Appear, Contract!Take,
                  Contract!GiveBack, Contract!Sound, Contract!Settle, Contract!Replay
    <3> QED BY <3>1, <3>2 DEF Contract!Next
  <2> QED BY <1>2, <2>1, <2>2
<1> QED BY <1>1, <1>2, InvCorrect, PTL DEF Spec, ImplementsContract, Contract!Spec
=============================================================================
