---------------------------- MODULE ChannelOutbox ----------------------------
(***************************************************************************)
(* The outbox of packages/channel-runtime (outbound/outbox.ts over the     *)
(* SQLite store): a message is stored under its idempotency key, a single  *)
(* flight of a flush sends what is ready, and what became of an attempt    *)
(* decides whether there is another one.  A platform refuses a message or  *)
(* takes it; its answer may be lost.  A message is a row of one part.      *)
(***************************************************************************)
EXTENDS Naturals

CONSTANTS Rows,         \* idempotency keys of the messages
          NoRow,        \* no message
          MaxAttempts   \* attempts per message (8 in the code)

ASSUME OutboxAssumption == MaxAttempts \in Nat \ {0} /\ NoRow \notin Rows

VARIABLES status,    \* the stored status of each row
          attempts,  \* attemptCount
          ready,     \* rows the running flush listed and has not tried
          sending,   \* the row whose send is in flight, or NoRow
          taken,     \* the platform has taken the message in flight
          arrived    \* history: how often each message reached the chat

outboxVars == <<status, attempts, ready, sending, taken, arrived>>

OutboxTypeOK ==
  /\ status \in [Rows -> {"none", "pending", "sending", "delivered", "unknown", "failed"}]
  /\ attempts \in [Rows -> 0 .. MaxAttempts]
  /\ ready \subseteq Rows /\ sending \in Rows \cup {NoRow}
  /\ taken \in BOOLEAN
  /\ arrived \in [Rows -> 0 .. MaxAttempts]

OutboxInit ==
  /\ status = [r \in Rows |-> "none"] /\ attempts = [r \in Rows |-> 0]
  /\ ready = {} /\ sending = NoRow /\ taken = FALSE
  /\ arrived = [r \in Rows |-> 0]

-----------------------------------------------------------------------------
Listed(rows) == { r \in Rows : rows[r] = "pending" }
Flushing == ready # {} \/ sending # NoRow

(* deliver: the row is stored unless its key is known; a flush is started,  *)
(* or the one that runs is joined although it listed its rows before.       *)
EnqueueAndFlush(r) ==
  LET rows == [status EXCEPT ![r] = IF @ = "none" THEN "pending" ELSE @]
  IN /\ status' = rows
     /\ ready' = IF Flushing THEN ready ELSE Listed(rows)
     /\ UNCHANGED <<attempts, sending, taken, arrived>>

(* The timer lists what is ready; a row that was refused waits its backoff.  *)
TimerFlush ==
  /\ ~Flushing
  /\ ready' \in SUBSET Listed(status) /\ ready' # {}
  /\ { r \in Listed(status) : attempts[r] = 0 } \subseteq ready'
  /\ UNCHANGED <<status, attempts, sending, taken, arrived>>

(* dispatch of the next row, if its adapter runs.                            *)
Dispatch(r, running) ==
  /\ r \in ready /\ sending = NoRow
  /\ ready' = ready \ {r}
  /\ \/ ~running /\ UNCHANGED <<status, attempts, sending, taken>>
     \/ /\ running
        /\ sending' = r /\ taken' = FALSE
        /\ status' = [status EXCEPT ![r] = "sending"]
        /\ attempts' = [attempts EXCEPT ![r] = @ + 1]
  /\ UNCHANGED arrived

(* The platform takes the message.                                           *)
Arrive ==
  /\ sending # NoRow /\ ~taken /\ taken' = TRUE
  /\ arrived' = [arrived EXCEPT ![sending] = @ + 1]
  /\ UNCHANGED <<status, attempts, ready, sending>>

(* What send returns or throws: a receipt, a refusal that may pass, one that *)
(* will not, or an outcome nobody knows.  The platform refuses only what it   *)
(* did not take.                                                              *)
Answers == IF taken THEN {"receipt", "unknown"} ELSE {"retryable", "permanent", "unknown"}

\* Mutant: one attempt too many.
AfterOneMore(sent, n) ==
  CASE sent = "receipt" -> "delivered"
    [] sent = "retryable" /\ n <= MaxAttempts -> "pending"
    [] sent = "unknown" -> "unknown"
    [] OTHER -> "failed"
After(sent, n) ==
  CASE sent = "receipt" -> "delivered"
    [] sent = "retryable" /\ n < MaxAttempts -> "pending"
    [] sent = "unknown" -> "unknown"
    [] OTHER -> "failed"

SendReturns ==
  /\ sending # NoRow /\ sending' = NoRow
  /\ \E sent \in Answers :
       status' = [status EXCEPT ![sending] = After(sent, attempts[sending])]
  /\ taken' = FALSE
  /\ UNCHANGED <<attempts, ready, arrived>>

(* start: a dispatch the last process began has an unknown outcome.          *)
\* Mutant: it is tried again.
RecoveredPending == "pending"
Recovered == "unknown"

RecoverOutbox ==
  /\ status' = [r \in Rows |-> IF status[r] = "sending" THEN Recovered ELSE status[r]]
  /\ UNCHANGED <<attempts, ready, sending, taken, arrived>>

OutboxDies ==
  /\ ready' = {} /\ sending' = NoRow /\ taken' = FALSE
  /\ UNCHANGED <<status, attempts, arrived>>

OutboxStep(ticks, running) == \/ ticks /\ TimerFlush
                              \/ Arrive \/ SendReturns
                              \/ \E r \in Rows : Dispatch(r, running)

-----------------------------------------------------------------------------
(* No message reaches the chat twice, and the stored status does not lie: a  *)
(* delivered message is there, one that waits or failed is not.              *)
OutboxHonest ==
  \A r \in Rows :
    /\ arrived[r] <= 1
    /\ status[r] = "delivered" => arrived[r] = 1
    /\ status[r] \in {"pending", "failed"} => arrived[r] = 0
=============================================================================
