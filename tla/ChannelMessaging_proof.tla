----------------------- MODULE ChannelMessaging_proof -----------------------
(***************************************************************************)
(* What a chat promises, for any messages, presses and numbers of attempts *)
(* and restarts: the outbox is honest, a conversation is serial and runs   *)
(* in one session, and a message is run once.                              *)
(***************************************************************************)
EXTENDS ChannelMessaging, TLAPS

----------------------------------------------------------------------------
(* The broker of approvals.  Its steps keep the answers honest, whoever takes *)
(* them and in whatever order.                                                *)
LEMMA BrokerHonest == BrokerInv => ApprovalTypeOK /\ AnswerIsRecorded
  BY DEF BrokerInv, AnswerIsRecorded, Backs

LEMMA BrokerInit == ApprovalInit => BrokerInv
  BY DEF ApprovalInit, BrokerInv, ApprovalTypeOK, Statuses, Decisions, Backs

LEMMA BrokerStutters == BrokerInv /\ UNCHANGED approvalVars => BrokerInv'
  BY DEF BrokerInv, ApprovalTypeOK, Backs, approvalVars

LEMMA CreatesPending ==
    ASSUME BrokerInv, NEW a \in Approvals, CreatePending(a)
    PROVE  BrokerInv'
<1>1. ApprovalTypeOK'
  BY DEF BrokerInv, ApprovalTypeOK, CreatePending, Statuses
<1>2. \A b \in Approvals : record'[b] = IF b = a THEN "pending" ELSE record[b]
  BY DEF BrokerInv, ApprovalTypeOK, CreatePending
<1> QED BY <1>1, <1>2 DEF BrokerInv, CreatePending, Backs, ApprovalTypeOK, Decisions

LEMMA Registers ==
    ASSUME BrokerInv, NEW a \in Approvals, Register(a)
    PROVE  BrokerInv'
  BY DEF BrokerInv, ApprovalTypeOK, Register, Created, Backs

LEMMA AbortsBefore ==
    ASSUME BrokerInv, NEW a \in Approvals, AbortedBefore(a)
    PROVE  BrokerInv'
<1>1. ApprovalTypeOK'
  BY DEF BrokerInv, ApprovalTypeOK, AbortedBefore, Statuses, Decisions
<1>2. \A b \in Approvals : /\ record'[b] = IF b = a THEN "interrupted" ELSE record[b]
                           /\ answer'[b] = IF b = a THEN "deny" ELSE answer[b]
  BY DEF BrokerInv, ApprovalTypeOK, AbortedBefore
<1> QED BY <1>1, <1>2
        DEF BrokerInv, AbortedBefore, Created, Backs, ApprovalTypeOK, Decisions

LEMMA Resolves ==
    ASSUME BrokerInv, NEW a \in Approvals, NEW d \in Decisions, Resolve(a, d)
    PROVE  BrokerInv'
<1>1. ApprovalTypeOK'
  BY DEF BrokerInv, ApprovalTypeOK, Resolve, StatusOf, Statuses, Decisions
<1>2. \A b \in Approvals : record'[b] = IF b = a THEN StatusOf(d) ELSE record[b]
  BY DEF BrokerInv, ApprovalTypeOK, Resolve
<1>3. /\ record[a] \in {"pending", StatusOf(d)}
      /\ StatusOf(d) \in {"allowed", "denied"}
      /\ Backs(StatusOf(d), d)
  BY DEF Resolve, Accepts, StatusOf, Decisions, Backs
<1>4. \A b \in Approvals, c \in Decisions :
        <<b, c>> \in settling' => <<b, c>> \in settling \/ (b = a /\ c = d)
  BY DEF Resolve
<1> QED BY <1>1, <1>2, <1>3, <1>4
        DEF BrokerInv, Resolve, Backs, ApprovalTypeOK, Decisions

LEMMA HearsAbort ==
    ASSUME BrokerInv, NEW a \in Approvals, Interrupt(a)
    PROVE  BrokerInv'
<1>1. ApprovalTypeOK'
  BY DEF BrokerInv, ApprovalTypeOK, Interrupt, AbortAnswer, Statuses, Decisions
<1>2. \A b \in Approvals : record'[b] = IF b = a /\ record[b] = "pending"
                                        THEN "interrupted" ELSE record[b]
  BY DEF BrokerInv, ApprovalTypeOK, Interrupt
<1>3. Backs(record'[a], AbortAnswer(a))
  BY <1>2 DEF BrokerInv, ApprovalTypeOK, Interrupt, Statuses, AbortAnswer, Backs
<1>4. \A b \in Approvals, c \in Decisions :
        <<b, c>> \in settling' => <<b, c>> \in settling \/ (b = a /\ c = AbortAnswer(a))
  BY DEF Interrupt
<1> QED BY <1>1, <1>2, <1>3, <1>4
        DEF BrokerInv, Interrupt, Backs, ApprovalTypeOK, Decisions

LEMMA Settles ==
    ASSUME BrokerInv, NEW a \in Approvals, Settle(a)
    PROVE  BrokerInv'
  BY DEF BrokerInv, ApprovalTypeOK, Settle, Backs, Decisions

LEMMA Loses == BrokerInv /\ LoseRequests => BrokerInv'
  BY DEF BrokerInv, ApprovalTypeOK, LoseRequests, Backs, Decisions

LEMMA Reconciles == BrokerInv /\ ReconcileApprovals => BrokerInv'
  BY DEF BrokerInv, ApprovalTypeOK, ReconcileApprovals, Backs, Decisions, Statuses

----------------------------------------------------------------------------
(* The outbox.  A row that waits has an attempt left and has not reached the *)
(* chat; the row in flight reached it exactly if the platform took it.       *)
RowHonest(r) ==
  /\ arrived[r] <= 1
  /\ status[r] = "none" => attempts[r] = 0
  /\ status[r] = "pending" => attempts[r] < MaxAttempts
  /\ status[r] \in {"none", "pending", "failed"} => arrived[r] = 0
  /\ status[r] = "delivered" => arrived[r] = 1

OutboxInv ==
  /\ OutboxTypeOK
  /\ ready \subseteq Listed(status)
  /\ \A r \in Rows : RowHonest(r)
  /\ sending # NoRow => /\ status[sending] \in {"sending", "unknown"}
                        /\ arrived[sending] = IF taken THEN 1 ELSE 0

\* The invariant is what the property asks for.
LEMMA OutboxInvHonest == OutboxInv => OutboxHonest
  BY DEF OutboxInv, OutboxHonest, RowHonest

LEMMA OutboxInitInv == OutboxInit => OutboxInv
<1> SUFFICES ASSUME OutboxInit PROVE OutboxInv
  OBVIOUS
<1>1. 0 \in 0 .. MaxAttempts /\ 0 < MaxAttempts
  BY OutboxAssumption
<1>2. OutboxTypeOK
  <2>1. attempts \in [Rows -> 0 .. MaxAttempts] /\ arrived \in [Rows -> 0 .. MaxAttempts]
    BY <1>1 DEF OutboxInit
  <2> QED BY <2>1 DEF OutboxInit, OutboxTypeOK
<1>3. ASSUME NEW r \in Rows PROVE RowHonest(r)
  <2>1. status[r] = "none" /\ attempts[r] = 0 /\ arrived[r] = 0
    BY DEF OutboxInit
  <2> QED BY <2>1 DEF RowHonest
<1> QED BY <1>2, <1>3 DEF OutboxInit, OutboxInv

LEMMA OutboxStutters == OutboxInv /\ UNCHANGED outboxVars => OutboxInv'
  BY DEF OutboxInv, OutboxTypeOK, RowHonest, Listed, outboxVars

\* A delivery stores its row once and leaves a known row alone.
LEMMA EnqueueKeeps ==
    ASSUME OutboxInv, NEW r \in Rows, EnqueueAndFlush(r)
    PROVE  OutboxInv'
<1>1. \A s \in Rows : status'[s] = IF s = r /\ status[r] = "none" THEN "pending" ELSE status[s]
  BY DEF OutboxInv, OutboxTypeOK, EnqueueAndFlush
<1>2. OutboxTypeOK'
  BY DEF OutboxInv, OutboxTypeOK, EnqueueAndFlush, Listed
<1>3. ready' \subseteq Listed(status')
  BY <1>1 DEF OutboxInv, EnqueueAndFlush, Listed
<1>4. ASSUME NEW s \in Rows PROVE RowHonest(s)'
  BY <1>1, OutboxAssumption DEF OutboxInv, RowHonest, EnqueueAndFlush
<1> QED BY <1>1, <1>2, <1>3, <1>4 DEF OutboxInv, OutboxTypeOK, EnqueueAndFlush

LEMMA DispatchKeeps ==
    ASSUME OutboxInv, NEW r \in Rows, Dispatch(r, Running)
    PROVE  OutboxInv'
<1>1. CASE UNCHANGED <<status, attempts, sending, taken>>
  BY <1>1 DEF OutboxInv, OutboxTypeOK, RowHonest, Dispatch, Listed
<1>2. CASE /\ sending' = r /\ taken' = FALSE
           /\ status' = [status EXCEPT ![r] = "sending"]
           /\ attempts' = [attempts EXCEPT ![r] = @ + 1]
  <2>1. /\ status[r] = "pending" /\ arrived[r] = 0 /\ attempts[r] \in 0 .. MaxAttempts
        /\ attempts[r] < MaxAttempts
    BY DEF OutboxInv, OutboxTypeOK, Dispatch, Listed, RowHonest
  <2>2. OutboxTypeOK'
    <3>1. attempts[r] + 1 \in 0 .. MaxAttempts
      BY <2>1, OutboxAssumption
    <3>2. attempts' \in [Rows -> 0 .. MaxAttempts]
      BY <1>2, <3>1 DEF OutboxInv, OutboxTypeOK
    <3> QED BY <1>2, <3>2 DEF OutboxInv, OutboxTypeOK, Dispatch
  <2>3. \A s \in Rows : /\ status'[s] = IF s = r THEN "sending" ELSE status[s]
                        /\ attempts'[s] = IF s = r THEN attempts[r] + 1 ELSE attempts[s]
    BY <1>2 DEF OutboxInv, OutboxTypeOK
  <2>4. ready' \subseteq Listed(status')
    BY <2>3 DEF OutboxInv, Dispatch, Listed
  <2>5. ASSUME NEW s \in Rows PROVE RowHonest(s)'
    BY <2>1, <2>3 DEF OutboxInv, RowHonest, Dispatch
  <2> QED BY <1>2, <2>1, <2>2, <2>3, <2>4, <2>5 DEF OutboxInv, Dispatch
<1> QED BY <1>1, <1>2 DEF Dispatch

LEMMA ArriveKeeps == ASSUME OutboxInv, Arrive PROVE OutboxInv'
<1>1. sending \in Rows /\ arrived[sending] = 0 /\ status[sending] \in {"sending", "unknown"}
  BY DEF OutboxInv, OutboxTypeOK, Arrive
<1>2. \A s \in Rows : arrived'[s] = IF s = sending THEN 1 ELSE arrived[s]
  BY <1>1 DEF OutboxInv, OutboxTypeOK, Arrive
<1>3. OutboxTypeOK'
  BY <1>1, OutboxAssumption DEF OutboxInv, OutboxTypeOK, Arrive
<1> QED BY <1>1, <1>2, <1>3 DEF OutboxInv, RowHonest, Arrive, Listed

LEMMA ReturnKeeps == ASSUME OutboxInv, SendReturns PROVE OutboxInv'
<1>1. PICK sent \in Answers :
        status' = [status EXCEPT ![sending] = After(sent, attempts[sending])]
  BY DEF SendReturns
<1> DEFINE to == After(sent, attempts[sending])
<1>2. sending \in Rows /\ attempts[sending] \in 0 .. MaxAttempts
  BY DEF OutboxInv, OutboxTypeOK, SendReturns
<1>3. /\ to \in {"delivered", "pending", "unknown", "failed"}
      /\ to = "delivered" => taken
      /\ to \in {"pending", "failed"} => ~taken
      /\ to = "pending" => attempts[sending] < MaxAttempts
  BY DEF After, Answers
<1> HIDE DEF to
<1>4. \A s \in Rows : status'[s] = IF s = sending THEN to ELSE status[s]
  BY <1>1 DEF OutboxInv, OutboxTypeOK, to
<1>5. OutboxTypeOK'
  BY <1>1, <1>3 DEF OutboxInv, OutboxTypeOK, SendReturns, to
<1>6. ready' \subseteq Listed(status')
  BY <1>4 DEF OutboxInv, SendReturns, Listed
<1>7. ASSUME NEW s \in Rows PROVE RowHonest(s)'
  BY <1>2, <1>3, <1>4 DEF OutboxInv, RowHonest, SendReturns
<1> QED BY <1>5, <1>6, <1>7 DEF OutboxInv, SendReturns

LEMMA RecoverKeeps == ASSUME OutboxInv, RecoverOutbox PROVE OutboxInv'
  BY DEF OutboxInv, OutboxTypeOK, RecoverOutbox, RowHonest, Listed, Recovered

LEMMA DeathKeeps == ASSUME OutboxInv, OutboxDies PROVE OutboxInv'
  BY DEF OutboxInv, OutboxTypeOK, OutboxDies, RowHonest, Listed

LEMMA OutboxStepKeeps ==
    ASSUME OutboxInv, OutboxStep(phase = "up", Running)
    PROVE  OutboxInv'
<1>1. CASE TimerFlush
  BY <1>1 DEF OutboxInv, OutboxTypeOK, TimerFlush, RowHonest, Listed
<1> QED BY <1>1, DispatchKeeps, ArriveKeeps, ReturnKeeps DEF OutboxStep

(* A row that is stored stays stored, whatever the outbox does.              *)
StaysStored == \A r \in Rows : status[r] # "none" => status'[r] # "none"

LEMMA OutboxRemembers ==
    ASSUME OutboxInv,
           \/ OutboxStep(phase = "up", Running) \/ RecoverOutbox \/ OutboxDies
           \/ \E r \in Rows : EnqueueAndFlush(r)
    PROVE  StaysStored
  BY DEF OutboxInv, OutboxTypeOK, OutboxStep, TimerFlush, Dispatch, Arrive, SendReturns,
         After, RecoverOutbox, Recovered, OutboxDies, EnqueueAndFlush, StaysStored

----------------------------------------------------------------------------
(* The queue of the chat.  A message is in it from the moment it was routed   *)
(* to the end of its handling, and only the one at the head is worked on.     *)
Waits(m) == \E i \in DOMAIN queue : queue[i] = m
AtHead == {"running", "asking", "replying"}

QueueInv ==
  \A m \in Messages : /\ Waits(m) <=> handler[m] \in {"queued"} \cup AtHead
                      /\ handler[m] \in AtHead => TurnOf(m)
                      /\ handler[m] = "asking" => m \in Approvals

LEMMA AppendWaits ==
    ASSUME queue \in Seq(Messages), NEW m \in Messages, ~Waits(m),
           \A i, j \in DOMAIN queue : queue[i] = queue[j] => i = j,
           queue' = Append(queue, m)
    PROVE  /\ queue' \in Seq(Messages)
           /\ \A i, j \in DOMAIN queue' : queue'[i] = queue'[j] => i = j
           /\ \A n \in Messages : Waits(n)' <=> Waits(n) \/ n = m
           /\ \A n \in Messages : TurnOf(n) => TurnOf(n)'
<1>1. /\ queue' \in Seq(Messages) /\ DOMAIN queue = 1 .. Len(queue)
      /\ Len(queue) \in Nat /\ DOMAIN queue' = 1 .. (Len(queue) + 1)
      /\ \A i \in 1 .. Len(queue) : queue'[i] = queue[i]
      /\ queue'[Len(queue) + 1] = m
  OBVIOUS
<1>2. \A i, j \in DOMAIN queue' : queue'[i] = queue'[j] => i = j
  BY <1>1 DEF Waits
<1>3. ASSUME NEW n \in Messages PROVE Waits(n)' <=> Waits(n) \/ n = m
  <2>1. CASE Waits(n) BY <1>1, <2>1 DEF Waits
  <2>2. CASE n = m BY <1>1, <2>2 DEF Waits
  <2>3. CASE ~Waits(n) /\ n # m BY <1>1, <2>3 DEF Waits
  <2> QED BY <2>1, <2>2, <2>3
<1>4. ASSUME NEW n \in Messages, TurnOf(n) PROVE TurnOf(n)'
  BY <1>1, <1>4 DEF TurnOf
<1> QED BY <1>1, <1>2, <1>3, <1>4

LEMMA TailWaits ==
    ASSUME queue \in Seq(Messages), NEW m \in Messages, TurnOf(m),
           \A i, j \in DOMAIN queue : queue[i] = queue[j] => i = j,
           queue' = Tail(queue)
    PROVE  /\ queue' \in Seq(Messages)
           /\ \A i, j \in DOMAIN queue' : queue'[i] = queue'[j] => i = j
           /\ \A n \in Messages : Waits(n)' <=> Waits(n) /\ n # m
<1>1. /\ queue' \in Seq(Messages) /\ DOMAIN queue = 1 .. Len(queue)
      /\ Len(queue) \in Nat \ {0} /\ DOMAIN queue' = 1 .. (Len(queue) - 1)
      /\ \A i \in 1 .. (Len(queue) - 1) : queue'[i] = queue[i + 1]
      /\ queue[1] = m
  BY DEF TurnOf
<1>2. \A i, j \in DOMAIN queue' : queue'[i] = queue'[j] => i = j
  BY <1>1
<1>3. ASSUME NEW n \in Messages, Waits(n)' PROVE Waits(n) /\ n # m
  <2>1. PICK i \in 1 .. (Len(queue) - 1) : queue'[i] = n
    BY <1>1, <1>3 DEF Waits
  <2>2. i + 1 \in DOMAIN queue /\ queue[i + 1] = n /\ 1 \in DOMAIN queue /\ i + 1 # 1
    BY <1>1, <2>1
  <2> QED BY <1>1, <2>2 DEF Waits
<1>4. ASSUME NEW n \in Messages, Waits(n), n # m PROVE Waits(n)'
  <2>1. PICK i \in 1 .. Len(queue) : queue[i] = n
    BY <1>1, <1>4 DEF Waits
  <2>2. i # 1
    BY <1>1, <1>4, <2>1
  <2>3. i - 1 \in 1 .. (Len(queue) - 1) /\ queue'[i - 1] = n
    BY <1>1, <2>1, <2>2
  <2> QED BY <1>1, <2>3 DEF Waits
<1> QED BY <1>1, <1>2, <1>3, <1>4

----------------------------------------------------------------------------
(* The session.  The stored binding is the only one any message was run       *)
(* under or has read, and a message that was not run yet has no session.      *)
SessionInv ==
  /\ binding.revision = 0 <=> binding.session = NoSession
  /\ \A m \in Messages :
       /\ IF captured[m].session = NoSession THEN captured[m].revision = 0
                                             ELSE captured[m] = binding
       /\ ranIn[m] # NoSession => ranIn[m] = binding.session
       /\ event[m] = "none" => handler[m] = "none"
       /\ event[m] = "none" \/ handler[m] \in {"routing", "queued"} => ranIn[m] = NoSession
       /\ handler[m] = "replying" => status[m] # "none"

ChannelInv == ChannelTypeOK /\ OutboxInv /\ BrokerInv /\ QueueInv /\ SessionInv

LEMMA InitChannel == ChannelInit => ChannelInv
<1> SUFFICES ASSUME ChannelInit PROVE ChannelInv
  OBVIOUS
<1>1. OutboxInv /\ BrokerInv
  BY OutboxInitInv, BrokerInit DEF ChannelInit
<1>2. ChannelTypeOK
  <2>1. binding \in Bindings /\ captured \in [Messages -> Bindings]
    BY DEF ChannelInit, Bindings, Sessions
  <2>2. ends \in 0 .. MaxEnds
    BY MessagingAssumption DEF ChannelInit
  <2> QED BY <1>1, <2>1, <2>2 DEF ChannelInit, ChannelTypeOK, OutboxInv, BrokerInv, Sessions
<1>3. QueueInv
  BY DEF ChannelInit, QueueInv, Waits, AtHead, Events
<1>4. SessionInv
  BY DEF ChannelInit, SessionInv, Events
<1> QED BY <1>1, <1>2, <1>3, <1>4 DEF ChannelInv

\* A message and the approval its run asks for are rows of the outbox.
LEMMA RowsOfTheChat ==
    /\ Messages \subseteq Rows /\ Messages \subseteq Events
    /\ Presses \subseteq Events /\ Messages \cap Presses = {}
    /\ \A a \in Approvals : a \in Messages /\ Request(a) \in Rows
    /\ \A p \in Presses : p.of \in Approvals /\ p.decision \in Decisions
  BY MessagingAssumption DEF Events

\* What a step does to the outbox.
OutboxMove ==
  \/ UNCHANGED outboxVars
  \/ OutboxStep(phase = "up", Running)
  \/ RecoverOutbox \/ OutboxDies
  \/ \E r \in Rows : EnqueueAndFlush(r)

LEMMA StepMovesOutbox == ASSUME [ChannelNext]_vars PROVE OutboxMove
<1>1. CASE UNCHANGED vars
  BY <1>1 DEF vars, OutboxMove
<1>2. CASE \E e \in Events : Receive(e)
  BY <1>2 DEF Receive, OutboxMove
<1>3. CASE \E m \in Messages : MessageStep(m)
  BY <1>3, RowsOfTheChat DEF MessageStep, Route, Bind, AskApproval, AnnounceApproval,
     ApprovalAnswered, EndRun, Processed, OutboxMove
<1>4. CASE \E p \in Presses : PressStep(p)
  BY <1>4 DEF PressStep, Consume, Press, PressDone, OutboxMove
<1>5. CASE \E a \in Approvals : Publish(a)
  BY <1>5, RowsOfTheChat DEF Publish, OutboxMove
<1>6. CASE OutboxStep(phase = "up", Running)
  BY <1>6 DEF OutboxMove
<1>7. CASE OutboxStarts \/ StopEnds \/ Start \/ StopBegins \/ Crash
  BY <1>7 DEF OutboxStarts, StopEnds, Start, StopBegins, Crash, Dies, OutboxMove
<1> QED BY <1>1, <1>2, <1>3, <1>4, <1>5, <1>6, <1>7 DEF ChannelNext, Machine

LEMMA StepKeepsOutbox ==
    ASSUME OutboxInv, [ChannelNext]_vars
    PROVE  OutboxInv' /\ StaysStored
<1>1. OutboxMove
  BY StepMovesOutbox
<1>2. OutboxInv'
  BY <1>1, OutboxStutters, OutboxStepKeeps, RecoverKeeps, DeathKeeps, EnqueueKeeps
  DEF OutboxMove
<1>3. CASE UNCHANGED outboxVars
  BY <1>2, <1>3 DEF StaysStored, outboxVars
<1>4. CASE \/ OutboxStep(phase = "up", Running) \/ RecoverOutbox \/ OutboxDies
           \/ \E r \in Rows : EnqueueAndFlush(r)
  BY <1>2, <1>4, OutboxRemembers
<1> QED BY <1>1, <1>2, <1>3, <1>4 DEF OutboxMove

LEMMA StepKeepsBroker == ASSUME BrokerInv, QueueInv, [ChannelNext]_vars PROVE BrokerInv'
<1>1. CASE UNCHANGED approvalVars
  BY <1>1, BrokerStutters
<1>2. CASE UNCHANGED vars
  BY <1>1, <1>2 DEF vars
<1>3. CASE \E e \in Events : Receive(e)
  BY <1>1, <1>3 DEF Receive
<1>4. ASSUME NEW m \in Messages, MessageStep(m) PROVE BrokerInv'
  <2>1. CASE AskApproval(m) BY <2>1, CreatesPending DEF AskApproval
  <2>2. CASE AnnounceApproval(m) BY <2>2, Registers DEF AnnounceApproval, QueueInv
  <2> QED BY <1>1, <1>4, <2>1, <2>2
          DEF MessageStep, Route, Bind, ApprovalAnswered, EndRun, Processed
<1>5. ASSUME NEW p \in Presses, PressStep(p) PROVE BrokerInv'
  <2>1. p.of \in Approvals /\ p.decision \in Decisions
    BY RowsOfTheChat
  <2>2. CASE Press(p) BY <1>1, <2>1, <2>2, Resolves DEF Press
  <2>3. CASE PressDone(p) BY <1>1, <2>1, <2>3, Settles DEF PressDone
  <2>4. CASE Consume(p) BY <1>1, <2>4 DEF Consume
  <2> QED BY <1>5, <2>2, <2>3, <2>4 DEF PressStep
<1>6. CASE StopEnds \/ Crash
  BY <1>6, Loses DEF StopEnds, Crash, Dies
<1>7. CASE Start
  BY <1>7, Reconciles DEF Start
<1>8. CASE \/ \E a \in Approvals : Publish(a)
           \/ UNCHANGED <<approvalVars, messagingVars>>
           \/ OutboxStarts \/ StopBegins
  BY <1>1, <1>8 DEF Publish, OutboxStarts, StopBegins
<1> QED BY <1>2, <1>3, <1>4, <1>5, <1>6, <1>7, <1>8 DEF ChannelNext, Machine

LEMMA StepTyped ==
    ASSUME ChannelInv, [ChannelNext]_vars
    PROVE  /\ ChannelTypeOK'
           /\ QueueInv'
<1>1. OutboxTypeOK' /\ ApprovalTypeOK'
  BY StepKeepsOutbox, StepKeepsBroker DEF ChannelInv, OutboxInv, BrokerInv
<1> DEFINE Rest == /\ ChannelTypeOK' /\ QueueInv'
<1>2. CASE UNCHANGED messagingVars
  BY <1>1, <1>2 DEF ChannelInv, ChannelTypeOK, QueueInv, messagingVars, Waits, TurnOf
<1>3. CASE \E e \in Events : Receive(e)
  BY <1>1, <1>3 DEF Receive, Goto, Claimable, ChannelInv, ChannelTypeOK, QueueInv, SessionInv,
     Waits, TurnOf, AtHead, Events
<1> USE DEF ChannelInv, ChannelTypeOK, QueueInv, SessionInv, AtHead, Goto, Ends
<1>4. ASSUME NEW m \in Messages, MessageStep(m) PROVE Rest
  <2> USE RowsOfTheChat
  <2>1. CASE Route(m)
    <3>1. CASE Ends(m, "rejected") /\ UNCHANGED <<captured, queue>>
      BY <1>1, <2>1, <3>1 DEF Route, Waits, TurnOf
    <3>2. CASE /\ captured' = [captured EXCEPT ![m] = binding]
               /\ queue' = Append(queue, m)
               /\ Goto(m, "queued") /\ UNCHANGED event
      <4>1. handler[m] = "routing" /\ ~Waits(m)
        BY <2>1 DEF Route
      <4>2. /\ queue' \in Seq(Messages)
            /\ \A i, j \in DOMAIN queue' : queue'[i] = queue'[j] => i = j
            /\ \A n \in Messages : Waits(n)' <=> Waits(n) \/ n = m
            /\ \A n \in Messages : TurnOf(n) => TurnOf(n)'
        BY <3>2, <4>1, AppendWaits
      <4>3. QueueInv'
        BY <3>2, <4>1, <4>2
      <4>4. captured' \in [Messages -> Bindings]
        BY <3>2
      <4> QED BY <1>1, <2>1, <3>2, <4>2, <4>3, <4>4 DEF Route
    <3> QED BY <2>1, <3>1, <3>2 DEF Route
  <2>2. ASSUME handler[m] \in {"queued"} \cup AtHead, TurnOf(m), Leaves, Goto(m, "none")
        PROVE  /\ queue' \in Seq(Messages) /\ QueueInv'
               /\ \A i, j \in DOMAIN queue' : queue'[i] = queue'[j] => i = j
    <3>1. /\ queue' \in Seq(Messages)
          /\ \A i, j \in DOMAIN queue' : queue'[i] = queue'[j] => i = j
          /\ \A n \in Messages : Waits(n)' <=> Waits(n) /\ n # m
      BY <2>2, TailWaits DEF Leaves
    <3>2. \A n \in Messages : n # m => handler[n] \notin AtHead
      BY <2>2 DEF TurnOf
    <3> QED BY <2>2, <3>1, <3>2
  <2>3. CASE Bind(m)
    <3>1. CASE Ends(m, "failed")
      BY <1>1, <2>2, <2>3, <3>1 DEF Bind
    <3>2. CASE Goto(m, "running")
      <4>1. binding' \in Bindings
        BY <2>3, <3>2 DEF Bind, Bindings, Sessions
      <4>2. ranIn' \in [Messages -> Sessions]
        BY <2>3, <3>2 DEF Bind, Bindings, Sessions
      <4>3. QueueInv'
        BY <2>3, <3>2 DEF Bind, Waits, TurnOf
      <4>4. UNCHANGED <<event, queue>>
        BY <2>3, <3>2 DEF Bind
      <4> QED BY <1>1, <2>3, <3>2, <4>1, <4>2, <4>3, <4>4 DEF Bind
    <3> QED BY <2>3, <3>1, <3>2 DEF Bind
  <2>4. CASE AskApproval(m) \/ ApprovalAnswered(m) \/ AnnounceApproval(m)
    BY <1>1, <2>4 DEF AskApproval, ApprovalAnswered, AnnounceApproval, Waits, TurnOf
  <2>5. CASE EndRun(m)
    <3>1. CASE Goto(m, "replying") /\ UNCHANGED <<event, queue>>
      BY <1>1, <2>5, <3>1 DEF EndRun, Waits, TurnOf
    <3>2. CASE Ends(m, "failed") /\ Leaves
      BY <1>1, <2>2, <2>5, <3>2 DEF EndRun
    <3> QED BY <2>5, <3>1, <3>2 DEF EndRun
  <2>6. CASE Processed(m)
    BY <1>1, <2>2, <2>6 DEF Processed
  <2> QED BY <1>4, <2>1, <2>3, <2>4, <2>5, <2>6 DEF MessageStep
<1>5. ASSUME NEW p \in Presses, PressStep(p) PROVE Rest
  <2>1. p \in Events /\ p \notin Messages
    BY RowsOfTheChat
  <2>2. /\ event' \in [Events -> {"none", "processing", "processed", "rejected", "failed"}]
        /\ handler' \in [Events -> {"none", "routing", "queued", "running", "asking",
                                    "replying", "consumed", "resolving"}]
        /\ \A m \in Messages : handler'[m] = handler[m]
    BY <1>5, <2>1, RowsOfTheChat DEF PressStep, Consume, Press, PressDone
  <2>3. tokens' \subseteq Approvals \X Decisions
    BY <1>5 DEF PressStep, Consume, Press, PressDone
  <2>4. UNCHANGED <<phase, mode, binding, captured, queue, ranIn, publishing, ends>>
    BY <1>5 DEF PressStep, Consume, Press, PressDone
  <2> QED BY <1>1, <2>2, <2>3, <2>4 DEF Waits, TurnOf
<1>6. CASE StopEnds \/ Crash
  <2>1. Dies /\ ends' \in 0 .. MaxEnds
    BY <1>6, MessagingAssumption DEF StopEnds, Crash
  <2>2. /\ handler' = [e \in Events |-> "none"]
        /\ queue' = <<>> /\ queue' \in Seq(Messages) /\ DOMAIN queue' = {}
    BY <2>1 DEF Dies
  <2>3. QueueInv'
    BY <2>2, RowsOfTheChat DEF Waits
  <2> QED BY <1>1, <2>1, <2>2, <2>3 DEF Dies
<1>7. CASE Start \/ StopBegins \/ OutboxStarts
  BY <1>1, <1>7, MessagingAssumption DEF Start, StopBegins, OutboxStarts, ChannelInv, ChannelTypeOK, QueueInv,
     Waits, TurnOf
<1>8. ASSUME NEW a \in Approvals, Publish(a) PROVE Rest
  BY <1>1, <1>8 DEF Publish, ChannelInv, ChannelTypeOK, QueueInv, Waits, TurnOf
<1> QED BY <1>2, <1>3, <1>4, <1>5, <1>6, <1>7, <1>8 DEF ChannelNext, Machine, vars

LEMMA StepSession == ASSUME ChannelInv, [ChannelNext]_vars PROVE SessionInv'
<1> USE DEF ChannelInv, ChannelTypeOK, SessionInv, Goto, Ends
<1>1. \A m \in Messages : status[m] # "none" => status'[m] # "none"
  BY StepKeepsOutbox, RowsOfTheChat DEF StaysStored
<1>2. CASE UNCHANGED messagingVars
  BY <1>1, <1>2 DEF messagingVars
<1>3. CASE \E e \in Events : Receive(e)
  BY <1>1, <1>3, RowsOfTheChat DEF Receive, Claimable
<1>4. ASSUME NEW m \in Messages, MessageStep(m) PROVE SessionInv'
  <2> USE RowsOfTheChat
  <2>1. CASE Route(m)
    BY <1>1, <2>1 DEF Route
  <2>2. CASE Bind(m)
    <3>1. CASE captured[m].session # NoSession
      BY <1>1, <2>2, <3>1 DEF Bind
    <3>2. CASE captured[m].session = NoSession /\ Saves(m)
      <4>1. binding.session = NoSession /\ captured[m].revision = 0
        BY <3>2 DEF Saves
      <4>2. \A n \in Messages : ranIn[n] = NoSession /\ captured[n].session = NoSession
        BY <4>1
      <4>3. m # NoSession
        BY NoSessionAssumption
      <4>4. /\ binding' = [session |-> m, revision |-> 1]
            /\ ranIn' = [ranIn EXCEPT ![m] = m] /\ Goto(m, "running")
            /\ UNCHANGED <<event, captured, outboxVars>>
        BY <2>2, <3>2, <4>1 DEF Bind
      <4>5. ASSUME NEW n \in Messages
            PROVE  /\ captured'[n].session = NoSession /\ captured'[n].revision = 0
                   /\ ranIn'[n] = IF n = m THEN m ELSE NoSession
                   /\ handler'[n] = IF n = m THEN "running" ELSE handler[n]
                   /\ event'[n] = event[n]
        BY <4>2, <4>4
      <4>6. handler[m] = "queued"
        BY <2>2 DEF Bind
      <4> QED BY <1>1, <4>3, <4>4, <4>5, <4>6
    <3>3. CASE captured[m].session = NoSession /\ ~Saves(m)
      BY <1>1, <2>2, <3>3 DEF Bind
    <3> QED BY <3>1, <3>2, <3>3
  <2>3. CASE AskApproval(m) \/ ApprovalAnswered(m) \/ AnnounceApproval(m)
    BY <1>1, <2>3 DEF AskApproval, ApprovalAnswered, AnnounceApproval
  <2>4. CASE EndRun(m)
    <3>1. CASE Goto(m, "replying") /\ EnqueueAndFlush(m)
      <4>1. status'[m] # "none"
        BY <3>1 DEF EnqueueAndFlush, OutboxInv, OutboxTypeOK
      <4> QED BY <1>1, <2>4, <3>1, <4>1 DEF EndRun
    <3>2. CASE Ends(m, "failed")
      BY <1>1, <2>4, <3>2 DEF EndRun
    <3> QED BY <2>4, <3>1, <3>2 DEF EndRun
  <2>5. CASE Processed(m)
    BY <1>1, <2>5 DEF Processed
  <2> QED BY <1>4, <2>1, <2>2, <2>3, <2>4, <2>5 DEF MessageStep
<1>5. ASSUME NEW p \in Presses, PressStep(p) PROVE SessionInv'
  <2>1. \A m \in Messages : handler'[m] = handler[m] /\ event'[m] = event[m]
    BY <1>5, RowsOfTheChat DEF PressStep, Consume, Press, PressDone
  <2>2. UNCHANGED <<binding, captured, ranIn>>
    BY <1>5 DEF PressStep, Consume, Press, PressDone
  <2> QED BY <1>1, <2>1, <2>2
<1>6. CASE StopEnds \/ Crash
  BY <1>1, <1>6, RowsOfTheChat DEF StopEnds, Crash, Dies
<1>7. CASE Start \/ StopBegins \/ OutboxStarts \/ \E a \in Approvals : Publish(a)
  BY <1>1, <1>7 DEF Start, StopBegins, OutboxStarts, Publish
<1> QED BY <1>2, <1>3, <1>4, <1>5, <1>6, <1>7 DEF ChannelNext, Machine, vars

LEMMA StepChannel == ASSUME ChannelInv, [ChannelNext]_vars PROVE ChannelInv'
  BY StepKeepsOutbox, StepKeepsBroker, StepTyped, StepSession DEF ChannelInv

----------------------------------------------------------------------------
\* The invariant holds in every state the process, the platform and the user can reach.
THEOREM ChannelCorrect == ChannelSpec => []ChannelInv
<1>1. ChannelInv /\ [ChannelNext]_vars => ChannelInv'
  BY StepChannel
<1> QED BY InitChannel, <1>1, PTL DEF ChannelSpec

\* Every variable of the chat, its outbox and its approvals keeps its type.
THEOREM ChannelTypeCorrect == ChannelSpec => []ChannelTypeOK
<1>1. ChannelInv => ChannelTypeOK
  BY DEF ChannelInv
<1> QED BY ChannelCorrect, <1>1, PTL

\* However sends, lost answers, refusals, retries, crashes and recoveries interleave, no
\* message reaches the chat twice and the stored status does not lie.
THEOREM OutboxHonestCorrect == ChannelSpec => []OutboxHonest
<1>1. ChannelInv => OutboxHonest
  BY OutboxInvHonest DEF ChannelInv
<1> QED BY ChannelCorrect, <1>1, PTL

\* What a run of the chat is told of its request is what the store holds.
THEOREM ChatAnswerCorrect == ChannelSpec => []AnswerIsRecorded
<1>1. ChannelInv => AnswerIsRecorded
  BY BrokerHonest DEF ChannelInv
<1> QED BY ChannelCorrect, <1>1, PTL

\* One message of the chat is in a run at a time, and all of them in one session, though
\* each reads the binding before it waits in the queue.
THEOREM ConversationSerialCorrect == ChannelSpec => []ConversationSerial
<1>1. ChannelInv => ConversationSerial
  BY DEF ChannelInv, QueueInv, SessionInv, ConversationSerial, InRun, AtHead, TurnOf
<1> QED BY ChannelCorrect, <1>1, PTL

\* No delivery, crash or restart runs a message a second time, and one that counts as
\* processed has its reply in the outbox.
THEOREM RunsOnceCorrect == ChannelSpec => RunsOnce
<1> DEFINE Once(m) ==
      /\ handler[m] = "queued" /\ handler'[m] = "running" => ranIn[m] = NoSession
      /\ event[m] # "processed" /\ event'[m] = "processed" => status'[m] # "none"
<1>1. ASSUME ChannelInv, [ChannelNext]_vars PROVE [\A m \in Messages : Once(m)]_vars
  <2> SUFFICES ASSUME NEW m \in Messages PROVE Once(m)
    OBVIOUS
  <2>1. handler[m] = "queued" => ranIn[m] = NoSession
    BY <1>1 DEF ChannelInv, SessionInv
  <2>2. ASSUME event[m] # "processed", event'[m] = "processed" PROVE status'[m] # "none"
    <3>1. Processed(m)
      <4> USE <2>2, RowsOfTheChat DEF ChannelInv, ChannelTypeOK, Ends, Goto
      <4>1. ASSUME UNCHANGED event PROVE FALSE
        BY <4>1
      <4>2. ASSUME NEW e \in Events, Receive(e) PROVE FALSE
        BY <1>1, <4>2 DEF Receive
      <4>3. ASSUME NEW n \in Messages, MessageStep(n) PROVE Processed(m)
        <5>1. CASE Route(n) \/ Bind(n) \/ EndRun(n)
          BY <1>1, <4>1, <5>1 DEF Route, Bind, EndRun
        <5>2. CASE Processed(n)
          BY <1>1, <5>2 DEF Processed
        <5> QED BY <4>1, <4>3, <5>1, <5>2
                DEF MessageStep, AskApproval, AnnounceApproval, ApprovalAnswered
      <4>4. ASSUME NEW p \in Presses, PressStep(p) PROVE FALSE
        <5>1. event'[m] = event[m]
          BY <1>1, <4>4 DEF PressStep, Consume, Press, PressDone
        <5> QED BY <5>1
      <4>5. ASSUME ~UNCHANGED event
            PROVE  \/ \E e \in Events : Receive(e)
                   \/ \E n \in Messages : MessageStep(n)
                   \/ \E p \in Presses : PressStep(p)
        BY <1>1, <4>5 DEF ChannelNext, Machine, vars, messagingVars, Publish, OutboxStarts,
           StopEnds, Start, StopBegins, Crash, Dies
      <4> QED BY <4>1, <4>2, <4>3, <4>4, <4>5
    <3>2. status[m] # "none"
      BY <1>1, <3>1 DEF ChannelInv, SessionInv, Processed
    <3> QED BY <3>1, <3>2 DEF Processed, outboxVars
  <2> QED BY <2>1, <2>2
<1> QED BY ChannelCorrect, <1>1, PTL DEF ChannelSpec, RunsOnce
=============================================================================
