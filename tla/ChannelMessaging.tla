-------------------------- MODULE ChannelMessaging --------------------------
(***************************************************************************)
(* One chat of packages/channel-runtime: messages of its user become runs  *)
(* of one session, a run may ask for an approval, the request goes out as  *)
(* a message with buttons, and a press comes back as an event of the same  *)
(* platform (manager.ts, inbound/queue.ts, approval/bridge.ts).            *)
(*                                                                         *)
(* A message m is the event, its run, its reply's row in the outbox and    *)
(* the approval its run asks for; Request(m) is the row of the approval's  *)
(* message.  The platform delivers an event any number of times.           *)
(***************************************************************************)
EXTENDS ChannelOutbox, ApprovalBroker, Sequences

CONSTANTS Messages,    \* messages of the user of the chat
          Presses,     \* presses of buttons: [of, decision, sender]
          User,        \* the sender of the messages
          Sequential,  \* the adapter awaits an event before it takes the next
          MaxEnds      \* bound: ends of the process, by a stop or a crash

Request(a) == <<"approval", a>>
Events == Messages \cup Presses

ASSUME MessagingAssumption ==
  /\ Approvals \subseteq Messages /\ Messages \cap Presses = {}
  /\ Rows = Messages \cup { Request(a) : a \in Approvals }
  /\ \A p \in Presses : p.of \in Approvals /\ p.decision \in Decisions
  /\ Sequential \in BOOLEAN /\ MaxEnds \in Nat

NoSession == "no session"
ASSUME NoSessionAssumption == NoSession \notin Messages

VARIABLES phase,     \* what the process does as a whole
          mode,      \* queueMode of the binding
          binding,   \* the stored binding: its session and its revision
          event,     \* the stored status of each inbound event
          handler,   \* how far this process is with each event
          captured,  \* the binding as the handler of a message read it
          queue,     \* the messages of the chat that wait or execute
          ranIn,     \* history: the session each message was run in
          publishing,\* approvals whose request is on its way out
          tokens,    \* live action tokens: <<approval, decision>>
          ends       \* how often the process ended

messagingVars == <<phase, mode, binding, event, handler, captured, queue, ranIn,
                   publishing, tokens, ends>>
vars == <<outboxVars, approvalVars, messagingVars>>

\* A session is known by the message whose handling created it.
Sessions == Messages \cup {NoSession}
Bindings == [session : Sessions, revision : 0 .. 1]
Running  == phase \in {"starting", "up"}      \* the adapters run
Alive    == phase \in {"starting", "up", "stopping"}

ChannelTypeOK ==
  /\ OutboxTypeOK /\ ApprovalTypeOK
  /\ phase \in {"starting", "up", "stopping", "down"}
  /\ mode \in {"queue", "reject"}
  /\ binding \in Bindings /\ captured \in [Messages -> Bindings]
  /\ event \in [Events -> {"none", "processing", "processed", "rejected", "failed"}]
  /\ handler \in [Events -> {"none", "routing", "queued", "running", "asking", "replying",
                             "consumed", "resolving"}]
  /\ queue \in Seq(Messages)
  /\ \A i, j \in DOMAIN queue : queue[i] = queue[j] => i = j
  /\ ranIn \in [Messages -> Sessions]
  /\ publishing \subseteq Approvals
  /\ tokens \subseteq Approvals \X Decisions
  /\ ends \in 0 .. MaxEnds

ChannelInit ==
  /\ OutboxInit /\ ApprovalInit
  /\ phase = "up" /\ mode \in {"queue", "reject"}
  /\ binding = [session |-> NoSession, revision |-> 0]
  /\ event = [e \in Events |-> "none"] /\ handler = [e \in Events |-> "none"]
  /\ captured = [m \in Messages |-> binding] /\ queue = <<>>
  /\ ranIn = [m \in Messages |-> NoSession]
  /\ publishing = {} /\ tokens = {}
  /\ ends = 0

Goto(e, pc) == handler' = [handler EXCEPT ![e] = pc]
Ends(e, end) == event' = [event EXCEPT ![e] = end] /\ Goto(e, "none")

-----------------------------------------------------------------------------
(* receive.  The platform delivers an event at any time and more than once;  *)
(* a press exists once the request is in the chat.  An adapter that polls    *)
(* takes no event while it awaits another.  The unique key of the event is   *)
(* its claim: a second delivery changes nothing.  (Between the claim and the *)
(* reading of the binding nothing else runs.)                                *)
\* Mutant: an event that was not processed is taken again.
ClaimableAgain(e) == event[e] # "processed" /\ handler[e] = "none"
Claimable(e) == event[e] = "none"

Shown(e) == e \in Presses => arrived[Request(e.of)] > 0

Receive(e) ==
  /\ Running /\ Claimable(e) /\ Shown(e)
  /\ Sequential => \A f \in Events : handler[f] = "none"
  /\ event' = [event EXCEPT ![e] = "processing"] /\ Goto(e, "routing")
  /\ UNCHANGED <<outboxVars, approvalVars, phase, mode, binding, captured, queue, ranIn,
                 publishing, tokens, ends>>

(* route: without the adapter, or in a busy chat that does not queue, the    *)
(* message is rejected; else the binding is read and the message queued.     *)
Route(m) ==
  /\ handler[m] = "routing"
  /\ \/ /\ ~Running \/ (mode = "reject" /\ queue # <<>>)
        /\ Ends(m, "rejected") /\ UNCHANGED <<captured, queue>>
     \/ /\ Running /\ (mode = "queue" \/ queue = <<>>)
        /\ captured' = [captured EXCEPT ![m] = binding]
        /\ queue' = Append(queue, m)
        /\ Goto(m, "queued") /\ UNCHANGED event
  /\ UNCHANGED <<outboxVars, approvalVars, phase, mode, binding, ranIn, publishing,
                 tokens, ends>>

-----------------------------------------------------------------------------
(* execute, by the message at the head of the queue: the session the binding *)
(* names or a new one, which is saved under the revision that was read.      *)
TurnOf(m) == queue # <<>> /\ Head(queue) = m
Leaves == queue' = Tail(queue)

\* Mutant: the binding is saved over whatever is stored.
SavesAny(m) == TRUE
Saves(m) == binding.revision = captured[m].revision

Bind(m) ==
  /\ handler[m] = "queued" /\ TurnOf(m)
  /\ \/ /\ captured[m].session # NoSession
        /\ ranIn' = [ranIn EXCEPT ![m] = captured[m].session]
        /\ Goto(m, "running") /\ UNCHANGED <<binding, event, queue>>
     \/ /\ captured[m].session = NoSession /\ Saves(m)
        /\ binding' = [session |-> m, revision |-> captured[m].revision + 1]
        /\ ranIn' = [ranIn EXCEPT ![m] = m]
        /\ Goto(m, "running") /\ UNCHANGED <<event, queue>>
     \/ /\ captured[m].session = NoSession /\ ~Saves(m)
        /\ Ends(m, "failed") /\ Leaves /\ UNCHANGED <<binding, ranIn>>
  /\ UNCHANGED <<outboxVars, approvalVars, phase, mode, captured, publishing, tokens,
                 ends>>

(* The run, as far as the chat sees it: it may ask once, and it ends.        *)
AskApproval(m) ==
  /\ handler[m] = "running" /\ m \in Approvals /\ CreatePending(m) /\ Goto(m, "asking")
  /\ UNCHANGED <<outboxVars, phase, mode, binding, event, captured, queue, ranIn,
                 publishing, tokens, ends>>

AnnounceApproval(m) ==
  /\ handler[m] = "asking" /\ Register(m)
  /\ publishing' = publishing \cup {m}
  /\ UNCHANGED <<outboxVars, phase, mode, binding, event, handler, captured, queue, ranIn,
                 tokens, ends>>

ApprovalAnswered(m) ==
  /\ handler[m] = "asking" /\ answer[m] # "none" /\ Goto(m, "running")
  /\ UNCHANGED <<outboxVars, approvalVars, phase, mode, binding, event, captured, queue,
                 ranIn, publishing, tokens, ends>>

(* The run ends; its reply goes to the outbox, if the adapter still runs,    *)
(* and the message is processed when the flush is over.                      *)
EndRun(m) ==
  /\ handler[m] = "running"
  /\ \/ /\ Running /\ EnqueueAndFlush(m)
        /\ Goto(m, "replying") /\ UNCHANGED <<event, queue>>
     \/ /\ ~Running /\ Ends(m, "failed") /\ Leaves /\ UNCHANGED outboxVars
  /\ UNCHANGED <<approvalVars, phase, mode, binding, captured, ranIn, publishing, tokens,
                 ends>>

Processed(m) ==
  /\ handler[m] = "replying" /\ ~Flushing
  /\ Ends(m, "processed") /\ Leaves
  /\ UNCHANGED <<outboxVars, approvalVars, phase, mode, binding, captured, ranIn,
                 publishing, tokens, ends>>

-----------------------------------------------------------------------------
(* ChannelApprovalBridge.  publish: the tokens are stored, then the request  *)
(* goes out.                                                                 *)
Publish(a) ==
  /\ a \in publishing /\ publishing' = publishing \ {a}
  /\ tokens' = tokens \cup { <<a, decision>> : decision \in Decisions }
  /\ IF Running THEN EnqueueAndFlush(Request(a)) ELSE UNCHANGED outboxVars
  /\ UNCHANGED <<approvalVars, phase, mode, binding, event, handler, captured, queue,
                 ranIn, ends>>

(* handle: the token is spent, if it is live and the sender is the one the   *)
(* run works for.                                                            *)
Allowed(p) == <<p.of, p.decision>> \in tokens /\ p.sender = User

Consume(p) ==
  /\ handler[p] = "routing"
  /\ \/ /\ Allowed(p) /\ tokens' = tokens \ {<<p.of, p.decision>>}
        /\ Goto(p, "consumed") /\ UNCHANGED event
     \/ /\ ~Allowed(p) /\ Ends(p, "failed") /\ UNCHANGED tokens
  /\ UNCHANGED <<outboxVars, approvalVars, phase, mode, binding, captured, queue, ranIn,
                 publishing, ends>>

(* resolveApproval: without a waiting request only the decision that is       *)
(* stored is accepted.                                                        *)
Press(p) ==
  /\ handler[p] = "consumed"
  /\ \/ /\ Resolve(p.of, p.decision) /\ Goto(p, "resolving") /\ UNCHANGED event
     \/ /\ p.of \notin waiting /\ record[p.of] = StatusOf(p.decision)
        /\ Ends(p, "processed") /\ UNCHANGED approvalVars
     \/ /\ ~Accepts(p.of, p.decision) /\ Ends(p, "failed")
        /\ UNCHANGED approvalVars
  /\ UNCHANGED <<outboxVars, phase, mode, binding, captured, queue, ranIn, publishing,
                 tokens, ends>>

(* The waiter is answered, and every token of the approval is spent.         *)
\* Mutant: the decision does not reach the waiter.
AnsweredNot(p) == FALSE
Answered(p) == handler[p] = "resolving"

PressDone(p) ==
  /\ Answered(p) /\ Ends(p, "processed")
  /\ IF <<p.of, p.decision>> \in settling THEN Settle(p.of) ELSE UNCHANGED approvalVars
  /\ tokens' = { t \in tokens : t[1] # p.of }
  /\ UNCHANGED <<outboxVars, phase, mode, binding, captured, queue, ranIn, publishing,
                 ends>>

-----------------------------------------------------------------------------
(* The process stops, dies, starts.                                          *)
StopBegins ==
  /\ phase = "up" /\ phase' = "stopping"
  /\ ends < MaxEnds /\ ends' = ends + 1
  /\ UNCHANGED <<outboxVars, approvalVars, mode, binding, event, handler, captured, queue,
                 ranIn, publishing, tokens>>

Dies ==
  /\ phase' = "down" /\ OutboxDies /\ LoseRequests
  /\ handler' = [e \in Events |-> "none"] /\ queue' = <<>>
  /\ publishing' = {}
  /\ UNCHANGED <<mode, binding, event, captured, ranIn, tokens>>

(* stop: the queue is drained, then the flush in flight is awaited.          *)
StopEnds == phase = "stopping" /\ queue = <<>> /\ ~Flushing /\ Dies /\ UNCHANGED ends

Crash == Alive /\ ends < MaxEnds /\ ends' = ends + 1 /\ Dies

(* The host starts: approvals are reconciled before the adapters run, the    *)
(* outbox is recovered after.                                                *)
Start ==
  /\ phase = "down" /\ phase' = "starting" /\ ReconcileApprovals
  /\ UNCHANGED <<outboxVars, mode, binding, event, handler, captured, queue, ranIn,
                 publishing, tokens, ends>>

OutboxStarts ==
  /\ phase = "starting" /\ phase' = "up" /\ RecoverOutbox
  /\ UNCHANGED <<approvalVars, mode, binding, event, handler, captured, queue, ranIn,
                 publishing, tokens, ends>>

-----------------------------------------------------------------------------
MessageStep(m) == \/ Route(m) \/ Bind(m) \/ AskApproval(m) \/ AnnounceApproval(m)
                  \/ ApprovalAnswered(m) \/ EndRun(m) \/ Processed(m)
PressStep(p) == Consume(p) \/ Press(p) \/ PressDone(p)

Machine == /\ Alive
           /\ \/ \E m \in Messages : MessageStep(m)
              \/ \E p \in Presses : PressStep(p)
              \/ \E a \in Approvals : Publish(a)
              \/ OutboxStep(phase = "up", Running) /\ UNCHANGED <<approvalVars, messagingVars>>
              \/ OutboxStarts \/ StopEnds

ChannelNext == \/ Machine \/ Start
               \/ \E e \in Events : Receive(e)
               \/ StopBegins \/ Crash

ChannelSpec == ChannelInit /\ [][ChannelNext]_vars

(* The event loop turns, models and tools end and the platform answers a     *)
(* send; the user presses what is shown, and the platform delivers the press *)
(* until it is taken.                                                        *)
FairChannelSpec ==
  /\ ChannelSpec /\ WF_vars(Machine)
  /\ \A p \in Presses : p.sender = User => SF_vars(Receive(p))

-----------------------------------------------------------------------------
(* The messages of a chat are run one after the other in one session, though *)
(* none of them knew a session when it arrived.                              *)
InRun(m) == handler[m] \in {"running", "asking"}
ConversationSerial ==
  \A m, n \in Messages :
    /\ InRun(m) /\ InRun(n) => m = n
    /\ ranIn[m] # NoSession /\ ranIn[n] # NoSession => ranIn[m] = ranIn[n]

(* A message is run once, however often the platform delivers it and the     *)
(* process dies; one that counts as processed has its reply in the outbox.   *)
RunsOnce ==
  [][ \A m \in Messages :
        /\ handler[m] = "queued" /\ handler'[m] = "running" => ranIn[m] = NoSession
        /\ event[m] # "processed" /\ event'[m] = "processed" => status'[m] # "none" ]_vars

(* A request that waits and is shown to the user is answered by the press of *)
(* a button, unless the host stops first.                                    *)
PressHeard ==
  \A p \in Presses :
    p.sender = User /\ p.of \in waiting /\ Shown(p)
      ~> (p.of \notin waiting \/ phase = "stopping")
=============================================================================
