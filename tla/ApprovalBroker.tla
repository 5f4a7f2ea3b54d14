--------------------------- MODULE ApprovalBroker ---------------------------
(***************************************************************************)
(* The approvals of packages/app-service: a request of a running tool is   *)
(* stored, a promise waits for its answer, and a decision, an abort of the *)
(* run and a closing host race over it.  The store decides the race; the   *)
(* promise is answered after the store was asked, in a step of its own     *)
(* (approval-service.ts, pending-approvals.ts, persistence.ts).            *)
(***************************************************************************)
EXTENDS Naturals, FiniteSets

CONSTANT Approvals

VARIABLES record,    \* the stored status of each approval
          waiting,   \* the requests whose promise waits in this process
          answer,    \* what the promise resolved to
          settling   \* calls that asked the store and will answer the promise

approvalVars == <<record, waiting, answer, settling>>

Decisions == {"allow", "deny"}
Statuses  == {"none", "pending", "allowed", "denied", "interrupted"}
StatusOf(decision) == IF decision = "allow" THEN "allowed" ELSE "denied"

ApprovalTypeOK ==
  /\ record \in [Approvals -> Statuses]
  /\ waiting \subseteq Approvals
  /\ answer \in [Approvals -> Decisions \cup {"none"}]
  /\ settling \subseteq Approvals \X Decisions

ApprovalInit ==
  /\ record = [a \in Approvals |-> "none"]
  /\ waiting = {} /\ settling = {}
  /\ answer = [a \in Approvals |-> "none"]

-----------------------------------------------------------------------------
(* persistAndWait: the record is created, then the request is registered    *)
(* and announced; a run aborted in between is answered at once.             *)
CreatePending(a) ==
  /\ record[a] = "none"
  /\ record' = [record EXCEPT ![a] = "pending"]
  /\ UNCHANGED <<waiting, answer, settling>>

Created(a) == record[a] = "pending" /\ a \notin waiting /\ answer[a] = "none"

Register(a) ==
  /\ Created(a)
  /\ waiting' = waiting \cup {a}
  /\ UNCHANGED <<record, answer, settling>>

AbortedBefore(a) ==
  /\ Created(a)
  /\ record' = [record EXCEPT ![a] = "interrupted"]
  /\ answer' = [answer EXCEPT ![a] = "deny"]
  /\ UNCHANGED <<waiting, settling>>

(* resolve: a request that waits is put to the store, which takes the first *)
(* decision and the same one again; without a waiter nothing changes.       *)
Accepts(a, decision) == record[a] \in {"pending", StatusOf(decision)}

Resolve(a, decision) ==
  /\ a \in waiting /\ Accepts(a, decision)
  /\ record' = [record EXCEPT ![a] = StatusOf(decision)]
  /\ settling' = settling \cup {<<a, decision>>}
  /\ UNCHANGED <<waiting, answer>>

(* The abort of the run and interruptPending: what the store holds by then   *)
(* is the answer.                                                            *)
\* Mutant: an aborted request is always denied.
AbortAnswerDeny(a) == "deny"
AbortAnswer(a) == IF record[a] = "allowed" THEN "allow" ELSE "deny"

Interrupt(a) ==
  /\ a \in waiting
  /\ record' = [record EXCEPT ![a] = IF @ = "pending" THEN "interrupted" ELSE @]
  /\ settling' = settling \cup {<<a, AbortAnswer(a)>>}
  /\ UNCHANGED <<waiting, answer>>

(* finish: the first call to come back answers the promise.                 *)
Settle(a) ==
  /\ \E decision \in Decisions :
       /\ <<a, decision>> \in settling
       /\ settling' = settling \ {<<a, decision>>}
       /\ answer' = IF a \in waiting THEN [answer EXCEPT ![a] = decision] ELSE answer
       /\ waiting' = waiting \ {a}
  /\ UNCHANGED record

(* The process dies: promises and calls are gone.  Its successor interrupts  *)
(* every approval it finds pending (reconcileApprovals).                     *)
LoseRequests ==
  /\ waiting' = {} /\ settling' = {}
  /\ UNCHANGED <<record, answer>>

ReconcileApprovals ==
  /\ record' = [a \in Approvals |->
                  IF record[a] = "pending" THEN "interrupted" ELSE record[a]]
  /\ UNCHANGED <<waiting, answer, settling>>

(* The tool is told what the store holds, whoever won the race: it runs only *)
(* with a stored permission, and a stored permission is not denied to it.    *)
AnswerIsRecorded ==
  \A a \in Approvals :
    /\ answer[a] = "allow" => record[a] = "allowed"
    /\ answer[a] = "deny" => record[a] \in {"denied", "interrupted"}

\* What the store holds allows the tool to be told d.
Backs(status, d) == /\ d = "allow" => status = "allowed"
                    /\ d = "deny" => status \in {"denied", "interrupted"}

\* Why that is so: a request that waits is stored, and a call on its way to the
\* promise carries what the store holds.  Every step above, and of the modules that
\* take this one in keeps it.
BrokerInv ==
  /\ ApprovalTypeOK
  /\ \A a \in Approvals : Backs(record[a], answer[a])
  /\ \A a \in waiting : record[a] # "none"
  /\ \A a \in Approvals, d \in Decisions : <<a, d>> \in settling => Backs(record[a], d)
=============================================================================
