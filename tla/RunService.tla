----------------------------- MODULE RunService -----------------------------
(***************************************************************************)
(* The runs of one session as the application service keeps them           *)
(* (packages/app-service), started by clients with idempotency keys        *)
(* (packages/server-core) and executed by the runtime on one lane.         *)
(*                                                                         *)
(* A run has two durable faces: its record in the service and its          *)
(* operation in the runtime (the module AgentOperation, of which only      *)
(* the end is kept here).  They are written apart; the process may die     *)
(* or be closed in between, and the recovery coordinator brings them       *)
(* together again: a server interrupts what it finds unfinished, a desktop *)
(* preserves it until the user resumes it.                                 *)
(***************************************************************************)
EXTENDS ApprovalBroker

CONSTANTS Keys,          \* the idempotency keys clients use
          MaxRequests,   \* bound: requests that reach the service
          MaxCrashes     \* bound: deaths of the process

\* A run is known by the number of its request; those in Approvals may ask for one.
Runs == 1 .. MaxRequests

ASSUME RunServiceAssumption ==
  MaxRequests \in Nat \ {0} /\ MaxCrashes \in Nat /\ Approvals \subseteq Runs

VARIABLES host,      \* "server" interrupts unfinished operations, "desktop" keeps them
          phase,     \* what the process does as a whole
          run,       \* the stored record of each run
          op,        \* the stored operation of each run
          key,       \* the stored claim of each idempotency key
          owner,     \* the key whose request made the run
          call,      \* the request in flight under each key
          runner,    \* the execution of each run in this process, or its result
          observed,  \* runs whose result this process will record
          cancelled, \* runs whose signal was aborted in this process
          worked,    \* history: runs whose execution did not stop at its first step
          requests, crashes

runVars == <<host, phase, run, op, key, owner, call, runner, observed, cancelled,
             worked, requests, crashes>>
vars == <<approvalVars, runVars>>

Active   == {"accepted", "starting", "running"}
Results  == {"completed", "failed", "cancelled"}
Idle     == [pc |-> "idle", run |-> 0]
LaneBusy == \E r \in Runs : op[r] = "active"
Executing(r) == runner[r] \in {"begun", "doomed", "aborting", "running", "asking"}

\* In a process that lives: everything but "down" and the recovery.
Serving == phase \in {"up", "awaiting", "stopping"}

RunTypeOK ==
  /\ ApprovalTypeOK
  /\ host \in {"server", "desktop"}
  /\ phase \in {"up", "awaiting", "stopping", "down", "recovering", "reconciling"}
  /\ run \in [Runs -> {"none", "interrupted", "shutdown"} \cup Active \cup Results]
  /\ op \in [Runs -> {"none", "active", "completed", "failed", "aborted", "interrupted"}]
  /\ key \in [Keys -> {"none", "pending", "completed"}]
  /\ owner \in [Runs -> Keys \cup {"nobody"}]
  /\ call \in [Keys -> [pc : {"idle", "upload", "accepted", "lane", "complete", "abandon"},
                        run : 0 .. MaxRequests]]
  /\ runner \in [Runs -> {"none", "begun", "doomed", "aborting", "running", "asking"}
                             \cup Results]
  /\ observed \subseteq Runs /\ cancelled \subseteq Runs /\ worked \subseteq Runs
  /\ requests \in 0 .. MaxRequests /\ crashes \in 0 .. MaxCrashes

RunInit ==
  /\ ApprovalInit
  /\ host \in {"server", "desktop"} /\ phase = "up"
  /\ run = [r \in Runs |-> "none"] /\ op = [r \in Runs |-> "none"]
  /\ key = [k \in Keys |-> "none"] /\ owner = [r \in Runs |-> "nobody"]
  /\ call = [k \in Keys |-> Idle]
  /\ runner = [r \in Runs |-> "none"] /\ observed = {} /\ cancelled = {}
  /\ worked = {} /\ requests = 0 /\ crashes = 0

-----------------------------------------------------------------------------
(* Starting a run (server.ts startRun, idempotency.ts, jojo-app-service.ts   *)
(* startRun).  A request under a key that is in flight joins it, one under a *)
(* completed key gets its answer, one under a pending key that nobody is     *)
(* working on is refused: none of them changes anything.                     *)
Goto(k, pc) == call' = [call EXCEPT ![k].pc = pc]
Mine(k) == call[k].run

\* Mutant: a claim left pending is taken over.
ClaimableAgain(k) == key[k] # "completed"
Claimable(k) == key[k] = "none"

Request(k) ==
  /\ phase = "up" /\ call[k].pc = "idle" /\ Claimable(k)
  /\ requests < MaxRequests /\ requests' = requests + 1
  /\ key' = [key EXCEPT ![k] = "pending"]
  /\ call' = [call EXCEPT ![k] = [pc |-> "upload", run |-> requests + 1]]
  /\ UNCHANGED <<approvalVars, host, phase, run, op, owner, runner, observed,
                 cancelled, worked, crashes>>

(* The attachments are resolved, then the run is accepted.                   *)
Accept(k) ==
  /\ call[k].pc = "upload"
  /\ \/ /\ Goto(k, "abandon") /\ UNCHANGED <<run, owner>>
     \/ /\ Goto(k, "accepted")
        /\ run' = [run EXCEPT ![Mine(k)] = "accepted"]
        /\ owner' = [owner EXCEPT ![Mine(k)] = k]
  /\ UNCHANGED <<approvalVars, host, phase, op, key, runner, observed, cancelled,
                 worked, requests, crashes>>

(* markStarting throws if the run was ended in the meantime.                 *)
MarkStarting(k) ==
  /\ call[k].pc = "accepted"
  /\ IF run[Mine(k)] = "accepted"
     THEN Goto(k, "lane") /\ run' = [run EXCEPT ![Mine(k)] = "starting"]
     ELSE Goto(k, "abandon") /\ UNCHANGED run
  /\ UNCHANGED <<approvalVars, host, phase, op, key, owner, runner, observed,
                 cancelled, worked, requests, crashes>>

(* lane.run returns a handle before its operation is stored; attach and      *)
(* markRunning follow in the same turn of the event loop.  If markRunning    *)
(* conflicts the execution is cancelled before its first step and nobody     *)
(* observes it.                                                              *)
LaneRun(k) ==
  /\ call[k].pc = "lane" /\ ~LaneBusy
  /\ \/ /\ run[Mine(k)] = "starting"
        /\ run' = [run EXCEPT ![Mine(k)] = "running"]
        /\ runner' = [runner EXCEPT ![Mine(k)] = "begun"]
        /\ observed' = observed \cup {Mine(k)}
        /\ Goto(k, "complete")
     \/ /\ run[Mine(k)] # "starting"
        /\ runner' = [runner EXCEPT ![Mine(k)] = "doomed"]
        /\ Goto(k, "abandon") /\ UNCHANGED <<run, observed>>
  /\ UNCHANGED <<approvalVars, host, phase, op, key, owner, cancelled, worked,
                 requests, crashes>>

(* A busy lane, a provider or a closed runtime: markFailed.                  *)
LaneRefuses(k) ==
  /\ call[k].pc = "lane"
  /\ run' = [run EXCEPT ![Mine(k)] = IF @ = "starting" THEN "failed" ELSE @]
  /\ Goto(k, "abandon")
  /\ UNCHANGED <<approvalVars, host, phase, op, key, owner, runner, observed,
                 cancelled, worked, requests, crashes>>

CompleteKey(k) ==
  /\ call[k].pc = "complete"
  /\ key' = [key EXCEPT ![k] = "completed"]
  /\ call' = [call EXCEPT ![k] = Idle]
  /\ UNCHANGED <<approvalVars, host, phase, run, op, owner, runner, observed,
                 cancelled, worked, requests, crashes>>

AbandonKey(k) ==
  /\ call[k].pc = "abandon"
  /\ key' = [key EXCEPT ![k] = "none"]
  /\ call' = [call EXCEPT ![k] = Idle]
  /\ UNCHANGED <<approvalVars, host, phase, run, op, owner, runner, observed,
                 cancelled, worked, requests, crashes>>

-----------------------------------------------------------------------------
(* The execution (runtime.ts startRun, AgentOperation).  Its result is       *)
(* recorded by whoever observes the handle.                                  *)
RunnerOnly == UNCHANGED <<host, phase, run, key, owner, call, observed, cancelled,
                          requests, crashes>>
\* Mutant: the result of an execution reaches nobody.
EndedSilently(r, result) == [runner EXCEPT ![r] = "none"]
Ended(r, result) == [runner EXCEPT ![r] = IF r \in observed THEN result ELSE "none"]

(* The operation is stored; the store refuses a second one on the lane.      *)
BeginOperation(r) ==
  /\ runner[r] \in {"begun", "doomed"}
  /\ IF LaneBusy
     THEN runner' = Ended(r, "failed") /\ UNCHANGED <<op, worked>>
     ELSE /\ op' = [op EXCEPT ![r] = "active"]
          /\ \/ /\ runner[r] = "begun" /\ r \notin cancelled
                /\ runner' = [runner EXCEPT ![r] = "running"]
                /\ worked' = worked \cup {r}
             \/ /\ runner[r] = "doomed" \/ r \in cancelled
                /\ runner' = [runner EXCEPT ![r] = "aborting"]
                /\ UNCHANGED worked
  /\ RunnerOnly /\ UNCHANGED approvalVars

FinishOperation(r) ==
  /\ runner[r] = "running"
  /\ \E end \in {"completed", "failed"} :
       op' = [op EXCEPT ![r] = end] /\ runner' = Ended(r, end)
  /\ RunnerOnly /\ UNCHANGED <<approvalVars, worked>>

AbortOperation(r) ==
  /\ runner[r] = "aborting" \/ (runner[r] = "running" /\ r \in cancelled)
  /\ op' = [op EXCEPT ![r] = "aborted"] /\ runner' = Ended(r, "cancelled")
  /\ RunnerOnly /\ UNCHANGED <<approvalVars, worked>>

AskApproval(r) ==
  /\ runner[r] = "running" /\ r \in Approvals \ cancelled /\ CreatePending(r)
  /\ runner' = [runner EXCEPT ![r] = "asking"]
  /\ RunnerOnly /\ UNCHANGED <<op, worked>>

WaitForApproval(r) ==
  /\ runner[r] = "asking"
  /\ IF r \in cancelled THEN AbortedBefore(r) ELSE Register(r)
  /\ UNCHANGED runVars

ApprovalAnswered(r) ==
  /\ runner[r] = "asking" /\ answer[r] # "none"
  /\ runner' = [runner EXCEPT ![r] = "running"]
  /\ RunnerOnly /\ UNCHANGED <<approvalVars, op, worked>>

(* The abort listener of a waiting request.                                  *)
\* Mutant: a waiting request does not hear the abort.
AbortHeardNot(r) == FALSE
AbortHeard(r) == r \in cancelled

AbortApproval(r) ==
  /\ AbortHeard(r) /\ Interrupt(r) /\ UNCHANGED runVars

SettleApproval(r) == Settle(r) /\ UNCHANGED runVars

(* recordResult: a record that was ended meanwhile stays as it is.           *)
RecordResult(r) ==
  /\ r \in observed /\ runner[r] \in Results
  /\ run' = [run EXCEPT ![r] = IF @ \in Active THEN runner[r] ELSE @]
  /\ observed' = observed \ {r}
  /\ runner' = [runner EXCEPT ![r] = "none"]
  /\ UNCHANGED <<approvalVars, host, phase, op, key, owner, call, cancelled,
                 worked, requests, crashes>>

-----------------------------------------------------------------------------
(* Clients decide approvals and cancel runs; the user of a desktop resumes   *)
(* the operation the lane is held by.                                        *)
Decide(r, decision) ==
  /\ phase \in {"up", "awaiting"} /\ Resolve(r, decision) /\ UNCHANGED runVars

CancelRun(r) ==
  /\ phase = "up" /\ r \in observed /\ Executing(r) /\ r \notin cancelled
  /\ cancelled' = cancelled \cup {r}
  /\ UNCHANGED <<approvalVars, host, phase, run, op, key, owner, call, runner,
                 observed, worked, requests, crashes>>

(* resumeRun: an ended record refuses; a second resumption joins the first.  *)
ResumeRun(r) ==
  /\ phase = "up" /\ host = "desktop" /\ op[r] = "active" /\ runner[r] = "none"
  /\ run[r] \in Active
  /\ run' = [run EXCEPT ![r] = "running"]
  /\ runner' = [runner EXCEPT ![r] = "running"]
  /\ observed' = observed \cup {r} /\ worked' = worked \cup {r}
  /\ UNCHANGED <<approvalVars, host, phase, op, key, owner, call, cancelled,
                 requests, crashes>>

-----------------------------------------------------------------------------
(* close: cancel the live runs and wait for their results; interrupt the     *)
(* records and the approvals that are left and close the runtime, which      *)
(* aborts its executions and waits for them; exit.                           *)
CloseCancels ==
  /\ phase = "up" /\ phase' = "awaiting"
  /\ cancelled' = cancelled \cup observed
  /\ UNCHANGED <<approvalVars, host, run, op, key, owner, call, runner, observed,
                 worked, requests, crashes>>

CloseInterrupts ==
  /\ phase = "awaiting" /\ observed \cap cancelled = {}
  /\ phase' = "stopping"
  /\ run' = [r \in Runs |-> IF run[r] \in Active THEN "shutdown" ELSE run[r]]
  /\ record' = [a \in Approvals |-> IF a \in waiting /\ record[a] = "pending"
                                    THEN "interrupted" ELSE record[a]]
  /\ answer' = [a \in Approvals |-> IF a \notin waiting THEN answer[a]
                                    ELSE IF record[a] = "allowed" THEN "allow" ELSE "deny"]
  /\ waiting' = {}
  /\ cancelled' = cancelled \cup { r \in Runs : Executing(r) }
  /\ UNCHANGED <<settling, host, op, key, owner, call, runner, observed, worked,
                 requests, crashes>>

Dies ==
  /\ phase' = "down" /\ LoseRequests
  /\ call' = [k \in Keys |-> Idle]
  /\ runner' = [r \in Runs |-> "none"] /\ observed' = {} /\ cancelled' = {}
  /\ UNCHANGED <<host, run, op, key, owner, worked, requests>>

CloseExits ==
  /\ phase = "stopping"
  /\ \A r \in Runs : ~(Executing(r) /\ r \in cancelled)
  /\ Dies /\ UNCHANGED crashes

Crash == /\ phase # "down" /\ crashes < MaxCrashes /\ crashes' = crashes + 1
         /\ Dies

(* ApplicationRecoveryCoordinator.reconcile, before the service exists.      *)
RecoverApprovals ==
  /\ phase = "down" /\ phase' = "recovering"
  /\ ReconcileApprovals
  /\ UNCHANGED <<host, run, op, key, owner, call, runner, observed, cancelled,
                 worked, requests, crashes>>

\* Mutant: the records are reconciled although operations are unfinished.
InterruptsNone(r) == FALSE
Interrupts(r) == host = "server" /\ op[r] = "active"

RecoverOperations ==
  /\ phase = "recovering" /\ phase' = "reconciling"
  /\ op' = [r \in Runs |-> IF Interrupts(r) THEN "interrupted" ELSE op[r]]
  /\ UNCHANGED <<approvalVars, host, run, key, owner, call, runner, observed,
                 cancelled, worked, requests, crashes>>

(* The record takes the result of the operation; without an operation the    *)
(* run was never committed; a preserved operation keeps its record.          *)
\* Mutant: the status of the operation is written as the record's.
OutcomeRaw(r) == op[r]
Outcome(r) ==
  CASE op[r] = "aborted" -> "cancelled"
    [] op[r] \in {"none", "interrupted"} -> "interrupted"
    [] OTHER -> op[r]

ReconcileRun(r) ==
  /\ phase = "reconciling" /\ run[r] \in Active /\ op[r] # "active"
  /\ run' = [run EXCEPT ![r] = Outcome(r)]
  /\ UNCHANGED <<approvalVars, host, phase, op, key, owner, call, runner, observed,
                 cancelled, worked, requests, crashes>>

RecoveryDone ==
  /\ phase = "reconciling"
  /\ \A r \in Runs : run[r] \in Active => op[r] = "active"
  /\ phase' = "up"
  /\ UNCHANGED <<approvalVars, host, run, op, key, owner, call, runner, observed,
                 cancelled, worked, requests, crashes>>

-----------------------------------------------------------------------------
StartStep(k) == Serving /\ (\/ Accept(k) \/ MarkStarting(k) \/ LaneRun(k)
                            \/ LaneRefuses(k) \/ CompleteKey(k) \/ AbandonKey(k))
RunStep(r) == Serving /\ (\/ BeginOperation(r) \/ FinishOperation(r) \/ AbortOperation(r)
                          \/ AskApproval(r) \/ WaitForApproval(r) \/ ApprovalAnswered(r)
                          \/ AbortApproval(r) \/ SettleApproval(r) \/ RecordResult(r))
CloseStep == CloseInterrupts \/ CloseExits
RecoveryStep == \/ RecoverApprovals \/ RecoverOperations \/ RecoveryDone
                \/ \E r \in Runs : ReconcileRun(r)
Clients == \/ \E k \in Keys : Request(k)
           \/ \E r \in Runs : CancelRun(r) \/ ResumeRun(r)
           \/ \E r \in Approvals, decision \in Decisions : Decide(r, decision)

Machine == \/ \E k \in Keys : StartStep(k)
           \/ \E r \in Runs : RunStep(r)
           \/ CloseStep \/ RecoveryStep

RunNext == Machine \/ Clients \/ CloseCancels \/ Crash

RunSpec == RunInit /\ [][RunNext]_vars

(* The event loop keeps turning, models and tools answer, and a process that *)
(* died is started again.  Nothing makes a client decide, cancel or resume.  *)
FairRunSpec == RunSpec /\ WF_vars(Machine)

-----------------------------------------------------------------------------
(* One key never has two runs that did work: however often a client repeats  *)
(* its request, over lost answers, failures and deaths, the model and the    *)
(* tools are set to it once at most.                                         *)
KeyRunsOnce ==
  \A r, s \in worked : owner[r] = owner[s] => r = s

(* Once the process that executed a run is gone and its successor serves,    *)
(* the record tells what became of the operation: it completed exactly if    *)
(* the operation did, unless a closing host had given the run up.            *)
AtRest(r) == phase = "up" /\ runner[r] = "none" /\ \A k \in Keys : call[k].run # r
RecordMatchesOperation ==
  \A r \in Runs : AtRest(r) /\ run[r] # "shutdown" =>
    /\ run[r] = "completed" <=> op[r] = "completed"
    /\ run[r] = "cancelled" <=> op[r] = "aborted"
    /\ run[r] \in Active => op[r] = "active"
    /\ op[r] = "active" => host = "desktop"

(* Every accepted run ends in its record and its operation, unless a person  *)
(* does not decide its approval or, on a desktop, does not resume it.        *)
Unfinished(r) == run[r] \in Active \/ op[r] = "active"
UpToPerson(r) == \/ r \in waiting
                 \/ /\ host = "desktop" /\ op[r] = "active" /\ runner[r] = "none"
                    /\ run[r] \in Active

\* A run whose start raced the closing of a desktop: its record was given up
\* while its operation was left for a resumption that refuses ended records.
Stranded(r) == host = "desktop" /\ run[r] = "shutdown" /\ op[r] = "active"
RunsEnd == \A r \in Runs : Unfinished(r) ~> (~Unfinished(r) \/ UpToPerson(r) \/ Stranded(r))

(* A host that closes exits, even while a run waits for a person: the abort  *)
(* answers the request.                                                      *)
Closes == phase \in {"awaiting", "stopping"} ~> phase = "down"
=============================================================================
