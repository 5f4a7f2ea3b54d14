-------------------------- MODULE RunService_proof --------------------------
(***************************************************************************)
(* What the service of a session promises, for any clients, keys, requests *)
(* and deaths: a key has one run that did work, a decision is answered as  *)
(* it is stored, and after a recovery each record tells the end of its     *)
(* operation.                                                              *)
(***************************************************************************)
EXTENDS RunService, TLAPS

----------------------------------------------------------------------------
(* The broker of approvals.  Its steps keep the answers honest, whoever takes *)
(* them and in whatever order.                                                *)
LEMMA BrokerHonest == BrokerInv => ApprovalTypeOK /\ AnswerIsRecorded
  BY DEF BrokerInv, AnswerIsRecorded, Backs

LEMMA BrokerInit == ApprovalInit => BrokerInv
  BY DEF ApprovalInit, BrokerInv, ApprovalTypeOK, Statuses, Decisions, Backs

LEMMA BrokerStutters == BrokerInv /\ UNCHANGED approvalVars => BrokerInv'
  BY DEF BrokerInv, ApprovalTypeOK, Backs, approvalVars

LEMMA CreatesPending ==
    ASSUME BrokerInv, NEW a \in Approvals, CreatePending(a)
    PROVE  BrokerInv'
<1>1. ApprovalTypeOK'
  BY DEF BrokerInv, ApprovalTypeOK, CreatePending, Statuses
<1>2. \A b \in Approvals : record'[b] = IF b = a THEN "pending" ELSE record[b]
  BY DEF BrokerInv, ApprovalTypeOK, CreatePending
<1> QED BY <1>1, <1>2 DEF BrokerInv, CreatePending, Backs, ApprovalTypeOK, Decisions

LEMMA Registers ==
    ASSUME BrokerInv, NEW a \in Approvals, Register(a)
    PROVE  BrokerInv'
  BY DEF BrokerInv, ApprovalTypeOK, Register, Created, Backs

LEMMA AbortsBefore ==
    ASSUME BrokerInv, NEW a \in Approvals, AbortedBefore(a)
    PROVE  BrokerInv'
<1>1. ApprovalTypeOK'
  BY DEF BrokerInv, ApprovalTypeOK, AbortedBefore, Statuses, Decisions
<1>2. \A b \in Approvals : /\ record'[b] = IF b = a THEN "interrupted" ELSE record[b]
                           /\ answer'[b] = IF b = a THEN "deny" ELSE answer[b]
  BY DEF BrokerInv, ApprovalTypeOK, AbortedBefore
<1> QED BY <1>1, <1>2
        DEF BrokerInv, AbortedBefore, Created, Backs, ApprovalTypeOK, Decisions

LEMMA Resolves ==
    ASSUME BrokerInv, NEW a \in Approvals, NEW d \in Decisions, Resolve(a, d)
    PROVE  BrokerInv'
<1>1. ApprovalTypeOK'
  BY DEF BrokerInv, ApprovalTypeOK, Resolve, StatusOf, Statuses, Decisions
<1>2. \A b \in Approvals : record'[b] = IF b = a THEN StatusOf(d) ELSE record[b]
  BY DEF BrokerInv, ApprovalTypeOK, Resolve
<1>3. /\ record[a] \in {"pending", StatusOf(d)}
      /\ StatusOf(d) \in {"allowed", "denied"}
      /\ Backs(StatusOf(d), d)
  BY DEF Resolve, Accepts, StatusOf, Decisions, Backs
<1>4. \A b \in Approvals, c \in Decisions :
        <<b, c>> \in settling' => <<b, c>> \in settling \/ (b = a /\ c = d)
  BY DEF Resolve
<1> QED BY <1>1, <1>2, <1>3, <1>4
        DEF BrokerInv, Resolve, Backs, ApprovalTypeOK, Decisions

LEMMA HearsAbort ==
    ASSUME BrokerInv, NEW a \in Approvals, Interrupt(a)
    PROVE  BrokerInv'
<1>1. ApprovalTypeOK'
  BY DEF BrokerInv, ApprovalTypeOK, Interrupt, AbortAnswer, Statuses, Decisions
<1>2. \A b \in Approvals : record'[b] = IF b = a /\ record[b] = "pending"
                                        THEN "interrupted" ELSE record[b]
  BY DEF BrokerInv, ApprovalTypeOK, Interrupt
<1>3. Backs(record'[a], AbortAnswer(a))
  BY <1>2 DEF BrokerInv, ApprovalTypeOK, Interrupt, Statuses, AbortAnswer, Backs
<1>4. \A b \in Approvals, c \in Decisions :
        <<b, c>> \in settling' => <<b, c>> \in settling \/ (b = a /\ c = AbortAnswer(a))
  BY DEF Interrupt
<1> QED BY <1>1, <1>2, <1>3, <1>4
        DEF BrokerInv, Interrupt, Backs, ApprovalTypeOK, Decisions

LEMMA Settles ==
    ASSUME BrokerInv, NEW a \in Approvals, Settle(a)
    PROVE  BrokerInv'
  BY DEF BrokerInv, ApprovalTypeOK, Settle, Backs, Decisions

LEMMA Loses == BrokerInv /\ LoseRequests => BrokerInv'
  BY DEF BrokerInv, ApprovalTypeOK, LoseRequests, Backs, Decisions

LEMMA Reconciles == BrokerInv /\ ReconcileApprovals => BrokerInv'
  BY DEF BrokerInv, ApprovalTypeOK, ReconcileApprovals, Backs, Decisions, Statuses

----------------------------------------------------------------------------
(* Keys and their runs.  A run is live while it may do work or has done some. *)
(* A live run belongs to a key that is taken, alone, and the request in       *)
(* flight under that key, if there is one, is its own.                        *)
Fresh(r) == /\ run[r] = "none" /\ op[r] = "none" /\ runner[r] = "none" /\ r \notin worked

Live(r) == r \in worked \/ run[r] \in Active \/ runner[r] = "begun"

InFlight(k) == call[k].pc # "idle"

CallInv(k) ==
  InFlight(k) =>
    /\ key[k] = "pending" /\ Mine(k) \in 1 .. requests
    /\ \A j \in Keys : InFlight(j) /\ Mine(j) = Mine(k) => j = k
    /\ call[k].pc = "upload" => Fresh(Mine(k))
    /\ call[k].pc \in {"accepted", "lane", "complete"} => owner[Mine(k)] = k
    /\ call[k].pc \in {"accepted", "lane"} => /\ op[Mine(k)] = "none" /\ runner[Mine(k)] = "none"
                                              /\ Mine(k) \notin worked
    /\ call[k].pc = "accepted" => run[Mine(k)] \in {"accepted", "shutdown"}
    /\ call[k].pc = "lane" => run[Mine(k)] \in {"starting", "shutdown"}
    /\ call[k].pc = "abandon" => ~Live(Mine(k))

LiveInv(r) ==
  Live(r) =>
    /\ owner[r] \in Keys /\ key[owner[r]] # "none"
    /\ InFlight(owner[r]) => /\ Mine(owner[r]) = r
                             /\ call[owner[r]].pc \in {"accepted", "lane", "complete"}
    /\ \A s \in Runs : Live(s) /\ owner[s] = owner[r] => s = r

KeyInv ==
  /\ \A r \in Runs : r > requests => Fresh(r)
  /\ \A k \in Keys : CallInv(k)
  /\ \A r \in Runs : LiveInv(r)

----------------------------------------------------------------------------
(* Records and operations.  While the process serves, the execution tells     *)
(* how far the two may be apart; once it is gone, a record that is not        *)
(* finished waits for the reconciliation.                                     *)
Match(r) == /\ run[r] = "completed" <=> op[r] = "completed"
            /\ run[r] = "cancelled" <=> op[r] = "aborted"

Starting(r) == \E k \in Keys : call[k].pc \in {"accepted", "lane"} /\ Mine(k) = r

ServedInv(r) ==
  /\ runner[r] = "none" /\ ~Starting(r) /\ run[r] # "shutdown" =>
       /\ Match(r)
       /\ run[r] \in Active <=> op[r] = "active"
       /\ op[r] = "active" => host = "desktop"
  /\ runner[r] # "none" =>
       /\ run[r] \in {"running", "shutdown"}
       /\ r \in observed \/ (runner[r] \in {"doomed", "aborting"} /\ run[r] = "shutdown")
  /\ runner[r] \in {"begun", "doomed"} => op[r] = "none"
  /\ runner[r] \in {"aborting", "running", "asking"} => op[r] = "active"
  /\ runner[r] \in Results => /\ op[r] # "active"
                              /\ runner[r] = "completed" <=> op[r] = "completed"
                              /\ runner[r] = "cancelled" <=> op[r] = "aborted"
  /\ runner[r] = "asking" => r \in Approvals

GoneInv(r) ==
  /\ runner[r] = "none"
  /\ run[r] \notin Active \cup {"shutdown"} => Match(r) /\ op[r] # "active"
  /\ phase = "reconciling" /\ host = "server" => op[r] # "active"

RecordInv ==
  IF Serving THEN \A r \in Runs : ServedInv(r)
             ELSE /\ \A r \in Runs : GoneInv(r)
                  /\ \A k \in Keys : ~InFlight(k)

RunInv == RunTypeOK /\ BrokerInv /\ KeyInv /\ RecordInv

LEMMA InitRuns == RunInit => RunInv
<1> SUFFICES ASSUME RunInit PROVE RunInv
  OBVIOUS
<1> USE DEF RunInit
<1>1. BrokerInv
  BY BrokerInit
<1>2. RunTypeOK
  <2>1. call \in [Keys -> [pc : {"idle", "upload", "accepted", "lane", "complete", "abandon"},
                           run : 0 .. MaxRequests]]
    BY RunServiceAssumption DEF Idle
  <2>2. requests \in 0 .. MaxRequests /\ crashes \in 0 .. MaxCrashes
    BY RunServiceAssumption
  <2> QED BY <1>1, <2>1, <2>2 DEF RunTypeOK, BrokerInv, Active, Results
<1>3. KeyInv
  BY DEF KeyInv, CallInv, InFlight, Idle, LiveInv, Live, Active, Fresh
<1>4. RecordInv
  BY DEF RecordInv, Serving, ServedInv, Match, Active, Results
<1> QED BY <1>1, <1>2, <1>3, <1>4 DEF RunInv

----------------------------------------------------------------------------
(* A step of one execution, or of its observer, moves that run alone: the    *)
(* others keep what is said of them, and no request is still starting it.    *)
LEMMA OneRunMoves ==
    ASSUME RunInv, Serving, NEW r \in Runs,
           runner[r] # "none" \/ op[r] # "none",
           UNCHANGED <<host, phase, key, owner, call, requests>>,
           \A s \in Runs \ {r} : /\ run'[s] = run[s] /\ op'[s] = op[s]
                                 /\ runner'[s] = runner[s]
                                 /\ s \in worked' <=> s \in worked
                                 /\ s \in observed' <=> s \in observed,
           Live(r)' => Live(r),
           ServedInv(r)'
    PROVE  KeyInv' /\ RecordInv'
<1> USE DEF RunInv, KeyInv
<1>1. ASSUME NEW s \in Runs, Live(s)' PROVE Live(s)
  BY <1>1 DEF Live
<1>2. ~Fresh(r)
  BY DEF Fresh
<1>3. ASSUME NEW s \in Runs, Fresh(s) PROVE Fresh(s)'
  BY <1>2, <1>3 DEF Fresh
<1>4. ASSUME NEW k \in Keys PROVE CallInv(k)'
  <2> SUFFICES ASSUME InFlight(k)' PROVE CallInv(k)'
    BY DEF CallInv
  <2>1. CallInv(k) /\ InFlight(k) /\ Mine(k)' = Mine(k)
    BY DEF InFlight, Mine
  <2>2. Mine(k) \in Runs
    BY <2>1, RunServiceAssumption DEF CallInv, Runs, RunTypeOK
  <2>3. call[k].pc \in {"upload", "accepted", "lane"} => Mine(k) # r
    BY <1>2, <2>1 DEF CallInv
  <2> QED BY <1>1, <1>3, <2>1, <2>2, <2>3 DEF CallInv, InFlight, Mine
<1>5. ASSUME NEW s \in Runs PROVE LiveInv(s)'
  BY <1>1 DEF LiveInv, InFlight, Mine
<1>6. ASSUME NEW s \in Runs PROVE ServedInv(s)'
  <2>1. Starting(s)' <=> Starting(s)
    BY DEF Starting, Mine
  <2>2. CASE s # r
    BY <2>1, <2>2 DEF RecordInv, ServedInv, Match
  <2> QED BY <2>2
<1> QED BY <1>3, <1>4, <1>5, <1>6 DEF RecordInv, Serving

\* What a step leaves alone stays as the invariant says.
LEMMA RunStutters ==
    ASSUME RunInv,
           UNCHANGED <<host, phase, run, op, key, owner, call, runner, observed, worked,
                       requests>>
    PROVE  KeyInv' /\ RecordInv'
  BY DEF RunInv, KeyInv, Fresh, CallInv, InFlight, Mine, LiveInv, Live, RecordInv, Serving,
     ServedInv, GoneInv, Match, Starting

\* The lane is free only if no operation is active; what runs has a stored operation.
LEMMA ExecutionMoves ==
    ASSUME RunInv, NEW r \in Runs, Serving,
           \/ BeginOperation(r) \/ FinishOperation(r) \/ AbortOperation(r)
           \/ AskApproval(r) \/ ApprovalAnswered(r) \/ RecordResult(r)
    PROVE  KeyInv' /\ RecordInv'
<1> USE DEF RunInv, RunTypeOK
<1>1. ServedInv(r)
  BY DEF RecordInv
<1>2. runner[r] # "none" /\ (\A k \in Keys : Mine(k) = r => call[k].pc \notin {"accepted", "lane"})
  <2>1. runner[r] # "none"
    BY DEF BeginOperation, FinishOperation, AbortOperation, AskApproval, ApprovalAnswered,
       RecordResult, Results
  <2> QED BY <2>1 DEF KeyInv, CallInv, InFlight
<1>3. UNCHANGED <<host, phase, key, owner, call, requests>>
  BY DEF BeginOperation, FinishOperation, AbortOperation, AskApproval, ApprovalAnswered,
     RecordResult, RunnerOnly
<1>4. \A s \in Runs \ {r} : /\ run'[s] = run[s] /\ op'[s] = op[s]
                            /\ runner'[s] = runner[s]
                            /\ s \in worked' <=> s \in worked
                            /\ s \in observed' <=> s \in observed
  BY DEF BeginOperation, FinishOperation, AbortOperation, AskApproval, ApprovalAnswered,
     RecordResult, RunnerOnly, Ended
<1> SUFFICES (Live(r)' => Live(r)) /\ ServedInv(r)'
  BY <1>2, <1>3, <1>4, OneRunMoves
<1>5. CASE BeginOperation(r)
  <2>1. /\ runner[r] \in {"begun", "doomed"} /\ op[r] = "none"
        /\ run[r] \in {"running", "shutdown"}
        /\ runner[r] = "begun" => r \in observed
        /\ r \in observed \/ run[r] = "shutdown"
    BY <1>1, <1>5 DEF BeginOperation, ServedInv
  <2>2. run'[r] = run[r] /\ (r \in observed' <=> r \in observed)
    BY <1>5 DEF BeginOperation, RunnerOnly
  <2>3. CASE runner' = Ended(r, "failed") /\ UNCHANGED <<op, worked>>
    <3>1. runner'[r] = (IF r \in observed THEN "failed" ELSE "none") /\ op'[r] = "none"
      BY <2>1, <2>3 DEF Ended
    <3> QED BY <2>1, <2>2, <2>3, <3>1 DEF Live, ServedInv, Active, Results
  <2>4. CASE /\ op' = [op EXCEPT ![r] = "active"]
             /\ runner[r] = "begun" /\ runner' = [runner EXCEPT ![r] = "running"]
             /\ worked' = worked \cup {r}
    <3>1. runner'[r] = "running" /\ op'[r] = "active"
      BY <2>4
    <3> QED BY <2>1, <2>2, <2>4, <3>1 DEF Live, ServedInv, Results
  <2>5. CASE /\ op' = [op EXCEPT ![r] = "active"]
             /\ runner' = [runner EXCEPT ![r] = "aborting"] /\ UNCHANGED worked
    <3>1. runner'[r] = "aborting" /\ op'[r] = "active"
      BY <2>5
    <3> QED BY <2>1, <2>2, <2>5, <3>1 DEF Live, ServedInv, Results
  <2> QED BY <1>5, <2>3, <2>4, <2>5 DEF BeginOperation
<1>6. CASE FinishOperation(r)
  <2>1. PICK end \in {"completed", "failed"} :
          op' = [op EXCEPT ![r] = end] /\ runner' = Ended(r, end)
    BY <1>6 DEF FinishOperation
  <2>2. run[r] \in {"running", "shutdown"} /\ r \in observed
    BY <1>1, <1>6 DEF FinishOperation, ServedInv
  <2>3. runner'[r] = end /\ op'[r] = end
    BY <2>1, <2>2 DEF Ended
  <2>4. run'[r] = run[r] /\ r \in observed' /\ worked' = worked
    BY <1>6, <2>2 DEF FinishOperation, RunnerOnly
  <2> QED BY <2>2, <2>3, <2>4 DEF Live, ServedInv, Results
<1>7. CASE AbortOperation(r)
  <2>1. /\ run[r] \in {"running", "shutdown"}
        /\ r \in observed \/ run[r] = "shutdown"
    BY <1>1, <1>7 DEF AbortOperation, ServedInv
  <2>2. /\ runner'[r] = IF r \in observed THEN "cancelled" ELSE "none"
        /\ op'[r] = "aborted"
    BY <1>7 DEF AbortOperation, Ended
  <2>3. run'[r] = run[r] /\ (r \in observed' <=> r \in observed) /\ worked' = worked
    BY <1>7 DEF AbortOperation, RunnerOnly
  <2> QED BY <2>1, <2>2, <2>3 DEF Live, ServedInv, Results
<1>8. CASE AskApproval(r) \/ ApprovalAnswered(r)
  <2>1. /\ run[r] \in {"running", "shutdown"} /\ r \in observed /\ op[r] = "active"
        /\ r \in Approvals
    BY <1>1, <1>8 DEF AskApproval, ApprovalAnswered, ServedInv
  <2>2. /\ runner'[r] \in {"running", "asking"} /\ run'[r] = run[r] /\ op'[r] = op[r]
        /\ r \in observed' /\ worked' = worked
    BY <1>8, <2>1 DEF AskApproval, ApprovalAnswered, RunnerOnly
  <2> QED BY <2>1, <2>2 DEF Live, ServedInv, Results
<1>9. CASE RecordResult(r)
  <2>1. /\ runner[r] \in Results /\ runner'[r] = "none" /\ UNCHANGED <<op, host, worked>>
        /\ run'[r] = IF run[r] \in Active THEN runner[r] ELSE run[r]
    BY <1>9 DEF RecordResult
  <2>2. /\ run[r] \in {"running", "shutdown"} /\ op[r] # "active"
        /\ runner[r] = "completed" <=> op[r] = "completed"
        /\ runner[r] = "cancelled" <=> op[r] = "aborted"
    BY <1>1, <2>1 DEF ServedInv, Results
  <2>3. Live(r)' => Live(r)
    BY <2>1, <2>2 DEF Live, Active, Results
  <2>4. run[r] = "shutdown" => run'[r] = "shutdown"
    BY <2>1 DEF Active
  <2>5. run[r] = "running" => run'[r] = runner[r]
    BY <2>1 DEF Active
  <2>6. op'[r] = op[r]
    BY <2>1
  <2> QED BY <2>1, <2>2, <2>3, <2>4, <2>5, <2>6 DEF ServedInv, Match, Active, Results
<1> QED BY <1>5, <1>6, <1>7, <1>8, <1>9

LEMMA ResumptionMoves ==
    ASSUME RunInv, NEW r \in Runs, ResumeRun(r)
    PROVE  KeyInv' /\ RecordInv'
<1> USE DEF RunInv, RunTypeOK
<1>1. /\ Serving /\ op[r] = "active" /\ run[r] \in Active
      /\ UNCHANGED <<host, phase, key, owner, call, requests, op>>
  BY DEF ResumeRun, Serving
<1>2. \A s \in Runs \ {r} : /\ run'[s] = run[s] /\ op'[s] = op[s]
                            /\ runner'[s] = runner[s]
                            /\ s \in worked' <=> s \in worked
                            /\ s \in observed' <=> s \in observed
  BY DEF ResumeRun
<1>3. run'[r] = "running" /\ runner'[r] = "running" /\ r \in observed'
  BY DEF ResumeRun
<1>4. ServedInv(r)' /\ Live(r)
  BY <1>1, <1>3 DEF ServedInv, Live, Results
<1> QED BY <1>1, <1>2, <1>4, OneRunMoves

----------------------------------------------------------------------------
(* A request moves its own key, its own call and its own run.                *)
LEMMA RequestMoves ==
    ASSUME RunInv, NEW k \in Keys, Request(k)
    PROVE  KeyInv' /\ RecordInv'
<1> USE DEF RunInv, RunTypeOK
<1> DEFINE n == requests + 1
<1>1. /\ n \in Runs /\ requests' = n /\ n \notin 1 .. requests
      /\ 1 .. requests \subseteq 1 .. n /\ n \in 1 .. n /\ requests < n
  BY RunServiceAssumption DEF Request, Runs
<1>2. /\ Fresh(n) /\ phase = "up" /\ call[k].pc = "idle" /\ key[k] = "none"
      /\ UNCHANGED <<host, phase, run, op, owner, runner, observed, worked>>
  BY <1>1 DEF Request, Claimable, KeyInv
<1>3. /\ call'[k] = [pc |-> "upload", run |-> n] /\ key'[k] = "pending"
      /\ \A j \in Keys \ {k} : call'[j] = call[j] /\ key'[j] = key[j]
  BY DEF Request
<1>4. ASSUME NEW s \in Runs PROVE /\ Fresh(s)' <=> Fresh(s)
                                  /\ Live(s)' <=> Live(s)
  BY <1>2 DEF Fresh, Live
<1>5. ASSUME NEW j \in Keys PROVE CallInv(j)'
  <2>1. CASE j = k
    <3>1. \A i \in Keys \ {k} : InFlight(i)' => Mine(i)' \in 1 .. requests
      BY <1>3 DEF KeyInv, CallInv, InFlight, Mine
    <3> QED BY <1>1, <1>2, <1>3, <1>4, <2>1, <3>1 DEF CallInv, InFlight, Mine
  <2>2. CASE j # k
    <3>1. call'[j] = call[j] /\ key'[j] = key[j] /\ CallInv(j)
      BY <1>3, <2>2 DEF KeyInv
    <3>2. InFlight(j) => Mine(j) \in Runs /\ Mine(j) # n /\ Mine(j) \in 1 .. requests'
      BY <1>1, <3>1, RunServiceAssumption DEF CallInv, Runs
    <3>3. \A i \in Keys : InFlight(i)' => Mine(i)' = n \/ (InFlight(i) /\ Mine(i)' = Mine(i))
      BY <1>3 DEF InFlight, Mine
    <3> QED BY <1>2, <1>4, <3>1, <3>2, <3>3 DEF CallInv, InFlight, Mine
  <2> QED BY <2>1, <2>2
<1>6. ASSUME NEW s \in Runs PROVE LiveInv(s)'
  <2> SUFFICES ASSUME Live(s) PROVE LiveInv(s)'
    BY <1>4 DEF LiveInv
  <2>1. LiveInv(s) /\ owner[s] # k /\ owner[s] \in Keys
    BY <1>2 DEF KeyInv, LiveInv
  <2> QED BY <1>2, <1>3, <1>4, <2>1 DEF LiveInv, InFlight, Mine
<1>7. ASSUME NEW s \in Runs PROVE ServedInv(s)'
  <2>1. Starting(s)' <=> Starting(s)
    BY <1>2, <1>3 DEF Starting, Mine
  <2>2. ServedInv(s)
    BY <1>2 DEF RecordInv, Serving
  <2> QED BY <1>2, <2>1, <2>2 DEF ServedInv, Match
<1>8. \A s \in Runs : s > requests' => Fresh(s)'
  BY <1>1, <1>4, RunServiceAssumption DEF KeyInv, Runs
<1> QED BY <1>2, <1>5, <1>6, <1>7, <1>8 DEF KeyInv, RecordInv, Serving

LEMMA KeyReleased ==
    ASSUME RunInv, Serving, NEW k \in Keys, CompleteKey(k) \/ AbandonKey(k)
    PROVE  KeyInv' /\ RecordInv'
<1> USE DEF RunInv, RunTypeOK
<1>1. /\ call[k].pc \in {"complete", "abandon"} /\ call'[k].pc = "idle"
      /\ \A j \in Keys \ {k} : call'[j] = call[j] /\ key'[j] = key[j]
      /\ call[k].pc = "complete" => key'[k] = "completed"
      /\ UNCHANGED <<host, phase, run, op, owner, runner, observed, worked, requests>>
  BY DEF CompleteKey, AbandonKey, Idle
<1>2. ASSUME NEW s \in Runs PROVE /\ Fresh(s)' <=> Fresh(s)
                                  /\ Live(s)' <=> Live(s)
  BY <1>1 DEF Fresh, Live
<1>3. ASSUME NEW j \in Keys PROVE CallInv(j)'
  <2> SUFFICES ASSUME InFlight(j)' PROVE CallInv(j)'
    BY DEF CallInv
  <2>1. j # k /\ call'[j] = call[j] /\ CallInv(j) /\ InFlight(j)
    BY <1>1 DEF InFlight, KeyInv
  <2>2. Mine(j) \in Runs
    BY <2>1, RunServiceAssumption DEF CallInv, Runs
  <2>3. \A i \in Keys : InFlight(i)' => InFlight(i) /\ Mine(i)' = Mine(i)
    BY <1>1 DEF InFlight, Mine
  <2> QED BY <1>1, <1>2, <2>1, <2>2, <2>3 DEF CallInv, InFlight, Mine
<1>4. ASSUME NEW s \in Runs PROVE LiveInv(s)'
  <2> SUFFICES ASSUME Live(s) PROVE LiveInv(s)'
    BY <1>2 DEF LiveInv
  <2>1. LiveInv(s) /\ (owner[s] = k => call[k].pc = "complete")
    BY <1>1 DEF KeyInv, LiveInv, InFlight
  <2> QED BY <1>1, <1>2, <2>1 DEF LiveInv, InFlight, Mine
<1>5. ASSUME NEW s \in Runs PROVE ServedInv(s)'
  <2>1. Starting(s)' <=> Starting(s)
    BY <1>1 DEF Starting, Mine
  <2>2. ServedInv(s)
    BY <1>1 DEF RecordInv
  <2> QED BY <1>1, <2>1, <2>2 DEF ServedInv, Match
<1> QED BY <1>1, <1>2, <1>3, <1>4, <1>5 DEF KeyInv, RecordInv, Serving

LEMMA CallMoves ==
    ASSUME RunInv, Serving, NEW k \in Keys, InFlight(k), NEW r \in Runs,
           Mine(k) = r, Mine(k)' = r,
           UNCHANGED <<host, phase, op, key, worked, requests>>,
           call'[k].pc \in {"accepted", "lane", "complete", "abandon"},
           \A j \in Keys \ {k} : call'[j] = call[j],
           \A s \in Runs \ {r} : /\ run'[s] = run[s] /\ owner'[s] = owner[s]
                                 /\ runner'[s] = runner[s]
                                 /\ s \in observed' <=> s \in observed,
           call'[k].pc \in {"accepted", "lane"} =>
              op[r] = "none" /\ runner'[r] = "none" /\ r \notin worked,
           call'[k].pc = "accepted" => run'[r] \in {"accepted", "shutdown"},
           call'[k].pc = "lane" => run'[r] \in {"starting", "shutdown"},
           call'[k].pc \in {"accepted", "lane", "complete"} => owner'[r] = k,
           call'[k].pc = "abandon" => ~Live(r)',
           ServedInv(r)'
    PROVE  KeyInv' /\ RecordInv'
<1> USE DEF RunInv, RunTypeOK
<1>1. CallInv(k) /\ r \in Runs /\ r \in 1 .. requests /\ requests \in Nat
  BY RunServiceAssumption DEF KeyInv, CallInv, Runs
<1>2. ASSUME NEW s \in Runs, s # r PROVE /\ Fresh(s)' <=> Fresh(s)
                                         /\ Live(s)' <=> Live(s)
  BY <1>2 DEF Fresh, Live
<1>3. Mine(k)' = r /\ Mine(k) = r /\ InFlight(k)'
  BY DEF InFlight
<1>4. \A i \in Keys : InFlight(i)' => InFlight(i) /\ Mine(i)' = Mine(i)
  BY <1>3 DEF InFlight, Mine
<1>5. ASSUME NEW j \in Keys PROVE CallInv(j)'
  <2> SUFFICES ASSUME InFlight(j)' PROVE CallInv(j)'
    BY DEF CallInv
  <2>1. InFlight(j) /\ CallInv(j) /\ Mine(j)' = Mine(j)
    BY <1>4 DEF KeyInv
  <2>2. CASE j = k
    <3>1. \A i \in Keys : InFlight(i)' /\ Mine(i)' = r => i = k
      BY <1>1, <1>3, <1>4 DEF CallInv
    <3>2. key'[k] = "pending" /\ r \in 1 .. requests'
      BY <1>1, <1>3 DEF CallInv
    <3>3. call'[k].pc \in {"accepted", "lane"} =>
             op'[r] = "none" /\ runner'[r] = "none" /\ r \notin worked'
      OBVIOUS
    <3>4. call'[k].pc = "abandon" => ~Live(Mine(k))'
      BY <1>3 DEF Live
    <3> QED BY <1>3, <2>2, <3>1, <3>2, <3>3, <3>4 DEF CallInv, InFlight, Mine, Live
  <2>3. CASE j # k
    <3>1. Mine(j) \in Runs /\ Mine(j) # r /\ call'[j] = call[j]
      BY <1>1, <1>3, <2>1, <2>3, RunServiceAssumption DEF CallInv, Runs
    <3> QED BY <1>2, <1>3, <1>4, <2>1, <3>1 DEF CallInv
  <2> QED BY <2>2, <2>3
<1>6. ASSUME NEW s \in Runs PROVE LiveInv(s)'
  <2> SUFFICES ASSUME Live(s)' PROVE LiveInv(s)'
    BY DEF LiveInv
  <2>1. \A t \in Runs : t # r /\ Live(t) => owner[t] # k
    BY <1>3 DEF KeyInv, LiveInv
  <2>2. Live(r)' => /\ owner'[r] = k
                    /\ call'[k].pc \in {"accepted", "lane", "complete"}
    BY <1>3
  <2>3. CASE s = r
    <3>1. key'[k] = "pending"
      BY <1>1 DEF CallInv
    <3> QED BY <1>2, <1>3, <2>1, <2>2, <2>3, <3>1 DEF LiveInv, InFlight, Mine
  <2>4. CASE s # r
    <3>1. Live(s) /\ LiveInv(s) /\ owner'[s] = owner[s] /\ owner[s] # k
      BY <1>2, <1>3, <2>1, <2>4 DEF KeyInv
    <3>2. owner[s] \in Keys /\ call'[owner[s]] = call[owner[s]]
      BY <3>1 DEF LiveInv
    <3> QED BY <1>2, <1>3, <2>2, <2>4, <3>1, <3>2 DEF LiveInv, InFlight, Mine
  <2> QED BY <2>3, <2>4
<1>7. ASSUME NEW s \in Runs PROVE ServedInv(s)'
  <2>1. CASE s = r
    BY <1>3, <2>1
  <2>2. CASE s # r
    <3>1. Starting(s)' <=> Starting(s)
      BY <1>3, <2>2 DEF Starting, Mine
    <3>2. ServedInv(s)
      BY DEF RecordInv
    <3> QED BY <1>3, <2>2, <3>1, <3>2 DEF ServedInv, Match
  <2> QED BY <2>1, <2>2
<1>8. \A s \in Runs : s > requests' => Fresh(s)'
  BY <1>1, <1>2, RunServiceAssumption DEF KeyInv, Runs
<1> QED BY <1>5, <1>6, <1>7, <1>8 DEF KeyInv, RecordInv, Serving

LEMMA StartMoves ==
    ASSUME RunInv, Serving, NEW k \in Keys,
           Accept(k) \/ MarkStarting(k) \/ LaneRun(k) \/ LaneRefuses(k)
    PROVE  KeyInv' /\ RecordInv'
<1> USE DEF RunInv, RunTypeOK
<1>0. PICK r \in Runs : r = Mine(k)
  BY RunServiceAssumption
  DEF Accept, MarkStarting, LaneRun, LaneRefuses, InFlight, KeyInv, CallInv, Runs
<1>1. InFlight(k) /\ call[k].pc \in {"upload", "accepted", "lane"} /\ CallInv(k) /\ r \in Runs
  BY <1>0, RunServiceAssumption
  DEF Accept, MarkStarting, LaneRun, LaneRefuses, InFlight, KeyInv, CallInv, Runs
<1>2. /\ op[r] = "none" /\ runner[r] = "none" /\ r \notin worked
      /\ call[k].pc # "upload" => owner[r] = k
      /\ call[k].pc = "upload" => run[r] = "none"
      /\ call[k].pc = "accepted" => run[r] \in {"accepted", "shutdown"}
      /\ call[k].pc = "lane" => run[r] \in {"starting", "shutdown"}
  BY <1>0, <1>1 DEF CallInv, Fresh
<1>3. /\ Mine(k)' = r /\ Mine(k) = r
      /\ \A j \in Keys \ {k} : call'[j] = call[j]
      /\ call'[k].pc \in {"accepted", "lane", "complete", "abandon"}
  BY <1>0 DEF Accept, MarkStarting, LaneRun, LaneRefuses, Goto, Mine
<1>4. UNCHANGED <<host, phase, op, key, worked, requests>>
  BY DEF Accept, MarkStarting, LaneRun, LaneRefuses
<1>5. \A s \in Runs \ {r} : /\ run'[s] = run[s] /\ owner'[s] = owner[s]
                            /\ runner'[s] = runner[s]
                            /\ s \in observed' <=> s \in observed
  BY <1>0 DEF Accept, MarkStarting, LaneRun, LaneRefuses
<1> SUFFICES /\ call'[k].pc \in {"accepted", "lane"} => runner'[r] = "none"
             /\ call'[k].pc = "accepted" => run'[r] = "accepted"
             /\ call'[k].pc = "lane" => run'[r] = "starting"
             /\ call'[k].pc \in {"accepted", "lane", "complete"} => owner'[r] = k
             /\ call'[k].pc = "abandon" => ~Live(r)'
             /\ ServedInv(r)'
  BY <1>1, <1>2, <1>3, <1>4, <1>5, CallMoves
<1>6. call'[k].pc \in {"accepted", "lane"} => Starting(r)'
  BY <1>3 DEF Starting
<1>7. CASE Accept(k)
  <2>1. runner'[r] = "none" /\ op'[r] = "none" /\ r \notin worked'
    BY <1>2, <1>7 DEF Accept
  <2>2. CASE Goto(k, "abandon") /\ UNCHANGED <<run, owner>>
    <3>1. call'[k].pc = "abandon" /\ run'[r] = "none"
      BY <1>1, <1>2, <1>7, <2>2 DEF Goto, Accept
    <3> QED BY <2>1, <3>1 DEF Live, ServedInv, Match, Active, Results
  <2>3. CASE /\ Goto(k, "accepted")
             /\ run' = [run EXCEPT ![Mine(k)] = "accepted"]
             /\ owner' = [owner EXCEPT ![Mine(k)] = k]
    <3>1. call'[k].pc = "accepted" /\ run'[r] = "accepted" /\ owner'[r] = k
      BY <1>1, <1>3, <2>3 DEF Goto
    <3> QED BY <1>6, <2>1, <3>1 DEF ServedInv, Results
  <2> QED BY <1>7, <2>2, <2>3 DEF Accept
<1>8. CASE MarkStarting(k)
  <2>1. /\ runner'[r] = "none" /\ op'[r] = "none" /\ r \notin worked' /\ owner'[r] = k
        /\ call[k].pc = "accepted"
    BY <1>2, <1>8 DEF MarkStarting
  <2>2. CASE run[r] = "accepted"
    <3>1. call'[k].pc = "lane" /\ run'[r] = "starting"
      BY <1>1, <1>3, <1>8, <2>2 DEF MarkStarting, Goto
    <3> QED BY <1>6, <2>1, <3>1 DEF ServedInv, Results
  <2>3. CASE run[r] = "shutdown"
    <3>1. call'[k].pc = "abandon" /\ run'[r] = "shutdown"
      BY <1>1, <1>3, <1>8, <2>3 DEF MarkStarting, Goto
    <3> QED BY <2>1, <3>1 DEF Live, ServedInv, Active, Results
  <2> QED BY <1>2, <2>1, <2>2, <2>3
<1>9. CASE LaneRun(k)
  <2>1. /\ op'[r] = "none" /\ r \notin worked' /\ owner'[r] = k
        /\ run[r] \in {"starting", "shutdown"}
    BY <1>2, <1>9 DEF LaneRun
  <2>2. CASE run[r] = "starting"
    <3>1. /\ call'[k].pc = "complete" /\ run'[r] = "running" /\ runner'[r] = "begun"
          /\ r \in observed'
      BY <1>1, <1>3, <1>9, <2>2 DEF LaneRun, Goto
    <3> QED BY <2>1, <3>1 DEF ServedInv, Results
  <2>3. CASE run[r] = "shutdown"
    <3>1. call'[k].pc = "abandon" /\ run'[r] = "shutdown" /\ runner'[r] = "doomed"
      BY <1>1, <1>3, <1>9, <2>3 DEF LaneRun, Goto
    <3> QED BY <2>1, <3>1 DEF Live, ServedInv, Active, Results
  <2> QED BY <2>1, <2>2, <2>3
<1>10. CASE LaneRefuses(k)
  <2>1. /\ op'[r] = "none" /\ r \notin worked' /\ runner'[r] = "none"
        /\ run[r] \in {"starting", "shutdown"}
    BY <1>2, <1>10 DEF LaneRefuses
  <2>2. call'[k].pc = "abandon" /\ run'[r] \in {"failed", "shutdown"}
    BY <1>1, <1>3, <1>10, <2>1 DEF LaneRefuses, Goto
  <2> QED BY <2>1, <2>2 DEF Live, ServedInv, Match, Active, Results
<1> QED BY <1>7, <1>8, <1>9, <1>10

----------------------------------------------------------------------------
(* The process closes, dies, recovers.                                       *)

\* Without a process every key keeps its run, and no request is in flight.
LEMMA ProcessEnds ==
    ASSUME RunInv, Dies
    PROVE  KeyInv' /\ RecordInv'
<1> USE DEF RunInv, RunTypeOK
<1>1. /\ phase' = "down" /\ UNCHANGED <<host, run, op, key, owner, worked, requests>>
      /\ \A k \in Keys : ~InFlight(k)'
      /\ \A r \in Runs : runner'[r] = "none"
  BY DEF Dies, InFlight, Idle
<1>2. ASSUME NEW r \in Runs PROVE (Fresh(r) => Fresh(r)') /\ (Live(r)' => Live(r))
  BY <1>1 DEF Fresh, Live
<1>3. KeyInv'
  BY <1>1, <1>2 DEF KeyInv, CallInv, LiveInv
<1>4. ASSUME NEW r \in Runs PROVE GoneInv(r)'
  <2>1. CASE Serving
    <3>1. ServedInv(r)
      BY <2>1 DEF RecordInv
    <3>2. ASSUME Starting(r) PROVE run[r] \in {"accepted", "starting", "shutdown"}
      BY <3>2 DEF Starting, KeyInv, CallInv, InFlight
    <3> QED BY <1>1, <3>1, <3>2 DEF ServedInv, GoneInv, Match, Active
  <2>2. CASE ~Serving
    BY <1>1, <2>2 DEF RecordInv, GoneInv, Match
  <2> QED BY <2>1, <2>2
<1> QED BY <1>1, <1>3, <1>4 DEF RecordInv, Serving

LEMMA CloseMoves ==
    ASSUME RunInv, CloseCancels \/ CloseInterrupts
    PROVE  KeyInv' /\ RecordInv'
<1> USE DEF RunInv, RunTypeOK
<1>1. /\ Serving /\ Serving'
      /\ UNCHANGED <<host, op, key, owner, call, runner, observed, worked, requests>>
  BY DEF CloseCancels, CloseInterrupts, Serving
<1>2. ASSUME NEW r \in Runs PROVE \/ run'[r] = run[r]
                                  \/ run[r] \in Active /\ run'[r] = "shutdown"
  BY DEF CloseCancels, CloseInterrupts
<1>3. ASSUME NEW r \in Runs PROVE (Fresh(r) => Fresh(r)') /\ (Live(r)' => Live(r))
  BY <1>1, <1>2 DEF Fresh, Live, Active
<1>4. ASSUME NEW k \in Keys PROVE CallInv(k)'
  <2> SUFFICES ASSUME InFlight(k)' PROVE CallInv(k)'
    BY DEF CallInv
  <2>1. CallInv(k) /\ InFlight(k) /\ Mine(k)' = Mine(k)
    BY <1>1 DEF InFlight, Mine, KeyInv
  <2>2. Mine(k) \in Runs
    BY <2>1, RunServiceAssumption DEF CallInv, Runs
  <2> QED BY <1>1, <1>2, <1>3, <2>1, <2>2 DEF CallInv, InFlight, Mine, Fresh, Live
<1>5. ASSUME NEW r \in Runs PROVE LiveInv(r)'
  BY <1>1, <1>3 DEF KeyInv, LiveInv, InFlight, Mine
<1>6. ASSUME NEW r \in Runs PROVE ServedInv(r)'
  <2>1. (Starting(r)' <=> Starting(r)) /\ ServedInv(r)
    BY <1>1 DEF Starting, Mine, RecordInv
  <2> QED BY <1>1, <1>2, <2>1 DEF ServedInv, Match
<1> QED BY <1>1, <1>3, <1>4, <1>5, <1>6 DEF KeyInv, RecordInv

\* The recovery moves what no process executes.
LEMMA RecoveryMoves ==
    ASSUME RunInv, RecoveryStep
    PROVE  KeyInv' /\ RecordInv'
<1> USE DEF RunInv, RunTypeOK
<1>1. /\ ~Serving /\ (\A k \in Keys : ~InFlight(k)) /\ (\A r \in Runs : GoneInv(r))
      /\ UNCHANGED <<host, key, owner, call, runner, worked, requests, observed>>
  BY DEF RecoveryStep, RecoverApprovals, RecoverOperations, RecoveryDone, ReconcileRun,
     Serving, RecordInv
<1>2. ASSUME NEW r \in Runs
      PROVE  \/ run'[r] = run[r] /\ op'[r] = op[r]
             \/ /\ run'[r] = run[r] /\ host = "server" /\ op[r] = "active"
                /\ op'[r] = "interrupted"
             \/ /\ run[r] \in Active /\ op[r] # "active" /\ op'[r] = op[r]
                /\ run'[r] = Outcome(r)
  <2>1. CASE RecoverOperations
    BY <2>1 DEF RecoverOperations, Interrupts
  <2>2. ASSUME NEW s \in Runs, ReconcileRun(s)
        PROVE  \/ run'[r] = run[r] /\ op'[r] = op[r]
               \/ /\ run[r] \in Active /\ op[r] # "active" /\ op'[r] = op[r]
                  /\ run'[r] = Outcome(r)
    BY <2>2 DEF ReconcileRun
  <2>3. CASE RecoverApprovals \/ RecoveryDone
    BY <2>3 DEF RecoverApprovals, RecoveryDone
  <2> QED BY <2>1, <2>2, <2>3 DEF RecoveryStep
<1>3. ASSUME NEW r \in Runs, op[r] # "active"
      PROVE  /\ Outcome(r) \in {"completed", "failed", "cancelled", "interrupted"}
             /\ Outcome(r) = "completed" <=> op[r] = "completed"
             /\ Outcome(r) = "cancelled" <=> op[r] = "aborted"
  <2>1. op[r] \in {"none", "completed", "failed", "aborted", "interrupted"}
    BY <1>3
  <2>2. CASE op[r] = "aborted" BY <2>2 DEF Outcome
  <2>3. CASE op[r] \in {"none", "interrupted"} BY <2>3 DEF Outcome
  <2>4. CASE op[r] \in {"completed", "failed"} BY <2>4 DEF Outcome
  <2> QED BY <2>1, <2>2, <2>3, <2>4
<1>4. ASSUME NEW r \in Runs PROVE (Fresh(r) => Fresh(r)') /\ (Live(r)' => Live(r))
  BY <1>1, <1>2, <1>3 DEF Fresh, Live, Active
<1>5. KeyInv'
  BY <1>1, <1>4 DEF KeyInv, CallInv, LiveInv, InFlight, Mine
<1>6. ASSUME NEW r \in Runs, ~Serving' PROVE GoneInv(r)'
  <2>1. phase' = "reconciling" /\ host = "server" => op'[r] # "active"
    <3>1. CASE RecoverOperations
      BY <3>1 DEF RecoverOperations, Interrupts
    <3>2. CASE \E s \in Runs : ReconcileRun(s)
      BY <1>1, <3>2 DEF ReconcileRun, GoneInv
    <3> QED BY <3>1, <3>2 DEF RecoveryStep, RecoverApprovals, RecoveryDone
  <2> QED BY <1>1, <1>2, <1>3, <2>1 DEF GoneInv, Match, Active
<1>7. ASSUME NEW r \in Runs, Serving' PROVE ServedInv(r)'
  <2>1. RecoveryDone
    BY <1>7 DEF RecoveryStep, RecoverApprovals, RecoverOperations, ReconcileRun, Serving
  <2>2. /\ phase = "reconciling" /\ (run[r] \in Active => op[r] = "active")
        /\ UNCHANGED <<run, op>>
    BY <2>1 DEF RecoveryDone
  <2>3. runner'[r] = "none"
    BY <1>1 DEF GoneInv
  <2>4. run[r] # "shutdown" =>
          /\ Match(r) /\ (run[r] \in Active <=> op[r] = "active")
          /\ op[r] = "active" => host = "desktop"
    BY <1>1, <2>2 DEF GoneInv, Match, Active
  <2> QED BY <1>1, <2>2, <2>3, <2>4 DEF ServedInv, Match, Results
<1> QED BY <1>1, <1>5, <1>6, <1>7 DEF RecordInv, InFlight

----------------------------------------------------------------------------
\* Every step, one case per handler.
LEMMA StepMoves == ASSUME RunInv, [RunNext]_vars PROVE KeyInv' /\ RecordInv'
<1>1. CASE UNCHANGED vars
  BY <1>1, RunStutters DEF vars, runVars
<1>2. ASSUME NEW k \in Keys, StartStep(k) PROVE KeyInv' /\ RecordInv'
  BY <1>2, StartMoves, KeyReleased DEF StartStep
<1>3. ASSUME NEW r \in Runs, RunStep(r) PROVE KeyInv' /\ RecordInv'
  <2>1. CASE \/ BeginOperation(r) \/ FinishOperation(r) \/ AbortOperation(r)
             \/ AskApproval(r) \/ ApprovalAnswered(r) \/ RecordResult(r)
    BY <1>3, <2>1, ExecutionMoves DEF RunStep
  <2>2. CASE WaitForApproval(r) \/ AbortApproval(r) \/ SettleApproval(r)
    BY <2>2, RunStutters
    DEF WaitForApproval, AbortApproval, SettleApproval, runVars
  <2> QED BY <1>3, <2>1, <2>2 DEF RunStep
<1>4. CASE CloseStep
  BY <1>4, CloseMoves, ProcessEnds DEF CloseStep, CloseExits
<1>5. CASE RecoveryStep
  BY <1>5, RecoveryMoves
<1>6. CASE Clients
  <2>1. CASE \E k \in Keys : Request(k)
    BY <2>1, RequestMoves
  <2>2. CASE \E r \in Runs : ResumeRun(r)
    BY <2>2, ResumptionMoves
  <2>3. CASE \E r \in Runs : CancelRun(r)
    BY <2>3, RunStutters DEF CancelRun
  <2>4. CASE \E r \in Approvals, decision \in Decisions : Decide(r, decision)
    BY <2>4, RunStutters DEF Decide, runVars
  <2> QED BY <1>6, <2>1, <2>2, <2>3, <2>4 DEF Clients
<1>7. CASE CloseCancels
  BY <1>7, CloseMoves
<1>8. CASE Crash
  BY <1>8, ProcessEnds DEF Crash
<1> QED BY <1>1, <1>2, <1>3, <1>4, <1>5, <1>6, <1>7, <1>8 DEF RunNext, Machine

\* The answers of a closing host are those the store holds.
LEMMA CloseAnswers == ASSUME BrokerInv, CloseInterrupts PROVE BrokerInv'
<1>1. \A a \in Approvals :
        /\ record'[a] = IF a \in waiting /\ record[a] = "pending"
                        THEN "interrupted" ELSE record[a]
        /\ answer'[a] = IF a \notin waiting THEN answer[a]
                        ELSE IF record[a] = "allowed" THEN "allow" ELSE "deny"
  BY DEF CloseInterrupts
<1>2. ApprovalTypeOK'
  BY DEF BrokerInv, ApprovalTypeOK, CloseInterrupts, Statuses, Decisions
<1>3. ASSUME NEW a \in Approvals PROVE Backs(record'[a], answer'[a])
  BY <1>1 DEF BrokerInv, ApprovalTypeOK, Statuses, Backs
<1>4. ASSUME NEW a \in Approvals, NEW d \in Decisions, <<a, d>> \in settling'
      PROVE  Backs(record'[a], d)
  BY <1>1, <1>4 DEF BrokerInv, CloseInterrupts, Backs, Decisions
<1> QED BY <1>2, <1>3, <1>4 DEF BrokerInv, CloseInterrupts

LEMMA StepBroker == ASSUME RunInv, [RunNext]_vars PROVE BrokerInv'
<1> USE DEF RunInv
<1>1. CASE UNCHANGED approvalVars
  BY <1>1, BrokerStutters
<1>2. ASSUME NEW k \in Keys, StartStep(k) PROVE BrokerInv'
  BY <1>1, <1>2 DEF StartStep, Accept, MarkStarting, LaneRun, LaneRefuses, CompleteKey,
     AbandonKey
<1>3. ASSUME NEW r \in Runs, RunStep(r) PROVE BrokerInv'
  <2>1. runner[r] = "asking" => r \in Approvals
    BY <1>3 DEF RunStep, RecordInv, ServedInv
  <2>2. CASE AskApproval(r)
    BY <2>2, CreatesPending DEF AskApproval
  <2>3. CASE WaitForApproval(r)
    BY <2>1, <2>3, AbortsBefore, Registers DEF WaitForApproval
  <2>4. CASE AbortApproval(r)
    <3>1. r \in Approvals
      BY <2>4 DEF AbortApproval, Interrupt, RunTypeOK, ApprovalTypeOK
    <3> QED BY <2>4, <3>1, HearsAbort DEF AbortApproval
  <2>5. CASE SettleApproval(r)
    <3>1. r \in Approvals
      BY <2>5 DEF SettleApproval, Settle, RunTypeOK, ApprovalTypeOK
    <3> QED BY <2>5, <3>1, Settles DEF SettleApproval
  <2>6. CASE \/ BeginOperation(r) \/ FinishOperation(r) \/ AbortOperation(r)
             \/ ApprovalAnswered(r) \/ RecordResult(r)
    BY <1>1, <2>6 DEF BeginOperation, FinishOperation, AbortOperation, ApprovalAnswered,
       RecordResult
  <2> QED BY <1>3, <2>2, <2>3, <2>4, <2>5, <2>6 DEF RunStep
<1>4. CASE CloseStep \/ Crash
  BY <1>4, CloseAnswers, Loses DEF CloseStep, CloseExits, Crash, Dies
<1>5. CASE RecoveryStep
  BY <1>1, <1>5, Reconciles
  DEF RecoveryStep, RecoverApprovals, RecoverOperations, RecoveryDone, ReconcileRun
<1>6. CASE Clients
  BY <1>1, <1>6, Resolves DEF Clients, Request, CancelRun, ResumeRun, Decide
<1>7. CASE CloseCancels \/ UNCHANGED vars
  BY <1>1, <1>7 DEF CloseCancels, vars
<1> QED BY <1>2, <1>3, <1>4, <1>5, <1>6, <1>7 DEF RunNext, Machine

Calls == [pc : {"idle", "upload", "accepted", "lane", "complete", "abandon"},
          run : 0 .. MaxRequests]

LEMMA GotoTyped ==
    ASSUME call \in [Keys -> Calls], NEW k \in Keys,
           NEW pc \in {"idle", "upload", "accepted", "lane", "complete", "abandon"},
           Goto(k, pc)
    PROVE  call' \in [Keys -> Calls]
<1>1. [call[k] EXCEPT !.pc = pc] \in Calls
  BY DEF Calls
<1>2. call' = [call EXCEPT ![k] = [call[k] EXCEPT !.pc = pc]]
  BY DEF Goto
<1> QED BY <1>1, <1>2

LEMMA StepTyped == ASSUME RunInv, [RunNext]_vars PROVE RunTypeOK'
<1> USE DEF RunInv, RunTypeOK, Active, Results
<1>1. ApprovalTypeOK'
  BY StepBroker DEF BrokerInv
<1>2. call \in [Keys -> Calls] /\ Idle \in Calls
  BY RunServiceAssumption DEF Calls, Idle
<1>3. CASE UNCHANGED runVars
  BY <1>1, <1>3 DEF runVars
<1>4. ASSUME NEW k \in Keys, StartStep(k) PROVE RunTypeOK'
  <2>1. call' \in [Keys -> Calls]
    <3>1. CASE CompleteKey(k) \/ AbandonKey(k)
      BY <1>2, <3>1 DEF CompleteKey, AbandonKey
    <3>2. CASE Accept(k) \/ MarkStarting(k) \/ LaneRun(k) \/ LaneRefuses(k)
      <4>1. \E pc \in {"abandon", "accepted", "lane", "complete"} : Goto(k, pc)
        BY <3>2 DEF Accept, MarkStarting, LaneRun, LaneRefuses
      <4> QED BY <1>2, <4>1, GotoTyped
    <3> QED BY <1>4, <3>1, <3>2 DEF StartStep
  <2>2. Mine(k) \in 0 .. MaxRequests
    BY DEF Mine
  <2>3. CASE Accept(k)
    BY <1>1, <2>1, <2>3 DEF Accept, Calls
  <2>4. CASE MarkStarting(k)
    BY <1>1, <2>1, <2>4 DEF MarkStarting, Calls
  <2>5. CASE LaneRun(k)
    <3>1. Mine(k) \in Runs
      BY <2>5, RunServiceAssumption DEF LaneRun, KeyInv, CallInv, InFlight, Runs
    <3> QED BY <1>1, <2>1, <2>5, <3>1 DEF LaneRun, Calls
  <2>6. CASE LaneRefuses(k)
    BY ZenonT(60), <1>1, <2>1, <2>6 DEF LaneRefuses, Calls
  <2>7. CASE CompleteKey(k) \/ AbandonKey(k)
    BY <1>1, <2>1, <2>7 DEF CompleteKey, AbandonKey, Calls
  <2> QED BY <1>4, <2>3, <2>4, <2>5, <2>6, <2>7 DEF StartStep
<1>5. ASSUME NEW r \in Runs, RunStep(r) PROVE RunTypeOK'
  <2> USE DEF RunnerOnly, Ended
  <2>1. CASE BeginOperation(r) BY <1>1, <2>1 DEF BeginOperation
  <2>2. CASE FinishOperation(r) BY <1>1, <2>2 DEF FinishOperation
  <2>3. CASE AbortOperation(r) BY <1>1, <2>3 DEF AbortOperation
  <2>4. CASE AskApproval(r) \/ ApprovalAnswered(r)
    BY <1>1, <2>4 DEF AskApproval, ApprovalAnswered
  <2>5. CASE RecordResult(r) BY <1>1, <2>5 DEF RecordResult
  <2> QED BY <1>3, <1>5, <2>1, <2>2, <2>3, <2>4, <2>5
          DEF RunStep, WaitForApproval, AbortApproval, SettleApproval
<1>6. CASE CloseCancels
  BY <1>1, <1>6 DEF CloseCancels
<1>7. CASE CloseInterrupts
  BY <1>1, <1>7 DEF CloseInterrupts
<1>8. CASE CloseExits \/ Crash
  <2>1. Dies /\ crashes' \in 0 .. MaxCrashes
    BY <1>8, RunServiceAssumption DEF CloseExits, Crash
  <2> QED BY <1>1, <1>2, <2>1 DEF Dies, Calls
<1>9. CASE RecoveryStep
  <2>1. CASE RecoverOperations BY <1>1, <2>1 DEF RecoverOperations
  <2>2. ASSUME NEW r \in Runs, ReconcileRun(r) PROVE RunTypeOK'
    <3>1. op[r] \in {"none", "completed", "failed", "aborted", "interrupted"}
      BY <2>2 DEF ReconcileRun
    <3>2. Outcome(r) \in {"completed", "failed", "cancelled", "interrupted"}
      BY <3>1 DEF Outcome
    <3> QED BY <1>1, <2>2, <3>2 DEF ReconcileRun
  <2> QED BY <1>1, <1>9, <2>1, <2>2 DEF RecoveryStep, RecoverApprovals, RecoveryDone
<1>10. ASSUME NEW k \in Keys, Request(k) PROVE RunTypeOK'
  <2>1. requests + 1 \in 0 .. MaxRequests
    BY <1>10, RunServiceAssumption DEF Request
  <2>2. [pc |-> "upload", run |-> requests + 1] \in Calls
    BY <2>1 DEF Calls
  <2>3. call' \in [Keys -> Calls]
    BY <1>2, <1>10, <2>2 DEF Request
  <2> QED BY <1>1, <1>10, <2>1, <2>3 DEF Request, Calls
<1>11. CASE Clients
  BY <1>1, <1>3, <1>10, <1>11 DEF Clients, CancelRun, ResumeRun, Decide
<1>12. CASE UNCHANGED vars
  BY <1>3, <1>12 DEF vars
<1> QED BY <1>4, <1>5, <1>6, <1>7, <1>8, <1>9, <1>11, <1>12
        DEF RunNext, Machine, CloseStep

LEMMA StepRuns == ASSUME RunInv, [RunNext]_vars PROVE RunInv'
  BY StepTyped, StepBroker, StepMoves DEF RunInv

----------------------------------------------------------------------------
\* The invariant holds in every state the clients, the process and its deaths can reach.
THEOREM RunsCorrect == RunSpec => []RunInv
<1>1. RunInv /\ [RunNext]_vars => RunInv'
  BY StepRuns
<1> QED BY InitRuns, <1>1, PTL DEF RunSpec

\* Every variable of the service keeps its type.
THEOREM RunTypeCorrect == RunSpec => []RunTypeOK
<1>1. RunInv => RunTypeOK
  BY DEF RunInv
<1> QED BY RunsCorrect, <1>1, PTL

\* Whoever wins the race of a decision, an abort and a closing host, the tool is told what
\* the store holds.
THEOREM AnswerIsRecordedCorrect == RunSpec => []AnswerIsRecorded
<1>1. RunInv => AnswerIsRecorded
  BY BrokerHonest DEF RunInv
<1> QED BY RunsCorrect, <1>1, PTL

\* However often clients repeat a request, over lost answers, failures and deaths, its key
\* has one run at most that did work.
THEOREM KeyRunsOnceCorrect == RunSpec => []KeyRunsOnce
<1>1. RunInv => KeyRunsOnce
  BY DEF RunInv, RunTypeOK, KeyInv, LiveInv, Live, KeyRunsOnce
<1> QED BY RunsCorrect, <1>1, PTL

\* Once nothing executes or starts a run of a serving process, its record tells the end of
\* its operation, whatever deaths and closings came between the two.
THEOREM RecordMatchesCorrect == RunSpec => []RecordMatchesOperation
<1>1. ASSUME RunInv PROVE RecordMatchesOperation
  <2> SUFFICES ASSUME NEW r \in Runs, AtRest(r), run[r] # "shutdown"
               PROVE  /\ run[r] = "completed" <=> op[r] = "completed"
                      /\ run[r] = "cancelled" <=> op[r] = "aborted"
                      /\ run[r] \in Active => op[r] = "active"
                      /\ op[r] = "active" => host = "desktop"
    BY DEF RecordMatchesOperation
  <2>1. ServedInv(r) /\ ~Starting(r) /\ runner[r] = "none"
    BY <1>1 DEF RunInv, RecordInv, AtRest, Serving, Starting, Mine
  <2> QED BY <2>1 DEF ServedInv, Match
<1> QED BY RunsCorrect, <1>1, PTL
=============================================================================
