--------------------------- MODULE ScheduleEngine ---------------------------
(***************************************************************************)
(* The durable schedule engine: the timer of each engine process, the      *)
(* claim of due occurrences, the dispatch of runs to their targets, the    *)
(* target's events, the overlap policies, manual runs, cancellation, and   *)
(* the recovery a process does when it becomes the leader.                 *)
(*                                                                         *)
(* One schedule, with all its runs, and any number of engine processes on  *)
(* one store.  A process runs three chains of awaits: its wake, the chain  *)
(* of target events, and one call of the user.  A step of a chain goes     *)
(* from one store call or dispatcher call to the next; between two steps   *)
(* every other chain and process can move, so whatever a step read is old  *)
(* when the next one uses it.                                              *)
(*                                                                         *)
(* The bounds are MaxRuns and MaxEdits (rows and edits there can be),      *)
(* MaxManual (manual runs), MaxLate (how late an occurrence is found) and  *)
(* MaxDisruptions (crashes, shutdowns, leases that run out under a living  *)
(* owner, approvals asked for).                                            *)
(***************************************************************************)
EXTENDS Integers, Sequences, FiniteSets

CONSTANTS
    Procs,        \* engine processes
    Policies,     \* [concurrency, misfire, once]: the schedules considered
    StartStates,  \* what a freshly started target answers
    EndStates,    \* how targets end by themselves
    Cancels,      \* whether the user cancels runs
    Insists,      \* whether the user starts runs against the overlap policy
    MaxLate,      \* 1: occurrences are found on time, 2: also late, 3: also beyond grace
    MaxRuns, MaxManual, MaxEdits, MaxDisruptions,
    None,         \* nobody holds the lease, or hosts the execution
    Gone          \* a process that died holding the lease

ASSUME EngineAssumption ==
    /\ Policies \subseteq [concurrency: {"skip", "queue", "allow"},
                           misfire: {"skip", "fire_once"}, once: BOOLEAN]
    /\ StartStates \subseteq {"queued", "running", "completed"}
    /\ EndStates \subseteq {"completed", "failed"}
    /\ Cancels \in BOOLEAN /\ Insists \in BOOLEAN
    /\ MaxLate \in 1..3
    /\ {MaxRuns, MaxManual, MaxEdits, MaxDisruptions} \subseteq Nat
    /\ None \notin Procs /\ Gone \notin Procs /\ None # Gone

VARIABLES
    sched,    \* the schedule's row
    runs,     \* runs[r]: the run rows, numbered in the order of created_at
    lease,    \* owner of the unexpired engine lease
    life,     \* life[p]: "up", "closing" or "down"
    leader,   \* leader[p]: what the last renewal told p
    armed,    \* armed[p]: a timer or a poke will start a wake
    chain,    \* chain[p][c]: where each chain of awaits stands
    events,   \* events[p]: target events not yet handled
    early,    \* early[p][r]: pendingTargetSnapshots
    exec,     \* exec[r]: the target's execution of run r, and where it runs
    disrupted \* disruptions so far

vars == <<sched, runs, lease, life, leader, armed, chain, events, early, exec, disrupted>>

Runs == 1..MaxRuns
Chains == {"wake", "event", "user"}

Started == {"dispatching", "running", "waiting_approval"}
Active == Started \cup {"pending"}
Terminal == {"completed", "failed", "cancelled", "skipped", "interrupted"}

Live == {"queued", "running", "waiting_approval"}
Snapshots == Live \cup {"none", "completed", "failed", "cancelled", "interrupted"}

\* statusFor
StatusOf(snap) == IF snap = "queued" THEN "pending" ELSE snap

Idle == [pc |-> "idle", run |-> 0, ver |-> 0, snap |-> "none", back |-> "idle",
         todo |-> {}, drains |-> FALSE, rev |-> 0, key |-> 0, late |-> 0]

Pcs == {"idle", "broken", "recover", "recovering", "settle", "list", "decide", "claim",
        "arm", "begin", "dispatch", "apply", "applied", "fail", "drain", "pick",
        "event", "blocked", "skip", "cancel"}

\* Where a chain stands: the run it holds a copy of, what it read, and what is left.
Copies == [run: Runs, ver: Nat, status: Started]
Frames == [pc: Pcs, run: 0..MaxRuns, ver: Nat,
           snap: Snapshots \cup {"skipped", "pending", "dispatching"},
           back: {"idle", "recovering", "arm"}, todo: SUBSET Copies, drains: BOOLEAN,
           rev: Nat, key: Nat, late: 0..3]

TypeOK ==
    /\ sched \in [concurrency: {"skip", "queue", "allow"}, misfire: {"skip", "fire_once"},
                  once: BOOLEAN, enabled: BOOLEAN, deleted: BOOLEAN,
                  rev: Nat, key: Nat, age: 0..3, edits: 0..MaxEdits]
    /\ runs \in [Runs -> [status: Active \cup Terminal \cup {"absent"}, key: Nat,
                          exec: BOOLEAN, ver: Nat]]
    /\ lease \in Procs \cup {None, Gone}
    /\ life \in [Procs -> {"up", "closing", "down"}]
    /\ leader \in [Procs -> BOOLEAN]
    /\ armed \in [Procs -> BOOLEAN]
    /\ chain \in [Procs -> [Chains -> Frames]]
    /\ events \in [Procs -> Seq([run: Runs, snap: Snapshots \ {"none"}])]
    /\ early \in [Procs -> [Runs -> Snapshots]]
    /\ exec \in [Runs -> [state: Snapshots, host: Procs \cup {None}]]
    /\ disrupted \in 0..MaxDisruptions

Init ==
    /\ \E policy \in Policies :
          sched = [concurrency |-> policy.concurrency, misfire |-> policy.misfire,
                   once |-> policy.once, enabled |-> TRUE, deleted |-> FALSE,
                   rev |-> 1, key |-> 1, age |-> 0, edits |-> 0]
    /\ runs = [r \in Runs |-> [status |-> "absent", key |-> 0, exec |-> FALSE, ver |-> 0]]
    /\ lease = None
    /\ life = [p \in Procs |-> "down"]
    /\ leader = [p \in Procs |-> FALSE]
    /\ armed = [p \in Procs |-> FALSE]
    /\ chain = [p \in Procs |-> [c \in Chains |-> Idle]]
    /\ events = [p \in Procs |-> <<>>]
    /\ early = [p \in Procs |-> [r \in Runs |-> "none"]]
    /\ exec = [r \in Runs |-> [state |-> "none", host |-> None]]
    /\ disrupted = 0

----------------------------------------------------------------------------
(* Helpers of the chains *)

InStatus(S) == {r \in Runs : runs[r].status \in S}
Absent == InStatus({"absent"})
Oldest(S) == CHOOSE r \in S : \A other \in S : r <= other

Disrupt == disrupted < MaxDisruptions /\ disrupted' = disrupted + 1

At(p, c, pc) == life[p] # "down" /\ chain[p][c].pc = pc

Goto(p, c, to) == chain' = [chain EXCEPT ![p][c] = to]

\* Where a chain goes on when a call it made returns, and when it throws: a wake ends
\* without its timer, the chain of events stays rejected, the user gets the error.
Return(me) == IF me.back = "idle" THEN Idle ELSE [me EXCEPT !.pc = me.back]
Thrown(c) == IF c = "event" THEN [Idle EXCEPT !.pc = "broken"] ELSE Idle

\* Mutant: nothing is compared.
CanTransitionBlindly(r, ver, to) == TRUE

\* transitionRunWithDeliveries: the terminal guard and the version.
CanTransition(r, ver, to) ==
    /\ runs[r].ver = ver
    /\ runs[r].status \in Terminal => to = runs[r].status

\* transition: write the run the chain holds a copy of, or throw.
Transition(p, c, to, withExec, next) ==
    LET me == chain[p][c] IN
    IF CanTransition(me.run, me.ver, to)
    THEN /\ runs' = [runs EXCEPT ![me.run].status = to, ![me.run].ver = @ + 1,
                                 ![me.run].exec = @ \/ withExec]
         /\ Goto(p, c, [next EXCEPT !.ver = IF next.run = me.run THEN me.ver + 1 ELSE @])
    ELSE /\ Goto(p, c, Thrown(c))
         /\ UNCHANGED runs

----------------------------------------------------------------------------
(* dispatchRun and dispatchClaimed, in whatever chain they run *)

Begin(p, c) ==
    /\ At(p, c, "begin")
    /\ Transition(p, c, "dispatching", FALSE, [chain[p][c] EXCEPT !.pc = "dispatch"])
    /\ UNCHANGED <<sched, lease, life, leader, armed, events, early, exec, disrupted>>

\* The target knows the execution, or starts it.
Dispatch(p, c) ==
    LET me == chain[p][c] IN
    /\ At(p, c, "dispatch")
    /\ IF exec[me.run].state # "none"
       THEN /\ Goto(p, c, [me EXCEPT !.pc = "apply", !.snap = exec[me.run].state])
            /\ UNCHANGED exec
       ELSE \E state \in StartStates :
            /\ exec' = [exec EXCEPT ![me.run] = [state |-> state, host |-> p]]
            /\ Goto(p, c, [me EXCEPT !.pc = "apply", !.snap = state])
    /\ UNCHANGED <<sched, runs, lease, life, leader, armed, events, early, disrupted>>

DispatchFails(p, c) ==
    /\ At(p, c, "dispatch")
    /\ Goto(p, c, [chain[p][c] EXCEPT !.pc = "fail"])
    /\ UNCHANGED <<sched, runs, lease, life, leader, armed, events, early, exec, disrupted>>

\* applySnapshot.  A conflict is caught, and fails the run with the copy that just
\* proved old: it throws again.
Apply(p, c) ==
    LET me == chain[p][c] IN
    /\ At(p, c, "apply")
    /\ Transition(p, c, StatusOf(me.snap), TRUE, [me EXCEPT !.pc = "applied"])
    /\ UNCHANGED <<sched, lease, life, leader, armed, events, early, exec, disrupted>>

\* What the target said while the dispatch was under way.
ApplyEarly(p, c) ==
    LET me == chain[p][c]
        snap == early[p][me.run]
    IN
    /\ At(p, c, "applied")
    /\ IF snap = "none"
       THEN Goto(p, c, Return(me)) /\ UNCHANGED <<runs, early>>
       ELSE /\ early' = [early EXCEPT ![p][me.run] = "none"]
            /\ Transition(p, c, StatusOf(snap), TRUE, Return(me))
    /\ UNCHANGED <<sched, lease, life, leader, armed, events, exec, disrupted>>

Fail(p, c) ==
    /\ At(p, c, "fail")
    /\ Transition(p, c, "failed", FALSE, Return(chain[p][c]))
    /\ UNCHANGED <<sched, lease, life, leader, armed, events, early, exec, disrupted>>

\* drainPending: if nothing started is active, ...
Drain(p, c) ==
    /\ At(p, c, "drain")
    /\ Goto(p, c, IF sched.deleted \/ InStatus(Started) # {} THEN Return(chain[p][c])
                  ELSE [chain[p][c] EXCEPT !.pc = "pick"])
    /\ UNCHANGED <<sched, runs, lease, life, leader, armed, events, early, exec, disrupted>>

\* ... the oldest of the runs that are pending by now begins.
Pick(p, c) ==
    LET pending == InStatus({"pending"})
        r == Oldest(pending)
    IN
    /\ At(p, c, "pick")
    /\ Goto(p, c, IF pending = {} THEN Return(chain[p][c])
                  ELSE [chain[p][c] EXCEPT !.pc = "begin", !.run = r, !.ver = runs[r].ver])
    /\ UNCHANGED <<sched, runs, lease, life, leader, armed, events, early, exec, disrupted>>

Dispatching(p, c) ==
    \/ Begin(p, c) \/ Dispatch(p, c) \/ DispatchFails(p, c) \/ Apply(p, c)
    \/ ApplyEarly(p, c) \/ Fail(p, c) \/ Drain(p, c) \/ Pick(p, c)

----------------------------------------------------------------------------
(* performWake *)

\* Mutant: a lease one holds is not renewed.
LeadsOnce(p) == lease = None

\* acquireEngineLease
Leads(p) == lease \in {None, p}

\* disarm, renewLease; a new leader recovers first.
Wake(p) ==
    /\ life[p] = "up" /\ armed[p] /\ chain[p]["wake"].pc = "idle"
    /\ armed' = [armed EXCEPT ![p] = FALSE]
    /\ leader' = [leader EXCEPT ![p] = Leads(p)]
    /\ lease' = IF Leads(p) THEN p ELSE lease
    /\ Goto(p, "wake", [Idle EXCEPT !.pc = IF ~ Leads(p) THEN "arm"
                                           ELSE IF leader[p] THEN "list" ELSE "recover"])
    /\ UNCHANGED <<sched, runs, life, events, early, exec, disrupted>>

\* Mutant: only runs known to the target are recovered.
RecoverableKnown == InStatus({"running", "waiting_approval"})

Recoverable == InStatus(Started)

\* recoverScheduleRuns: copies of the started runs; pending ones are drained at the end.
Recover(p) ==
    /\ At(p, "wake", "recover")
    /\ Goto(p, "wake",
            [chain[p]["wake"] EXCEPT
                !.pc = "recovering",
                !.todo = {[run |-> r, ver |-> runs[r].ver, status |-> runs[r].status] :
                             r \in Recoverable},
                !.drains = InStatus({"pending"}) # {}])
    /\ UNCHANGED <<sched, runs, lease, life, leader, armed, events, early, exec, disrupted>>

\* inspect the next one; an error counts as no answer.
Inspect(p) ==
    LET me == chain[p]["wake"]
        it == CHOOSE it \in me.todo : \A other \in me.todo : it.run <= other.run
    IN
    /\ At(p, "wake", "recovering") /\ me.todo # {}
    /\ \E snap \in {exec[it.run].state, "none"} :
          Goto(p, "wake", [me EXCEPT !.pc = IF snap = "none" /\ it.status = "dispatching"
                                            THEN "dispatch" ELSE "settle",
                                     !.run = it.run, !.ver = it.ver, !.snap = snap,
                                     !.back = "recovering", !.todo = @ \ {it}])
    /\ UNCHANGED <<sched, runs, lease, life, leader, armed, events, early, exec, disrupted>>

\* The answer, or that there is none, becomes the run's status.
Settle(p) ==
    LET me == chain[p]["wake"]
        to == IF me.snap = "none" THEN "interrupted" ELSE StatusOf(me.snap)
    IN
    /\ At(p, "wake", "settle")
    /\ Transition(p, "wake", to, me.snap # "none",
                  [me EXCEPT !.pc = IF to \in Terminal THEN "drain" ELSE "recovering"])
    /\ UNCHANGED <<sched, lease, life, leader, armed, events, early, exec, disrupted>>

Recovered(p) ==
    LET me == chain[p]["wake"] IN
    /\ At(p, "wake", "recovering") /\ me.todo = {}
    /\ Goto(p, "wake", IF me.drains
                       THEN [me EXCEPT !.pc = "drain", !.back = "recovering", !.drains = FALSE]
                       ELSE [Idle EXCEPT !.pc = "list"])
    /\ UNCHANGED <<sched, runs, lease, life, leader, armed, events, early, exec, disrupted>>

\* listDue; the copy and the clock reading serve until the claim.
List(p) ==
    /\ At(p, "wake", "list")
    /\ Goto(p, "wake",
            IF life[p] = "up" /\ sched.enabled /\ sched.age > 0
            THEN [Idle EXCEPT !.pc = "decide", !.rev = sched.rev, !.key = sched.key,
                              !.late = sched.age]
            ELSE [Idle EXCEPT !.pc = "arm"])
    /\ UNCHANGED <<sched, runs, lease, life, leader, armed, events, early, exec, disrupted>>

Misfired(late) == late > 1 /\ (sched.misfire = "skip" \/ late > 2)

\* Mutants: a run in dispatch is not seen; a second occurrence is queued.
FirstStatusBlind(late) ==
    IF Misfired(late) THEN "skipped"
    ELSE IF InStatus(Active \ {"dispatching"}) = {} \/ sched.concurrency = "allow" THEN "dispatching"
    ELSE IF sched.concurrency = "skip" \/ InStatus({"pending"}) # {} THEN "skipped"
    ELSE "pending"

FirstStatusUncoalesced(late) ==
    IF Misfired(late) THEN "skipped"
    ELSE IF InStatus(Active) = {} \/ sched.concurrency = "allow" THEN "dispatching"
    ELSE IF sched.concurrency = "skip" THEN "skipped"
    ELSE "pending"

\* The overlap policy, from the runs active now.
FirstStatus(late) ==
    IF Misfired(late) THEN "skipped"
    ELSE IF InStatus(Active) = {} \/ sched.concurrency = "allow" THEN "dispatching"
    ELSE IF sched.concurrency = "skip" \/ InStatus({"pending"}) # {} THEN "skipped"
    ELSE "pending"

Decide(p) ==
    LET me == chain[p]["wake"] IN
    /\ At(p, "wake", "decide")
    /\ Goto(p, "wake", [me EXCEPT !.pc = "claim", !.snap = FirstStatus(me.late)])
    /\ UNCHANGED <<sched, runs, lease, life, leader, armed, events, early, exec, disrupted>>

\* Mutant: neither the revision nor the uniqueness of the occurrence is looked at.
ClaimableAgain(me) == sched.enabled /\ ~ sched.deleted

Claimable(me) ==
    /\ sched.enabled /\ ~ sched.deleted
    /\ sched.rev = me.rev /\ sched.key = me.key
    /\ \A r \in Runs : runs[r].key # me.key

\* claimOccurrence: the run and the schedule's next occurrence in one transaction.
Claim(p) ==
    LET me == chain[p]["wake"]
        r == Oldest(Absent)
    IN
    /\ At(p, "wake", "claim")
    /\ Claimable(me) => Absent # {}
    /\ IF Claimable(me)
       THEN /\ runs' = [runs EXCEPT ![r] = [status |-> me.snap, key |-> me.key,
                                            exec |-> FALSE, ver |-> 1]]
            /\ sched' = [sched EXCEPT !.enabled = ~ sched.once, !.rev = @ + 1,
                                      !.key = @ + 1, !.age = 0]
            /\ Goto(p, "wake", IF me.snap = "dispatching"
                               THEN [Idle EXCEPT !.pc = "dispatch", !.run = r, !.ver = 1,
                                                 !.back = "arm"]
                               ELSE [Idle EXCEPT !.pc = "arm"])
       ELSE /\ Goto(p, "wake", [Idle EXCEPT !.pc = "arm"])
            /\ UNCHANGED <<sched, runs>>
    /\ UNCHANGED <<lease, life, leader, armed, events, early, exec, disrupted>>

Arm(p) ==
    /\ At(p, "wake", "arm")
    /\ armed' = [armed EXCEPT ![p] = life[p] = "up"]
    /\ Goto(p, "wake", Idle)
    /\ UNCHANGED <<sched, runs, lease, life, leader, events, early, exec, disrupted>>

Waking(p) ==
    \/ Wake(p) \/ Recover(p) \/ Inspect(p) \/ Settle(p) \/ Recovered(p)
    \/ List(p) \/ Decide(p) \/ Claim(p) \/ Arm(p)

----------------------------------------------------------------------------
(* onTargetEvent *)

\* The run is found by its execution; before the dispatch wrote it, the event is kept.
TakeEvent(p) ==
    LET e == Head(events[p])
        found == runs[e.run].status \in Active
    IN
    /\ At(p, "event", "idle") /\ events[p] # <<>>
    /\ events' = [events EXCEPT ![p] = Tail(@)]
    /\ early' = IF found /\ ~ runs[e.run].exec
                THEN [early EXCEPT ![p][e.run] = e.snap] ELSE early
    /\ IF found /\ runs[e.run].exec
       THEN Goto(p, "event", [Idle EXCEPT !.pc = "event", !.run = e.run,
                                          !.ver = runs[e.run].ver, !.snap = e.snap])
       ELSE UNCHANGED chain
    /\ UNCHANGED <<sched, runs, lease, life, leader, armed, exec, disrupted>>

ApplyEvent(p) ==
    LET me == chain[p]["event"]
        to == StatusOf(me.snap)
    IN
    /\ At(p, "event", "event")
    /\ Transition(p, "event", to, TRUE,
                  IF to \in Terminal THEN [Idle EXCEPT !.pc = "drain"] ELSE Idle)
    /\ UNCHANGED <<sched, lease, life, leader, armed, events, early, exec, disrupted>>

Handling(p) == TakeEvent(p) \/ ApplyEvent(p)

----------------------------------------------------------------------------
(* The user: runNow, cancelRun, update, delete *)

Free(p) == life[p] = "up" /\ chain[p]["user"].pc = "idle"

\* A poke, for the process that served the call.
Poked(p) == [armed EXCEPT ![p] = @ \/ chain[p]["wake"].pc = "idle"]

RunNow(p, respectConcurrency) ==
    LET r == Oldest(Absent) IN
    /\ Free(p) /\ ~ sched.deleted
    /\ Cardinality({x \in Runs : runs[x].status # "absent" /\ runs[x].key = 0}) < MaxManual
    /\ Cardinality(Absent) > (IF sched.age > 0 THEN 1 ELSE 0)
    /\ runs' = [runs EXCEPT ![r] = [status |-> "pending", key |-> 0, exec |-> FALSE,
                                    ver |-> 1]]
    /\ Goto(p, "user", [Idle EXCEPT !.pc = IF respectConcurrency THEN "blocked" ELSE "begin",
                                    !.run = r, !.ver = 1])
    /\ UNCHANGED <<sched, lease, life, leader, armed, events, early, exec, disrupted>>

\* hasBlockingActiveRun
Blocked(p) ==
    LET me == chain[p]["user"]
        blocked == InStatus(Active) \ {me.run} # {}
    IN
    /\ At(p, "user", "blocked")
    /\ Goto(p, "user", IF blocked /\ sched.concurrency = "queue" THEN Idle
                       ELSE IF blocked /\ sched.concurrency = "skip"
                            THEN [me EXCEPT !.pc = "skip"]
                       ELSE [me EXCEPT !.pc = "begin"])
    /\ UNCHANGED <<sched, runs, lease, life, leader, armed, events, early, exec, disrupted>>

Skip(p) ==
    /\ At(p, "user", "skip")
    /\ Transition(p, "user", "skipped", FALSE, Idle)
    /\ UNCHANGED <<sched, lease, life, leader, armed, events, early, exec, disrupted>>

Publish(p, r, snap) == events' = [events EXCEPT ![p] = Append(@, [run |-> r, snap |-> snap])]

\* With an execution, its target cancels (here, or it is refused); without one, the run
\* is cancelled in the table.
CancelRun(p, r) ==
    /\ Cancels /\ Free(p) /\ runs[r].status \in Active
    /\ IF runs[r].exec
       THEN /\ exec[r].state \in Live /\ exec[r].host = p
            /\ exec' = [exec EXCEPT ![r].state = "cancelled"]
            /\ Publish(p, r, "cancelled")
            /\ UNCHANGED chain
       ELSE /\ Goto(p, "user", [Idle EXCEPT !.pc = "cancel", !.run = r,
                                            !.ver = runs[r].ver])
            /\ UNCHANGED <<events, exec>>
    /\ UNCHANGED <<sched, runs, lease, life, leader, armed, early, disrupted>>

CancelCommit(p) ==
    /\ At(p, "user", "cancel")
    /\ Transition(p, "user", "cancelled", FALSE, [Idle EXCEPT !.pc = "drain"])
    /\ UNCHANGED <<sched, lease, life, leader, armed, events, early, exec, disrupted>>

\* update: another revision; a schedule that is enabled or has a new spec starts from a
\* new occurrence.
Update(p, enabled, recalculates) ==
    /\ Free(p) /\ ~ sched.deleted /\ sched.edits < MaxEdits
    /\ enabled /\ ~ sched.enabled => recalculates
    /\ sched' = [sched EXCEPT !.enabled = enabled, !.rev = @ + 1, !.edits = @ + 1,
                              !.key = IF enabled /\ recalculates THEN @ + 1 ELSE @,
                              !.age = IF enabled /\ ~ recalculates THEN @ ELSE 0]
    /\ armed' = Poked(p)
    /\ UNCHANGED <<runs, lease, life, leader, chain, events, early, exec, disrupted>>

SoftDelete(p) ==
    /\ Free(p) /\ ~ sched.deleted /\ sched.edits < MaxEdits
    /\ sched' = [sched EXCEPT !.enabled = FALSE, !.deleted = TRUE, !.rev = @ + 1,
                              !.edits = @ + 1, !.age = 0]
    /\ armed' = Poked(p)
    /\ UNCHANGED <<runs, lease, life, leader, chain, events, early, exec, disrupted>>

Calling(p) ==
    \/ \E respect \in {TRUE, ~ Insists} : RunNow(p, respect)
    \/ \E r \in Runs : CancelRun(p, r)
    \/ \E enabled, recalculates \in BOOLEAN : Update(p, enabled, recalculates)
    \/ SoftDelete(p)

Answering(p) == Blocked(p) \/ Skip(p) \/ CancelCommit(p)

----------------------------------------------------------------------------
(* Targets, processes, time *)

\* The execution moves on, and its host's engine hears of it.
TargetMoves(r, to) ==
    LET from == exec[r].state IN
    /\ from \in Live /\ exec[r].host # None
    /\ \/ from = "queued" /\ to = "running"
       \/ from = "running" /\ to = "waiting_approval"
       \/ from = "waiting_approval" /\ to = "running"
       \/ from # "queued" /\ to \in EndStates
    /\ IF to = "waiting_approval" THEN Disrupt ELSE UNCHANGED disrupted
    /\ exec' = [exec EXCEPT ![r].state = to]
    /\ Publish(exec[r].host, r, to)
    /\ UNCHANGED <<sched, runs, lease, life, leader, armed, chain, early>>

Hosted(p) == {r \in Runs : exec[r].host = p}

\* A process is gone with its chains, and nobody executes the targets it hosted.  What
\* the record says of one from then on: nothing, that it was interrupted (team tasks; a
\* failure on the headless server, final alike), or that it is running (the desktop
\* preserves the operations of agents).
Forget(p) ==
    /\ life' = [life EXCEPT ![p] = "down"]
    /\ leader' = [leader EXCEPT ![p] = FALSE]
    /\ armed' = [armed EXCEPT ![p] = FALSE]
    /\ chain' = [chain EXCEPT ![p] = [c \in Chains |-> Idle]]
    /\ events' = [events EXCEPT ![p] = <<>>]
    /\ early' = [early EXCEPT ![p] = [r \in Runs |-> "none"]]
    /\ \E unrecorded \in SUBSET Hosted(p) : \E kept \in SUBSET (Hosted(p) \ unrecorded) :
          exec' = [r \in Runs |->
                     IF r \notin Hosted(p) THEN exec[r]
                     ELSE [host  |-> None,
                           state |-> IF r \in unrecorded THEN "none"
                                     ELSE IF exec[r].state \notin {"running", "waiting_approval"}
                                          THEN exec[r].state
                                     ELSE IF r \in kept THEN "running"
                                     ELSE "interrupted"]]

Crash(p) ==
    /\ life[p] # "down" /\ Disrupt
    /\ Forget(p)
    /\ lease' = IF lease = p THEN Gone ELSE lease
    /\ UNCHANGED <<sched, runs>>

\* Queued team tasks are scheduled again by the process that comes up; then the engine
\* wakes.
Start(p) ==
    /\ life[p] = "down"
    /\ life' = [life EXCEPT ![p] = "up"]
    /\ armed' = [armed EXCEPT ![p] = TRUE]
    /\ exec' = [r \in Runs |-> IF exec[r].state = "queued" /\ exec[r].host = None
                               THEN [exec[r] EXCEPT !.host = p] ELSE exec[r]]
    /\ UNCHANGED <<sched, runs, lease, leader, chain, events, early, disrupted>>

Close(p) ==
    /\ life[p] = "up" /\ Disrupt
    /\ life' = [life EXCEPT ![p] = "closing"]
    /\ armed' = [armed EXCEPT ![p] = FALSE]
    /\ UNCHANGED <<sched, runs, lease, leader, chain, events, early, exec>>

\* close has waited for the wake and for the events.
Release(p) ==
    /\ life[p] = "closing" /\ chain[p]["wake"].pc = "idle"
    /\ \/ chain[p]["event"].pc = "broken"
       \/ chain[p]["event"].pc = "idle" /\ events[p] = <<>>
    /\ Forget(p)
    /\ lease' = IF lease = p THEN None ELSE lease
    /\ UNCHANGED <<sched, runs, disrupted>>

\* Thirty seconds without a renewal: the owner died, slept, or is in a long wake.
LeaseExpires ==
    /\ lease # None
    /\ IF lease = Gone THEN UNCHANGED disrupted ELSE Disrupt
    /\ lease' = None
    /\ UNCHANGED <<sched, runs, life, leader, armed, chain, events, early, exec>>

\* The occurrence falls due, is late, is beyond any grace.  No tick, which stands for a
\* minute, falls between the two reads of a drain.
Tick ==
    /\ \A p \in Procs, c \in Chains : ~ At(p, c, "pick")
    /\ sched.enabled /\ sched.age < MaxLate /\ Absent # {}
    /\ sched' = [sched EXCEPT !.age = @ + 1]
    /\ UNCHANGED <<runs, lease, life, leader, armed, chain, events, early, exec, disrupted>>

----------------------------------------------------------------------------
Working(p) ==
    \/ \E c \in Chains : Dispatching(p, c)
    \/ Waking(p) \/ Handling(p) \/ Answering(p)

Next ==
    \/ \E p \in Procs : Working(p) \/ Calling(p)
    \/ \E r \in Runs, to \in Snapshots : TargetMoves(r, to)
    \/ \E p \in Procs : Crash(p) \/ Start(p) \/ Close(p) \/ Release(p)
    \/ LeaseExpires
    \/ Tick

Spec == Init /\ [][Next]_vars

\* The event loop runs every chain, and the timer and the lease run out; a process that
\* is down is started again and one that closes gets there; targets come to an end.
Fairness ==
    /\ WF_vars(LeaseExpires /\ lease \notin Procs)
    /\ \A r \in Runs : WF_vars(\E to \in Snapshots : TargetMoves(r, to))
    /\ \A p \in Procs :
         /\ WF_vars(Waking(p))
         /\ WF_vars(Handling(p))
         /\ WF_vars(Answering(p))
         /\ \A c \in Chains : WF_vars(Dispatching(p, c))
         /\ WF_vars(Start(p))
         /\ WF_vars(Release(p))

FairSpec == Spec /\ Fairness

----------------------------------------------------------------------------
(* Properties *)

\* Nobody started a run by hand.
NoManual == \A r \in Runs \ Absent : runs[r].key # 0

\* Without manual runs a skipping schedule does not overlap, though an old and a new
\* leader both claim, and recoveries dispatch again.
SkipNeverOverlaps ==
    sched.concurrency = "skip" /\ NoManual => Cardinality(InStatus(Started)) <= 1

\* Without manual runs a queueing schedule keeps one occurrence waiting, besides what
\* waits at a target.
Waiting == {r \in InStatus({"pending"}) : ~ runs[r].exec}
OneQueued == sched.concurrency = "queue" /\ NoManual => Cardinality(Waiting) <= 1

\* An occurrence is claimed once, by whatever process still believes it leads.
OccurrenceOnce ==
    \A r, other \in Runs : runs[r].key # 0 /\ runs[r].key = runs[other].key => r = other

\* The end of a run stands.
RunsFinal ==
    [][\A r \in Runs : runs[r].status \in Terminal =>
          runs'[r].status = runs[r].status]_vars

\* An open process has a timer, or is in a wake that will set it.
TimerKept == \A p \in Procs : life[p] = "up" => armed[p] \/ chain[p]["wake"].pc # "idle"

\* No run stays "dispatching": its dispatch ends, or a recovery settles it, unless a
\* recovery was aborted by a conflict and took the timer with it.
DispatchSettles ==
    \A r \in Runs : (runs[r].status = "dispatching")
                      ~> (runs[r].status # "dispatching" \/ ~ TimerKept)

\* An occurrence that is due is claimed, unless an edit takes it away or the timer is
\* lost.
DueIsClaimed ==
    (sched.enabled /\ sched.age > 0) ~> (sched.age = 0 \/ ~ TimerKept)

----------------------------------------------------------------------------
(* What one would expect, and the code does not keep: each of these, and TimerKept as an
   invariant, is refuted by the counterexample the README tells. *)

\* Overlap: unless it may overlap, or the user insists, a schedule has one started run at
\* a time, whichever of timers, drains, recoveries and manual runs start them.
NoOverlap ==
    sched.concurrency # "allow" /\ ~ Insists => Cardinality(InStatus(Started)) <= 1

\* A run that was queued begins, once what it waits for has ended.
QueuedRunsBegin ==
    \A r \in Runs : (runs[r].status = "pending") ~> (runs[r].status # "pending")

\* A recovered run that nobody executes is ended, as interrupted if need be.
AbandonedRunsEnd ==
    \A r \in Runs :
        (runs[r].status \in Started /\ exec[r].host = None)
          ~> (runs[r].status \notin Started \/ exec[r].host # None)
=============================================================================
