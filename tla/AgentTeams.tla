------------------------------ MODULE AgentTeams ------------------------------
(***************************************************************************)
(* The tasks of a team, the sub-agents its members start, and the slots    *)
(* both wait for (packages/orchestration: team/manager.ts,                 *)
(* subagent/manager.ts, subagent/scheduler.ts, subagent/resource-groups.ts *)
(* and the tables of storage/sqlite-team-store.ts).                        *)
(*                                                                         *)
(* A task asks in turn for the slot of its member, one of the slots of its *)
(* team, and one of the slots every agent of the process shares; only then *)
(* does it begin, and only then do its timers count.  A sub-agent needs a  *)
(* shared slot and nothing else.  A member that waits for its sub-agents   *)
(* keeps all three of its slots meanwhile.                                 *)
(*                                                                         *)
(* The database is synchronous, so a chain of calls that awaits nothing    *)
(* else is over before the next event is taken: such a chain is one step.  *)
(* After an abort, though, the chain of the aborted execution runs beside  *)
(* that of its caller.  An event waits until no chain is under way         *)
(* (Quiet); the steps of the chains interleave freely.                     *)
(***************************************************************************)
EXTENDS Integers, Sequences, FiniteSets, SequencesExt

CONSTANTS Tasks,      \* numbered in the order they are delegated
          Members, Workers,
          Main,       \* who starts the sub-agents that belong to no member
          Spawners,   \* who may start sub-agents: members by their policy, or Main
          TurnEnds,   \* how a turn of a member ends
          RoundEnds,  \* what a round of a sub-agent leaves it in: a lane can always
                      \* be continued, so an answer leaves it idle
          TeamLimit,  \* maxConcurrency of the team
          AgentLimit, \* slots of the scheduler all agents share
          MaxCrashes, MaxToggles \* bounds

ASSUME TeamAssumption ==
  /\ IsFiniteSet(Tasks) /\ Tasks = 1 .. Cardinality(Tasks)
  /\ Tasks \cap Workers = {} /\ Members \cap {Main, "team", "agents"} = {}
  /\ TurnEnds \subseteq {"completed", "failed", "cancelled"}
  /\ RoundEnds \subseteq {"idle", "failed", "cancelled"}
  /\ Spawners \subseteq Members \cup {Main}
  /\ {TeamLimit, AgentLimit} \subseteq Nat \ {0}

VARIABLES task,     \* the rows of the tasks
          member,   \* the state in the rows of the members
          run,      \* the executions of the tasks in this process
          worker,   \* the sub-agents, kept in memory only
          slots,    \* the semaphores: who holds a slot, and who waits in line
          disabling,\* the disableMember call under way
          up, crashes, toggles
vars == <<task, member, run, worker, slots, disabling, up, crashes, toggles>>

Finals      == {"completed", "failed", "cancelled", "interrupted"}
Unsafe      == {"running", "waiting_approval"}
MemberState == {"idle", "queued", "running", "waiting_approval", "disabled"}

Semaphores == Members \cup {"team", "agents"}
\* Mutant: a member has as many slots as its team.
LimitOfTeam == [s \in Semaphores |-> IF s = "agents" THEN AgentLimit ELSE TeamLimit]
Limit      == [s \in Semaphores |-> IF s = "team" THEN TeamLimit
                                    ELSE IF s = "agents" THEN AgentLimit ELSE 1]

-----------------------------------------------------------------------------
(* The slots *)

\* Mutant: one more than the limit is admitted.
DrainedOneMore(s, sem) ==
  LET free == Limit[s] + 1 - Cardinality(sem.held)
      n    == IF free < Len(sem.line) THEN free ELSE Len(sem.line)
  IN  [held |-> sem.held \cup ToSet(SubSeq(sem.line, 1, n)),
       line |-> SubSeq(sem.line, n + 1, Len(sem.line))]
\* A free slot goes to the first in line.
Drained(s, sem) ==
  LET free == Limit[s] - Cardinality(sem.held)
      n    == IF free < Len(sem.line) THEN free ELSE Len(sem.line)
  IN  [held |-> sem.held \cup ToSet(SubSeq(sem.line, 1, n)),
       line |-> SubSeq(sem.line, n + 1, Len(sem.line))]

Asked(all, s, x) ==
  [all EXCEPT ![s] = Drained(s, [held |-> @.held, line |-> Append(@.line, x)])]
\* Mutant: nobody in line is told.
ReleasedQuietly(all, S, x) ==
  [s \in Semaphores |-> IF s \in S THEN [all[s] EXCEPT !.held = @ \ {x}] ELSE all[s]]
Released(all, S, x) ==
  [s \in Semaphores |-> IF s \in S /\ x \in all[s].held
                        THEN Drained(s, [held |-> all[s].held \ {x}, line |-> all[s].line])
                        ELSE all[s]]
\* Numbers, the smallest first.
InOrder(N) ==
  [k \in 1 .. Cardinality(N) |-> CHOOSE n \in N : Cardinality({m \in N : m <= n}) = k]
Without(line, X) ==
  LET kept == InOrder({i \in DOMAIN line : line[i] \notin X})
  IN  [k \in DOMAIN kept |-> line[kept[k]]]
\* An abort takes the one who waits out of the line.
Withdrawn(all, X) ==
  [s \in Semaphores |-> [held |-> all[s].held, line |-> Without(all[s].line, X)]]

NoSlots == [s \in Semaphores |-> [held |-> {}, line |-> <<>>]]

-----------------------------------------------------------------------------
(* The executions *)

Run(pc, seen)   == [pc |-> pc, next |-> 1, abort |-> "none", end |-> "none", seen |-> seen]
NoRun           == Run("none", "idle")
Worker(state, pc, owner) == [state |-> state, pc |-> pc, owner |-> owner, timedOut |-> FALSE]
NoWorker        == Worker("none", "none", Main)
NoCall   == [of |-> Main, todo |-> <<>>, seen |-> "idle"]

Path(t)       == <<task[t].member, "team", "agents">>
Asking(t)     == Path(t)[run[t].next]
Granted(t)    == t \in slots[Asking(t)].held
WorkerGranted(w) == w \in slots["agents"].held

Active(m)  == {t \in Tasks : /\ task[t].member = m
                             /\ task[t].state \in {"queued"} \cup Unsafe}

\* No chain of synchronous steps is under way.
Still ==
  /\ \A t \in Tasks : /\ run[t].pc # "leaving"
                      /\ run[t].pc = "waiting" => ~Granted(t) /\ run[t].abort = "none"
                      /\ run[t].pc \in {"ended", "closing"} => task[t].started
  /\ \A w \in Workers : worker[w].pc = "waiting" => ~WorkerGranted(w)
Quiet == up /\ disabling = NoCall /\ Still

-----------------------------------------------------------------------------
(* Tasks *)

\* A new task is queued, its member marked, and its execution asks for the
\* slot of the member at once.
Delegate(t, m) ==
  /\ Quiet /\ task[t].state = "none" /\ member[m] # "disabled"
  /\ \A u \in Tasks : u < t => task[u].state # "none"
  /\ task' = [task EXCEPT ![t] = [state |-> "queued", member |-> m, started |-> FALSE]]
  /\ member' = [member EXCEPT ![m] = "queued"]
  /\ run' = [run EXCEPT ![t] = Run("waiting", "queued")]
  /\ slots' = Asked(slots, m, t)
  /\ UNCHANGED <<worker, disabling, up, crashes, toggles>>

\* A slot was granted: ask for the next.
Ask(t) ==
  /\ run[t].pc = "waiting" /\ Granted(t) /\ run[t].next < 3 /\ run[t].abort = "none"
  /\ run' = [run EXCEPT ![t].next = @ + 1]
  /\ slots' = Asked(slots, Path(t)[run[t].next + 1], t)
  /\ UNCHANGED <<task, member, worker, disabling, up, crashes, toggles>>

\* The last slot was granted.  The row is written from the copy the execution
\* has, and so is the member, unless that copy says it is running already.
Begins(t) == run[t].next = 3 /\ Granted(t) /\ run[t].abort = "none"
Begin(t) ==
  /\ run[t].pc = "waiting" /\ Begins(t)
  /\ task' = [task EXCEPT ![t].state = "running", ![t].started = TRUE]
  /\ member' = IF run[t].seen = "running" THEN member
               ELSE [member EXCEPT ![task[t].member] = "running"]
  /\ run' = [run EXCEPT ![t].pc = "preparing", ![t].seen = "running"]
  /\ UNCHANGED <<worker, slots, disabling, up, crashes, toggles>>

\* Aborted while it waited, or after a slot was granted and before it moved on:
\* what it holds of the team goes back now, the rest when it leaves.
GivenUp(t) == IF t \in slots["agents"].held THEN {} ELSE {"team"}
Refuse(t) ==
  /\ run[t].pc = "waiting" /\ run[t].abort # "none"
  /\ run' = [run EXCEPT ![t].pc = "ended", ![t].end = "cancelled",
                        ![t].next = 1, ![t].abort = "none"]
  /\ slots' = Released(slots, GivenUp(t), t)
  /\ UNCHANGED <<task, member, worker, disabling, up, crashes, toggles>>

\* The worktree is ready (or the task needs none): the timer is set and the
\* member's turn begins.
Prepare(t) ==
  /\ Quiet /\ run[t].pc = "preparing"
  /\ run' = [run EXCEPT ![t].pc = "work"]
  /\ UNCHANGED <<task, member, worker, slots, disabling, up, crashes, toggles>>

Expire(t) ==
  /\ Quiet /\ run[t].pc = "work" /\ run[t].abort = "none"
  /\ run' = [run EXCEPT ![t].abort = "timeout"]
  /\ UNCHANGED <<task, member, worker, slots, disabling, up, crashes, toggles>>

\* The turn needs an approval; nothing sets the state back when it is given.
RequireApproval(t) ==
  /\ Quiet /\ run[t].pc = "work" /\ task[t].state \notin Finals
  /\ task' = [task EXCEPT ![t].state = "waiting_approval"]
  /\ member' = [member EXCEPT ![task[t].member] = "waiting_approval"]
  /\ UNCHANGED <<run, worker, slots, disabling, up, crashes, toggles>>

\* The turn returns or fails, or the worktree cannot be prepared.
Return(t, end) ==
  /\ Quiet
  /\ \/ run[t].pc = "work"
     \/ run[t].pc = "preparing" /\ end = "failed"
  /\ run' = [run EXCEPT ![t].pc = "ended", ![t].end = end, ![t].abort = "none"]
  /\ UNCHANGED <<task, member, worker, slots, disabling, up, crashes, toggles>>

\* The result is written if the row, read again, is not final.  Where a worktree
\* was prepared it is finished before (after, if the turn failed): other events
\* may come first.
Writes(t) == task[t].state \notin Finals
Finish(t) ==
  /\ run[t].pc = "ended" /\ (task[t].started => Quiet)
  /\ task' = IF Writes(t) THEN [task EXCEPT ![t].state = run[t].end] ELSE task
  /\ run' = [run EXCEPT ![t].pc = "closing", ![t].end = "none"]
  /\ UNCHANGED <<member, worker, slots, disabling, up, crashes, toggles>>

\* At last the member is read and, unless disabled, written as idle.
Look(t) ==
  /\ run[t].pc = "closing" /\ (task[t].started => Quiet)
  /\ run' = [run EXCEPT ![t].pc = "leaving", ![t].seen = member[task[t].member]]
  /\ UNCHANGED <<task, member, worker, slots, disabling, up, crashes, toggles>>

Kept(t) == {task[t].member, "team", "agents"}
Leave(t) ==
  /\ run[t].pc = "leaving"
  /\ member' = IF run[t].seen \in {"disabled", "idle"} THEN member
               ELSE [member EXCEPT ![task[t].member] = "idle"]
  /\ slots' = Released(slots, Kept(t), t)
  /\ run' = [run EXCEPT ![t] = NoRun]
  /\ UNCHANGED <<task, worker, disabling, up, crashes, toggles>>

-----------------------------------------------------------------------------
(* Sub-agents *)

\* Started by a member at work, or from outside the team.
Start(w, owner) ==
  /\ Quiet /\ worker[w].state = "none"
  /\ owner # Main => \E t \in Tasks : /\ task[t].member = owner
                                      /\ run[t].pc = "work" /\ run[t].abort = "none"
  /\ worker' = [worker EXCEPT ![w] = Worker("queued", "waiting", owner)]
  /\ slots' = Asked(slots, "agents", w)
  /\ UNCHANGED <<task, member, run, disabling, up, crashes, toggles>>

\* (The code looks again whether it was cancelled since the grant.  No event
\* comes between, and no disabling reaches a sub-agent that was just admitted: it
\* cancels all those of the member with its first task.)
Admit(w) ==
  /\ worker[w].pc = "waiting" /\ WorkerGranted(w)
  /\ worker' = [worker EXCEPT ![w].state = "running", ![w].pc = "work"]
  /\ UNCHANGED <<task, member, run, slots, disabling, up, crashes, toggles>>

ExpireWorker(w) ==
  /\ Quiet /\ worker[w].pc = "work" /\ ~worker[w].timedOut
  /\ worker' = [worker EXCEPT ![w].timedOut = TRUE]
  /\ UNCHANGED <<task, member, run, slots, disabling, up, crashes, toggles>>

\* A worker that can be continued stays idle after its turn.  One cancelled at
\* work is final at once and keeps its slot until its turn returns.
ReturnWorker(w, end) ==
  /\ Quiet /\ worker[w].pc \in {"work", "late"}
  /\ worker' = [worker EXCEPT ![w].pc = "none", ![w].timedOut = FALSE,
                  ![w].state = IF @ = "cancelled" THEN @
                               ELSE IF worker[w].timedOut THEN "timed_out" ELSE end]
  /\ slots' = Released(slots, {"agents"}, w)
  /\ UNCHANGED <<task, member, run, disabling, up, crashes, toggles>>

Send(w) ==
  /\ Quiet /\ worker[w].state = "idle"
  /\ worker' = [worker EXCEPT ![w].state = "queued", ![w].pc = "waiting"]
  /\ slots' = Asked(slots, "agents", w)
  /\ UNCHANGED <<task, member, run, disabling, up, crashes, toggles>>

Close(w) ==
  /\ Quiet /\ worker[w].state = "idle"
  /\ worker' = [worker EXCEPT ![w].state = "closed"]
  /\ UNCHANGED <<task, member, run, slots, disabling, up, crashes, toggles>>

CancelledWorker(w) ==
  [worker[w] EXCEPT !.state = "cancelled",
     !.pc = IF @ = "work" THEN "late" ELSE "none"]
Cancellable(w) == worker[w].state \in {"queued", "running", "idle"}
CancelWorker(w) ==
  /\ Quiet /\ Cancellable(w)
  /\ worker' = [worker EXCEPT ![w] = CancelledWorker(w)]
  /\ slots' = Withdrawn(slots, {w})
  /\ UNCHANGED <<task, member, run, disabling, up, crashes, toggles>>

-----------------------------------------------------------------------------
(* Cancelling and disabling *)

Orphans(m) == {w \in Workers : worker[w].owner = m /\ Cancellable(w)}

\* The execution is aborted, every sub-agent of the member is cancelled (those
\* of its other tasks too), and the row is written.
CancelTask(t) ==
  LET m == task[t].member IN
  /\ run' = IF run[t].pc \in {"waiting", "preparing", "work"} /\ run[t].abort = "none"
            THEN [run EXCEPT ![t].abort = "cancelled"] ELSE run
  /\ worker' = [w \in Workers |-> IF w \in Orphans(m) THEN CancelledWorker(w) ELSE worker[w]]
  /\ slots' = Withdrawn(slots, {t} \cup Orphans(m))
  /\ task' = [task EXCEPT ![t].state = "cancelled"]
  /\ UNCHANGED <<member, up, crashes, toggles>>

Cancel(t) == /\ Quiet /\ task[t].state \in {"queued"} \cup Unsafe
             /\ CancelTask(t) /\ UNCHANGED disabling

Disable(m) ==
  /\ Quiet /\ toggles < MaxToggles
  /\ disabling' = [of |-> m, todo |-> InOrder(Active(m)), seen |-> member[m]]
  /\ toggles' = toggles + 1
  /\ UNCHANGED <<task, member, run, worker, slots, up, crashes>>

\* It cancels the tasks it found one after the other.
DisableNext ==
  /\ disabling.todo # <<>>
  /\ disabling' = [disabling EXCEPT !.todo = Tail(@)]
  /\ LET t == Head(disabling.todo) IN
     IF task[t].state \in Finals
     THEN UNCHANGED <<task, member, run, worker, slots, up, crashes, toggles>>
     ELSE CancelTask(t)

\* Then it writes the member, from the copy read at its start.
DisableLast ==
  /\ disabling # NoCall /\ disabling.todo = <<>>
  /\ member' = IF disabling.seen = "disabled" THEN member
               ELSE [member EXCEPT ![disabling.of] = "disabled"]
  /\ disabling' = NoCall
  /\ UNCHANGED <<task, run, worker, slots, up, crashes, toggles>>

\* Enabling does not look at the tasks of the member.
Enable(m) ==
  /\ Quiet /\ member[m] # "idle" /\ toggles < MaxToggles
  /\ member' = [member EXCEPT ![m] = "idle"] /\ toggles' = toggles + 1
  /\ UNCHANGED <<task, run, worker, slots, disabling, up, crashes>>

-----------------------------------------------------------------------------
(* The end of the process *)

Crash ==
  /\ up /\ crashes < MaxCrashes
  /\ up' = FALSE /\ crashes' = crashes + 1
  /\ run' = [t \in Tasks |-> NoRun] /\ worker' = [w \in Workers |-> NoWorker]
  /\ slots' = NoSlots /\ disabling' = NoCall
  /\ UNCHANGED <<task, member, toggles>>

\* A task that may have acted is closed, one that waited waits again; the
\* members stay as the crash left them.
\* Mutant: tasks that may have acted are scheduled again as well.
RescheduledAll == {t \in Tasks : task[t].state \in {"queued"} \cup Unsafe}
Rescheduled == {t \in Tasks : task[t].state = "queued"}
Restart ==
  /\ ~up /\ up' = TRUE
  /\ task' = [t \in Tasks |-> IF task[t].state \in Unsafe
                              THEN [task[t] EXCEPT !.state = "interrupted"] ELSE task[t]]
  /\ run' = [t \in Tasks |-> IF t \in Rescheduled
                             THEN Run("waiting", member[task[t].member])
                             ELSE NoRun]
  /\ slots' = [s \in Semaphores |->
                 Drained(s, [held |-> {},
                             line |-> InOrder({t \in Rescheduled : task[t].member = s})])]
  /\ UNCHANGED <<member, worker, disabling, crashes, toggles>>

-----------------------------------------------------------------------------
Init ==
  /\ task = [t \in Tasks |-> [state |-> "none", member |-> Main, started |-> FALSE]]
  /\ member = [m \in Members |-> "idle"]
  /\ run = [t \in Tasks |-> NoRun] /\ worker = [w \in Workers |-> NoWorker]
  /\ slots = NoSlots /\ disabling = NoCall
  /\ up = TRUE /\ crashes = 0 /\ toggles = 0

TaskStep(t) ==
  \/ \E m \in Members : Delegate(t, m)
  \/ Ask(t) \/ Begin(t) \/ Refuse(t) \/ Prepare(t) \/ Expire(t) \/ RequireApproval(t)
  \/ \E end \in TurnEnds : Return(t, end)
  \/ Finish(t) \/ Look(t) \/ Leave(t) \/ Cancel(t)
WorkerStep(w) ==
  \/ \E owner \in Spawners : Start(w, owner)
  \/ Admit(w) \/ ExpireWorker(w)
  \/ \E end \in RoundEnds : ReturnWorker(w, end)
  \/ Send(w) \/ Close(w) \/ CancelWorker(w)
Next ==
  \/ \E t \in Tasks : TaskStep(t)
  \/ \E w \in Workers : WorkerStep(w)
  \/ \E m \in Members : Disable(m) \/ Enable(m)
  \/ DisableNext \/ DisableLast \/ Crash \/ Restart

TeamSpec == Init /\ [][Next]_vars

(* The machine goes on.  A chain of synchronous calls runs to its end.  A    *)
(* timer that is due and an execution that has heard an abort get their turn *)
(* in the event loop though other events come between: that is strong        *)
(* fairness, since each event disables the others until its chain is over.   *)
(* A turn nobody aborted owes no answer, and no approval is ever given.      *)
HearsAbort(t) == run[t].abort # "none" /\ \E end \in TurnEnds : Return(t, end)
MovesOn(t) == \/ Ask(t) \/ Begin(t) \/ Refuse(t) \/ Prepare(t) \/ Expire(t)
              \/ HearsAbort(t) \/ Finish(t) \/ Look(t) \/ Leave(t)
WorkerMovesOn(w) == \/ Admit(w) \/ ExpireWorker(w)
                    \/ /\ worker[w].timedOut \/ worker[w].pc = "late"
                       /\ \E end \in RoundEnds : ReturnWorker(w, end)
Fairness == /\ \A t \in Tasks : SF_vars(MovesOn(t))
            /\ \A w \in Workers : SF_vars(WorkerMovesOn(w))
            /\ WF_vars(DisableNext \/ DisableLast) /\ WF_vars(Restart)
FairTeamSpec == TeamSpec /\ Fairness

-----------------------------------------------------------------------------
TeamTypeOK ==
  /\ \A t \in Tasks :
       /\ task[t].state \in {"none", "queued"} \cup Unsafe \cup Finals
       /\ task[t].state # "none" => task[t].member \in Members
       /\ run[t].next \in 1 .. 3 /\ run[t].seen \in MemberState
       /\ run[t].abort \in {"none", "cancelled", "timeout"}
  /\ member \in [Members -> MemberState]
  /\ \A s \in Semaphores :
       /\ Cardinality(slots[s].held) <= Limit[s]
       /\ slots[s].line # <<>> => Cardinality(slots[s].held) = Limit[s]
       /\ IsInjective(slots[s].line) /\ ToSet(slots[s].line) \cap slots[s].held = {}
       /\ ToSet(slots[s].line) \cup slots[s].held
            \subseteq {t \in Tasks : run[t].pc # "none"} \cup {w \in Workers : worker[w].pc # "none"}

(* A member works at one task at a time, and the team at no more than its   *)
(* limit allows, whatever is cancelled, disabled or expires meanwhile: two   *)
(* turns in the lane of a member would mix their transcripts.                *)
AtWork == {t \in Tasks : run[t].pc \in {"preparing", "work", "ended", "closing"} /\ task[t].started}
MemberSerial ==
  /\ Cardinality(AtWork) <= TeamLimit
  /\ \A t, u \in AtWork : task[t].member = task[u].member => t = u

(* A task that is final stays what it is, although its execution returns,   *)
(* fails or expires later; and one that began is never begun again, though  *)
(* the process dies: what it did is not done twice.                          *)
TasksRunOnce ==
  [][\A t \in Tasks :
       /\ task[t].state \in Finals => task'[t].state = task[t].state
       /\ task[t].started => ~(run[t].pc = "waiting" /\ run'[t].pc = "preparing")]_vars

(* Every task comes to a final state and every sub-agent to rest, although  *)
(* no turn need ever return by itself: also when the members hold all the    *)
(* shared slots and wait for sub-agents that wait for a slot.                *)
EverythingEnds ==
  /\ \A t \in Tasks : (task[t].state \in {"queued"} \cup Unsafe) ~> (task[t].state \in Finals)
  /\ \A w \in Workers : (worker[w].state \in {"queued", "running"})
                          ~> (worker[w].state \notin {"queued", "running"})
=============================================================================
