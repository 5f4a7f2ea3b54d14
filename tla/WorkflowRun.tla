----------------------------- MODULE WorkflowRun -----------------------------
(***************************************************************************)
(* One workflow run as its manager keeps it (workflow/manager.ts): started,*)
(* cancelled, executed by the engine (the module WorkflowEngine), written  *)
(* to its journal one snapshot after the other (storage workflow-store.ts),*)
(* restored after the death of the process and resumed by the user.        *)
(*                                                                         *)
(* The manager's snapshot follows the engine's; the journal follows the    *)
(* manager's behind a queue of writes that a crash loses.  Every move of   *)
(* an execution reports through one callback (Reports), which a settled    *)
(* run ignores.                                                            *)
(***************************************************************************)
EXTENDS WorkflowEngine

CONSTANTS Patient,     \* clients wait for a run to be quiet before they resume it
          MaxWrites,   \* bound: snapshots waiting for the journal
          MaxEvents    \* bound: cancels, resumes, crashes, failed creates and writes

ASSUME RunAssumption == /\ Patient \in BOOLEAN
                        /\ MaxWrites \in Nat \ {0} /\ MaxEvents \in Nat

VARIABLES live,    \* the manager's record of the run
          exec,    \* the executions in the process
          writes,  \* snapshots not yet in the journal, oldest first
          journal, \* the last snapshot in the journal
          events   \* how many of the bounded events happened

vars == <<live, exec, writes, journal, events>>

\* The manager's record: the process has it or not, the snapshot, whether the
\* last execution has settled, whether a cancel was asked since the last
\* resume, the executions its controller aborts ({}: it has none), a failed write.
NoSnapshot == [state |-> "none", st |-> Fresh]
NoRecord == [known |-> FALSE, snap |-> NoSnapshot, settled |-> TRUE,
             cancelAsked |-> FALSE, controls |-> {}, writeFailed |-> FALSE]

\* A journal without its first record, which bears the request: no restart finds
\* its run, whatever is appended.
Headless == [state |-> "headless", st |-> Fresh]

RunTerminal == {"completed", "failed", "cancelled", "timed_out", "interrupted"}
Resumable   == RunTerminal \ {"completed"}
Snapshots   == [state : {"none", "headless", "running"} \cup RunTerminal,
                st : [Nodes -> NodeState]]

WorkflowTypeOK ==
  /\ live \in [known : BOOLEAN, snap : Snapshots, settled : BOOLEAN, cancelAsked : BOOLEAN,
               controls : SUBSET Executions, writeFailed : BOOLEAN]
  /\ exec \in [Executions -> ExecutionType]
  /\ writes \in Seq(Snapshots) /\ Len(writes) <= MaxWrites
  /\ journal \in Snapshots
  /\ events \in 0 .. MaxEvents

Init ==
  /\ live = NoRecord /\ journal = NoSnapshot /\ writes = <<>>
  /\ exec = [e \in Executions |-> NoExecution]
  /\ events = 0

Event   == events < MaxEvents /\ events' = events + 1
Room(n) == Len(writes) + n <= MaxWrites

\* The engine's callback: the snapshot becomes the run's and is queued for the
\* journal; a cancelled run does not look running again.
Reports(snaps) ==
  LET shown(s) == IF live.cancelAsked /\ s.state = "running"
                  THEN [s EXCEPT !.state = "cancelled"] ELSE s
  IN  IF live.settled THEN UNCHANGED <<live, writes>>
      ELSE /\ Room(Len(snaps))
           /\ live' = [live EXCEPT !.snap = shown(snaps[Len(snaps)])]
           /\ writes' = writes \o [i \in 1 .. Len(snaps) |-> shown(snaps[i])]

\* Execution e becomes x and reports its steps.
Becomes(e, x) ==
  /\ exec' = [exec EXCEPT ![e] = x]
  /\ Reports(<<[state |-> "running", st |-> x.st]>>)
  /\ UNCHANGED <<journal, events>>

\* Execution e becomes x, and its snapshot has not changed.
Silently(e, x) ==
  /\ exec' = [exec EXCEPT ![e] = x]
  /\ UNCHANGED <<live, writes, journal, events>>

-----------------------------------------------------------------------------
(* The clients. *)

Start ==
  /\ ~live.known /\ journal = NoSnapshot /\ events = 0
  /\ \E e \in Executions :
       /\ live' = [NoRecord EXCEPT !.known = TRUE, !.settled = FALSE, !.controls = {e},
                                   !.snap = [state |-> "running", st |-> Fresh]]
       /\ exec' = [exec EXCEPT ![e].phase = "create"]
  /\ writes' = <<live'.snap>>
  /\ UNCHANGED <<journal, events>>

Cancel ==
  /\ live.known /\ ~live.settled /\ Room(1)
  /\ Event
  /\ live' = [live EXCEPT !.cancelAsked = TRUE, !.snap.state = "cancelled"]
  /\ exec' = [e \in Executions |-> IF e \in live.controls
                                   THEN [exec[e] EXCEPT !.cancelled = TRUE] ELSE exec[e]]
  /\ writes' = Append(writes, live'.snap)
  /\ UNCHANGED journal

Creating == {e \in Executions : exec[e].phase = "create"}

\* The code looks at the state of the run, not at whether its execution has settled.
\* An execution that still waits for the journal will take the new controller.
Resume ==
  /\ live.known /\ live.snap.state \in Resumable /\ Room(1)
  /\ Patient => live.settled
  /\ Event
  /\ \E e \in Executions :
       /\ exec[e] = NoExecution
       /\ exec' = [[d \in Executions |->
                       IF d \in Creating THEN [exec[d] EXCEPT !.cancelled = FALSE] ELSE exec[d]]
                     EXCEPT ![e].phase = "run", ![e].woken = TRUE,
                            ![e].st = Resumed(live.snap.st)]
       /\ live' = [live EXCEPT !.settled = FALSE, !.cancelAsked = FALSE,
                     !.controls = {e} \cup Creating, !.writeFailed = FALSE,
                     !.snap = [state |-> "running", st |-> Resumed(live.snap.st)]]
  /\ writes' = Append(writes, live'.snap)
  /\ UNCHANGED journal

-----------------------------------------------------------------------------
(* The beginning of an execution. *)

\* The catch block and the finally block of execute, with the queue at that time.
Throws(queue, failed) ==
  LET bad == [live.snap EXCEPT !.state = IF live.cancelAsked THEN "cancelled" ELSE "failed"]
  IN  /\ Len(queue) < MaxWrites
      /\ live' = [live EXCEPT !.settled = TRUE, !.controls = {}, !.snap = bad,
                              !.writeFailed = failed]
      /\ writes' = Append(queue, bad)

\* When the journal has the run the controller is looked up, and the engine begins.
Created(e) ==
  /\ exec[e].phase = "create" /\ journal \notin {NoSnapshot, Headless}
  /\ IF e \in live.controls
     THEN Becomes(e, [exec[e] EXCEPT !.phase = "run", !.woken = TRUE])
     ELSE /\ Throws(writes, live.writeFailed)
          /\ exec' = [exec EXCEPT ![e] = NoExecution]
          /\ UNCHANGED <<journal, events>>

\* The next n snapshots have left the queue.
Flushed(n) ==
  [e \in Executions |-> [exec[e] EXCEPT !.owed = IF @ > n THEN @ - n ELSE 0]]

\* The first record is not written, nor is one that the store has queued behind it.
CreateFails(e) ==
  /\ exec[e].phase = "create" /\ journal = NoSnapshot
  /\ Event
  /\ Throws(SubSeq(writes, 3, Len(writes)), live.writeFailed \/ Len(writes) > 1)
  /\ exec' = [Flushed(2) EXCEPT ![e] = NoExecution]
  /\ journal' = Headless

-----------------------------------------------------------------------------
(* The engine's loop. *)

LoopEnds(x) == Aborted(x) \/ \A s \in Steps : x.st[s] \in Terminal

\* One turn of the loop from the states the sweep has left: the steps S start.
StartSteps(e, swept, S) ==
  \E x \in {exec[e]}, marked \in {Marked(swept, S)} : \E st \in {Launched(marked, S)} :
    LET done    == {s \in S : st[s] \in Terminal}  \* conditions, and a foreach without items
        snap(t) == [state |-> "running", st |-> t]
    IN
    /\ exec' = [exec EXCEPT ![e] =
                  [x EXCEPT !.st = st, !.running = (@ \cup S) \ done, !.woken = done # {},
                            !.work = [u \in Units |-> IF u \in Entering(marked, S)
                                                      THEN "waiting" ELSE @[u]]]]
    /\ IF S \cap Conditions # {} THEN Reports(<<snap(marked), snap(st)>>)
       ELSE IF st # x.st THEN Reports(<<snap(st)>>)
       ELSE UNCHANGED <<live, writes>>
    /\ UNCHANGED <<journal, events>>

\* Nothing runs and nothing can start: what is not terminal is reported as a deadlock.
NothingLeft(e, swept) ==
  LET open == {s \in Steps : swept[s] \notin Terminal}
  IN  Becomes(e, [exec[e] EXCEPT !.phase = "drain", !.stuck = open # {},
                    !.st = [n \in Nodes |-> IF n \in open THEN "blocked" ELSE swept[n]]])

Turn(e) ==
  /\ exec[e].phase = "run" /\ exec[e].woken
  /\ IF LoopEnds(exec[e]) THEN Silently(e, [exec[e] EXCEPT !.phase = "drain"])
     ELSE \E swept \in {Sweep(exec[e].st)} : \E S \in {Starts(exec[e], swept)} :
            IF exec[e].running \cup S = {} THEN NothingLeft(e, swept)
            ELSE StartSteps(e, swept, S)

\* Mutant: the engine returns without waiting for the steps it has aborted.
DrainedAnyway(x) == TRUE

Drained(x) == x.running = {}

\* A settled run ignores the callback; the snapshot is taken over, and not written,
\* when its revision is the higher one.
Finish(e) ==
  LET x == exec[e]
      snap == [state |-> RunOutcome(x), st |-> Closed(x)]
  IN
  /\ x.phase = "drain" /\ Drained(x)
  /\ IF live.settled
     THEN \E s \in {live.snap, snap} : live' = [live EXCEPT !.snap = s] /\ UNCHANGED writes
     ELSE Reports(<<snap>>)
  /\ exec' = [exec EXCEPT ![e] = [x EXCEPT !.phase = "flush", !.st = snap.st,
                                           !.owed = Len(writes')]]
  /\ UNCHANGED <<journal, events>>

\* The timer of the run fires while the engine is in its loop.
RunTimer(e) ==
  /\ exec[e].phase \in {"run", "drain"} /\ ~exec[e].late
  /\ Silently(e, [exec[e] EXCEPT !.late = TRUE])
-----------------------------------------------------------------------------
(* The attempts of the units. *)

\* The unit's place in the queue of the scheduler has come; a tool waits for none.
Grant(e, u) ==
  /\ exec[e].work[u] = "waiting" /\ ~UnitAborted(exec[e], u)
  /\ u \in AgentUnits => SlotsHeld(exec) < SlotLimit
  /\ Silently(e, [exec[e] EXCEPT !.work[u] = "granted"])

\* An aborted wait is rejected.
Rejected(e, u) ==
  /\ exec[e].work[u] = "waiting" /\ UnitAborted(exec[e], u)
  /\ Becomes(e, Leaves(exec[e], u, "cancelled"))

\* The signal is looked at again when the wait is over.
GivesUp(x, u) == UnitAborted(x, u)

\* The state of the node is left as it is when the loop is left here.
Begin(e, u) ==
  LET x == exec[e]
  IN
  /\ x.work[u] = "granted"
  /\ IF GivesUp(x, u) THEN Silently(e, Leaves(x, u, x.st[u]))
     ELSE Becomes(e, [x EXCEPT !.work[u] = "executing", !.st[u] = "running", !.tries[u] = @ + 1])

StepTimer(e, n) ==
  /\ n \in Units => exec[e].work[n] = "executing"
  /\ n \in Steps \ Units => n \in Foreach /\ exec[e].st[n] = "running"
  /\ n \notin exec[e].expired
  /\ Silently(e, [exec[e] EXCEPT !.expired = @ \cup {n}])

\* The executor answers; a failure the policy names is tried again after a
\* pause, which an abort refuses.
Answer(e, u) ==
  LET x == exec[e]
  IN
  /\ x.work[u] = "executing"
  /\ \E answer \in {"result", "provider_error", "error"} :
       IF Retries(x, u, answer) /\ ~UnitAborted(x, u)
       THEN Becomes(e, [x EXCEPT !.work[u] = "backoff", !.st[u] = "queued",
                                 !.expired = @ \ {u}])
       ELSE Becomes(e, Leaves(x, u, IF Retries(x, u, answer) THEN "cancelled"
                                    ELSE Outcome(x, u, answer)))

PauseEnds(e, u) ==
  /\ exec[e].work[u] = "backoff"
  /\ IF UnitAborted(exec[e], u) THEN Becomes(e, Leaves(exec[e], u, "cancelled"))
     ELSE Silently(e, [exec[e] EXCEPT !.work[u] = "waiting"])

\* All workers of the foreach step have returned.
ForeachEnds(e, f) ==
  LET x == exec[e]
  IN
  /\ f \in x.running /\ \A i \in ItemsOf(f) : x.work[i] = "idle"
  /\ Becomes(e, [Returned(x, f) EXCEPT !.st = ForeachLeft(x, f), !.expired = @ \ {f}])

-----------------------------------------------------------------------------
(* The journal, and the end of an execution. *)

Write ==
  /\ writes # <<>>
  /\ journal' = IF journal = Headless THEN Headless ELSE Head(writes)
  /\ writes' = Tail(writes) /\ exec' = Flushed(1)
  /\ UNCHANGED <<live, events>>

\* A later snapshot may still be written: the queue goes on after an error.
WriteFails ==
  /\ writes # <<>> /\ journal # NoSnapshot
  /\ Event
  /\ writes' = Tail(writes) /\ exec' = Flushed(1)
  /\ live' = [live EXCEPT !.writeFailed = TRUE]
  /\ UNCHANGED journal

\* Mutant: the run settles while its last snapshots wait for the journal.
SettlesUnwritten(x) == TRUE

Settles(x) == x.owed = 0

\* A failed write throws, whoever settled the run before.
Settle(e) ==
  /\ exec[e].phase = "flush" /\ Settles(exec[e])
  /\ IF live.writeFailed THEN Throws(writes, TRUE)
     ELSE live' = [live EXCEPT !.settled = TRUE, !.controls = {}] /\ UNCHANGED writes
  /\ exec' = [exec EXCEPT ![e] = NoExecution]
  /\ UNCHANGED <<journal, events>>

-----------------------------------------------------------------------------
(* The death of the process. *)

Crash ==
  /\ live.known
  /\ Event
  /\ live' = NoRecord /\ writes' = <<>>
  /\ exec' = [e \in Executions |-> NoExecution]
  /\ UNCHANGED journal

Interrupted(snap) ==
  IF snap.state \in RunTerminal THEN snap
  ELSE [state |-> "interrupted",
        st |-> [n \in Nodes |-> IF n \in Steps /\ snap.st[n] \in {"running", "queued"}
                                THEN "interrupted" ELSE snap.st[n]]]

\* The interruption is in the journal before the run is known again.
Restore ==
  /\ ~live.known /\ journal \notin {NoSnapshot, Headless}
  /\ journal' = Interrupted(journal)
  /\ live' = [NoRecord EXCEPT !.known = TRUE, !.snap = Interrupted(journal)]
  /\ UNCHANGED <<exec, writes, events>>

-----------------------------------------------------------------------------
Engine ==
  \E e \in Executions :
    \/ Created(e) \/ Turn(e) \/ Finish(e) \/ Settle(e)
    \/ \E u \in Units : Grant(e, u) \/ Rejected(e, u) \/ Begin(e, u) \/ PauseEnds(e, u)
    \/ \E f \in Foreach : ForeachEnds(e, f)

World ==
  \/ Start \/ Cancel \/ Resume \/ Crash \/ WriteFails
  \/ \E e \in Executions : \/ CreateFails(e) \/ RunTimer(e)
                           \/ \E n \in Nodes : StepTimer(e, n)
                           \/ \E u \in Units : Answer(e, u)

Next == Engine \/ World \/ Write \/ Restore

\* An executor answers at the latest when its signal is aborted, and the timer
\* of its step sees to that.
TimerFires == \E e \in Executions, u \in Units : StepTimer(e, u)
HearsAbort == \E e \in Executions, u \in Units :
                (u \in exec[e].expired \/ UnitAborted(exec[e], u)) /\ Answer(e, u)

\* The event loop runs what is ready: none of the engine's steps repeats itself.
Fairness ==
  /\ WF_vars(Engine) /\ WF_vars(Write) /\ WF_vars(Restore)
  /\ WF_vars(TimerFires) /\ WF_vars(HearsAbort)

Spec == Init /\ [][Next]_vars /\ Fairness

-----------------------------------------------------------------------------
(* Properties. *)

\* What a settled run promises to whoever waits for it (quiesceSession, the end
\* of a session): no execution of it is under way, and the engine has returned
\* from none before the last of its units was at rest.
QuietWhenSettled ==
  \A e \in Executions :
    /\ live.settled => exec[e].phase = "none"
    /\ exec[e].phase \in {"flush", "none"} => \A u \in Units : exec[e].work[u] = "idle"

\* A run that has settled as completed is so in the journal, step by step: no
\* restart brings it back as interrupted and runs its steps again.  A journal that
\* lost its first record brings nothing back.
CompletedIsDurable ==
  live.settled /\ live.snap.state = "completed" => journal \in {live.snap, Headless}

\* The code does not promise that a restart finds the completed run, and no run
\* claims it: one whose create failed can be resumed, completes without an error,
\* and is in no journal that can be read.
CompletedIsFound ==
  live.settled /\ live.snap.state = "completed" => journal # Headless

\* A step or item that the journal has as completed never begins another
\* attempt, whatever crashes, cancels and resumes come in between.
CompletedNeverReruns ==
  [][\A e \in Executions, u \in Units :
       exec[e].work[u] # "executing" /\ exec'[e].work[u] = "executing"
         => journal.st[u] # "completed"]_vars

\* Every execution comes to its end, and the run it belongs to settles.
EveryExecutionEnds ==
  \A e \in Executions : exec[e].phase # "none" ~> exec[e].phase = "none"
=============================================================================
