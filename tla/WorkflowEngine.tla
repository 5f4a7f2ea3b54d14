--------------------------- MODULE WorkflowEngine ---------------------------
(***************************************************************************)
(* One execution of a workflow by the engine of packages/orchestration     *)
(* (workflow/engine.ts): what it keeps in memory, and what each of its     *)
(* moves makes of it.  The definition is a graph of steps: agents and      *)
(* tools, conditions that take one of two branches, and foreach steps that *)
(* run an agent once per item of the result of another step.               *)
(*                                                                         *)
(* An execution is a record:                                               *)
(*   phase      where the engine is                                        *)
(*   st         the state of each node, the engine's own snapshot          *)
(*   work       what each unit (an agent, a tool, an item) is doing        *)
(*   tries      the attempts a unit at work has begun in this execution     *)
(*   expired    the steps and items whose own timer has fired              *)
(*   running    the steps started and not yet returned                     *)
(*   woken      a step has returned since the last turn of the loop        *)
(*   cancelled  the manager has aborted the execution                      *)
(*   late       the timer of the workflow has fired                        *)
(*   stuck      the engine has reported a deadlock                         *)
(*   owed       at the end, journal writes the manager still waits for     *)
(***************************************************************************)
EXTENDS Integers, Sequences, FiniteSets, SequencesExt

CONSTANTS Order,           \* the steps, as the definition lists them
          Kind,            \* "agent", "tool", "condition" or "foreach"
          DependsOn,       \* the dependencies of a step
          ContinueOnError, \* the steps whose failure does not matter
          Source,          \* the dependency a condition or foreach reads
          Then, Else,      \* the branches of a condition
          Items,           \* the items of the foreach steps, numbered
          Parent,          \* the foreach step of an item
          MaxAttempts,     \* retry policy: attempts of a unit per execution
          MaxConcurrency,  \* steps of the run at a time, and items of a foreach
          SlotLimit,       \* slots of the scheduler all agents share
          Executions       \* bound: executions alive in the process at a time

Steps      == ToSet(Order)
Nodes      == Steps \cup Items
Foreach    == {s \in Steps : Kind[s] = "foreach"}
Conditions == {s \in Steps : Kind[s] = "condition"}
Units      == {s \in Steps : Kind[s] \in {"agent", "tool"}} \cup Items
AgentUnits == {s \in Steps : Kind[s] = "agent"} \cup Items
ItemsOf(f) == {i \in Items : Parent[i] = f}

(* What the schema of a definition guarantees. *)
ASSUME WorkflowAssumption ==
  /\ Order \in Seq(Steps) /\ IsInjective(Order)
  /\ Items \subseteq Nat /\ Steps \cap Items = {}
  /\ DependsOn \in [Steps -> SUBSET Steps] /\ ContinueOnError \subseteq Steps
  /\ Parent \in [Items -> Foreach]
  /\ \A s \in Conditions \cup Foreach : Source[s] \in DependsOn[s]
  /\ \A c \in Conditions : /\ Then[c] \cap Else[c] = {}
                           /\ \A s \in Then[c] \cup Else[c] : c \in DependsOn[s]
  /\ {MaxAttempts, MaxConcurrency, SlotLimit} \subseteq Nat \ {0}

Failure   == {"failed", "timed_out", "cancelled", "blocked", "interrupted"}
Terminal  == Failure \cup {"completed", "skipped"}
NodeState == Terminal \cup {"none", "pending", "queued", "running"}

\* A foreach step has no instances before it is first expanded.
Fresh == [n \in Nodes |-> IF n \in Items THEN "none" ELSE "pending"]

NoExecution ==
  [phase |-> "none", st |-> Fresh, work |-> [u \in Units |-> "idle"],
   tries |-> [u \in Units |-> 0], expired |-> {}, running |-> {}, woken |-> FALSE,
   cancelled |-> FALSE, late |-> FALSE, stuck |-> FALSE, owed |-> 0]

ExecutionType ==
  [phase : {"none", "create", "run", "drain", "flush"}, st : [Nodes -> NodeState],
   work : [Units -> {"idle", "waiting", "granted", "executing", "backoff"}],
   tries : [Units -> 0 .. MaxAttempts], expired : SUBSET Nodes, running : SUBSET Steps,
   woken : BOOLEAN, cancelled : BOOLEAN, late : BOOLEAN, stuck : BOOLEAN, owed : Nat]

Aborted(x)      == x.cancelled \/ x.late
UnitAborted(x, u) == Aborted(x) \/ (u \in Items /\ Parent[u] \in x.expired)

-----------------------------------------------------------------------------
(* The rules of the graph. *)

Blocked(st, s) == \E d \in DependsOn[s] : st[d] \in Failure /\ d \notin ContinueOnError

Skips(st, s) ==
  /\ DependsOn[s] # {} /\ ~Blocked(st, s)
  /\ \A d \in DependsOn[s] : st[d] \in Terminal
  /\ \E d \in DependsOn[s] : st[d] = "skipped"
  /\ \A d \in DependsOn[s] : st[d] # "completed"

Ready(st, s) ==
  /\ ~Skips(st, s)
  /\ \A d \in DependsOn[s] : \/ st[d] \in {"completed", "skipped"}
                             \/ st[d] \in Terminal /\ d \in ContinueOnError

\* What a pass makes of step s, which finds what it made of the steps before.
Passed(st, s) ==
  IF st[s] # "pending" THEN st
  ELSE IF Blocked(st, s) THEN [st EXCEPT ![s] = "blocked"]
  ELSE IF Skips(st, s) THEN [st EXCEPT ![s] = "skipped"]
  ELSE st

\* One pass over the steps, in the order of the definition.
Sweep(st) ==
  LET after[i \in 0 .. Len(Order)] ==
        IF i = 0 THEN st ELSE Passed(after[i - 1], Order[i])
  IN  after[Len(Order)]

\* The steps a turn starts: the first ready ones, up to the limit of the run.
Starts(x, st) ==
  LET ready == {i \in DOMAIN Order : st[Order[i]] = "pending" /\ Ready(st, Order[i])}
      room  == MaxConcurrency - Cardinality(x.running)
  IN  {Order[i] : i \in {j \in ready : Cardinality({k \in ready : k < j}) < room}}

-----------------------------------------------------------------------------
(* Starting steps. *)

\* exists: the source has left a result.
Matched(st, c) == st[Source[c]] = "completed"

\* The branches that the conditions among S do not take.
NotTaken(st, S) ==
  UNION {IF Matched(st, c) THEN Else[c] ELSE Then[c] : c \in S \cap Conditions}

\* A foreach step that was expanded before keeps its items; otherwise it needs
\* the result of its source.
Expands(st, f) == (\E i \in ItemsOf(f) : st[i] # "none") \/ st[Source[f]] = "completed"

\* The first items not done: one for each worker of the step.
FirstItems(st, f) ==
  {i \in ItemsOf(f) :
     /\ st[i] # "completed"
     /\ Cardinality({j \in ItemsOf(f) : j < i /\ st[j] # "completed"}) < MaxConcurrency}

\* A condition marks the branch it does not take, and only then completes; the
\* two are separate records of the journal.
Marked(st, S) ==
  [n \in Nodes |->
     IF n \in NotTaken(st, S) /\ st[n] \notin Terminal THEN "skipped"
     ELSE IF n \in S \cap Conditions THEN "running"
     ELSE IF n \in S THEN "queued" ELSE st[n]]

Launched(st, S) ==
  [n \in Nodes |->
     IF n \in S \cap Conditions THEN "completed"
     ELSE IF n \in S \cap Foreach THEN IF Expands(st, n) THEN "running" ELSE "failed"
     ELSE IF /\ n \in Items /\ st[n] # "completed"
             /\ Parent[n] \in S /\ Expands(st, Parent[n]) THEN "pending"
     ELSE st[n]]

\* The units that begin to wait for their slots when the steps S start.
Entering(st, S) ==
  (S \cap Units) \cup UNION {FirstItems(st, f) : f \in {g \in S \cap Foreach : Expands(st, g)}}

-----------------------------------------------------------------------------
(* Attempts. *)

SlotsHeld(exec) ==
  Cardinality({h \in Executions \X AgentUnits :
                 exec[h[1]].work[h[2]] \in {"granted", "executing"}})

\* How an attempt ends when the executor answers, or throws: whose timer fired
\* comes before what it said.
Outcome(x, u, answer) ==
  CASE x.late \/ (u \in Items /\ Parent[u] \in x.expired) -> "cancelled"
    [] u \in x.expired    -> "timed_out"
    [] x.cancelled        -> "cancelled"
    [] answer = "result"  -> "completed"
    [] OTHER              -> "failed"

\* Mutant: the attempt that was the last is tried again.
RetriesOnceMore(x, u, answer) ==
  /\ Outcome(x, u, answer) \in {"timed_out", "failed"} /\ answer # "error"
  /\ x.tries[u] <= MaxAttempts

\* The policy names timeouts and provider errors.
Retries(x, u, answer) ==
  /\ \/ Outcome(x, u, answer) = "timed_out"
     \/ Outcome(x, u, answer) = "failed" /\ answer = "provider_error"
  /\ x.tries[u] < MaxAttempts

\* A worker whose item has ended takes the next one, unless the step has been
\* aborted or a failure stops it.
NextItem(x, f) ==
  LET open == {i \in ItemsOf(f) : x.st[i] = "pending" /\ x.work[i] = "idle"}
  IN  IF \/ Aborted(x) \/ f \in x.expired
         \/ f \notin ContinueOnError /\ \E i \in ItemsOf(f) : x.st[i] \in Failure
      THEN {}
      ELSE {i \in open : \A j \in open : i <= j}

\* Mutant: the loop waits for the steps it raced first, whoever returns.
ReturnedUnheard(x, s) == [x EXCEPT !.running = @ \ {s}]

\* The promise of a step ends the race the loop waits for.
Returned(x, s) == [x EXCEPT !.running = @ \ {s}, !.woken = TRUE]

\* The unit leaves its attempt loop in state s.
Leaves(x, u, s) ==
  LET left == [x EXCEPT !.st[u] = s, !.work[u] = "idle", !.tries[u] = 0,
                              !.expired = @ \ {u}]
  IN  IF u \in Items
      THEN [left EXCEPT !.work = [w \in Units |-> IF w \in NextItem(left, Parent[u])
                                                  THEN "waiting" ELSE @[w]]]
      ELSE Returned(left, u)

\* The workers of a foreach step are done: what becomes of it, and of the items
\* nobody took.
ForeachOutcome(x, f) ==
  CASE x.late           -> "cancelled"
    [] f \in x.expired  -> "timed_out"
    [] x.cancelled      -> "cancelled"
    [] f \notin ContinueOnError /\ (\E i \in ItemsOf(f) : x.st[i] \in Failure) -> "failed"
    [] OTHER            -> "completed"

ForeachLeft(x, f) ==
  [n \in Nodes |->
     IF n = f THEN ForeachOutcome(x, f)
     ELSE IF /\ n \in ItemsOf(f) /\ ForeachOutcome(x, f) # "completed"
             /\ x.st[n] \notin Terminal THEN "cancelled"
     ELSE x.st[n]]

-----------------------------------------------------------------------------
(* The end of an execution, and the beginning of the next. *)

\* An abort closes what is open.
Closed(x) ==
  [n \in Nodes |-> IF Aborted(x) /\ x.st[n] \notin Terminal \cup {"none"}
                   THEN "cancelled" ELSE x.st[n]]

RunOutcome(x) ==
  CASE x.late      -> "timed_out"
    [] x.cancelled -> "cancelled"
    [] x.stuck \/ (\E s \in Steps \ ContinueOnError : Closed(x)[s] \in Failure \ {"interrupted"})
                   -> "failed"
    [] OTHER       -> "completed"

\* Mutant: a resumed run starts everything again.
ResumedAll(st) == [n \in Nodes |-> IF n \in Items /\ st[n] = "none" THEN "none" ELSE "pending"]

\* What a resumed run keeps of the one before.
Resumed(st) ==
  [n \in Nodes |-> IF \/ st[n] \in {"completed", "none"}
                      \/ n \in Steps /\ st[n] = "skipped"
                      \/ n \in Items /\ st[Parent[n]] \in {"completed", "skipped"}
                   THEN st[n] ELSE "pending"]
=============================================================================
