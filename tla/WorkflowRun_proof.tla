-------------------------- MODULE WorkflowRun_proof --------------------------
(***************************************************************************)
(* What a workflow run promises, for any definition, limits and number of  *)
(* executions: the engine returns at rest; and, when clients wait for a    *)
(* run to be quiet before they resume it, a settled run has no execution,  *)
(* a completed one is so in the journal, and what is done is not done      *)
(* again.                                                                  *)
(*                                                                         *)
(* The proofs have two layers.  Moved says what the engine's steps, timers *)
(* and executors do to an execution under way; each of them is shown once  *)
(* to be a Moved step.  The invariant is then kept by Moved and by the few *)
(* steps of the manager and the journal.                                   *)
(***************************************************************************)
EXTENDS WorkflowRun, NumberLemmas, SequenceTheorems

(* What a sweep may do to the states of the nodes.                            *)
Swept(st, t) ==
  /\ t \in [Nodes -> NodeState]
  /\ \A n \in Nodes : t[n] = st[n] \/ (st[n] = "pending" /\ t[n] \in {"blocked", "skipped"})

\* The step a unit belongs to.
Owner(u) == IF u \in Items THEN Parent[u] ELSE u

Busy(x, u) == x.work[u] # "idle"

\* An execution between two of its steps: a unit at work belongs to a step the
\* engine waits for, is not completed, and has an attempt left when one may begin;
\* it waits for a foreach step that is running.
ExecOK(x) ==
  /\ x \in ExecutionType
  /\ \A u \in Units : /\ ~Busy(x, u) => x.tries[u] = 0
                      /\ x.work[u] \in {"waiting", "granted", "backoff"} => x.tries[u] < MaxAttempts
                      /\ Busy(x, u) => Owner(u) \in x.running /\ x.st[u] # "completed"
  /\ \A s \in x.running : x.st[s] # "pending"
  /\ \A f \in Foreach : x.st[f] = "running" => f \in x.running
  /\ x.phase \in {"none", "create", "flush"} => x.running = {}
  /\ x.phase = "none" => x = NoExecution

\* What holds whoever resumes when.  A cancel reaches only executions under way.
RunTypes ==
  /\ WorkflowTypeOK
  /\ \A e \in Executions : ExecOK(exec[e])
  /\ \A e \in live.controls : exec[e].phase # "none"
  /\ ~live.known => \A e \in Executions : exec[e].phase = "none"

\* One execution at a time, and only of a run that has not settled.
Alone == \A e \in Executions :
           exec[e].phase # "none" => /\ ~live.settled /\ live.known
                                     /\ \A d \in Executions \ {e} : exec[d].phase = "none"

\* The snapshot that will be in the journal once the queue is empty is the
\* manager's, but for a failed write or a lost first record.  When the engine has
\* returned from a completed run, every snapshot in the queue is one the manager
\* waits for.
Newest == IF writes = <<>> THEN journal ELSE writes[Len(writes)]

JournalOK ==
  /\ ~live.known => live = NoRecord /\ writes = <<>>
  /\ live.known /\ ~live.writeFailed
       => Newest = live.snap \/ (writes = <<>> /\ journal = Headless)
  /\ \A e \in Executions :
       exec[e].phase = "flush" /\ ~live.writeFailed /\ live.snap.state = "completed"
         => Len(writes) <= exec[e].owed
  /\ live.settled /\ live.snap.state = "completed"
       => writes = <<>> /\ journal \in {live.snap, Headless}

\* What st says is done is done in later.
Keeps(st, later) == \A u \in Units : st[u] = "completed" => later[u] = "completed"

\* What was done when a snapshot was written is done in all that came later: from
\* the journal through its queue and the manager to the engine.
HistoryOK ==
  /\ live.known => /\ Keeps(journal.st, live.snap.st)
                   /\ \A i \in DOMAIN writes : Keeps(writes[i].st, live.snap.st)
  /\ \A e \in Executions : exec[e].phase # "none" => Keeps(live.snap.st, exec[e].st)

RunInv == RunTypes /\ Alone /\ JournalOK /\ HistoryOK
-----------------------------------------------------------------------------
(* The sweep.                                                                 *)

LEMMA PassedOne ==
    ASSUME NEW st \in [Nodes -> NodeState], NEW s \in Steps
    PROVE  Swept(st, Passed(st, s))
BY DEF Swept, Passed, Nodes, NodeState, Terminal, Failure

LEMMA SweptOn ==
    ASSUME NEW a, NEW b, NEW c, Swept(a, b), Swept(b, c)
    PROVE  Swept(a, c)
BY DEF Swept

(* A pass has a result: the function that Sweep applies exists, built one     *)
(* step after the other.                                                      *)
LEMMA PassExists ==
    ASSUME NEW st, NEW N \in Nat
    PROVE  \E g : g = [i \in 0 .. N |-> IF i = 0 THEN st ELSE Passed(g[i - 1], Order[i])]
<1> DEFINE Built(g, n) == g = [i \in 0 .. n |-> IF i = 0 THEN st
                                                ELSE Passed(g[i - 1], Order[i])]
           Bad == {n \in Nat : ~\E g : Built(g, n)}
<1>1. CASE Bad = {}
  BY <1>1
<1>2. CASE Bad # {}
  <2>1. PICK m \in Bad : \A n \in Bad : m <= n
    <3> HIDE DEF Bad
    <3>1. Bad \subseteq Nat
      BY DEF Bad
    <3> QED BY <1>2, <3>1, LeastExists
  <2>2. m \in Nat /\ ~\E g : Built(g, m)
    BY <2>1
  <2>3. m # 0
    <3>1. Built([i \in 0 .. 0 |-> st], 0)
      OBVIOUS
    <3> QED BY <2>2, <3>1
  <2>4. \E g : Built(g, m - 1)
    <3> HIDE DEF Built
    <3>1. m - 1 \in Nat /\ m - 1 \notin Bad
      BY <2>1, <2>2, <2>3
    <3> QED BY <3>1
  <2>5. PICK g : Built(g, m - 1)
    BY <2>4
  <2> DEFINE h == [i \in 0 .. m |-> IF i < m THEN g[i] ELSE Passed(g[m - 1], Order[m])]
  <2>6. \A i \in 0 .. m - 1 : g[i] = IF i = 0 THEN st ELSE Passed(g[i - 1], Order[i])
    <3> HIDE DEF Bad
    <3> QED BY <2>2, <2>5
  <2>7. \A i \in 0 .. m : h[i] = IF i = 0 THEN st ELSE Passed(h[i - 1], Order[i])
    <3>1. SUFFICES ASSUME NEW i \in 0 .. m
                   PROVE  h[i] = IF i = 0 THEN st ELSE Passed(h[i - 1], Order[i])
      OBVIOUS
    <3>2. CASE i < m
      <4>1. i \in 0 .. m - 1 /\ h[i] = g[i]
        BY <2>2, <3>2
      <4>2. CASE i = 0
        BY <2>6, <4>1, <4>2
      <4>3. CASE i # 0
        <5>1. i - 1 \in 0 .. m /\ i - 1 < m
          BY <2>2, <3>2, <4>3
        <5>2. h[i - 1] = g[i - 1]
          BY <5>1
        <5> QED BY <2>6, <4>1, <4>3, <5>2
      <4> QED BY <4>2, <4>3
    <3>3. CASE ~(i < m)
      <4>1. i = m /\ m \in 0 .. m /\ m - 1 \in 0 .. m /\ m - 1 < m
        BY <2>2, <2>3, <3>3
      <4>2. h[m] = Passed(g[m - 1], Order[m]) /\ h[m - 1] = g[m - 1]
        BY <4>1
      <4> QED BY <2>3, <4>1, <4>2
    <3> QED BY <3>2, <3>3
  <2>8. Built(h, m)
    <3>1. h = [i \in 0 .. m |-> h[i]]
      OBVIOUS
    <3> HIDE DEF h
    <3> QED BY <2>7, <3>1
  <2> QED BY <2>2, <2>8
<1> QED BY <1>1, <1>2

LEMMA SweepSwept ==
    ASSUME NEW st \in [Nodes -> NodeState]
    PROVE  Swept(st, Sweep(st))
<1> DEFINE N == Len(Order)
           after == CHOOSE g : g = [i \in 0 .. N |-> IF i = 0 THEN st
                                                     ELSE Passed(g[i - 1], Order[i])]
<1>1. Sweep(st) = after[N]
  BY DEF Sweep
<1>2. N \in Nat /\ \A i \in 1 .. N : Order[i] \in Steps
  BY WorkflowAssumption
<1> HIDE DEF N
<1>3. after = [i \in 0 .. N |-> IF i = 0 THEN st ELSE Passed(after[i - 1], Order[i])]
  BY <1>2, PassExists
<1> HIDE DEF after
<1>4. /\ after[0] = st
      /\ \A i \in 1 .. N : after[i] = Passed(after[i - 1], Order[i])
  <2>1. \A i \in 0 .. N : after[i] = IF i = 0 THEN st ELSE Passed(after[i - 1], Order[i])
    BY <1>3
  <2>2. 0 \in 0 .. N /\ \A i \in 1 .. N : i \in 0 .. N /\ i # 0
    BY <1>2
  <2> QED BY <2>1, <2>2
<1> DEFINE Bad == {i \in 0 .. N : ~Swept(st, after[i])}
<1>5. CASE Bad = {}
  BY <1>1, <1>2, <1>5
<1>6. CASE Bad # {}
  <2>1. Bad \subseteq Nat
    BY <1>2
  <2>2. PICK m \in Bad : \A i \in Bad : m <= i
    <3> HIDE DEF Bad
    <3> QED BY <1>6, <2>1, LeastExists
  <2>3. m \in 0 .. N /\ ~Swept(st, after[m])
    OBVIOUS
  <2>4. m # 0
    <3>1. Swept(st, st)
      BY DEF Swept
    <3> QED BY <1>4, <2>3, <3>1
  <2>5. m \in 1 .. N /\ m - 1 \in 0 .. N /\ m - 1 \notin Bad
    BY <1>2, <2>2, <2>3, <2>4
  <2>6. Swept(st, after[m - 1])
    BY <2>5
  <2>7. Swept(after[m - 1], after[m])
    <3>1. after[m - 1] \in [Nodes -> NodeState] /\ Order[m] \in Steps
      BY <1>2, <2>5, <2>6 DEF Swept
    <3>2. after[m] = Passed(after[m - 1], Order[m])
      BY <1>4, <2>5
    <3> HIDE DEF Bad
    <3> QED BY <3>1, <3>2, PassedOne
  <2> QED BY <2>3, <2>6, <2>7, SweptOn
<1> QED BY <1>5, <1>6
-----------------------------------------------------------------------------
(* Executions.                                                                *)

LEMMA UnitFacts ==
    /\ Units \subseteq Nodes /\ Steps \subseteq Nodes /\ Items \subseteq Units
    /\ Foreach \subseteq Steps /\ Conditions \subseteq Steps
    /\ Units \cap Foreach = {} /\ Units \cap Conditions = {}
    /\ \A u \in Units : Owner(u) \in Steps
    /\ \A u \in Units \ Items : Owner(u) = u
    /\ \A i \in Items : Owner(i) = Parent[i] /\ Parent[i] \in Foreach /\ i \notin Steps
    /\ \A f \in Foreach : \A i \in ItemsOf(f) : i \in Items /\ Parent[i] = f
<1>1. Parent \in [Items -> Foreach] /\ Steps \cap Items = {}
  BY WorkflowAssumption
<1>2. \A i \in Items : Parent[i] \in Foreach
  BY <1>1
<1>3. Units \cap Foreach = {} /\ Units \cap Conditions = {}
  BY <1>1 DEF Units, Foreach, Conditions
<1>4. Foreach \subseteq Steps
  BY DEF Foreach
<1>5. \A u \in Units : u \in Steps \/ u \in Items
  BY DEF Units
<1>6. \A u \in Units : Owner(u) \in Steps
  BY <1>2, <1>4, <1>5 DEF Owner
<1> QED BY <1>1, <1>2, <1>3, <1>4, <1>5, <1>6 DEF Units, Nodes, Conditions, Owner, ItemsOf

LEMMA ExecFields ==
    ASSUME NEW x \in ExecutionType
    PROVE  /\ x.st \in [Nodes -> NodeState] /\ x.expired \subseteq Nodes
           /\ x.running \subseteq Steps /\ x.owed \in Nat
           /\ \A u \in Units :
                /\ x.work[u] \in {"idle", "waiting", "granted", "executing", "backoff"}
                /\ x.tries[u] \in 0 .. MaxAttempts
           /\ x.phase \in {"none", "create", "run", "drain", "flush"}
           /\ \A n \in Nodes : x.st[n] \in NodeState
BY DEF ExecutionType

LEMMA FreshTyped ==
    /\ Fresh \in [Nodes -> NodeState]
    /\ \A n \in Nodes : Fresh[n] # "completed"
BY DEF Fresh, NodeState

LEMMA NoExecutionOK == ExecOK(NoExecution)
<1>1. MaxAttempts \in Nat \ {0}
  BY WorkflowAssumption
<1>2. NoExecution \in ExecutionType
  <2>1. NoExecution.tries \in [Units -> 0 .. MaxAttempts]
    BY <1>1 DEF NoExecution
  <2> QED BY <2>1, FreshTyped DEF NoExecution, ExecutionType
<1>3. /\ \A u \in Units : NoExecution.work[u] = "idle" /\ NoExecution.tries[u] = 0
      /\ NoExecution.running = {}
      /\ \A f \in Foreach : NoExecution.st[f] = "pending"
  BY UnitFacts DEF NoExecution, Fresh
<1> QED BY <1>2, <1>3 DEF ExecOK, Busy

(* Nothing moves but the engine itself, its timers and its signal.            *)
LEMMA SameWork ==
    ASSUME NEW x, ExecOK(x), NEW y \in ExecutionType,
           y.st = x.st, y.work = x.work, y.tries = x.tries, y.running = x.running,
           y.phase # "none", y.phase \in {"create", "flush"} => x.running = {}
    PROVE  ExecOK(y) /\ Keeps(x.st, y.st)
BY DEF ExecOK, Busy, Keeps

(* No unit is at work once no step runs.                                      *)
LEMMA AllIdle ==
    ASSUME NEW x, ExecOK(x), x.running = {}
    PROVE  \A u \in Units : ~Busy(x, u)
BY DEF ExecOK

LEMMA Rested ==
    ASSUME NEW x, ExecOK(x), x.running = {}, NEW y \in ExecutionType,
           y.work = x.work, y.tries = x.tries, y.running = {}, y.phase # "none",
           \A f \in Foreach : y.st[f] # "running"
    PROVE  ExecOK(y)
<1>1. \A u \in Units : ~Busy(x, u)
  BY AllIdle
<1> QED BY <1>1 DEF ExecOK, Busy

(* A unit at work goes on.                                                    *)
LEMMA UnitMoves ==
    ASSUME NEW x, ExecOK(x), NEW u \in Units, Busy(x, u), NEW y \in ExecutionType,
           y.running = x.running, y.phase = x.phase,
           \A n \in Nodes \ {u} : y.st[n] = x.st[n],
           y.st[u] = x.st[u] \/ y.st[u] \notin {"pending", "completed"},
           \A w \in Units \ {u} : y.work[w] = x.work[w] /\ y.tries[w] = x.tries[w],
           Busy(y, u), y.work[u] \in {"waiting", "granted", "backoff"} => y.tries[u] < MaxAttempts
    PROVE  ExecOK(y) /\ Keeps(x.st, y.st)
<1>1. x.st[u] # "completed" /\ Owner(u) \in x.running /\ x.running # {}
  BY DEF ExecOK
<1>2. \A w \in Units : /\ ~Busy(y, w) => y.tries[w] = 0
                       /\ y.work[w] \in {"waiting", "granted", "backoff"}
                            => y.tries[w] < MaxAttempts
                       /\ Busy(y, w) => Owner(w) \in y.running /\ y.st[w] # "completed"
  <2>1. SUFFICES ASSUME NEW w \in Units
                 PROVE  /\ ~Busy(y, w) => y.tries[w] = 0
                        /\ y.work[w] \in {"waiting", "granted", "backoff"}
                             => y.tries[w] < MaxAttempts
                        /\ Busy(y, w) => Owner(w) \in y.running /\ y.st[w] # "completed"
    OBVIOUS
  <2>2. CASE w = u
    BY <1>1, <2>2
  <2>3. CASE w # u
    <3>1. y.work[w] = x.work[w] /\ y.tries[w] = x.tries[w] /\ y.st[w] = x.st[w]
      BY <2>3, UnitFacts
    <3> QED BY <3>1 DEF ExecOK, Busy
  <2> QED BY <2>2, <2>3
<1>3. \A s \in y.running : y.st[s] # "pending"
  <2>1. SUFFICES ASSUME NEW s \in x.running PROVE y.st[s] # "pending"
    OBVIOUS
  <2>2. x.st[s] # "pending" /\ s \in Nodes
    BY ExecFields, UnitFacts DEF ExecOK
  <2> QED BY <2>2
<1>4. Keeps(x.st, y.st)
  BY <1>1, UnitFacts DEF Keeps
<1>5. \A f \in Foreach : y.st[f] = x.st[f]
  BY UnitFacts
<1> QED BY <1>1, <1>2, <1>3, <1>4, <1>5 DEF ExecOK
-----------------------------------------------------------------------------
(* A turn of the loop.                                                        *)

(* The steps S may start from the states st.                                  *)
Startable(st, S) ==
  /\ S \subseteq Steps
  /\ \A s \in S : /\ st[s] = "pending"
                  /\ \A d \in DependsOn[s] : st[d] \in Terminal

LEMMA StartsReady ==
    ASSUME NEW x, NEW st
    PROVE  Startable(st, Starts(x, st))
<1>1. SUFFICES ASSUME NEW s \in Starts(x, st)
               PROVE  s \in Steps /\ st[s] = "pending" /\ Ready(st, s)
  BY DEF Startable, Ready, Terminal
<1>2. PICK i \in DOMAIN Order : s = Order[i] /\ st[Order[i]] = "pending" /\ Ready(st, Order[i])
  BY DEF Starts
<1>3. s \in Steps
  BY <1>2 DEF Steps, ToSet
<1> QED BY <1>2, <1>3

(* No condition among them can take a branch away from another of them.       *)
LEMMA StartsTaken ==
    ASSUME NEW st, NEW S, Startable(st, S)
    PROVE  S \cap NotTaken(st, S) = {}
<1>1. SUFFICES ASSUME NEW s \in S, s \in NotTaken(st, S) PROVE FALSE
  OBVIOUS
<1>2. PICK c \in S \cap Conditions : s \in Then[c] \cup Else[c]
  BY <1>1 DEF NotTaken
<1>3. c \in DependsOn[s]
  BY <1>2, WorkflowAssumption
<1>4. st[c] = "pending" /\ st[c] \in Terminal
  BY <1>2, <1>3 DEF Startable
<1> QED BY <1>4 DEF Terminal, Failure

LEMMA MarkedStates ==
    ASSUME NEW st \in [Nodes -> NodeState], NEW S, Startable(st, S)
    PROVE  /\ Marked(st, S) \in [Nodes -> NodeState]
           /\ \A n \in Nodes :
                /\ n \in S => Marked(st, S)[n] = IF n \in Conditions THEN "running" ELSE "queued"
                /\ Marked(st, S)[n] = "pending" => st[n] = "pending"
                /\ Marked(st, S)[n] = "running" => n \in Conditions \/ st[n] = "running"
                /\ Marked(st, S)[n] = "completed" <=> st[n] = "completed"
<1> DEFINE m == Marked(st, S)
<1>1. \A n \in Nodes : m[n] = IF n \in NotTaken(st, S) /\ st[n] \notin Terminal THEN "skipped"
                              ELSE IF n \in S \cap Conditions THEN "running"
                              ELSE IF n \in S THEN "queued" ELSE st[n]
  BY DEF Marked
<1>2. m \in [Nodes -> NodeState]
  <2>1. \A n \in Nodes : m[n] \in NodeState
    BY <1>1 DEF NodeState, Terminal
  <2> QED BY <2>1 DEF Marked
<1> HIDE DEF m
<1>3. ASSUME NEW n \in Nodes
      PROVE  /\ n \in S => m[n] = IF n \in Conditions THEN "running" ELSE "queued"
             /\ m[n] = "pending" => st[n] = "pending"
             /\ m[n] = "running" => n \in Conditions \/ st[n] = "running"
             /\ m[n] = "completed" <=> st[n] = "completed"
  <2>1. n \in S => n \notin NotTaken(st, S) /\ st[n] = "pending"
    BY StartsTaken DEF Startable
  <2>2. st[n] = "completed" => st[n] \in Terminal
    BY DEF Terminal
  <2> QED BY <1>1, <2>1, <2>2
<1> QED BY <1>2, <1>3 DEF m

LEMMA LaunchedStates ==
    ASSUME NEW m \in [Nodes -> NodeState], NEW S, S \subseteq Steps
    PROVE  /\ Launched(m, S) \in [Nodes -> NodeState]
           /\ \A u \in Units :
                /\ Launched(m, S)[u] = "completed" <=> m[u] = "completed"
                /\ u \in Steps => Launched(m, S)[u] = m[u]
           /\ \A s \in Steps : Launched(m, S)[s] = "pending" => m[s] = "pending"
           /\ \A f \in S \cap Foreach : Expands(m, f) => Launched(m, S)[f] = "running"
           /\ \A f \in Foreach \ S : Launched(m, S)[f] = m[f]
<1> DEFINE l == Launched(m, S)
<1>1. \A n \in Nodes :
        l[n] = IF n \in S \cap Conditions THEN "completed"
               ELSE IF n \in S \cap Foreach THEN IF Expands(m, n) THEN "running" ELSE "failed"
               ELSE IF /\ n \in Items /\ m[n] # "completed"
                       /\ Parent[n] \in S /\ Expands(m, Parent[n]) THEN "pending"
               ELSE m[n]
  BY DEF Launched
<1>2. l \in [Nodes -> NodeState]
  <2>1. \A n \in Nodes : l[n] \in NodeState
    BY <1>1 DEF NodeState, Terminal, Failure
  <2> QED BY <2>1 DEF Launched
<1> HIDE DEF l
<1>3. /\ \A u \in Units : u \in Nodes /\ u \notin Conditions /\ u \notin Foreach
      /\ \A s \in Steps : s \in Nodes /\ s \notin Items
      /\ Foreach \cap Conditions = {}
  <2>1. Foreach \cap Conditions = {}
    BY DEF Foreach, Conditions
  <2> QED BY <2>1, UnitFacts
<1>4. \A u \in Units : /\ l[u] = "completed" <=> m[u] = "completed"
                       /\ u \in Steps => l[u] = m[u]
  BY <1>1, <1>3
<1>5. \A s \in Steps : l[s] = "pending" => m[s] = "pending"
  BY <1>1, <1>3
<1>6. \A f \in S \cap Foreach : Expands(m, f) => l[f] = "running"
  BY <1>1, <1>3
<1>7. \A f \in Foreach \ S : l[f] = m[f]
  BY <1>1, <1>3, UnitFacts
<1> QED BY <1>2, <1>4, <1>5, <1>6, <1>7 DEF l

\* The execution x once the steps S have started from the states m.
Launch(x, m, S) ==
  LET st   == Launched(m, S)
      done == {s \in S : st[s] \in Terminal}
  IN  [x EXCEPT !.st = st, !.running = (@ \cup S) \ done, !.woken = done # {},
                !.work = [u \in Units |-> IF u \in Entering(m, S) THEN "waiting" ELSE @[u]]]

LEMMA EnteringUnits ==
    ASSUME NEW m, NEW S, S \subseteq Steps, NEW u \in Units, u \in Entering(m, S)
    PROVE  /\ Owner(u) \in S
           /\ u \in Steps \/ (m[u] # "completed" /\ Expands(m, Owner(u)) /\ Owner(u) \in Foreach)
<1>1. CASE u \in S \cap Units
  <2>1. u \notin Items
    BY <1>1, UnitFacts
  <2> QED BY <1>1, <2>1, UnitFacts
<1>2. CASE u \notin S \cap Units
  <2>1. PICK f \in S \cap Foreach : Expands(m, f) /\ u \in FirstItems(m, f)
    BY <1>2 DEF Entering
  <2>2. u \in ItemsOf(f) /\ m[u] # "completed"
    BY <2>1 DEF FirstItems
  <2>3. u \in Items /\ Owner(u) = f
    BY <2>1, <2>2, UnitFacts
  <2> QED BY <2>1, <2>2, <2>3
<1> QED BY <1>1, <1>2

LEMMA LaunchOK ==
    ASSUME NEW x, ExecOK(x), x.phase = "run", NEW t, Swept(x.st, t),
           NEW S, Startable(t, S)
    PROVE  /\ ExecOK(Launch(x, Marked(t, S), S))
           /\ Keeps(x.st, Launched(Marked(t, S), S))
           /\ Keeps(Marked(t, S), Launched(Marked(t, S), S))
<1> DEFINE m    == Marked(t, S)
           l    == Launched(m, S)
           done == {s \in S : l[s] \in Terminal}
           y    == Launch(x, m, S)
<1>1. x \in ExecutionType /\ t \in [Nodes -> NodeState] /\ S \subseteq Steps /\ S \subseteq Nodes
  BY UnitFacts DEF ExecOK, Swept, Startable
<1>2. /\ m \in [Nodes -> NodeState]
      /\ \A n \in Nodes : /\ n \in S => m[n] = IF n \in Conditions THEN "running" ELSE "queued"
                          /\ m[n] = "pending" => t[n] = "pending"
                          /\ m[n] = "running" => n \in Conditions \/ t[n] = "running"
                          /\ m[n] = "completed" <=> t[n] = "completed"
  BY <1>1, MarkedStates
<1> HIDE DEF m
<1>3. /\ l \in [Nodes -> NodeState]
      /\ \A u \in Units : /\ l[u] = "completed" <=> m[u] = "completed"
                          /\ u \in Steps => l[u] = m[u]
      /\ \A s \in Steps : l[s] = "pending" => m[s] = "pending"
      /\ \A f \in S \cap Foreach : Expands(m, f) => l[f] = "running"
      /\ \A f \in Foreach \ S : l[f] = m[f]
  BY <1>1, <1>2, LaunchedStates
<1>4. /\ y \in ExecutionType /\ y.st = l /\ y.running = (x.running \cup S) \ done
      /\ y.tries = x.tries /\ y.phase = "run"
      /\ \A u \in Units : y.work[u] = IF u \in Entering(m, S) THEN "waiting" ELSE x.work[u]
  <2>1. [u \in Units |-> IF u \in Entering(m, S) THEN "waiting" ELSE x.work[u]]
          \in [Units -> {"idle", "waiting", "granted", "executing", "backoff"}]
    BY <1>1, ExecFields
  <2>2. (x.running \cup S) \ done \subseteq Steps
    BY <1>1, ExecFields
  <2> HIDE DEF l
  <2>3. y = [x EXCEPT !.st = l, !.running = (x.running \cup S) \ done, !.woken = done # {},
                      !.work = [u \in Units |-> IF u \in Entering(m, S) THEN "waiting"
                                                ELSE x.work[u]]]
    BY <1>1 DEF Launch, l, ExecutionType
  <2> HIDE DEF done, y
  <2> QED BY <1>1, <1>3, <2>1, <2>2, <2>3 DEF ExecutionType
<1> HIDE DEF l, y
<1>5. S \cap x.running = {}
  <2>1. \A s \in S : t[s] = "pending" /\ s \in Nodes
    BY <1>1 DEF Startable
  <2>2. \A s \in S : x.st[s] = "pending"
    BY <2>1 DEF Swept
  <2> QED BY <2>2 DEF ExecOK
<1>6. \A u \in Units : Owner(u) \in S => ~Busy(x, u) /\ x.tries[u] = 0
  BY <1>5 DEF ExecOK
<1>7. \A u \in Units : u \in Nodes /\ (x.st[u] = "completed" <=> l[u] = "completed")
  <2>1. SUFFICES ASSUME NEW u \in Units
                 PROVE  u \in Nodes /\ (x.st[u] = "completed" <=> l[u] = "completed")
    OBVIOUS
  <2>2. u \in Nodes
    BY UnitFacts
  <2>3. x.st[u] = "completed" <=> t[u] = "completed"
    BY <2>2 DEF Swept
  <2> QED BY <1>2, <1>3, <2>2, <2>3
<1>8. ASSUME NEW u \in Units, u \in Entering(m, S)
      PROVE  Owner(u) \in y.running /\ y.st[u] # "completed" /\ x.tries[u] = 0
  <2>1. /\ Owner(u) \in S
        /\ u \in Steps \/ (m[u] # "completed" /\ Expands(m, Owner(u)) /\ Owner(u) \in Foreach)
    BY <1>1, <1>8, EnteringUnits
  <2>2. x.tries[u] = 0
    BY <1>6, <2>1
  <2>3. CASE u \in Steps
    <3>1. Owner(u) = u /\ u \in Nodes /\ u \notin Conditions
      BY <2>3, UnitFacts
    <3>2. l[u] = "queued"
      BY <1>2, <1>3, <2>1, <2>3, <3>1
    <3>3. u \notin done
      BY <3>2 DEF Terminal, Failure
    <3> QED BY <1>4, <2>1, <2>2, <3>1, <3>2, <3>3
  <2>4. CASE u \notin Steps
    <3>1. l[Owner(u)] = "running" /\ l[u] # "completed"
      BY <1>3, <2>1, <2>4
    <3>2. Owner(u) \notin done
      BY <3>1 DEF Terminal, Failure
    <3> QED BY <1>4, <2>1, <2>2, <3>1, <3>2
  <2> QED BY <2>3, <2>4
<1>9. MaxAttempts \in Nat \ {0}
  BY WorkflowAssumption
<1>10. ASSUME NEW u \in Units
       PROVE  /\ ~Busy(y, u) => y.tries[u] = 0
              /\ y.work[u] \in {"waiting", "granted", "backoff"} => y.tries[u] < MaxAttempts
              /\ Busy(y, u) => Owner(u) \in y.running /\ y.st[u] # "completed"
  <2>1. CASE u \in Entering(m, S)
    <3>1. y.tries[u] = 0 /\ y.work[u] = "waiting"
      BY <1>4, <1>8, <2>1
    <3> QED BY <1>8, <1>9, <2>1, <3>1 DEF Busy
  <2>2. CASE u \notin Entering(m, S)
    <3>1. y.work[u] = x.work[u] /\ y.tries[u] = x.tries[u]
      BY <1>4, <2>2
    <3>2. /\ ~Busy(x, u) => x.tries[u] = 0
          /\ x.work[u] \in {"waiting", "granted", "backoff"} => x.tries[u] < MaxAttempts
          /\ Busy(x, u) => Owner(u) \in x.running /\ x.st[u] # "completed"
      BY DEF ExecOK
    <3>3. Busy(x, u) => Owner(u) \in y.running /\ y.st[u] # "completed"
      BY <1>4, <1>5, <1>7, <3>2
    <3> QED BY <3>1, <3>2, <3>3 DEF Busy
  <2> QED BY <2>1, <2>2
<1>11. \A s \in y.running : y.st[s] # "pending"
  <2>1. SUFFICES ASSUME NEW s \in x.running \cup S PROVE l[s] # "pending"
    BY <1>4
  <2>2. s \in Steps /\ s \in Nodes
    BY <1>1, ExecFields, UnitFacts
  <2>3. CASE s \in S
    BY <1>2, <1>3, <2>2, <2>3
  <2>4. CASE s \in x.running
    <3>1. x.st[s] # "pending"
      BY <2>4 DEF ExecOK
    <3>2. t[s] # "pending"
      BY <2>2, <3>1 DEF Swept
    <3> QED BY <1>2, <1>3, <2>2, <3>2
  <2> QED BY <2>3, <2>4
<1>12. \A f \in Foreach : y.st[f] = "running" => f \in y.running
  <2>1. SUFFICES ASSUME NEW f \in Foreach, l[f] = "running"
                 PROVE  f \in (x.running \cup S) \ done
    BY <1>4
  <2>2. f \notin done
    BY <2>1 DEF done, Terminal, Failure
  <2>3. CASE f \in S
    BY <2>2, <2>3
  <2>4. CASE f \notin S
    <3>1. f \in Nodes /\ f \notin Conditions
      BY UnitFacts DEF Foreach, Conditions
    <3>2. t[f] = "running"
      BY <1>2, <1>3, <2>1, <2>4, <3>1
    <3>3. x.st[f] = "running"
      BY <1>1, <3>1, <3>2 DEF Swept
    <3> QED BY <2>2, <3>3 DEF ExecOK
  <2> QED BY <2>3, <2>4
<1>14. ExecOK(y)
  BY <1>4, <1>10, <1>11, <1>12 DEF ExecOK
<1>13. Keeps(x.st, l) /\ Keeps(m, l)
  BY <1>3, <1>7 DEF Keeps
<1> QED BY <1>13, <1>14 DEF m, l, y

(* Nothing runs, and what is left open is blocked.                            *)
Stopped(x, t) ==
  LET open == {s \in Steps : t[s] \notin Terminal}
  IN  [x EXCEPT !.phase = "drain", !.stuck = open # {},
                !.st = [n \in Nodes |-> IF n \in open THEN "blocked" ELSE t[n]]]

LEMMA StoppedOK ==
    ASSUME NEW x, ExecOK(x), x.running = {}, NEW t, Swept(x.st, t)
    PROVE  ExecOK(Stopped(x, t)) /\ Keeps(x.st, Stopped(x, t).st)
<1> DEFINE open == {s \in Steps : t[s] \notin Terminal}
           st   == [n \in Nodes |-> IF n \in open THEN "blocked" ELSE t[n]]
           y    == Stopped(x, t)
<1>1. x \in ExecutionType /\ t \in [Nodes -> NodeState]
  BY DEF ExecOK, Swept
<1>2. st \in [Nodes -> NodeState]
  BY <1>1 DEF NodeState, Terminal, Failure
<1>3. y = [x EXCEPT !.phase = "drain", !.stuck = open # {}, !.st = st]
  BY DEF Stopped
<1>4. \A u \in Units : x.st[u] = "completed" => st[u] = "completed"
  <2>1. SUFFICES ASSUME NEW u \in Units, x.st[u] = "completed" PROVE st[u] = "completed"
    OBVIOUS
  <2>2. u \in Nodes /\ t[u] = "completed"
    BY <2>1, UnitFacts DEF Swept
  <2> QED BY <2>2 DEF Terminal
<1>7. \A f \in Foreach : st[f] # "running"
  <2>1. SUFFICES ASSUME NEW f \in Foreach PROVE st[f] # "running"
    OBVIOUS
  <2>2. f \in Steps /\ f \in Nodes
    BY UnitFacts
  <2> QED BY <2>2 DEF Terminal, Failure
<1> HIDE DEF st, open, y
<1>5. y \in ExecutionType
  BY <1>1, <1>2, <1>3 DEF ExecutionType
<1>6. /\ y.work = x.work /\ y.tries = x.tries /\ y.running = {} /\ y.phase = "drain"
      /\ y.st = st
  BY <1>1, <1>3 DEF ExecutionType
<1> QED BY <1>4, <1>5, <1>6, <1>7, Rested DEF Keeps, y
-----------------------------------------------------------------------------
(* The end of an attempt loop, of a foreach step, of an execution.            *)

Left(x, u, s) ==
  [x EXCEPT !.st[u] = s, !.work[u] = "idle", !.tries[u] = 0, !.expired = @ \ {u}]

LEMMA LeftFields ==
    ASSUME NEW x \in ExecutionType, NEW u \in Units, NEW s \in NodeState
    PROVE  /\ Left(x, u, s) \in ExecutionType
           /\ Left(x, u, s).running = x.running /\ Left(x, u, s).phase = x.phase
           /\ \A n \in Nodes : Left(x, u, s).st[n] = IF n = u THEN s ELSE x.st[n]
           /\ \A w \in Units : /\ Left(x, u, s).work[w] = IF w = u THEN "idle" ELSE x.work[w]
                               /\ Left(x, u, s).tries[w] = IF w = u THEN 0 ELSE x.tries[w]
<1> DEFINE y == Left(x, u, s)
<1>1. u \in Nodes /\ MaxAttempts \in Nat \ {0}
  BY UnitFacts, WorkflowAssumption
<1>2. /\ y.running = x.running /\ y.phase = x.phase /\ y.expired = x.expired \ {u}
      /\ y.st = [x.st EXCEPT ![u] = s] /\ y.work = [x.work EXCEPT ![u] = "idle"]
      /\ y.tries = [x.tries EXCEPT ![u] = 0]
  BY DEF Left, ExecutionType
<1>3. y \in ExecutionType
  <2>1. x.st \in [Nodes -> NodeState] /\ x.expired \subseteq Nodes
        /\ x.work \in [Units -> {"idle", "waiting", "granted", "executing", "backoff"}]
        /\ x.tries \in [Units -> 0 .. MaxAttempts]
    BY DEF ExecutionType
  <2>2. /\ [x.st EXCEPT ![u] = s] \in [Nodes -> NodeState]
        /\ [x.work EXCEPT ![u] = "idle"]
              \in [Units -> {"idle", "waiting", "granted", "executing", "backoff"}]
        /\ [x.tries EXCEPT ![u] = 0] \in [Units -> 0 .. MaxAttempts]
        /\ x.expired \ {u} \subseteq Nodes
    BY <1>1, <2>1
  <2>3. y = [x EXCEPT !.st = [x.st EXCEPT ![u] = s], !.work = [x.work EXCEPT ![u] = "idle"],
                      !.tries = [x.tries EXCEPT ![u] = 0], !.expired = x.expired \ {u}]
    BY DEF Left, ExecutionType
  <2> HIDE DEF y
  <2> QED BY <2>2, <2>3 DEF ExecutionType
<1> HIDE DEF y
<1>4. \A n \in Nodes : y.st[n] = IF n = u THEN s ELSE x.st[n]
  BY <1>2 DEF ExecutionType
<1>5. \A w \in Units : /\ y.work[w] = IF w = u THEN "idle" ELSE x.work[w]
                       /\ y.tries[w] = IF w = u THEN 0 ELSE x.tries[w]
  BY <1>2 DEF ExecutionType
<1> QED BY <1>2, <1>3, <1>4, <1>5 DEF y

LEMMA LeavesOK ==
    ASSUME NEW x, ExecOK(x), NEW u \in Units, Busy(x, u),
           NEW s \in NodeState, s = x.st[u] \/ s # "pending"
    PROVE  /\ ExecOK(Leaves(x, u, s)) /\ Keeps(x.st, Leaves(x, u, s).st)
           /\ Leaves(x, u, s).phase = x.phase
<1> DEFINE left == Left(x, u, s)
           y    == Leaves(x, u, s)
<1>1. x \in ExecutionType /\ Owner(u) \in x.running /\ x.st[u] # "completed" /\ u \in Nodes
      /\ x.running # {} /\ x.running \subseteq Steps
  BY UnitFacts, ExecFields DEF ExecOK
<1>2. /\ left \in ExecutionType /\ left.running = x.running /\ left.phase = x.phase
      /\ \A n \in Nodes : left.st[n] = IF n = u THEN s ELSE x.st[n]
      /\ \A w \in Units : /\ left.work[w] = IF w = u THEN "idle" ELSE x.work[w]
                          /\ left.tries[w] = IF w = u THEN 0 ELSE x.tries[w]
  BY <1>1, LeftFields
<1>3. y = IF u \in Items
          THEN [left EXCEPT !.work = [w \in Units |-> IF w \in NextItem(left, Parent[u])
                                                      THEN "waiting" ELSE @[w]]]
          ELSE Returned(left, u)
  BY DEF Leaves, Left
<1> HIDE DEF left, y
<1>4. \A w \in Units : /\ left.work[w] = "idle" => left.tries[w] = 0
                       /\ left.work[w] \in {"waiting", "granted", "backoff"}
                            => left.tries[w] < MaxAttempts
                       /\ left.work[w] # "idle" =>
                            w # u /\ Owner(w) \in x.running /\ left.st[w] # "completed"
  BY <1>2, UnitFacts DEF ExecOK, Busy
<1>5. Keeps(x.st, left.st)
  BY <1>1, <1>2, UnitFacts DEF Keeps
<1>6. \A r \in x.running : r # u => left.st[r] # "pending"
  <2>1. \A r \in x.running : x.st[r] # "pending" /\ r \in Nodes
    BY <1>1, UnitFacts DEF ExecOK
  <2> QED BY <1>2, <2>1
<1>7. x.phase \notin {"none", "create", "flush"}
  BY <1>1 DEF ExecOK
<1>10. \A g \in Foreach : left.st[g] = "running" => g \in x.running /\ g # u
  <2>1. \A g \in Foreach : g # u /\ g \in Nodes
    BY UnitFacts
  <2> QED BY <1>2, <2>1 DEF ExecOK
<1>8. CASE u \in Items
  <2> DEFINE f    == Parent[u]
             work == [w \in Units |-> IF w \in NextItem(left, f) THEN "waiting" ELSE left.work[w]]
  <2>1. f \in x.running /\ f \in Foreach /\ u \notin Steps /\ Items \subseteq Units
    BY <1>1, <1>8, UnitFacts
  <2>2. y = [left EXCEPT !.work = work]
    BY <1>2, <1>3, <1>8 DEF ExecutionType
  <2>3. work \in [Units -> {"idle", "waiting", "granted", "executing", "backoff"}]
    BY <1>2, ExecFields
  <2>4. y \in ExecutionType
    <3> HIDE DEF work
    <3> QED BY <1>2, <2>2, <2>3 DEF ExecutionType
  <2>5. /\ y.running = x.running /\ y.phase = x.phase /\ y.st = left.st /\ y.tries = left.tries
        /\ \A w \in Units : y.work[w] = IF w \in NextItem(left, f) THEN "waiting"
                                        ELSE left.work[w]
    BY <1>2, <2>2 DEF ExecutionType
  <2>6. \A w \in Units : w \in NextItem(left, f) =>
          /\ Owner(w) = f /\ left.st[w] # "completed" /\ left.work[w] = "idle"
    <3>1. \A w : w \in NextItem(left, f) =>
                   w \in ItemsOf(f) /\ left.st[w] = "pending" /\ left.work[w] = "idle"
      BY DEF NextItem
    <3> QED BY <2>1, <3>1, UnitFacts
  <2> HIDE DEF f
  <2>7. \A w \in Units : /\ ~Busy(y, w) => y.tries[w] = 0
                         /\ y.work[w] \in {"waiting", "granted", "backoff"}
                              => y.tries[w] < MaxAttempts
                         /\ Busy(y, w) => Owner(w) \in y.running /\ y.st[w] # "completed"
    <3>1. MaxAttempts \in Nat \ {0}
      BY WorkflowAssumption
    <3>2. SUFFICES ASSUME NEW w \in Units
                   PROVE  /\ ~Busy(y, w) => y.tries[w] = 0
                          /\ y.work[w] \in {"waiting", "granted", "backoff"}
                               => y.tries[w] < MaxAttempts
                          /\ Busy(y, w) => Owner(w) \in y.running /\ y.st[w] # "completed"
      OBVIOUS
    <3>3. CASE w \in NextItem(left, f)
      <4>1. y.tries[w] = 0 /\ y.work[w] = "waiting"
        BY <1>4, <2>5, <2>6, <3>3
      <4> QED BY <2>1, <2>5, <2>6, <3>1, <3>3, <4>1 DEF Busy
    <3>4. CASE w \notin NextItem(left, f)
      <4>1. y.work[w] = left.work[w] /\ y.tries[w] = left.tries[w] /\ y.st[w] = left.st[w]
        BY <2>5, <3>4
      <4> QED BY <1>4, <2>5, <4>1 DEF Busy
    <3> QED BY <3>3, <3>4
  <2>8. \A r \in y.running : y.st[r] # "pending"
    BY <1>1, <1>6, <2>1, <2>5
  <2> QED BY <1>5, <1>7, <1>10, <2>4, <2>5, <2>7, <2>8 DEF ExecOK, y
<1>9. CASE u \notin Items
  <2>1. y = [left EXCEPT !.running = left.running \ {u}, !.woken = TRUE]
    BY <1>2, <1>3, <1>9 DEF Returned, ExecutionType
  <2>2. y \in ExecutionType
    BY <1>2, <2>1 DEF ExecutionType
  <2>3. /\ y.running = x.running \ {u} /\ y.phase = x.phase /\ y.st = left.st
        /\ y.work = left.work /\ y.tries = left.tries
    BY <1>2, <2>1 DEF ExecutionType
  <2>4. \A w \in Units : w # u => Owner(w) # u
    <3>1. SUFFICES ASSUME NEW w \in Units, w # u PROVE Owner(w) # u
      OBVIOUS
    <3>2. CASE w \in Items
      BY <3>2, UnitFacts
    <3>3. CASE w \notin Items
      BY <3>1, <3>3, UnitFacts
    <3> QED BY <3>2, <3>3
  <2>5. \A w \in Units : Busy(y, w) => Owner(w) \in y.running /\ y.st[w] # "completed"
    BY <1>4, <2>3, <2>4 DEF Busy
  <2>6. \A r \in y.running : y.st[r] # "pending"
    BY <1>6, <2>3
  <2> QED BY <1>4, <1>5, <1>7, <1>10, <2>2, <2>3, <2>5, <2>6 DEF ExecOK, Busy, y
<1> QED BY <1>8, <1>9

LEMMA ForeachEndsOK ==
    ASSUME NEW x, ExecOK(x), NEW f \in Foreach, f \in x.running,
           \A i \in ItemsOf(f) : x.work[i] = "idle",
           NEW y, y = [Returned(x, f) EXCEPT !.st = ForeachLeft(x, f), !.expired = @ \ {f}]
    PROVE  ExecOK(y) /\ Keeps(x.st, y.st) /\ y.phase = x.phase /\ y.st = ForeachLeft(x, f)
<1> DEFINE st == ForeachLeft(x, f)
<1>1. /\ x \in ExecutionType /\ x.running \subseteq Steps /\ f \in Steps
      /\ \A n \in Nodes : x.st[n] \in NodeState
      /\ x.phase \notin {"none", "create", "flush"}
  <2>1. x \in ExecutionType
    BY DEF ExecOK
  <2>2. x.phase \notin {"none", "create", "flush"}
    BY DEF ExecOK
  <2> QED BY <2>1, <2>2, ExecFields, UnitFacts
<1>2. \A n \in Nodes : st[n] = IF n = f THEN ForeachOutcome(x, f)
                               ELSE IF /\ n \in ItemsOf(f)
                                       /\ ForeachOutcome(x, f) # "completed"
                                       /\ x.st[n] \notin Terminal THEN "cancelled"
                               ELSE x.st[n]
  BY DEF ForeachLeft
<1>3. ForeachOutcome(x, f) \in {"cancelled", "timed_out", "failed", "completed"}
  BY DEF ForeachOutcome
<1>4. st \in [Nodes -> NodeState]
  <2>1. \A n \in Nodes : st[n] \in NodeState
    BY <1>1, <1>2, <1>3 DEF NodeState, Terminal, Failure
  <2> QED BY <2>1 DEF ForeachLeft
<1> HIDE DEF st
<1>5. y = [x EXCEPT !.running = x.running \ {f}, !.woken = TRUE, !.st = st,
                    !.expired = x.expired \ {f}]
  BY <1>1 DEF Returned, st, ExecutionType
<1>6. y \in ExecutionType
  <2>1. x.running \ {f} \in SUBSET Steps /\ x.expired \ {f} \in SUBSET Nodes
    BY <1>1, ExecFields
  <2> DEFINE running == x.running \ {f}
             expired == x.expired \ {f}
  <2>2. x \in ExecutionType
    BY <1>1
  <2> DEFINE z == [x EXCEPT !.running = running, !.woken = TRUE]
  <2>3. y = [z EXCEPT !.st = st, !.expired = expired]
    BY <1>1, <1>5 DEF ExecutionType
  <2> HIDE DEF running, expired
  <2>4. running \in SUBSET Steps /\ expired \in SUBSET Nodes
    BY <2>1 DEF running, expired
  <2>5. z \in ExecutionType
    BY <2>2, <2>4 DEF ExecutionType
  <2> HIDE DEF z
  <2> DEFINE w == [z EXCEPT !.st = st]
  <2>6. w \in ExecutionType
    BY <1>4, <2>5 DEF ExecutionType
  <2>7. y = [w EXCEPT !.expired = expired]
    BY <2>3, <2>5 DEF ExecutionType
  <2> HIDE DEF w
  <2> QED BY <2>4, <2>6, <2>7 DEF ExecutionType
<1>7. /\ y.running = x.running \ {f} /\ y.phase = x.phase /\ y.st = st
      /\ y.work = x.work /\ y.tries = x.tries
  BY <1>1, <1>5 DEF ExecutionType
<1>8. \A u \in Units : Busy(x, u) => Owner(u) # f
  <2>1. SUFFICES ASSUME NEW u \in Units, Busy(x, u) PROVE Owner(u) # f
    OBVIOUS
  <2>2. CASE u \in Items
    <3>1. u \notin ItemsOf(f)
      BY <2>1 DEF Busy
    <3> QED BY <2>2, <3>1, UnitFacts DEF ItemsOf
  <2>3. CASE u \notin Items
    BY <2>3, UnitFacts
  <2> QED BY <2>2, <2>3
<1>9. \A u \in Units : u \in Nodes /\ u # f /\ (st[u] = "completed" <=> x.st[u] = "completed")
  <2>1. SUFFICES ASSUME NEW u \in Units
                 PROVE  u \in Nodes /\ u # f /\ (st[u] = "completed" <=> x.st[u] = "completed")
    OBVIOUS
  <2>2. u \in Nodes /\ u # f
    BY UnitFacts
  <2> QED BY <1>2, <2>2 DEF Terminal
<1>10. \A r \in y.running : y.st[r] # "pending"
  <2>1. SUFFICES ASSUME NEW r \in x.running, r # f PROVE st[r] # "pending"
    BY <1>7
  <2>2. r \in Nodes /\ x.st[r] # "pending"
    BY <1>1, UnitFacts DEF ExecOK
  <2> QED BY <1>2, <2>1, <2>2
<1>12. \A g \in Foreach : y.st[g] = "running" => g \in y.running
  <2>1. SUFFICES ASSUME NEW g \in Foreach, st[g] = "running" PROVE g \in x.running \ {f}
    BY <1>7
  <2>2. g \in Nodes /\ g \notin Items
    BY UnitFacts
  <2>3. g # f /\ x.st[g] = "running"
    BY <1>2, <1>3, <2>1, <2>2 DEF ItemsOf
  <2> QED BY <2>3 DEF ExecOK
<1>11. \A u \in Units : Busy(y, u) => Owner(u) \in y.running /\ y.st[u] # "completed"
  BY <1>7, <1>8, <1>9 DEF ExecOK, Busy
<1> QED BY <1>1, <1>6, <1>7, <1>9, <1>10, <1>11, <1>12 DEF ExecOK, Busy, Keeps, st

\* The execution x when the engine returns, with o journal writes before it.
Ended(x, o) ==
  [x EXCEPT !.phase = "flush", !.st = Closed(x), !.owed = o]

LEMMA EndedOK ==
    ASSUME NEW x, ExecOK(x), x.running = {}, NEW o \in Nat
    PROVE  /\ ExecOK(Ended(x, o)) /\ Keeps(x.st, Closed(x))
           /\ Closed(x) \in [Nodes -> NodeState]
           /\ RunOutcome(x) \in {"completed", "failed", "timed_out", "cancelled"}
           /\ Ended(x, o).phase = "flush" /\ Ended(x, o).owed = o /\ Ended(x, o).st = Closed(x)
<1> DEFINE y == Ended(x, o)
<1>1. x \in ExecutionType /\ \A n \in Nodes : x.st[n] \in NodeState
  BY ExecFields DEF ExecOK
<1>2. \A n \in Nodes : Closed(x)[n] = IF Aborted(x) /\ x.st[n] \notin Terminal \cup {"none"}
                                      THEN "cancelled" ELSE x.st[n]
  BY DEF Closed
<1>3. Closed(x) \in [Nodes -> NodeState]
  <2>1. \A n \in Nodes : Closed(x)[n] \in NodeState
    BY <1>1, <1>2 DEF NodeState, Terminal, Failure
  <2> QED BY <2>1 DEF Closed
<1>4. Keeps(x.st, Closed(x))
  <2>1. \A u \in Units : u \in Nodes
    BY UnitFacts
  <2> QED BY <1>2, <2>1 DEF Keeps, Terminal
<1>5. RunOutcome(x) \in {"completed", "failed", "timed_out", "cancelled"}
  BY DEF RunOutcome
<1>6. y \in ExecutionType
  <2>1. y = [x EXCEPT !.phase = "flush", !.st = Closed(x), !.owed = o]
    BY DEF Ended
  <2> HIDE DEF y
  <2> QED BY <1>1, <1>3, <2>1 DEF ExecutionType
<1>7. /\ y.work = x.work /\ y.tries = x.tries /\ y.running = {} /\ y.phase = "flush"
      /\ y.owed = o /\ y.st = Closed(x)
  BY <1>1 DEF Ended, ExecutionType
<1> HIDE DEF y
<1>9. \A f \in Foreach : y.st[f] # "running"
  <2>1. SUFFICES ASSUME NEW f \in Foreach PROVE Closed(x)[f] # "running"
    BY <1>7
  <2>2. f \in Nodes /\ x.st[f] # "running"
    BY UnitFacts DEF ExecOK
  <2> QED BY <1>2, <2>2
<1>8. ExecOK(y)
  BY <1>6, <1>7, <1>9, Rested
<1> QED BY <1>3, <1>4, <1>5, <1>7, <1>8 DEF y

(* What a resumed run keeps of the one before is what was completed.          *)
LEMMA ResumedKeeps ==
    ASSUME NEW st \in [Nodes -> NodeState]
    PROVE  /\ Resumed(st) \in [Nodes -> NodeState] /\ Keeps(st, Resumed(st))
           /\ \A f \in Foreach : Resumed(st)[f] # "running"
<1>1. \A n \in Nodes : /\ Resumed(st)[n] = st[n] \/ Resumed(st)[n] = "pending"
                       /\ st[n] = "completed" => Resumed(st)[n] = st[n]
  BY DEF Resumed
<1>2. \A n \in Nodes : Resumed(st)[n] \in NodeState
  BY <1>1 DEF NodeState
<1>3. Resumed(st) \in [Nodes -> NodeState]
  BY <1>2 DEF Resumed
<1>4. \A f \in Foreach : Resumed(st)[f] # "running"
  <2>1. \A f \in Foreach : f \in Nodes /\ f \notin Items
    BY UnitFacts
  <2> QED BY <2>1 DEF Resumed
<1> QED BY <1>1, <1>3, <1>4, UnitFacts DEF Keeps

\* A new execution, of a run that starts or is resumed.
Begun(p, w, st) == [NoExecution EXCEPT !.phase = p, !.woken = w, !.st = st]

LEMMA BegunOK ==
    ASSUME NEW st \in [Nodes -> NodeState], NEW p \in {"create", "run"}, NEW w \in BOOLEAN,
           \A f \in Foreach : st[f] # "running"
    PROVE  ExecOK(Begun(p, w, st)) /\ Begun(p, w, st).phase = p /\ Begun(p, w, st).st = st
<1> DEFINE y == Begun(p, w, st)
<1>1. ExecOK(NoExecution) /\ NoExecution \in ExecutionType /\ NoExecution.running = {}
  BY NoExecutionOK DEF ExecOK, NoExecution
<1>2. y \in ExecutionType
  BY <1>1 DEF Begun, ExecutionType
<1>3. /\ y.work = NoExecution.work /\ y.tries = NoExecution.tries /\ y.running = {}
      /\ y.phase = p /\ y.st = st
  BY <1>1 DEF Begun, ExecutionType
<1> HIDE DEF y
<1>4. ExecOK(y)
  BY <1>1, <1>2, <1>3, Rested
<1> QED BY <1>3, <1>4 DEF y
-----------------------------------------------------------------------------
(* Reports.                                                                   *)

Records == [known : BOOLEAN, snap : Snapshots, settled : BOOLEAN, cancelAsked : BOOLEAN,
            controls : SUBSET Executions, writeFailed : BOOLEAN]

(* The run's snapshot is replaced, and the queue of the journal grows by      *)
(* snapshots the last of which has the states st.                             *)
Grown(st) ==
  /\ ~live.settled /\ ~live'.settled /\ live' \in Records /\ live'.snap.st = st
  /\ live'.known = live.known /\ live'.controls = live.controls
  /\ live'.writeFailed = live.writeFailed
  /\ writes' \in Seq(Snapshots) /\ Len(writes') \in 1 .. MaxWrites
  /\ writes'[Len(writes')] = live'.snap
  /\ \A i \in DOMAIN writes' : \/ \E j \in DOMAIN writes : writes'[i] = writes[j]
                               \/ Keeps(writes'[i].st, st)

(* The snapshot of a settled run is replaced, and nothing is written.          *)
Overtaken ==
  /\ live.settled /\ live'.settled /\ live' \in Records
  /\ live'.known = live.known /\ live'.controls = live.controls
  /\ live'.writeFailed = live.writeFailed /\ writes' = writes

Told(st) == UNCHANGED <<live, writes>> \/ Grown(st) \/ Overtaken

LEMMA ReportsTold ==
    ASSUME WorkflowTypeOK, NEW snaps \in Seq(Snapshots), Len(snaps) > 0, Reports(snaps),
           NEW st, st = snaps[Len(snaps)].st,
           \A i \in 1 .. Len(snaps) : Keeps(snaps[i].st, st)
    PROVE  Told(st)
<1> DEFINE shown(s) == IF live.cancelAsked /\ s.state = "running"
                       THEN [s EXCEPT !.state = "cancelled"] ELSE s
           n     == Len(snaps)
           added == [i \in 1 .. n |-> shown(snaps[i])]
<1>1. CASE live.settled
  BY <1>1 DEF Reports, Told
<1>2. CASE ~live.settled
  <2>1. /\ Len(writes) + n <= MaxWrites
        /\ live' = [live EXCEPT !.snap = shown(snaps[n])]
        /\ writes' = writes \o added
    BY <1>2 DEF Reports, Room
  <2>2. n \in Nat /\ n > 0 /\ n \in 1 .. n /\ \A i \in 1 .. n : snaps[i] \in Snapshots
    OBVIOUS
  <2>3. ASSUME NEW s \in Snapshots
        PROVE  shown(s) \in Snapshots /\ shown(s).st = s.st
    BY DEF Snapshots, RunTerminal
  <2> HIDE DEF shown
  <2>4. added \in Seq(Snapshots) /\ Len(added) = n /\ \A i \in 1 .. n : added[i] = shown(snaps[i])
    <3>1. \A i \in 1 .. n : shown(snaps[i]) \in Snapshots
      BY <2>2, <2>3
    <3> HIDE DEF n
    <3> QED BY <2>2, <3>1
  <2> HIDE DEF n, added
  <2>5. writes \in Seq(Snapshots) /\ MaxWrites \in Nat
    BY RunAssumption DEF WorkflowTypeOK
  <2>6. /\ writes' \in Seq(Snapshots) /\ Len(writes') = Len(writes) + n
        /\ \A i \in 1 .. Len(writes') : writes'[i] = IF i <= Len(writes) THEN writes[i]
                                                     ELSE added[i - Len(writes)]
    <3> DEFINE more == writes \o added
    <3>1. /\ more \in Seq(Snapshots) /\ Len(more) = Len(writes) + Len(added)
          /\ \A i \in 1 .. Len(writes) + Len(added) :
               more[i] = IF i <= Len(writes) THEN writes[i] ELSE added[i - Len(writes)]
      BY <2>4, <2>5, ConcatProperties
    <3>2. writes' = more
      BY <2>1
    <3> HIDE DEF more
    <3> QED BY <2>4, <3>1, <3>2
  <2>7. writes'[Len(writes')] = shown(snaps[n]) /\ Len(writes') \in 1 .. MaxWrites
    <3>1. Len(writes') \in 1 .. Len(writes') /\ Len(writes') \in 1 .. MaxWrites
          /\ ~(Len(writes') <= Len(writes)) /\ Len(writes') - Len(writes) = n
      BY <2>1, <2>2, <2>5, <2>6
    <3> QED BY <2>2, <2>4, <2>6, <3>1
  <2>8. /\ live' \in Records /\ live'.snap = shown(snaps[n]) /\ ~live'.settled
        /\ live'.known = live.known /\ live'.controls = live.controls
        /\ live'.writeFailed = live.writeFailed
    <3>1. live \in Records
      BY DEF WorkflowTypeOK, Records
    <3>2. shown(snaps[n]) \in Snapshots
      BY <2>2, <2>3
    <3> QED BY <1>2, <2>1, <3>1, <3>2 DEF Records
  <2>9. ASSUME NEW i \in DOMAIN writes'
        PROVE  \/ \E j \in DOMAIN writes : writes'[i] = writes[j]
               \/ Keeps(writes'[i].st, st)
    <3>1. i \in 1 .. Len(writes') /\ i \in Nat
      BY <2>6
    <3>2. CASE i <= Len(writes)
      <4>1. i \in DOMAIN writes
        BY <2>5, <3>1, <3>2
      <4> QED BY <2>6, <3>1, <3>2, <4>1
    <3>3. CASE ~(i <= Len(writes))
      <4>1. i - Len(writes) \in 1 .. n
        BY <2>2, <2>5, <2>6, <3>1, <3>3
      <4>2. writes'[i] = shown(snaps[i - Len(writes)])
        BY <2>4, <2>6, <3>1, <3>3, <4>1
      <4>3. writes'[i].st = snaps[i - Len(writes)].st
        BY <2>2, <2>3, <4>1, <4>2
      <4> QED BY <4>1, <4>3 DEF n
    <3> QED BY <3>2, <3>3
  <2> QED BY <1>2, <2>1, <2>2, <2>3, <2>6, <2>7, <2>8, <2>9 DEF Told, Grown, n
<1> QED BY <1>1, <1>2

(* What a step makes of execution e, if it neither begins nor ends it.        *)
Moved(e, y) ==
  /\ exec[e].phase # "none" /\ ExecOK(y) /\ y.phase # "none" /\ Keeps(exec[e].st, y.st)
  /\ y.phase = "flush" => y.owed = Len(writes')
  /\ exec' = [exec EXCEPT ![e] = y]
  /\ Told(y.st) /\ UNCHANGED <<journal, events>>

LEMMA BecomesMoves ==
    ASSUME RunTypes, NEW e \in Executions, exec[e].phase # "none", NEW y, ExecOK(y),
           y.phase \notin {"none", "flush"}, Keeps(exec[e].st, y.st), Becomes(e, y)
    PROVE  Moved(e, y)
<1> DEFINE snap  == [state |-> "running", st |-> y.st]
           snaps == <<snap>>
<1>1. snap \in Snapshots /\ snap.st = y.st
  <2>1. y.st \in [Nodes -> NodeState]
    BY ExecFields DEF ExecOK
  <2> QED BY <2>1 DEF Snapshots
<1> HIDE DEF snap
<1>2. snaps \in Seq(Snapshots) /\ Len(snaps) > 0 /\ Len(snaps) = 1 /\ snaps[1] = snap
  BY <1>1
<1>3. Reports(snaps)
  BY DEF Becomes, snap
<1> HIDE DEF snaps
<1>4. y.st = snaps[Len(snaps)].st /\ \A i \in 1 .. Len(snaps) : Keeps(snaps[i].st, y.st)
  BY <1>1, <1>2 DEF Keeps
<1>5. Told(y.st)
  BY <1>2, <1>3, <1>4, ReportsTold DEF RunTypes
<1> QED BY <1>5 DEF Becomes, Moved

LEMMA SilentMoves ==
    ASSUME NEW e \in Executions, exec[e].phase # "none", NEW y, ExecOK(y),
           y.phase \notin {"none", "flush"}, Keeps(exec[e].st, y.st), Silently(e, y)
    PROVE  Moved(e, y)
BY DEF Silently, Moved, Told
-----------------------------------------------------------------------------
(* The steps of an execution under way.                                       *)

LEMMA BusyRuns ==
    ASSUME NEW x, ExecOK(x), NEW u \in Units, Busy(x, u)
    PROVE  x.phase \in {"run", "drain"}
<1>1. Owner(u) \in x.running /\ x \in ExecutionType
  BY DEF ExecOK
<1>2. x.phase \notin {"none", "create", "flush"}
  BY <1>1 DEF ExecOK
<1> QED BY <1>1, <1>2, ExecFields

LEMMA CreatedMoves ==
    ASSUME RunTypes, NEW e \in Executions, Created(e), e \in live.controls
    PROVE  \E y : Moved(e, y)
<1> DEFINE x == exec[e]
           y == [x EXCEPT !.phase = "run", !.woken = TRUE]
<1>1. ExecOK(x) /\ x.phase = "create" /\ Becomes(e, y)
  BY DEF RunTypes, Created
<1> HIDE DEF x
<1>2. x \in ExecutionType
  BY <1>1 DEF ExecOK
<1>3. /\ y \in ExecutionType /\ y.phase = "run" /\ y.st = x.st /\ y.work = x.work
      /\ y.tries = x.tries /\ y.running = x.running
  BY <1>2 DEF ExecutionType
<1> HIDE DEF y
<1>4. ExecOK(y) /\ Keeps(x.st, y.st)
  BY <1>1, <1>3, SameWork
<1> QED BY <1>1, <1>3, <1>4, BecomesMoves DEF x

LEMMA RunTimerMoves ==
    ASSUME RunTypes, NEW e \in Executions, RunTimer(e)
    PROVE  \E y : Moved(e, y)
<1> DEFINE x == exec[e]
           y == [x EXCEPT !.late = TRUE]
<1>1. ExecOK(x) /\ x.phase \in {"run", "drain"} /\ Silently(e, y)
  BY DEF RunTypes, RunTimer
<1> HIDE DEF x
<1>2. x \in ExecutionType
  BY <1>1 DEF ExecOK
<1>3. /\ y \in ExecutionType /\ y.phase = x.phase /\ y.st = x.st /\ y.work = x.work
      /\ y.tries = x.tries /\ y.running = x.running
  BY <1>2 DEF ExecutionType
<1> HIDE DEF y
<1>4. ExecOK(y) /\ Keeps(x.st, y.st)
  BY <1>1, <1>3, SameWork
<1> QED BY <1>1, <1>3, <1>4, SilentMoves DEF x

LEMMA StepTimerMoves ==
    ASSUME RunTypes, NEW e \in Executions, NEW n \in Nodes, exec[e].phase \in {"run", "drain"},
           StepTimer(e, n)
    PROVE  \E y : Moved(e, y)
<1> DEFINE x == exec[e]
           y == [x EXCEPT !.expired = @ \cup {n}]
<1>1. ExecOK(x) /\ x.phase \in {"run", "drain"} /\ Silently(e, y)
  BY DEF RunTypes, StepTimer
<1> HIDE DEF x
<1>2. x \in ExecutionType
  BY <1>1 DEF ExecOK
<1>3. /\ y \in ExecutionType /\ y.phase = x.phase /\ y.st = x.st /\ y.work = x.work
      /\ y.tries = x.tries /\ y.running = x.running
  BY <1>2 DEF ExecutionType
<1> HIDE DEF y
<1>4. ExecOK(y) /\ Keeps(x.st, y.st)
  BY <1>1, <1>3, SameWork
<1> QED BY <1>1, <1>3, <1>4, SilentMoves DEF x

LEMMA TurnMoves ==
    ASSUME RunTypes, NEW e \in Executions, Turn(e)
    PROVE  \E y : Moved(e, y)
<1> DEFINE x     == exec[e]
           swept == Sweep(x.st)
           S     == Starts(x, swept)
<1>1. ExecOK(x) /\ x \in ExecutionType /\ x.phase = "run" /\ x.st \in [Nodes -> NodeState]
      /\ exec \in [Executions -> ExecutionType]
  <2>1. ExecOK(x) /\ x.phase = "run"
    BY DEF RunTypes, Turn
  <2>2. x \in ExecutionType
    BY <2>1 DEF ExecOK
  <2> QED BY <2>1, <2>2, ExecFields DEF RunTypes, WorkflowTypeOK
<1>2. Swept(x.st, swept)
  BY <1>1, SweepSwept
<1>3. Startable(swept, S)
  BY StartsReady
<1>4. \/ Silently(e, [x EXCEPT !.phase = "drain"])
      \/ x.running \cup S = {} /\ NothingLeft(e, swept)
      \/ StartSteps(e, swept, S)
  BY DEF Turn
<1> HIDE DEF swept, S
<1>5. CASE Silently(e, [x EXCEPT !.phase = "drain"])
  <2> DEFINE y == [x EXCEPT !.phase = "drain"]
  <2>1. Silently(e, y) /\ x.phase = "run"
    BY <1>1, <1>5
  <2>2. ExecOK(x) /\ exec[e].phase # "none"
    BY <1>1
  <2> HIDE DEF x
  <2>3. /\ y \in ExecutionType /\ y.phase = "drain" /\ y.st = x.st /\ y.work = x.work
        /\ y.tries = x.tries /\ y.running = x.running
    BY <1>1 DEF ExecutionType
  <2> HIDE DEF y
  <2>4. ExecOK(y) /\ Keeps(x.st, y.st)
    BY <2>2, <2>3, SameWork
  <2> QED BY <2>1, <2>2, <2>3, <2>4, SilentMoves DEF x
<1>6. CASE x.running \cup S = {} /\ NothingLeft(e, swept)
  <2> DEFINE y == Stopped(x, swept)
  <2>1. Becomes(e, y)
    BY <1>6 DEF NothingLeft, Stopped
  <2>2. y.phase = "drain"
    BY <1>1 DEF Stopped, ExecutionType
  <2>3. ExecOK(y) /\ Keeps(x.st, y.st)
    BY <1>1, <1>2, <1>6, StoppedOK
  <2> HIDE DEF y
  <2> QED BY <1>1, <2>1, <2>2, <2>3, BecomesMoves
<1>7. CASE StartSteps(e, swept, S)
  <2> DEFINE m == Marked(swept, S)
             l == Launched(m, S)
             y == Launch(x, m, S)
             snap(t) == [state |-> "running", st |-> t]
  <2>1. /\ exec' = [exec EXCEPT ![e] = y]
        /\ IF S \cap Conditions # {} THEN Reports(<<snap(m), snap(l)>>)
           ELSE IF l # x.st THEN Reports(<<snap(l)>>)
           ELSE UNCHANGED <<live, writes>>
        /\ UNCHANGED <<journal, events>>
    BY <1>7, ZenonT(60) DEF StartSteps, Launch
  <2>2. ExecOK(y) /\ Keeps(x.st, l) /\ Keeps(m, l)
    BY <1>1, <1>2, <1>3, LaunchOK
  <2>3. y.phase = "run" /\ y.st = l
    BY <1>1 DEF Launch, ExecutionType
  <2>4. m \in [Nodes -> NodeState] /\ l \in [Nodes -> NodeState]
    BY <1>2, <1>3, MarkedStates, LaunchedStates DEF Swept, Startable
  <2>5. snap(m) \in Snapshots /\ snap(l) \in Snapshots /\ snap(m).st = m /\ snap(l).st = l
    BY <2>4 DEF Snapshots
  <2> HIDE DEF m, l, y, snap
  <2>6. Keeps(l, l)
    BY DEF Keeps
  <2>7. Told(l)
    <3>1. CASE Reports(<<snap(m), snap(l)>>)
      <4> DEFINE snaps == <<snap(m), snap(l)>>
      <4>1. /\ snaps \in Seq(Snapshots) /\ Len(snaps) > 0 /\ Len(snaps) = 2
            /\ snaps[1] = snap(m) /\ snaps[2] = snap(l)
        BY <2>5
      <4>2. Reports(snaps)
        BY <3>1
      <4> HIDE DEF snaps
      <4>3. l = snaps[Len(snaps)].st /\ \A i \in 1 .. Len(snaps) : Keeps(snaps[i].st, l)
        <5>1. \A i \in 1 .. 2 : i = 1 \/ i = 2
          OBVIOUS
        <5>2. Keeps(snaps[1].st, l) /\ Keeps(snaps[2].st, l)
          BY <2>2, <2>5, <2>6, <4>1
        <5> QED BY <2>5, <4>1, <5>1, <5>2
      <4> QED BY <4>1, <4>2, <4>3, ReportsTold DEF RunTypes
    <3>2. CASE Reports(<<snap(l)>>)
      <4> DEFINE snaps == <<snap(l)>>
      <4>1. /\ snaps \in Seq(Snapshots) /\ Len(snaps) > 0 /\ Len(snaps) = 1
            /\ snaps[1] = snap(l)
        BY <2>5
      <4>2. Reports(snaps)
        BY <3>2
      <4> HIDE DEF snaps
      <4>3. l = snaps[Len(snaps)].st /\ \A i \in 1 .. Len(snaps) : Keeps(snaps[i].st, l)
        <5>1. \A i \in 1 .. 1 : i = 1
          OBVIOUS
        <5> QED BY <2>5, <2>6, <4>1, <5>1
      <4> QED BY <4>1, <4>2, <4>3, ReportsTold DEF RunTypes
    <3> QED BY <2>1, <3>1, <3>2 DEF Told
  <2>8. x = exec[e]
    OBVIOUS
  <2> HIDE DEF x
  <2>9. Moved(e, y)
    BY <1>1, <2>1, <2>2, <2>3, <2>7, <2>8 DEF Moved
  <2> QED BY <2>9
<1> QED BY <1>4, <1>5, <1>6, <1>7

LEMMA FinishMoves ==
    ASSUME RunTypes, NEW e \in Executions, Finish(e)
    PROVE  \E y : Moved(e, y)
<1> DEFINE x     == exec[e]
           snap  == [state |-> RunOutcome(x), st |-> Closed(x)]
           snaps == <<snap>>
           o     == Len(writes')
           y     == Ended(x, o)
<1>1. /\ ExecOK(x) /\ x.phase = "drain" /\ x.running = {}
      /\ \/ Reports(snaps)
         \/ /\ live.settled /\ writes' = writes
            /\ \E s \in {live.snap, snap} : live' = [live EXCEPT !.snap = s]
      /\ exec' = [exec EXCEPT ![e] = y] /\ UNCHANGED <<journal, events>>
  BY DEF RunTypes, Finish, Drained, Ended
<1>2. /\ Closed(x) \in [Nodes -> NodeState] /\ Keeps(x.st, Closed(x))
      /\ RunOutcome(x) \in {"completed", "failed", "timed_out", "cancelled"}
  <2>1. 0 \in Nat
    OBVIOUS
  <2> QED BY <1>1, <2>1, EndedOK
<1>3. snap \in Snapshots /\ snap.st = Closed(x)
  BY <1>2 DEF Snapshots, RunTerminal
<1> HIDE DEF snap
<1>4. snaps \in Seq(Snapshots) /\ Len(snaps) > 0 /\ Len(snaps) = 1 /\ snaps[1] = snap
  BY <1>3
<1> HIDE DEF snaps
<1>5. Closed(x) = snaps[Len(snaps)].st
      /\ \A i \in 1 .. Len(snaps) : Keeps(snaps[i].st, Closed(x))
  BY <1>3, <1>4 DEF Keeps
<1>6. Told(Closed(x))
  <2>1. CASE Reports(snaps)
    BY <1>4, <1>5, <2>1, ReportsTold DEF RunTypes
  <2>2. CASE /\ live.settled /\ writes' = writes
             /\ \E s \in {live.snap, snap} : live' = [live EXCEPT !.snap = s]
    <3>1. live \in Records /\ live.snap \in Snapshots
      BY DEF RunTypes, WorkflowTypeOK, Records
    <3>2. PICK s \in Snapshots : live' = [live EXCEPT !.snap = s]
      BY <1>3, <2>2, <3>1
    <3>3. /\ live' \in Records /\ live'.settled = live.settled /\ live'.known = live.known
          /\ live'.controls = live.controls /\ live'.writeFailed = live.writeFailed
      BY <3>1, <3>2 DEF Records
    <3> QED BY <2>2, <3>3 DEF Told, Overtaken
  <2> QED BY <1>1, <2>1, <2>2
<1>7. o \in Nat
  <2>1. writes' \in Seq(Snapshots)
    BY <1>6 DEF Told, Grown, Overtaken, RunTypes, WorkflowTypeOK
  <2> QED BY <2>1
<1>8. /\ ExecOK(y) /\ y.phase = "flush" /\ y.owed = o /\ y.st = Closed(x)
  BY <1>1, <1>7, EndedOK
<1>9. Told(y.st)
  BY <1>6, <1>8 DEF Told, Grown
<1>10. exec[e] = x
  OBVIOUS
<1> HIDE DEF x, y
<1>11. Moved(e, y)
  BY <1>1, <1>2, <1>8, <1>9, <1>10 DEF Moved, o
<1> QED BY <1>11

(* Of a unit.                                                                 *)

LEMMA WorkMoves ==
    ASSUME RunTypes, NEW e \in Executions, NEW u \in Units, Busy(exec[e], u),
           NEW w \in {"waiting", "granted"}, exec[e].tries[u] < MaxAttempts,
           Silently(e, [exec[e] EXCEPT !.work[u] = w])
    PROVE  \E y : Moved(e, y)
<1> DEFINE x == exec[e]
           y == [x EXCEPT !.work[u] = w]
<1>1. ExecOK(x) /\ Silently(e, y) /\ Busy(x, u) /\ x.tries[u] < MaxAttempts
  BY DEF RunTypes
<1> HIDE DEF x
<1>2. x \in ExecutionType /\ x.phase \in {"run", "drain"}
  BY <1>1, BusyRuns DEF ExecOK
<1>3. /\ y \in ExecutionType /\ y.phase = x.phase /\ y.st = x.st
      /\ y.tries = x.tries /\ y.running = x.running
      /\ y.work = [x.work EXCEPT ![u] = w]
  <2> DEFINE work == [x.work EXCEPT ![u] = w]
  <2>1. x.work \in [Units -> {"idle", "waiting", "granted", "executing", "backoff"}]
    BY <1>2 DEF ExecutionType
  <2>2. work \in [Units -> {"idle", "waiting", "granted", "executing", "backoff"}]
    BY <2>1
  <2>3. y = [x EXCEPT !.work = work]
    BY <1>2 DEF ExecutionType
  <2> HIDE DEF work, y
  <2>4. y \in ExecutionType /\ y.work = work
    BY <1>2, <2>2, <2>3 DEF ExecutionType
  <2>5. y.phase = x.phase /\ y.st = x.st /\ y.tries = x.tries /\ y.running = x.running
    BY <1>2, <2>3 DEF ExecutionType
  <2> QED BY <2>4, <2>5 DEF work
<1> HIDE DEF y
<1>4. \A v \in Units : y.work[v] = IF v = u THEN w ELSE x.work[v]
  BY <1>2, <1>3 DEF ExecutionType
<1>5. ExecOK(y) /\ Keeps(x.st, y.st)
  <2>1. Busy(y, u)
    BY <1>4 DEF Busy
  <2> QED BY <1>1, <1>3, <1>4, <2>1, UnitMoves
<1> QED BY <1>1, <1>2, <1>3, <1>5, SilentMoves DEF x

LEMMA GrantMoves ==
    ASSUME RunTypes, NEW e \in Executions, NEW u \in Units, Grant(e, u)
    PROVE  \E y : Moved(e, y)
<1>1. exec[e].work[u] = "waiting" /\ Silently(e, [exec[e] EXCEPT !.work[u] = "granted"])
  BY DEF Grant
<1>2. Busy(exec[e], u) /\ exec[e].tries[u] < MaxAttempts
  BY <1>1 DEF RunTypes, ExecOK, Busy
<1> QED BY <1>1, <1>2, WorkMoves

(* The unit's attempt loop is left.                                           *)
LEMMA LeavesMoves ==
    ASSUME RunTypes, NEW e \in Executions, NEW u \in Units, Busy(exec[e], u),
           NEW s \in NodeState, s = exec[e].st[u] \/ s # "pending",
           \/ Becomes(e, Leaves(exec[e], u, s))
           \/ s = exec[e].st[u] /\ Silently(e, Leaves(exec[e], u, s))
    PROVE  \E y : Moved(e, y)
<1> DEFINE x == exec[e]
           y == Leaves(x, u, s)
<1>1. ExecOK(x) /\ Busy(x, u) /\ (s = x.st[u] \/ s # "pending")
  BY DEF RunTypes
<1> HIDE DEF x
<1>2. ExecOK(y) /\ Keeps(x.st, y.st) /\ y.phase = x.phase
  BY <1>1, LeavesOK
<1>3. x.phase \in {"run", "drain"}
  BY <1>1, BusyRuns
<1>4. Becomes(e, y) \/ Silently(e, y)
  BY DEF x
<1> HIDE DEF y
<1>5. exec[e].phase # "none" /\ y.phase \notin {"none", "flush"} /\ Keeps(exec[e].st, y.st)
  BY <1>2, <1>3 DEF x
<1> QED BY <1>2, <1>4, <1>5, BecomesMoves, SilentMoves

LEMMA RejectedMoves ==
    ASSUME RunTypes, NEW e \in Executions, NEW u \in Units, Rejected(e, u)
    PROVE  \E y : Moved(e, y)
<1>1. Busy(exec[e], u) /\ Becomes(e, Leaves(exec[e], u, "cancelled"))
  BY DEF Rejected, Busy
<1>2. "cancelled" \in NodeState
  BY DEF NodeState, Terminal, Failure
<1> QED BY <1>1, <1>2, LeavesMoves

LEMMA BeginMoves ==
    ASSUME RunTypes, NEW e \in Executions, NEW u \in Units, Begin(e, u)
    PROVE  \E y : Moved(e, y)
<1> DEFINE x == exec[e]
           st == [x.st EXCEPT ![u] = "running"]
           work == [x.work EXCEPT ![u] = "executing"]
           tries == [x.tries EXCEPT ![u] = @ + 1]
           y == [x EXCEPT !.work[u] = "executing", !.st[u] = "running", !.tries[u] = @ + 1]
<1>1. /\ ExecOK(x) /\ x.work[u] = "granted"
      /\ Silently(e, Leaves(x, u, x.st[u])) \/ Becomes(e, y)
  BY DEF RunTypes, Begin
<1>2. x \in ExecutionType /\ Busy(x, u) /\ x.tries[u] < MaxAttempts /\ u \in Nodes
  BY <1>1, UnitFacts DEF ExecOK, Busy
<1>3. x.phase \in {"run", "drain"} /\ x.st[u] \in NodeState
  BY <1>1, <1>2, BusyRuns, ExecFields
<1>4. CASE Silently(e, Leaves(x, u, x.st[u]))
  BY <1>2, <1>3, <1>4, LeavesMoves
<1>5. CASE Becomes(e, y)
  <2> HIDE DEF x
  <2>1. /\ x.st \in [Nodes -> NodeState]
        /\ x.work \in [Units -> {"idle", "waiting", "granted", "executing", "backoff"}]
        /\ x.tries \in [Units -> 0 .. MaxAttempts]
    BY <1>2 DEF ExecutionType
  <2>2. MaxAttempts \in Nat /\ x.tries[u] + 1 \in 0 .. MaxAttempts
    BY <1>2, <2>1, WorkflowAssumption
  <2>3. /\ st \in [Nodes -> NodeState]
        /\ work \in [Units -> {"idle", "waiting", "granted", "executing", "backoff"}]
        /\ tries \in [Units -> 0 .. MaxAttempts]
    BY <2>1, <2>2 DEF NodeState
  <2>4. y = [x EXCEPT !.work = work, !.st = st, !.tries = tries]
    BY <1>2 DEF ExecutionType
  <2>5. /\ \A n \in Nodes \ {u} : st[n] = x.st[n]
        /\ st[u] = "running" /\ work[u] = "executing"
        /\ \A w \in Units \ {u} : work[w] = x.work[w] /\ tries[w] = x.tries[w]
    BY <1>2, <2>1
  <2> HIDE DEF st, work, tries, y
  <2>6. y \in ExecutionType
    BY <1>2, <2>3, <2>4 DEF ExecutionType
  <2>7. /\ y.phase = x.phase /\ y.running = x.running
        /\ y.st = st /\ y.work = work /\ y.tries = tries
    BY <1>2, <2>4 DEF ExecutionType
  <2>8. Busy(y, u) /\ y.work[u] = "executing"
    BY <2>5, <2>7 DEF Busy
  <2>9. ExecOK(y) /\ Keeps(x.st, y.st)
    BY <1>1, <1>2, <2>5, <2>6, <2>7, <2>8, UnitMoves
  <2> QED BY <1>3, <1>5, <2>7, <2>9, BecomesMoves DEF x
<1> QED BY <1>1, <1>4, <1>5

LEMMA AnswerMoves ==
    ASSUME RunTypes, NEW e \in Executions, NEW u \in Units, Answer(e, u)
    PROVE  \E y : Moved(e, y)
<1> DEFINE x == exec[e]
           st == [x.st EXCEPT ![u] = "queued"]
           work == [x.work EXCEPT ![u] = "backoff"]
           expired == x.expired \ {u}
           y == [x EXCEPT !.work[u] = "backoff", !.st[u] = "queued", !.expired = @ \ {u}]
<1>1. ExecOK(x) /\ x.work[u] = "executing"
  BY DEF RunTypes, Answer
<1>2. PICK answer \in {"result", "provider_error", "error"} :
        IF Retries(x, u, answer) /\ ~UnitAborted(x, u) THEN Becomes(e, y)
        ELSE Becomes(e, Leaves(x, u, IF Retries(x, u, answer) THEN "cancelled"
                                     ELSE Outcome(x, u, answer)))
  BY DEF Answer
<1>3. x \in ExecutionType /\ Busy(x, u) /\ u \in Nodes
  BY <1>1, UnitFacts DEF ExecOK, Busy
<1>4. x.phase \in {"run", "drain"}
  BY <1>1, <1>3, BusyRuns
<1>5. CASE Retries(x, u, answer) /\ ~UnitAborted(x, u)
  <2>1. Becomes(e, y) /\ x.tries[u] < MaxAttempts
    BY <1>2, <1>5 DEF Retries
  <2> HIDE DEF x
  <2>2. /\ x.st \in [Nodes -> NodeState]
        /\ x.work \in [Units -> {"idle", "waiting", "granted", "executing", "backoff"}]
        /\ x.expired \subseteq Nodes
    BY <1>3 DEF ExecutionType
  <2>3. /\ st \in [Nodes -> NodeState] /\ expired \subseteq Nodes
        /\ work \in [Units -> {"idle", "waiting", "granted", "executing", "backoff"}]
    BY <2>2 DEF NodeState
  <2>4. y = [x EXCEPT !.work = work, !.st = st, !.expired = expired]
    BY <1>3 DEF ExecutionType
  <2>5. /\ \A n \in Nodes \ {u} : st[n] = x.st[n]
        /\ st[u] = "queued" /\ work[u] = "backoff"
        /\ \A w \in Units \ {u} : work[w] = x.work[w]
    BY <1>3, <2>2
  <2> HIDE DEF st, work, expired, y
  <2>6. y \in ExecutionType
    BY <1>3, <2>3, <2>4 DEF ExecutionType
  <2>7. /\ y.phase = x.phase /\ y.running = x.running
        /\ y.st = st /\ y.work = work /\ y.tries = x.tries
    BY <1>3, <2>4 DEF ExecutionType
  <2>8. Busy(y, u)
    BY <2>5, <2>7 DEF Busy
  <2>9. ExecOK(y) /\ Keeps(x.st, y.st)
    BY <1>1, <1>3, <2>1, <2>5, <2>6, <2>7, <2>8, UnitMoves
  <2> QED BY <1>4, <2>1, <2>7, <2>9, BecomesMoves DEF x
<1>6. CASE ~(Retries(x, u, answer) /\ ~UnitAborted(x, u))
  <2> DEFINE s == IF Retries(x, u, answer) THEN "cancelled" ELSE Outcome(x, u, answer)
  <2>1. Outcome(x, u, answer) \in {"cancelled", "timed_out", "completed", "failed"}
    BY DEF Outcome
  <2>2. s \in NodeState /\ s # "pending"
    BY <2>1 DEF NodeState, Terminal, Failure
  <2>3. Becomes(e, Leaves(x, u, s))
    BY <1>2, <1>6
  <2> HIDE DEF s
  <2> QED BY <1>3, <2>2, <2>3, LeavesMoves
<1> QED BY <1>5, <1>6

LEMMA PauseEndsMoves ==
    ASSUME RunTypes, NEW e \in Executions, NEW u \in Units, PauseEnds(e, u)
    PROVE  \E y : Moved(e, y)
<1>1. /\ exec[e].work[u] = "backoff"
      /\ \/ Becomes(e, Leaves(exec[e], u, "cancelled"))
         \/ Silently(e, [exec[e] EXCEPT !.work[u] = "waiting"])
  BY DEF PauseEnds
<1>2. Busy(exec[e], u) /\ exec[e].tries[u] < MaxAttempts
  BY <1>1 DEF RunTypes, ExecOK, Busy
<1>3. "cancelled" \in NodeState
  BY DEF NodeState, Terminal, Failure
<1> QED BY <1>1, <1>2, <1>3, WorkMoves, LeavesMoves

LEMMA ForeachEndsMoves ==
    ASSUME RunTypes, NEW e \in Executions, NEW f \in Foreach, ForeachEnds(e, f)
    PROVE  \E y : Moved(e, y)
<1> DEFINE x == exec[e]
           y == [Returned(x, f) EXCEPT !.st = ForeachLeft(x, f), !.expired = @ \ {f}]
<1>1. /\ ExecOK(x) /\ f \in x.running /\ \A i \in ItemsOf(f) : x.work[i] = "idle"
      /\ Becomes(e, y)
  BY DEF RunTypes, ForeachEnds
<1> HIDE DEF x
<1>2. ExecOK(y) /\ Keeps(x.st, y.st) /\ y.phase = x.phase
  BY <1>1, ForeachEndsOK
<1>3. x.phase \notin {"none", "flush"}
  BY <1>1 DEF ExecOK
<1> HIDE DEF y
<1> QED BY <1>1, <1>2, <1>3, BecomesMoves DEF x

(* Each step of an execution but its last.                                    *)
ExecutionSteps(e) ==
  \/ Created(e) /\ e \in live.controls
  \/ Turn(e) \/ Finish(e) \/ RunTimer(e)
  \/ \E n \in Nodes : StepTimer(e, n)
  \/ \E u \in Units : \/ Grant(e, u) \/ Rejected(e, u) \/ Begin(e, u)
                      \/ Answer(e, u) \/ PauseEnds(e, u)
  \/ \E f \in Foreach : ForeachEnds(e, f)

LEMMA StepsMove ==
    ASSUME RunTypes, NEW e \in Executions, ExecutionSteps(e)
    PROVE  \E y : Moved(e, y)
<1>1. ASSUME NEW n \in Nodes, StepTimer(e, n) PROVE \E y : Moved(e, y)
  <2>1. ExecOK(exec[e])
    BY DEF RunTypes
  <2>2. exec[e].phase \in {"run", "drain"}
    <3>1. CASE n \in Units
      <4>1. Busy(exec[e], n)
        BY <1>1, <3>1 DEF StepTimer, Busy
      <4> QED BY <2>1, <3>1, <4>1, BusyRuns
    <3>2. CASE n \notin Units
      <4>1. n \in Foreach /\ exec[e].st[n] = "running"
        BY <1>1, <3>2, UnitFacts DEF StepTimer, Nodes
      <4>2. n \in exec[e].running
        BY <2>1, <4>1 DEF ExecOK
      <4>3. exec[e] \in ExecutionType /\ exec[e].phase \notin {"none", "create", "flush"}
        BY <2>1, <4>2 DEF ExecOK
      <4> QED BY <4>3, ExecFields
    <3> QED BY <3>1, <3>2
  <2> QED BY <1>1, <2>2, StepTimerMoves
<1> QED BY <1>1, CreatedMoves, TurnMoves, FinishMoves, RunTimerMoves, GrantMoves, RejectedMoves,
           BeginMoves, AnswerMoves, PauseEndsMoves, ForeachEndsMoves DEF ExecutionSteps
-----------------------------------------------------------------------------
(* Types, and units at rest: whoever resumes when.                            *)

LEMMA LiveFields ==
    ASSUME WorkflowTypeOK
    PROVE  /\ live \in Records /\ live.snap \in Snapshots /\ live.snap.st \in [Nodes -> NodeState]
           /\ exec \in [Executions -> ExecutionType] /\ journal \in Snapshots
           /\ writes \in Seq(Snapshots) /\ MaxWrites \in Nat \ {0}
           /\ events \in 0 .. MaxEvents /\ MaxEvents \in Nat
BY RunAssumption DEF WorkflowTypeOK, Records, Snapshots

LEMMA NoRecordTyped ==
    /\ NoSnapshot \in Snapshots /\ NoRecord \in Records
    /\ NoRecord.settled /\ ~NoRecord.known /\ NoRecord.snap = NoSnapshot
    /\ NoSnapshot.state = "none" /\ ~NoRecord.writeFailed
<1>1. NoSnapshot \in Snapshots
  BY FreshTyped DEF NoSnapshot, Snapshots
<1> QED BY <1>1 DEF NoRecord, Records, NoSnapshot

LEMMA HeadlessTyped ==
    /\ Headless \in Snapshots /\ \A u \in Units : Headless.st[u] # "completed"
BY FreshTyped, UnitFacts DEF Headless, Snapshots

LEMMA InitTypes == Init => RunTypes
<1>1. SUFFICES ASSUME Init PROVE RunTypes
  OBVIOUS
<1>2. /\ live = NoRecord /\ journal = NoSnapshot /\ writes = <<>>
      /\ exec = [e \in Executions |-> NoExecution] /\ events = 0
  BY <1>1 DEF Init
<1>3. NoExecution \in ExecutionType /\ ExecOK(NoExecution)
  BY NoExecutionOK DEF ExecOK
<1>4. WorkflowTypeOK
  BY <1>2, <1>3, NoRecordTyped, RunAssumption DEF WorkflowTypeOK, Records
<1>5. NoExecution.phase = "none"
  BY DEF NoExecution
<1> QED BY <1>2, <1>3, <1>4, <1>5, NoRecordTyped DEF RunTypes, NoRecord

LEMMA MovedTypes ==
    ASSUME RunTypes, NEW e \in Executions, NEW y, Moved(e, y)
    PROVE  RunTypes'
<1>1. /\ ExecOK(y) /\ y.phase # "none" /\ exec' = [exec EXCEPT ![e] = y]
      /\ Told(y.st) /\ journal' = journal /\ events' = events /\ exec[e].phase # "none"
  BY DEF Moved
<1>2. /\ WorkflowTypeOK /\ \A d \in Executions : ExecOK(exec[d])
      /\ \A d \in live.controls : exec[d].phase # "none"
      /\ live.known
  BY <1>1 DEF RunTypes
<1>3. y \in ExecutionType
  BY <1>1 DEF ExecOK
<1>4. /\ exec' \in [Executions -> ExecutionType]
      /\ \A d \in Executions : exec'[d] = IF d = e THEN y ELSE exec[d]
  BY <1>1, <1>2, <1>3, LiveFields
<1>5. /\ live' \in Records /\ writes' \in Seq(Snapshots) /\ Len(writes') <= MaxWrites
      /\ live'.controls = live.controls /\ live'.known
  <2>1. CASE UNCHANGED <<live, writes>>
    BY <1>2, <2>1, LiveFields DEF WorkflowTypeOK
  <2>2. CASE Grown(y.st)
    BY <1>2, <2>2, LiveFields DEF Grown
  <2>3. CASE Overtaken
    BY <1>2, <2>3 DEF Overtaken, WorkflowTypeOK
  <2> QED BY <1>1, <2>1, <2>2, <2>3 DEF Told
<1>6. WorkflowTypeOK'
  BY <1>1, <1>2, <1>4, <1>5 DEF WorkflowTypeOK, Records
<1>7. \A d \in Executions : ExecOK(exec'[d])
  BY <1>1, <1>2, <1>4
<1>8. \A d \in live'.controls : exec'[d].phase # "none"
  <2>1. live.controls \subseteq Executions
    BY <1>2 DEF WorkflowTypeOK
  <2> QED BY <1>1, <1>2, <1>4, <1>5, <2>1
<1> QED BY <1>5, <1>6, <1>7, <1>8 DEF RunTypes

LEMMA RecordTypes ==
    ASSUME WorkflowTypeOK, live' \in Records, exec' \in [Executions -> ExecutionType],
           writes' \in Seq(Snapshots), Len(writes') <= MaxWrites,
           journal' \in Snapshots, events' \in 0 .. MaxEvents,
           \A d \in Executions : ExecOK(exec'[d]),
           \A d \in live'.controls : exec'[d].phase # "none",
           live'.known \/ \A d \in Executions : exec'[d].phase = "none"
    PROVE  RunTypes'
BY DEF WorkflowTypeOK, Records, RunTypes

LEMMA EventTyped ==
    ASSUME WorkflowTypeOK, Event
    PROVE  events' \in 0 .. MaxEvents
BY LiveFields DEF Event

LEMMA AppendTyped ==
    ASSUME WorkflowTypeOK, Room(1), NEW snap \in Snapshots, writes' = Append(writes, snap)
    PROVE  /\ writes' \in Seq(Snapshots) /\ Len(writes') <= MaxWrites
           /\ Len(writes') = Len(writes) + 1 /\ writes' # <<>> /\ writes'[Len(writes')] = snap
           /\ \A i \in DOMAIN writes' : \/ \E j \in DOMAIN writes : writes'[i] = writes[j]
                                        \/ writes'[i] = snap
<1>1. writes \in Seq(Snapshots) /\ Len(writes) + 1 <= MaxWrites
  BY LiveFields DEF Room
<1> QED BY <1>1

LEMMA TailTyped ==
    ASSUME WorkflowTypeOK, writes # <<>>, writes' = Tail(writes)
    PROVE  /\ writes' \in Seq(Snapshots) /\ Len(writes') <= MaxWrites
           /\ Head(writes) \in Snapshots /\ Len(writes') = Len(writes) - 1
           /\ Head(writes) = writes[1] /\ 1 \in DOMAIN writes
           /\ writes' = <<>> => writes[1] = writes[Len(writes)]
           /\ writes' # <<>> => writes'[Len(writes')] = writes[Len(writes)]
           /\ \A i \in DOMAIN writes' : \E j \in DOMAIN writes : writes'[i] = writes[j]
<1>1. writes \in Seq(Snapshots) /\ Len(writes) <= MaxWrites /\ MaxWrites \in Nat
  BY LiveFields DEF WorkflowTypeOK
<1>2. /\ writes' \in Seq(Snapshots) /\ Len(writes') = Len(writes) - 1
      /\ \A i \in 1 .. Len(writes') : writes'[i] = writes[i + 1]
  BY <1>1
<1>3. Len(writes) \in Nat \ {0} /\ Head(writes) = writes[1] /\ writes[1] \in Snapshots
  BY <1>1
<1>4. \A i \in DOMAIN writes' : i + 1 \in DOMAIN writes /\ writes'[i] = writes[i + 1]
  BY <1>1, <1>2, <1>3
<1>5. ASSUME writes' = <<>> PROVE Len(writes) = 1
  <2>1. Len(<< >>) = 0
    BY EmptySeq
  <2>2. Len(writes') = 0
    BY <1>5, <2>1
  <2> QED BY <1>2, <1>3, <2>2
<1>6. writes' # <<>> => writes'[Len(writes')] = writes[Len(writes)]
  <2>1. SUFFICES ASSUME writes' # <<>> PROVE writes'[Len(writes')] = writes[Len(writes)]
    OBVIOUS
  <2>2. Len(writes') \in 1 .. Len(writes') /\ Len(writes') + 1 = Len(writes)
    BY <1>1, <1>2, <2>1
  <2> QED BY <1>2, <2>2
<1> QED BY <1>1, <1>2, <1>3, <1>4, <1>5, <1>6

LEMMA FlushedExecs ==
    ASSUME RunTypes, NEW n \in Nat
    PROVE  /\ Flushed(n) \in [Executions -> ExecutionType]
           /\ \A e \in Executions :
                /\ ExecOK(Flushed(n)[e]) /\ Flushed(n)[e].phase = exec[e].phase
                /\ Flushed(n)[e].st = exec[e].st /\ Flushed(n)[e].work = exec[e].work
                /\ exec[e].owed \in Nat
                /\ Flushed(n)[e].owed = IF exec[e].owed > n THEN exec[e].owed - n ELSE 0
<1>1. ASSUME NEW e \in Executions
      PROVE  /\ Flushed(n)[e] \in ExecutionType
             /\ ExecOK(Flushed(n)[e]) /\ Flushed(n)[e].phase = exec[e].phase
             /\ Flushed(n)[e].st = exec[e].st /\ Flushed(n)[e].work = exec[e].work
             /\ exec[e].owed \in Nat
             /\ Flushed(n)[e].owed = IF exec[e].owed > n THEN exec[e].owed - n ELSE 0
  <2> DEFINE x == exec[e]
             o == IF x.owed > n THEN x.owed - n ELSE 0
             y == [x EXCEPT !.owed = o]
  <2>1. Flushed(n)[e] = y
    <3>1. x \in ExecutionType
      BY DEF RunTypes, ExecOK
    <3> QED BY <3>1 DEF Flushed, ExecutionType
  <2>2. ExecOK(x) /\ x \in ExecutionType
    BY DEF RunTypes, ExecOK
  <2> HIDE DEF x
  <2>3. x.owed \in Nat /\ o \in Nat
    BY <2>2, ExecFields
  <2>4. /\ y \in ExecutionType /\ y.phase = x.phase /\ y.st = x.st /\ y.work = x.work
        /\ y.tries = x.tries /\ y.running = x.running /\ y.owed = o
    <3> HIDE DEF o
    <3> QED BY <2>2, <2>3 DEF ExecutionType
  <2>5. ExecOK(y)
    <3>1. CASE x.phase = "none"
      <4>1. x = NoExecution
        BY <2>2, <3>1 DEF ExecOK
      <4>2. x.owed = 0
        BY <4>1 DEF NoExecution
      <4>3. o = x.owed
        BY <2>3, <4>2
      <4>4. y = x
        BY <2>2, <4>3 DEF ExecutionType
      <4> QED BY <2>2, <4>4
    <3>2. CASE x.phase # "none"
      <4>1. x.phase \in {"create", "flush"} => x.running = {}
        BY <2>2 DEF ExecOK
      <4> HIDE DEF y
      <4> QED BY <2>2, <2>4, <3>2, <4>1, SameWork
    <3> QED BY <3>1, <3>2
  <2> QED BY <2>1, <2>3, <2>4, <2>5 DEF x
<1> QED BY <1>1 DEF Flushed

\* The run starts with execution e.
StartsAs(e) ==
  /\ live' = [NoRecord EXCEPT !.known = TRUE, !.settled = FALSE, !.controls = {e},
                              !.snap = [state |-> "running", st |-> Fresh]]
  /\ exec' = [exec EXCEPT ![e].phase = "create"]
  /\ writes' = <<live'.snap>> /\ UNCHANGED <<journal, events>>

LEMMA StartTypes ==
    ASSUME RunTypes, NEW e \in Executions, ~live.known, StartsAs(e)
    PROVE  /\ RunTypes'
           /\ live'.known /\ ~live'.settled /\ live'.snap = [state |-> "running", st |-> Fresh]
           /\ exec'[e].phase = "create" /\ exec'[e].st = Fresh
           /\ \A d \in Executions \ {e} : exec'[d] = exec[d]
<1> DEFINE y    == Begun("create", FALSE, Fresh)
           snap == [state |-> "running", st |-> Fresh]
<1>1. WorkflowTypeOK /\ exec[e] = NoExecution /\ \A d \in Executions : ExecOK(exec[d])
  BY DEF RunTypes, ExecOK
<1>13. /\ live' = [NoRecord EXCEPT !.known = TRUE, !.settled = FALSE, !.controls = {e},
                                   !.snap = [state |-> "running", st |-> Fresh]]
       /\ exec' = [exec EXCEPT ![e].phase = "create"]
       /\ writes' = <<live'.snap>> /\ journal' = journal /\ events' = events
  BY DEF StartsAs
<1>2. y = [NoExecution EXCEPT !.phase = "create"]
  <2>1. NoExecution \in ExecutionType /\ NoExecution.woken = FALSE /\ NoExecution.st = Fresh
    BY NoExecutionOK DEF ExecOK, NoExecution
  <2> QED BY <2>1 DEF Begun, ExecutionType
<1>3. ExecOK(y) /\ y.phase = "create" /\ y.st = Fresh
  <2>1. \A f \in Foreach : Fresh[f] # "running"
    BY UnitFacts DEF Fresh
  <2>2. "create" \in {"create", "run"} /\ FALSE \in BOOLEAN /\ Fresh \in [Nodes -> NodeState]
    BY FreshTyped
  <2> QED BY <2>1, <2>2, BegunOK
<1> HIDE DEF y
<1>4. exec' = [exec EXCEPT ![e] = y]
  BY <1>1, <1>2, <1>13
<1>5. exec' \in [Executions -> ExecutionType]
      /\ \A d \in Executions : exec'[d] = IF d = e THEN y ELSE exec[d]
  BY <1>1, <1>3, <1>4, LiveFields DEF ExecOK
<1>6. snap \in Snapshots
  BY FreshTyped DEF Snapshots
<1> HIDE DEF snap
<1>7. /\ live' \in Records /\ live'.known /\ ~live'.settled /\ live'.controls = {e}
      /\ live'.snap = snap
  BY <1>6, <1>13, NoRecordTyped DEF Records, snap
<1>8. writes' \in Seq(Snapshots) /\ Len(writes') <= MaxWrites
  <2>1. writes' = <<snap>> /\ MaxWrites \in Nat \ {0}
    BY <1>1, <1>7, <1>13, LiveFields
  <2> QED BY <1>6, <2>1
<1>9. journal' \in Snapshots /\ events' \in 0 .. MaxEvents
  BY <1>1, <1>13, LiveFields
<1>10. \A d \in Executions : ExecOK(exec'[d])
  BY <1>1, <1>3, <1>5
<1>11. \A d \in live'.controls : exec'[d].phase # "none"
  BY <1>3, <1>5, <1>7
<1>12. RunTypes'
  BY <1>1, <1>5, <1>7, <1>8, <1>9, <1>10, <1>11, RecordTypes
<1> QED BY <1>3, <1>5, <1>7, <1>12 DEF snap

LEMMA CancelTypes ==
    ASSUME RunTypes, Cancel
    PROVE  /\ RunTypes'
           /\ live'.known = live.known /\ live'.settled = live.settled
           /\ live'.snap.st = live.snap.st /\ live'.snap.state = "cancelled"
           /\ live'.snap \in Snapshots
           /\ \A d \in Executions : /\ exec'[d].phase = exec[d].phase /\ exec'[d].st = exec[d].st
                                    /\ exec'[d].work = exec[d].work
<1> DEFINE snap == [live.snap EXCEPT !.state = "cancelled"]
           y(e) == [exec[e] EXCEPT !.cancelled = TRUE]
<1>1. /\ WorkflowTypeOK /\ ~live.settled /\ live.known /\ Room(1) /\ Event
      /\ writes' = Append(writes, live'.snap) /\ journal' = journal
      /\ live' = [live EXCEPT !.cancelAsked = TRUE, !.snap.state = "cancelled"]
      /\ exec' = [e \in Executions |-> IF e \in live.controls THEN y(e) ELSE exec[e]]
  BY DEF RunTypes, Cancel
<1>2. /\ live.controls \subseteq Executions /\ \A d \in live.controls : exec[d].phase # "none"
      /\ \A d \in Executions : ExecOK(exec[d])
  BY <1>1 DEF RunTypes, WorkflowTypeOK
<1>3. snap \in Snapshots /\ snap.st = live.snap.st /\ snap.state = "cancelled"
  <2>1. live.snap \in Snapshots
    BY <1>1, LiveFields
  <2> QED BY <2>1 DEF Snapshots, RunTerminal
<1>4. /\ live' \in Records /\ live'.snap = snap /\ live'.settled = live.settled
      /\ live'.known = live.known /\ live'.controls = live.controls
  <2>1. live \in Records /\ live.snap \in Snapshots
    BY <1>1, LiveFields
  <2>2. live' = [live EXCEPT !.cancelAsked = TRUE, !.snap = snap]
    BY <1>1, <2>1 DEF Records
  <2> HIDE DEF snap
  <2> QED BY <1>3, <2>1, <2>2 DEF Records
<1>5. ASSUME NEW c \in live.controls
      PROVE  /\ y(c) \in ExecutionType /\ y(c).phase = exec[c].phase /\ y(c).st = exec[c].st
             /\ y(c).work = exec[c].work /\ ExecOK(y(c))
  <2> DEFINE x == exec[c]
             z == y(c)
  <2>1. ExecOK(x) /\ x \in ExecutionType /\ x.phase # "none"
    BY <1>2 DEF ExecOK
  <2>2. z = [x EXCEPT !.cancelled = TRUE]
    OBVIOUS
  <2>3. x.phase \in {"create", "flush"} => x.running = {}
    BY <2>1 DEF ExecOK
  <2> HIDE DEF x, z
  <2>4. /\ z \in ExecutionType /\ z.phase = x.phase /\ z.st = x.st /\ z.work = x.work
        /\ z.tries = x.tries /\ z.running = x.running
    BY <2>1, <2>2 DEF ExecutionType
  <2>5. ExecOK(z)
    BY <2>1, <2>3, <2>4, SameWork
  <2> QED BY <2>4, <2>5 DEF x, z
<1> HIDE DEF y, snap
<1>6. exec' \in [Executions -> ExecutionType]
      /\ \A d \in Executions : exec'[d] = IF d \in live.controls THEN y(d) ELSE exec[d]
  BY <1>1, <1>5, LiveFields
<1>7. writes' \in Seq(Snapshots) /\ Len(writes') <= MaxWrites
  BY <1>1, <1>3, <1>4, AppendTyped
<1>8. journal' \in Snapshots /\ events' \in 0 .. MaxEvents
  BY <1>1, LiveFields, EventTyped
<1>9. /\ \A d \in Executions : ExecOK(exec'[d]) /\ exec'[d].phase = exec[d].phase
                               /\ exec'[d].st = exec[d].st /\ exec'[d].work = exec[d].work
      /\ \A d \in live'.controls : exec'[d].phase # "none"
  BY <1>2, <1>4, <1>5, <1>6
<1>10. RunTypes'
  BY <1>1, <1>2, <1>4, <1>6, <1>7, <1>8, <1>9, RecordTypes
<1> QED BY <1>3, <1>4, <1>9, <1>10

LEMMA ResumeTypes ==
    ASSUME RunTypes, Resume
    PROVE  /\ RunTypes' /\ live'.known /\ ~live'.settled /\ live'.snap \in Snapshots
           /\ live'.snap.st = Resumed(live.snap.st) /\ live'.snap.state = "running"
           /\ Keeps(live.snap.st, Resumed(live.snap.st))
           /\ \E e \in Executions :
                /\ exec[e].phase = "none"
                /\ exec'[e].phase = "run" /\ exec'[e].st = live'.snap.st
                /\ \A d \in Executions \ {e} : exec'[d].phase = exec[d].phase
<1> DEFINE z(d) == [exec[d] EXCEPT !.cancelled = FALSE]
           kept == [d \in Executions |-> IF d \in Creating THEN z(d) ELSE exec[d]]
           y    == Begun("run", TRUE, Resumed(live.snap.st))
           snap == [state |-> "running", st |-> Resumed(live.snap.st)]
<1>1. /\ WorkflowTypeOK /\ Room(1) /\ Event /\ journal' = journal /\ live.known
      /\ writes' = Append(writes, live'.snap) /\ \A d \in Executions : ExecOK(exec[d])
  BY DEF RunTypes, Resume
<1>2. PICK e \in Executions :
        /\ exec[e] = NoExecution
        /\ exec' = [kept EXCEPT ![e].phase = "run", ![e].woken = TRUE,
                                ![e].st = Resumed(live.snap.st)]
        /\ live' = [live EXCEPT !.settled = FALSE, !.cancelAsked = FALSE,
                      !.controls = {e} \cup Creating, !.writeFailed = FALSE, !.snap = snap]
  BY DEF Resume
<1>3. live \in Records /\ live.snap.st \in [Nodes -> NodeState]
      /\ exec \in [Executions -> ExecutionType]
  BY <1>1, LiveFields
<1>4. /\ Resumed(live.snap.st) \in [Nodes -> NodeState]
      /\ Keeps(live.snap.st, Resumed(live.snap.st))
      /\ \A f \in Foreach : Resumed(live.snap.st)[f] # "running"
  BY <1>3, ResumedKeeps
<1>5. snap \in Snapshots /\ snap.state = "running" /\ snap.st = Resumed(live.snap.st)
  BY <1>4 DEF Snapshots
<1>6. ExecOK(y) /\ y.phase = "run" /\ y.st = snap.st
  <2>1. "run" \in {"create", "run"} /\ TRUE \in BOOLEAN
    OBVIOUS
  <2> QED BY <1>4, <1>5, <2>1, BegunOK
<1> HIDE DEF snap
<1>16. ASSUME NEW d \in Executions
       PROVE  /\ kept[d] \in ExecutionType /\ ExecOK(kept[d]) /\ kept[d].phase = exec[d].phase
              /\ d \notin Creating => kept[d] = exec[d]
  <2> DEFINE x == exec[d]
             w == z(d)
  <2>1. ExecOK(x) /\ x \in ExecutionType /\ kept[d] = IF d \in Creating THEN w ELSE x
    BY <1>1, <1>3
  <2>2. CASE d \notin Creating
    BY <2>1, <2>2
  <2>3. CASE d \in Creating
    <3>1. x.phase = "create" /\ x.running = {} /\ kept[d] = w
      BY <2>1, <2>3 DEF Creating, ExecOK
    <3>2. w = [x EXCEPT !.cancelled = FALSE]
      OBVIOUS
    <3> HIDE DEF x, w, kept
    <3>3. /\ w \in ExecutionType /\ w.phase = x.phase /\ w.st = x.st /\ w.work = x.work
          /\ w.tries = x.tries /\ w.running = x.running
      BY <2>1, <3>2 DEF ExecutionType
    <3>4. ExecOK(w)
      BY <2>1, <3>1, <3>3, SameWork
    <3> QED BY <2>3, <3>1, <3>3, <3>4 DEF x
  <2> QED BY <2>2, <2>3
<1>17. e \notin Creating /\ kept[e] = NoExecution
  <2>1. e \notin Creating
    BY <1>2 DEF Creating, NoExecution
  <2> QED BY <1>2, <1>16, <2>1
<1>18. kept \in [Executions -> ExecutionType]
  <2>1. kept = [d \in Executions |-> kept[d]]
    OBVIOUS
  <2> HIDE DEF kept
  <2> QED BY <1>16, <2>1
<1> HIDE DEF kept, z
<1>7. exec' = [kept EXCEPT ![e] = y]
  BY <1>2, <1>17, <1>18 DEF Begun, NoExecution
<1> HIDE DEF y
<1>8. exec' \in [Executions -> ExecutionType]
      /\ \A d \in Executions : exec'[d] = IF d = e THEN y ELSE kept[d]
  BY <1>6, <1>7, <1>18 DEF ExecOK
<1>9. /\ live' \in Records /\ live'.known /\ ~live'.settled /\ live'.controls = {e} \cup Creating
      /\ live'.snap = snap
  <2>1. {e} \cup Creating \in SUBSET Executions
    BY DEF Creating
  <2> QED BY <1>1, <1>2, <1>3, <1>5, <2>1 DEF Records
<1>10. writes' \in Seq(Snapshots) /\ Len(writes') <= MaxWrites
  BY <1>1, <1>5, <1>9, AppendTyped
<1>11. journal' \in Snapshots /\ events' \in 0 .. MaxEvents
  BY <1>1, LiveFields, EventTyped
<1>12. \A d \in Executions : ExecOK(exec'[d])
  BY <1>6, <1>8, <1>16
<1>13. \A d \in live'.controls : exec'[d].phase # "none"
  <2>1. \A d \in Creating : d \in Executions /\ exec[d].phase = "create"
    BY DEF Creating
  <2> QED BY <1>6, <1>8, <1>9, <1>16, <2>1
<1>14. RunTypes'
  BY <1>1, <1>8, <1>9, <1>10, <1>11, <1>12, <1>13, RecordTypes
<1>15. /\ exec[e].phase = "none" /\ exec'[e].phase = "run" /\ exec'[e].st = live'.snap.st
       /\ \A d \in Executions \ {e} : exec'[d].phase = exec[d].phase
  <2>1. exec[e].phase = "none"
    BY <1>2 DEF NoExecution
  <2>2. exec'[e] = y /\ exec'[e].st = live'.snap.st
    BY <1>6, <1>8, <1>9
  <2> QED BY <1>6, <1>8, <1>16, <2>1, <2>2
<1> QED BY <1>4, <1>5, <1>9, <1>14, <1>15

LEMMA WriteTypes ==
    ASSUME RunTypes, Write \/ WriteFails
    PROVE  /\ RunTypes'
           /\ live'.known = live.known /\ live'.settled = live.settled /\ live'.snap = live.snap
<1>1. /\ WorkflowTypeOK /\ writes # <<>> /\ writes' = Tail(writes) /\ exec' = Flushed(1)
      /\ live.controls \subseteq Executions /\ \A d \in live.controls : exec[d].phase # "none"
      /\ ~live.known => \A d \in Executions : exec[d].phase = "none"
  BY DEF RunTypes, WorkflowTypeOK, Write, WriteFails
<1>2. /\ writes' \in Seq(Snapshots) /\ Len(writes') <= MaxWrites /\ Head(writes) \in Snapshots
  BY <1>1, TailTyped
<1>3. /\ live' \in Records /\ live'.known = live.known /\ live'.settled = live.settled
      /\ live'.snap = live.snap /\ live'.controls = live.controls
  <2>1. live \in Records
    BY <1>1, LiveFields
  <2> QED BY <2>1 DEF Write, WriteFails, Records
<1>4. journal' \in Snapshots /\ events' \in 0 .. MaxEvents
  <2>1. Headless \in Snapshots
    BY HeadlessTyped
  <2> QED BY <1>1, <1>2, <2>1, LiveFields, EventTyped DEF Write, WriteFails
<1>5. /\ exec' \in [Executions -> ExecutionType]
      /\ \A d \in Executions : ExecOK(exec'[d]) /\ exec'[d].phase = exec[d].phase
  BY <1>1, FlushedExecs
<1>6. \A d \in live'.controls : exec'[d].phase # "none"
  BY <1>1, <1>3, <1>5
<1>8. live'.known \/ \A d \in Executions : exec'[d].phase = "none"
  BY <1>1, <1>3, <1>5
<1>7. RunTypes'
  BY <1>1, <1>2, <1>3, <1>4, <1>5, <1>6, <1>8, RecordTypes
<1> QED BY <1>3, <1>7

(* What an execution that throws leaves behind, when queue waits for the       *)
(* journal at that time.                                                      *)
LEMMA ThrowsTyped ==
    ASSUME WorkflowTypeOK, NEW queue \in Seq(Snapshots), NEW failed \in BOOLEAN,
           Throws(queue, failed)
    PROVE  /\ live' \in Records /\ live'.settled /\ live'.known = live.known
           /\ live'.controls = {} /\ live'.snap.st = live.snap.st
           /\ live'.snap.state # "completed"
           /\ writes' \in Seq(Snapshots) /\ Len(writes') <= MaxWrites
           /\ writes' # <<>> /\ writes'[Len(writes')] = live'.snap
           /\ \A i \in DOMAIN writes' : \/ \E j \in DOMAIN queue : writes'[i] = queue[j]
                                        \/ writes'[i] = live'.snap
<1> DEFINE bad == [live.snap EXCEPT !.state = IF live.cancelAsked THEN "cancelled" ELSE "failed"]
<1>1. /\ Len(queue) < MaxWrites /\ writes' = Append(queue, bad)
      /\ live' = [live EXCEPT !.settled = TRUE, !.controls = {}, !.snap = bad,
                              !.writeFailed = failed]
  BY DEF Throws
<1>2. live \in Records /\ live.snap \in Snapshots /\ MaxWrites \in Nat
  BY LiveFields
<1>3. bad \in Snapshots /\ bad.st = live.snap.st /\ bad.state # "completed"
  BY <1>2 DEF Snapshots, RunTerminal
<1> HIDE DEF bad
<1>4. /\ live' \in Records /\ live'.settled /\ live'.known = live.known
      /\ live'.controls = {} /\ live'.snap = bad
  BY <1>1, <1>2, <1>3 DEF Records
<1>5. /\ writes' \in Seq(Snapshots) /\ Len(writes') <= MaxWrites
      /\ writes' # <<>> /\ writes'[Len(writes')] = bad
      /\ \A i \in DOMAIN writes' : \/ \E j \in DOMAIN queue : writes'[i] = queue[j]
                                   \/ writes'[i] = bad
  BY <1>1, <1>2, <1>3
<1> QED BY <1>3, <1>4, <1>5

(* The end of an execution that throws: its run settles, as failed or cancelled. *)
Thrown(e) ==
  /\ exec[e].phase # "none" /\ exec'[e] = NoExecution
  /\ exec' \in [Executions -> ExecutionType]
  /\ \A d \in Executions \ {e} :
       ExecOK(exec'[d]) /\ exec'[d].phase = exec[d].phase /\ exec'[d].work = exec[d].work
  /\ \E queue \in Seq(Snapshots), failed \in BOOLEAN :
       /\ Throws(queue, failed)
       /\ \A i \in DOMAIN queue : \E j \in DOMAIN writes : queue[i] = writes[j]
  /\ journal' \in {journal, Headless} /\ events' \in 0 .. MaxEvents

LEMMA ThrowsEnd ==
    ASSUME RunTypes, NEW e \in Executions, exec[e].phase # "none",
           exec' = [exec EXCEPT ![e] = NoExecution], UNCHANGED <<journal, events>>,
           NEW failed \in BOOLEAN, Throws(writes, failed)
    PROVE  Thrown(e)
<1>1. /\ WorkflowTypeOK /\ exec \in [Executions -> ExecutionType]
      /\ \A d \in Executions : ExecOK(exec[d])
      /\ writes \in Seq(Snapshots) /\ events \in 0 .. MaxEvents
  BY LiveFields DEF RunTypes
<1>2. /\ exec' \in [Executions -> ExecutionType]
      /\ \A d \in Executions : exec'[d] = IF d = e THEN NoExecution ELSE exec[d]
  BY <1>1, NoExecutionOK DEF ExecOK
<1> QED BY <1>1, <1>2 DEF Thrown

LEMMA CreatedThrows ==
    ASSUME RunTypes, NEW e \in Executions, Created(e), e \notin live.controls
    PROVE  Thrown(e)
<1>1. /\ exec[e].phase = "create" /\ exec' = [exec EXCEPT ![e] = NoExecution]
      /\ Throws(writes, live.writeFailed) /\ UNCHANGED <<journal, events>>
  BY DEF Created
<1>2. live.writeFailed \in BOOLEAN
  BY DEF RunTypes, WorkflowTypeOK
<1> QED BY <1>1, <1>2, ThrowsEnd

LEMMA SettleThrows ==
    ASSUME RunTypes, NEW e \in Executions, Settle(e), live.writeFailed
    PROVE  Thrown(e)
<1>1. /\ exec[e].phase = "flush" /\ exec' = [exec EXCEPT ![e] = NoExecution]
      /\ Throws(writes, TRUE) /\ UNCHANGED <<journal, events>>
  BY DEF Settle
<1> QED BY <1>1, ThrowsEnd

LEMMA CreateFailsThrows ==
    ASSUME RunTypes, NEW e \in Executions, CreateFails(e)
    PROVE  Thrown(e)
<1> DEFINE queue  == SubSeq(writes, 3, Len(writes))
           failed == live.writeFailed \/ Len(writes) > 1
           kept   == Flushed(2)
<1>1. /\ WorkflowTypeOK /\ exec[e].phase = "create" /\ Event /\ journal' = Headless
      /\ exec' = [kept EXCEPT ![e] = NoExecution] /\ Throws(queue, failed)
  BY DEF RunTypes, CreateFails
<1>2. writes \in Seq(Snapshots) /\ failed \in BOOLEAN
  BY <1>1, LiveFields
<1>3. /\ queue \in Seq(Snapshots)
      /\ \A i \in DOMAIN queue : \E j \in DOMAIN writes : queue[i] = writes[j]
  <2>1. \A i \in 3 .. Len(writes) : writes[i] \in Snapshots
    BY <1>2
  <2>2. queue \in Seq(Snapshots) /\ \A i \in 1 .. Len(queue) : queue[i] = writes[i + 2]
        /\ Len(queue) = IF 3 <= Len(writes) THEN Len(writes) - 2 ELSE 0
    BY <1>2, <2>1, SubSeqProperties
  <2> HIDE DEF queue
  <2>3. \A i \in DOMAIN queue : i + 2 \in DOMAIN writes /\ queue[i] = writes[i + 2]
    BY <1>2, <2>2
  <2> QED BY <2>2, <2>3
<1> HIDE DEF queue, failed
<1>4. /\ kept \in [Executions -> ExecutionType]
      /\ \A d \in Executions :
           ExecOK(kept[d]) /\ kept[d].phase = exec[d].phase /\ kept[d].work = exec[d].work
  <2>1. 2 \in Nat
    OBVIOUS
  <2> QED BY <2>1, FlushedExecs
<1> HIDE DEF kept
<1>5. /\ exec' \in [Executions -> ExecutionType]
      /\ \A d \in Executions : exec'[d] = IF d = e THEN NoExecution ELSE kept[d]
  BY <1>1, <1>4, NoExecutionOK DEF ExecOK
<1>6. events' \in 0 .. MaxEvents
  BY <1>1, EventTyped
<1> QED BY <1>1, <1>2, <1>3, <1>4, <1>5, <1>6 DEF Thrown

LEMMA ThrownTypes ==
    ASSUME RunTypes, NEW e \in Executions, Thrown(e)
    PROVE  RunTypes'
<1>1. /\ WorkflowTypeOK /\ exec[e].phase # "none" /\ live.known /\ exec'[e] = NoExecution
      /\ exec' \in [Executions -> ExecutionType]
      /\ \A d \in Executions \ {e} : ExecOK(exec'[d])
      /\ journal' \in {journal, Headless} /\ events' \in 0 .. MaxEvents
  BY DEF RunTypes, Thrown
<1>2. PICK queue \in Seq(Snapshots), failed \in BOOLEAN : Throws(queue, failed)
  BY DEF Thrown
<1>3. /\ live' \in Records /\ live'.known = live.known /\ live'.controls = {}
      /\ writes' \in Seq(Snapshots) /\ Len(writes') <= MaxWrites
  BY <1>1, <1>2, ThrowsTyped
<1>4. journal' \in Snapshots
  BY <1>1, LiveFields, HeadlessTyped
<1>5. \A d \in Executions : ExecOK(exec'[d])
  BY <1>1, NoExecutionOK
<1> QED BY <1>1, <1>3, <1>4, <1>5, RecordTypes

LEMMA SettleTypes ==
    ASSUME RunTypes, NEW e \in Executions, Settle(e), ~live.writeFailed
    PROVE  /\ RunTypes'
           /\ exec'[e] = NoExecution /\ \A d \in Executions \ {e} : exec'[d] = exec[d]
           /\ live'.settled /\ live'.known = live.known /\ live'.snap = live.snap
           /\ live'.writeFailed = live.writeFailed
<1>1. /\ WorkflowTypeOK /\ UNCHANGED <<writes, journal, events>> /\ exec[e].phase = "flush"
      /\ live' = [live EXCEPT !.settled = TRUE, !.controls = {}]
      /\ exec' = [exec EXCEPT ![e] = NoExecution] /\ \A d \in Executions : ExecOK(exec[d])
      /\ live.known
  BY DEF RunTypes, Settle
<1>2. live \in Records /\ exec \in [Executions -> ExecutionType]
  BY <1>1, LiveFields
<1>3. /\ live' \in Records /\ live'.settled /\ live'.known = live.known
      /\ live'.snap = live.snap /\ live'.writeFailed = live.writeFailed /\ live'.controls = {}
  BY <1>1, <1>2 DEF Records
<1>4. /\ exec' \in [Executions -> ExecutionType]
      /\ \A d \in Executions : exec'[d] = IF d = e THEN NoExecution ELSE exec[d]
  BY <1>1, <1>2, NoExecutionOK DEF ExecOK
<1>5. \A d \in Executions : ExecOK(exec'[d])
  BY <1>1, <1>4, NoExecutionOK
<1>6. /\ journal' \in Snapshots /\ events' \in 0 .. MaxEvents
      /\ writes' \in Seq(Snapshots) /\ Len(writes') <= MaxWrites
  BY <1>1, LiveFields DEF WorkflowTypeOK
<1>7. RunTypes'
  BY <1>1, <1>3, <1>4, <1>5, <1>6, RecordTypes
<1> QED BY <1>3, <1>4, <1>7

LEMMA CrashTypes ==
    ASSUME RunTypes, Crash
    PROVE  RunTypes' /\ \A d \in Executions : exec'[d] = NoExecution
<1>1. /\ WorkflowTypeOK /\ live' = NoRecord /\ writes' = <<>> /\ journal' = journal /\ Event
      /\ exec' = [e \in Executions |-> NoExecution]
  BY DEF RunTypes, Crash
<1>2. /\ exec' \in [Executions -> ExecutionType]
      /\ \A d \in Executions : exec'[d] = NoExecution /\ ExecOK(exec'[d])
      /\ \A d \in Executions : exec'[d].phase = "none"
  <2>1. NoExecution.phase = "none"
    BY DEF NoExecution
  <2> QED BY <1>1, <2>1, NoExecutionOK DEF ExecOK
<1>3. live' \in Records /\ live'.controls = {}
  BY <1>1, NoRecordTyped DEF NoRecord
<1>4. writes' \in Seq(Snapshots) /\ Len(writes') <= MaxWrites
  <2>1. << >> \in Seq(Snapshots) /\ Len(<< >>) = 0 /\ MaxWrites \in Nat \ {0}
    BY <1>1, EmptySeq, LiveFields
  <2> QED BY <1>1, <2>1
<1>5. journal' \in Snapshots /\ events' \in 0 .. MaxEvents
  BY <1>1, LiveFields, EventTyped
<1> QED BY <1>1, <1>2, <1>3, <1>4, <1>5, RecordTypes

LEMMA InterruptedKeeps ==
    ASSUME NEW snap \in Snapshots
    PROVE  Interrupted(snap) \in Snapshots /\ Keeps(snap.st, Interrupted(snap).st)
<1> DEFINE st == [n \in Nodes |-> IF n \in Steps /\ snap.st[n] \in {"running", "queued"}
                                  THEN "interrupted" ELSE snap.st[n]]
<1>1. snap.st \in [Nodes -> NodeState]
  BY DEF Snapshots
<1>2. st \in [Nodes -> NodeState] /\ Keeps(snap.st, st)
  <2>1. "interrupted" \in NodeState
    BY DEF NodeState, Terminal, Failure
  <2>2. \A u \in Units : u \in Nodes
    BY UnitFacts
  <2> QED BY <1>1, <2>1, <2>2 DEF Keeps
<1>3. Interrupted(snap) = IF snap.state \in RunTerminal THEN snap
                          ELSE [state |-> "interrupted", st |-> st]
  BY DEF Interrupted
<1> HIDE DEF st
<1>4. [state |-> "interrupted", st |-> st] \in Snapshots
  BY <1>2 DEF Snapshots, RunTerminal
<1>5. Keeps(snap.st, snap.st)
  BY DEF Keeps
<1> QED BY <1>2, <1>3, <1>4, <1>5

LEMMA RestoreTypes ==
    ASSUME RunTypes, Restore
    PROVE  /\ RunTypes' /\ live'.known /\ live'.snap = Interrupted(journal)
           /\ live'.settled /\ Interrupted(journal) \in Snapshots
<1> DEFINE snap == Interrupted(journal)
<1>1. /\ WorkflowTypeOK /\ journal' = snap /\ UNCHANGED <<exec, writes, events>>
      /\ live' = [NoRecord EXCEPT !.known = TRUE, !.snap = snap]
      /\ \A d \in Executions : ExecOK(exec[d])
  BY DEF RunTypes, Restore
<1>2. snap \in Snapshots
  BY <1>1, LiveFields, InterruptedKeeps
<1> HIDE DEF snap
<1>3. /\ live' \in Records /\ live'.known /\ live'.snap = snap /\ live'.settled
      /\ live'.controls = {}
  <2>1. NoRecord.controls = {}
    BY DEF NoRecord
  <2> QED BY <1>1, <1>2, <2>1, NoRecordTyped DEF Records
<1>4. /\ exec' \in [Executions -> ExecutionType] /\ writes' \in Seq(Snapshots)
      /\ Len(writes') <= MaxWrites /\ journal' \in Snapshots /\ events' \in 0 .. MaxEvents
  BY <1>1, <1>2, LiveFields DEF WorkflowTypeOK
<1>5. \A d \in Executions : ExecOK(exec'[d])
  BY <1>1
<1>6. RunTypes'
  BY <1>1, <1>3, <1>4, <1>5, RecordTypes
<1> QED BY <1>2, <1>3, <1>6 DEF snap

\* What a step of the program is, by what it does to the executions.
Moves == \E e \in Executions : \E y : Moved(e, y)

LEMMA NextMoves ==
    ASSUME RunTypes, Next
    PROVE  \/ Moves \/ Start \/ Cancel \/ Resume \/ Write \/ WriteFails \/ Crash \/ Restore
           \/ \E e \in Executions : Thrown(e) \/ (Settle(e) /\ ~live.writeFailed)
<1>1. \/ \E e \in Executions : ExecutionSteps(e) \/ Created(e) \/ CreateFails(e) \/ Settle(e)
      \/ Start \/ Cancel \/ Resume \/ Write \/ WriteFails \/ Crash \/ Restore
  BY DEF Next, Engine, World, ExecutionSteps
<1>2. \A e \in Executions : ExecutionSteps(e) => \E y : Moved(e, y)
  BY StepsMove
<1>3. \A e \in Executions : Created(e) => ExecutionSteps(e) \/ Thrown(e)
  BY CreatedThrows DEF ExecutionSteps
<1>4. \A e \in Executions : CreateFails(e) => Thrown(e)
  BY CreateFailsThrows
<1>5. \A e \in Executions : Settle(e) => Thrown(e) \/ ~live.writeFailed
  BY SettleThrows
<1> QED BY <1>1, <1>2, <1>3, <1>4, <1>5 DEF Moves

LEMMA StepTypes == RunTypes /\ [Next]_vars => RunTypes'
<1>1. SUFFICES ASSUME RunTypes, [Next]_vars PROVE RunTypes'
  OBVIOUS
<1>2. CASE UNCHANGED vars
  <2>1. UNCHANGED <<live, exec, writes, journal, events>>
    BY <1>2 DEF vars
  <2>2. /\ WorkflowTypeOK /\ \A e \in Executions : ExecOK(exec[e])
        /\ \A e \in live.controls : exec[e].phase # "none"
        /\ ~live.known => \A e \in Executions : exec[e].phase = "none"
    BY <1>1 DEF RunTypes
  <2>3. WorkflowTypeOK'
    BY <2>1, <2>2 DEF WorkflowTypeOK
  <2> QED BY <2>1, <2>2, <2>3 DEF RunTypes
<1>3. CASE Next
  <2>1. CASE Moves
    BY <1>1, <2>1, MovedTypes DEF Moves
  <2>2. CASE Start
    <3>1. ~live.known /\ \E e \in Executions : StartsAs(e)
      BY <2>2 DEF Start, StartsAs
    <3> QED BY <1>1, <3>1, StartTypes
  <2> QED BY <1>1, <1>3, <2>1, <2>2, CancelTypes, ResumeTypes, WriteTypes, ThrownTypes,
             SettleTypes, CrashTypes, RestoreTypes, NextMoves
<1> QED BY <1>1, <1>2, <1>3

(* Every variable of the run has its type, the executions theirs, in every     *)
(* run of the manager and the engine, whether its clients are patient or not.  *)
THEOREM WorkflowTypeCorrect == Spec => []WorkflowTypeOK
<1>1. Init => RunTypes
  BY InitTypes
<1>2. RunTypes /\ [Next]_vars => RunTypes'
  BY StepTypes
<1>3. RunTypes => WorkflowTypeOK
  BY DEF RunTypes
<1> QED BY <1>1, <1>2, <1>3, PTL DEF Spec

\* The second half of QuietWhenSettled.
AtRestOnReturn ==
  \A e \in Executions :
    exec[e].phase \in {"flush", "none"} => \A u \in Units : exec[e].work[u] = "idle"

LEMMA TypesRest == RunTypes => AtRestOnReturn
<1>1. SUFFICES ASSUME RunTypes, NEW e \in Executions, exec[e].phase \in {"flush", "none"},
                      NEW u \in Units
               PROVE  exec[e].work[u] = "idle"
  BY DEF AtRestOnReturn
<1>2. ExecOK(exec[e])
  BY <1>1 DEF RunTypes
<1>3. exec[e].running = {}
  BY <1>1, <1>2 DEF ExecOK
<1> QED BY <1>2, <1>3, AllIdle DEF Busy

(* The engine never returns from an execution while an attempt of one of its   *)
(* units is under way or waits for a slot: not after an abort, not when a       *)
(* resumed run has left an older execution behind.                              *)
THEOREM EngineReturnsAtRest == Spec => []AtRestOnReturn
<1>1. Init => RunTypes
  BY InitTypes
<1>2. RunTypes /\ [Next]_vars => RunTypes'
  BY StepTypes
<1> QED BY <1>1, <1>2, TypesRest, PTL DEF Spec
-----------------------------------------------------------------------------
(* What is written, and what stays done, when clients are patient.             *)

LEMMA KeepsOn ==
    ASSUME NEW a, NEW b, NEW c, Keeps(a, b), Keeps(b, c)
    PROVE  Keeps(a, c)
BY DEF Keeps

LEMMA KeepsSelf == ASSUME NEW a PROVE Keeps(a, a)
BY DEF Keeps

LEMMA InitHistory == Init => RunInv
<1>1. SUFFICES ASSUME Init PROVE RunInv
  OBVIOUS
<1>2. /\ live = NoRecord /\ journal = NoSnapshot /\ writes = <<>>
      /\ \A e \in Executions : exec[e].phase = "none"
  <2>1. NoExecution.phase = "none"
    BY DEF NoExecution
  <2> QED BY <1>1, <2>1 DEF Init
<1>3. ~live.known /\ live.snap = NoSnapshot /\ NoSnapshot.state = "none"
  BY <1>2, NoRecordTyped
<1>4. Alone /\ JournalOK /\ HistoryOK
  BY <1>2, <1>3 DEF Alone, JournalOK, HistoryOK
<1> QED BY <1>1, <1>4, InitTypes DEF RunInv

LEMMA MovedHistory ==
    ASSUME RunInv, NEW e \in Executions, NEW y, Moved(e, y)
    PROVE  Alone' /\ JournalOK' /\ HistoryOK'
<1>1. /\ exec[e].phase # "none" /\ Keeps(exec[e].st, y.st) /\ exec' = [exec EXCEPT ![e] = y]
      /\ Told(y.st) /\ journal' = journal /\ ExecOK(y) /\ y.phase # "none"
      /\ y.phase = "flush" => y.owed = Len(writes')
  BY DEF Moved
<1>2. /\ WorkflowTypeOK /\ ~live.settled /\ live.known
      /\ \A d \in Executions \ {e} : exec[d].phase = "none"
  BY <1>1 DEF RunInv, RunTypes, Alone
<1>3. /\ exec'[e] = y /\ \A d \in Executions \ {e} : exec'[d].phase = "none"
  BY <1>1, <1>2, LiveFields
<1>4. /\ live'.known /\ ~live'.settled /\ live'.writeFailed = live.writeFailed
  BY <1>1, <1>2 DEF Told, Grown, Overtaken
<1>5. Alone'
  BY <1>3, <1>4 DEF Alone
<1>6. ~live'.writeFailed => Newest' = live'.snap \/ (writes' = <<>> /\ journal' = Headless)
  <2>1. CASE UNCHANGED <<live, writes>>
    BY <1>1, <1>2, <2>1 DEF Newest, RunInv, JournalOK
  <2>2. CASE Grown(y.st)
    <3>1. writes' # <<>>
      <4>1. Len(writes') > 0 /\ Len(<< >>) = 0
        BY <2>2, EmptySeq DEF Grown
      <4> QED BY <4>1
    <3> QED BY <2>2, <3>1 DEF Newest, Grown
  <2> QED BY <1>1, <1>2, <2>1, <2>2 DEF Told, Overtaken
<1>7. y.phase = "flush" => Len(writes') <= y.owed
  <2>1. y.owed \in Nat
    BY <1>1, ExecFields DEF ExecOK
  <2> QED BY <1>1, <2>1
<1>8. JournalOK'
  BY <1>3, <1>4, <1>6, <1>7 DEF JournalOK
<1>9. /\ Keeps(journal.st, live.snap.st) /\ Keeps(live.snap.st, exec[e].st)
      /\ \A i \in DOMAIN writes : Keeps(writes[i].st, live.snap.st)
  BY <1>1, <1>2 DEF RunInv, HistoryOK
<1>10. Keeps(live.snap.st, y.st)
  BY <1>1, <1>9, KeepsOn
<1>11. /\ Keeps(journal'.st, live'.snap.st) /\ Keeps(live'.snap.st, y.st)
       /\ \A i \in DOMAIN writes' : Keeps(writes'[i].st, live'.snap.st)
  <2>1. CASE UNCHANGED <<live, writes>>
    BY <1>1, <1>9, <1>10, <2>1
  <2>2. CASE Grown(y.st)
    <3>1. live'.snap.st = y.st
      BY <2>2 DEF Grown
    <3>2. Keeps(journal.st, y.st) /\ Keeps(y.st, y.st)
      BY <1>9, <1>10, KeepsOn, KeepsSelf
    <3>3. \A i \in DOMAIN writes : Keeps(writes[i].st, y.st)
      BY <1>9, <1>10, KeepsOn
    <3>4. ASSUME NEW i \in DOMAIN writes' PROVE Keeps(writes'[i].st, y.st)
      <4>1. \/ \E j \in DOMAIN writes : writes'[i] = writes[j]
            \/ Keeps(writes'[i].st, y.st)
        BY <2>2 DEF Grown
      <4> QED BY <3>3, <4>1
    <3> QED BY <1>1, <3>1, <3>2, <3>4
  <2> QED BY <1>1, <1>2, <2>1, <2>2 DEF Told, Overtaken
<1>12. HistoryOK'
  BY <1>3, <1>11 DEF HistoryOK
<1> QED BY <1>5, <1>8, <1>12

LEMMA StartHistory ==
    ASSUME RunInv, Start
    PROVE  Alone' /\ JournalOK' /\ HistoryOK'
<1>1. /\ RunTypes /\ ~live.known /\ journal = NoSnapshot
      /\ writes' = <<live'.snap>> /\ UNCHANGED <<journal, events>>
  BY DEF RunInv, Start
<1>2. PICK e \in Executions : StartsAs(e)
  BY DEF Start, StartsAs
<1>3. \A d \in Executions : exec[d].phase = "none"
  BY <1>1 DEF RunTypes
<1>4. /\ live'.known /\ ~live'.settled /\ live'.snap = [state |-> "running", st |-> Fresh]
      /\ exec'[e].phase = "create" /\ exec'[e].st = Fresh
      /\ \A d \in Executions \ {e} : exec'[d].phase = "none"
  BY <1>1, <1>2, <1>3, StartTypes
<1>5. live'.snap.st = Fresh
  BY <1>4
<1>6. Alone'
  BY <1>4 DEF Alone
<1>7. writes' # <<>> /\ Len(writes') = 1 /\ writes'[1] = live'.snap /\ DOMAIN writes' = {1}
  BY <1>1
<1>8. JournalOK'
  BY <1>4, <1>7 DEF JournalOK, Newest
<1>9. Keeps(journal'.st, Fresh)
  BY <1>1, FreshTyped, UnitFacts DEF Keeps, NoSnapshot
<1>10. HistoryOK'
  BY <1>4, <1>5, <1>7, <1>9, KeepsSelf DEF HistoryOK
<1> QED BY <1>6, <1>8, <1>10

LEMMA CancelHistory ==
    ASSUME RunInv, Cancel
    PROVE  Alone' /\ JournalOK' /\ HistoryOK'
<1>1. /\ RunTypes /\ WorkflowTypeOK /\ live.known /\ ~live.settled /\ Room(1)
      /\ writes' = Append(writes, live'.snap) /\ journal' = journal
  BY DEF RunInv, RunTypes, Cancel
<1>2. /\ live'.known /\ ~live'.settled
      /\ live'.snap.st = live.snap.st /\ live'.snap.state = "cancelled"
      /\ live'.snap \in Snapshots
      /\ \A d \in Executions : exec'[d].phase = exec[d].phase /\ exec'[d].st = exec[d].st
  BY <1>1, CancelTypes
<1>3. /\ writes' # <<>> /\ writes'[Len(writes')] = live'.snap
      /\ \A i \in DOMAIN writes' : \/ \E j \in DOMAIN writes : writes'[i] = writes[j]
                                   \/ writes'[i] = live'.snap
  BY <1>1, <1>2, AppendTyped
<1>4. Alone'
  BY <1>2 DEF RunInv, Alone
<1>5. JournalOK'
  BY <1>2, <1>3 DEF JournalOK, Newest
<1>6. /\ Keeps(journal.st, live.snap.st)
      /\ \A i \in DOMAIN writes : Keeps(writes[i].st, live.snap.st)
      /\ \A d \in Executions : exec[d].phase # "none" => Keeps(live.snap.st, exec[d].st)
  BY <1>1 DEF RunInv, HistoryOK
<1>7. HistoryOK'
  <2>1. \A i \in DOMAIN writes' : Keeps(writes'[i].st, live'.snap.st)
    BY <1>2, <1>3, <1>6, KeepsSelf
  <2> QED BY <1>1, <1>2, <1>6, <2>1 DEF HistoryOK
<1> QED BY <1>4, <1>5, <1>7

LEMMA ResumeHistory ==
    ASSUME Patient, RunInv, Resume
    PROVE  Alone' /\ JournalOK' /\ HistoryOK'
<1>1. /\ RunTypes /\ WorkflowTypeOK /\ live.known /\ live.settled /\ Room(1)
      /\ writes' = Append(writes, live'.snap) /\ journal' = journal
  BY DEF RunInv, RunTypes, Resume
<1>2. /\ live'.known /\ ~live'.settled /\ live'.snap \in Snapshots
      /\ live'.snap.st = Resumed(live.snap.st)
      /\ Keeps(live.snap.st, Resumed(live.snap.st))
  BY <1>1, ResumeTypes
<1>3. PICK e \in Executions :
        /\ exec'[e].phase = "run" /\ exec'[e].st = live'.snap.st
        /\ \A d \in Executions \ {e} : exec'[d].phase = exec[d].phase
  BY <1>1, ResumeTypes
<1>4. \A d \in Executions \ {e} : exec'[d].phase = "none"
  BY <1>1, <1>3 DEF RunInv, Alone
<1>5. /\ writes' # <<>> /\ writes'[Len(writes')] = live'.snap
      /\ \A i \in DOMAIN writes' : \/ \E j \in DOMAIN writes : writes'[i] = writes[j]
                                   \/ writes'[i] = live'.snap
  BY <1>1, <1>2, AppendTyped
<1>6. Alone'
  BY <1>2, <1>3, <1>4 DEF Alone
<1>7. JournalOK'
  BY <1>2, <1>3, <1>4, <1>5 DEF JournalOK, Newest
<1>8. /\ Keeps(journal.st, live.snap.st)
      /\ \A i \in DOMAIN writes : Keeps(writes[i].st, live.snap.st)
  BY <1>1 DEF RunInv, HistoryOK
<1>9. Keeps(journal.st, live'.snap.st)
      /\ \A i \in DOMAIN writes : Keeps(writes[i].st, live'.snap.st)
  BY <1>2, <1>8, KeepsOn
<1>10. \A i \in DOMAIN writes' : Keeps(writes'[i].st, live'.snap.st)
  BY <1>5, <1>9, KeepsSelf
<1>11. HistoryOK'
  BY <1>1, <1>3, <1>4, <1>9, <1>10, KeepsSelf DEF HistoryOK
<1> QED BY <1>6, <1>7, <1>11

LEMMA WriteHistory ==
    ASSUME RunInv, Write \/ WriteFails
    PROVE  Alone' /\ JournalOK' /\ HistoryOK'
<1>1. /\ RunTypes /\ WorkflowTypeOK /\ writes # <<>> /\ writes' = Tail(writes)
      /\ exec' = Flushed(1)
      /\ \/ live' = live /\ journal' = IF journal = Headless THEN Headless ELSE Head(writes)
         \/ journal' = journal /\ live' = [live EXCEPT !.writeFailed = TRUE]
  BY DEF RunInv, RunTypes, Write, WriteFails
<1>2. /\ live'.known = live.known /\ live'.settled = live.settled /\ live'.snap = live.snap
  BY <1>1, WriteTypes
<1>3. /\ writes' \in Seq(Snapshots) /\ Len(writes') = Len(writes) - 1
      /\ Head(writes) = writes[1] /\ 1 \in DOMAIN writes
      /\ writes' = <<>> => writes[1] = writes[Len(writes)]
      /\ writes' # <<>> => writes'[Len(writes')] = writes[Len(writes)]
      /\ \A i \in DOMAIN writes' : \E j \in DOMAIN writes : writes'[i] = writes[j]
  BY <1>1, TailTyped
<1>4. \A d \in Executions :
        /\ exec'[d].phase = exec[d].phase /\ exec'[d].st = exec[d].st
        /\ exec[d].owed \in Nat
        /\ exec'[d].owed = IF exec[d].owed > 1 THEN exec[d].owed - 1 ELSE 0
  BY <1>1, FlushedExecs
<1>5. live.known /\ (live.settled => live.snap.state # "completed")
  BY <1>1 DEF RunInv, JournalOK
<1>6. Alone'
  BY <1>2, <1>4 DEF RunInv, Alone
<1>7. ASSUME ~live'.writeFailed
      PROVE  /\ ~live.writeFailed
             /\ Newest' = live'.snap \/ (writes' = <<>> /\ journal' = Headless)
  <2>1. live \in Records
    BY <1>1, LiveFields
  <2>2. /\ journal' = IF journal = Headless THEN Headless ELSE Head(writes)
        /\ ~live.writeFailed
    BY <1>1, <1>7, <2>1 DEF Records
  <2>3. writes[Len(writes)] = live.snap
    BY <1>1, <1>5, <2>2 DEF RunInv, JournalOK, Newest
  <2>4. CASE writes' = <<>>
    BY <1>2, <1>3, <2>2, <2>3, <2>4 DEF Newest
  <2>5. CASE writes' # <<>>
    BY <1>2, <1>3, <2>2, <2>3, <2>5 DEF Newest
  <2> QED BY <2>2, <2>4, <2>5
<1>8. ASSUME NEW d \in Executions, exec'[d].phase = "flush", ~live'.writeFailed,
             live'.snap.state = "completed"
      PROVE  Len(writes') <= exec'[d].owed
  <2>1. Len(writes) <= exec[d].owed
    BY <1>2, <1>4, <1>7, <1>8 DEF RunInv, JournalOK
  <2>2. writes \in Seq(Snapshots) /\ Len(writes') \in Nat
    BY <1>1, <1>3, LiveFields
  <2>3. Len(writes) \in Nat
    BY <2>2
  <2> QED BY <1>3, <1>4, <2>1, <2>2, <2>3
<1>9. JournalOK'
  BY <1>2, <1>5, <1>7, <1>8 DEF JournalOK
<1>10. /\ Keeps(journal.st, live.snap.st)
       /\ \A i \in DOMAIN writes : Keeps(writes[i].st, live.snap.st)
       /\ \A d \in Executions : exec[d].phase # "none" => Keeps(live.snap.st, exec[d].st)
  BY <1>5 DEF RunInv, HistoryOK
<1>11. Keeps(journal'.st, live'.snap.st)
  <2>1. journal' \in {journal, writes[1], Headless}
    BY <1>1, <1>3
  <2> QED BY <1>2, <1>3, <1>10, <2>1, HeadlessTyped DEF Keeps
<1>12. \A i \in DOMAIN writes' : Keeps(writes'[i].st, live'.snap.st)
  BY <1>2, <1>3, <1>10
<1>13. HistoryOK'
  BY <1>2, <1>4, <1>10, <1>11, <1>12 DEF HistoryOK
<1> QED BY <1>6, <1>9, <1>13

LEMMA ThrownHistory ==
    ASSUME RunInv, NEW e \in Executions, Thrown(e)
    PROVE  Alone' /\ JournalOK' /\ HistoryOK'
<1>1. /\ RunTypes /\ WorkflowTypeOK /\ exec[e].phase # "none" /\ exec'[e] = NoExecution
      /\ \A d \in Executions \ {e} : exec'[d].phase = exec[d].phase
      /\ journal' \in {journal, Headless}
  BY DEF RunInv, RunTypes, Thrown
<1>2. live.known /\ \A d \in Executions \ {e} : exec[d].phase = "none"
  BY <1>1 DEF RunInv, Alone
<1>3. PICK queue \in Seq(Snapshots), failed \in BOOLEAN :
        /\ Throws(queue, failed)
        /\ \A i \in DOMAIN queue : \E j \in DOMAIN writes : queue[i] = writes[j]
  BY DEF Thrown
<1>4. /\ live'.settled /\ live'.known = live.known /\ live'.snap.st = live.snap.st
      /\ live'.snap.state # "completed"
      /\ writes' # <<>> /\ writes'[Len(writes')] = live'.snap
      /\ \A i \in DOMAIN writes' : \/ \E j \in DOMAIN queue : writes'[i] = queue[j]
                                   \/ writes'[i] = live'.snap
  BY <1>1, <1>3, ThrowsTyped
<1>5. \A d \in Executions : exec'[d].phase = "none"
  <2>1. NoExecution.phase = "none"
    BY DEF NoExecution
  <2> QED BY <1>1, <1>2, <2>1
<1>6. Alone'
  BY <1>5 DEF Alone
<1>7. JournalOK'
  BY <1>2, <1>4, <1>5 DEF JournalOK, Newest
<1>8. /\ Keeps(journal.st, live.snap.st)
      /\ \A i \in DOMAIN writes : Keeps(writes[i].st, live.snap.st)
  BY <1>2 DEF RunInv, HistoryOK
<1>9. Keeps(journal'.st, live'.snap.st)
  BY <1>1, <1>4, <1>8, HeadlessTyped DEF Keeps
<1>10. \A i \in DOMAIN writes' : Keeps(writes'[i].st, live'.snap.st)
  <2>1. SUFFICES ASSUME NEW i \in DOMAIN writes' PROVE Keeps(writes'[i].st, live'.snap.st)
    OBVIOUS
  <2>2. CASE writes'[i] = live'.snap
    BY <2>2, KeepsSelf
  <2>3. CASE \E j \in DOMAIN queue : writes'[i] = queue[j]
    <3>1. PICK k \in DOMAIN writes : writes'[i] = writes[k]
      BY <1>3, <2>3
    <3> QED BY <1>4, <1>8, <3>1
  <2> QED BY <1>4, <2>2, <2>3
<1>11. HistoryOK'
  BY <1>5, <1>9, <1>10 DEF HistoryOK
<1> QED BY <1>6, <1>7, <1>11

(* What the manager waits for before it settles is what makes the last        *)
(* snapshot durable: every write queued before the engine has returned.       *)
LEMMA SettleHistory ==
    ASSUME RunInv, NEW e \in Executions, Settle(e), ~live.writeFailed
    PROVE  Alone' /\ JournalOK' /\ HistoryOK'
<1>1. /\ RunTypes /\ WorkflowTypeOK /\ exec[e].phase = "flush" /\ exec[e].owed = 0
      /\ journal' = journal /\ writes' = writes
  BY DEF RunInv, RunTypes, Settle, Settles
<1>2. ~live.settled /\ live.known /\ \A d \in Executions \ {e} : exec[d].phase = "none"
  BY <1>1 DEF RunInv, Alone
<1>3. /\ exec'[e] = NoExecution /\ \A d \in Executions \ {e} : exec'[d] = exec[d]
      /\ live'.settled /\ live'.known = live.known /\ live'.snap = live.snap
      /\ live'.writeFailed = live.writeFailed
  BY <1>1, SettleTypes
<1>4. \A d \in Executions : exec'[d].phase = "none"
  <2>1. NoExecution.phase = "none"
    BY DEF NoExecution
  <2> QED BY <1>2, <1>3, <2>1
<1>5. Alone'
  BY <1>4 DEF Alone
<1>6. Newest = live.snap \/ (writes = <<>> /\ journal = Headless)
  BY <1>2 DEF RunInv, JournalOK
<1>7. ASSUME live.snap.state = "completed"
      PROVE  writes = <<>> /\ journal \in {live.snap, Headless}
  <2>1. Len(writes) <= 0
    BY <1>1, <1>7 DEF RunInv, JournalOK
  <2>2. Len(writes) \in Nat /\ (writes # <<>> => Len(writes) \in Nat \ {0})
    BY <1>1, LiveFields, EmptySeq, LenProperties
  <2>3. writes = <<>>
    BY <2>1, <2>2
  <2> QED BY <1>6, <2>3 DEF Newest
<1>8. JournalOK'
  BY <1>1, <1>2, <1>3, <1>4, <1>6, <1>7 DEF JournalOK, Newest
<1>9. /\ Keeps(journal.st, live.snap.st)
      /\ \A i \in DOMAIN writes : Keeps(writes[i].st, live.snap.st)
  BY <1>2 DEF RunInv, HistoryOK
<1>10. HistoryOK'
  BY <1>1, <1>3, <1>4, <1>9 DEF HistoryOK
<1> QED BY <1>5, <1>8, <1>10

LEMMA CrashHistory ==
    ASSUME RunInv, Crash
    PROVE  Alone' /\ JournalOK' /\ HistoryOK'
<1>1. RunTypes /\ live' = NoRecord /\ writes' = <<>>
  BY DEF RunInv, Crash
<1>2. \A d \in Executions : exec'[d].phase = "none"
  BY <1>1, CrashTypes DEF NoExecution
<1>3. ~live'.known /\ live'.snap.state = "none"
  BY <1>1, NoRecordTyped
<1> QED BY <1>1, <1>2, <1>3 DEF Alone, JournalOK, HistoryOK

LEMMA RestoreHistory ==
    ASSUME RunInv, Restore
    PROVE  Alone' /\ JournalOK' /\ HistoryOK'
<1>1. /\ RunTypes /\ ~live.known /\ journal' = Interrupted(journal)
      /\ writes' = writes /\ exec' = exec
  BY DEF RunInv, Restore
<1>2. writes = <<>> /\ \A d \in Executions : exec[d].phase = "none"
  BY <1>1 DEF RunInv, JournalOK, RunTypes
<1>3. live'.known /\ live'.snap = journal' /\ live'.settled
  BY <1>1, RestoreTypes
<1>4. Alone' /\ JournalOK'
  BY <1>1, <1>2, <1>3 DEF Alone, JournalOK, Newest
<1>5. HistoryOK'
  <2>1. DOMAIN writes' = {}
    BY <1>1, <1>2
  <2> QED BY <1>1, <1>2, <1>3, <2>1, KeepsSelf DEF HistoryOK
<1> QED BY <1>4, <1>5

LEMMA StepHistory ==
    ASSUME Patient
    PROVE  RunInv /\ [Next]_vars => RunInv'
<1>1. SUFFICES ASSUME RunInv, [Next]_vars PROVE RunInv'
  OBVIOUS
<1>2. RunTypes'
  BY <1>1, StepTypes DEF RunInv
<1>3. CASE UNCHANGED vars
  BY <1>1, <1>2, <1>3 DEF vars, RunInv, Alone, JournalOK, HistoryOK, Newest
<1>4. CASE Next
  <2>1. \/ Moves \/ Start \/ Cancel \/ Resume \/ Write \/ WriteFails \/ Crash \/ Restore
        \/ \E e \in Executions : Thrown(e) \/ (Settle(e) /\ ~live.writeFailed)
    BY <1>1, <1>4, NextMoves DEF RunInv
  <2>2. CASE Moves
    BY <1>1, <1>2, <2>2, MovedHistory DEF Moves, RunInv
  <2> QED BY <1>1, <1>2, <2>1, <2>2, StartHistory, CancelHistory, ResumeHistory, WriteHistory,
             ThrownHistory, SettleHistory, CrashHistory, RestoreHistory DEF RunInv
<1> QED BY <1>1, <1>3, <1>4

LEMMA SpecKeepsHistory ==
    ASSUME Patient
    PROVE  Spec => []RunInv
<1>1. Init => RunInv
  BY InitHistory
<1>2. RunInv /\ [Next]_vars => RunInv'
  BY StepHistory
<1> QED BY <1>1, <1>2, PTL DEF Spec

(* When clients wait for a run to be quiet before they resume it, a settled    *)
(* run has no execution under way, and the engine has returned from none       *)
(* before the last of its units was at rest.                                   *)
THEOREM QuietOnceSettled ==
    ASSUME Patient
    PROVE  Spec => []QuietWhenSettled
<1>1. RunInv => QuietWhenSettled
  <2>1. SUFFICES ASSUME RunInv, NEW e \in Executions
                 PROVE  /\ live.settled => exec[e].phase = "none"
                        /\ exec[e].phase \in {"flush", "none"} =>
                             \A u \in Units : exec[e].work[u] = "idle"
    BY DEF QuietWhenSettled
  <2>2. live.settled => exec[e].phase = "none"
    BY <2>1 DEF RunInv, Alone
  <2>3. AtRestOnReturn
    BY <2>1, TypesRest DEF RunInv
  <2> QED BY <2>2, <2>3 DEF AtRestOnReturn
<1> QED BY <1>1, SpecKeepsHistory, PTL

(* With the same clients, what a run has settled as completed is the last      *)
(* snapshot in its journal, whatever writes were queued, failed or overtaken    *)
(* by a cancel; or the journal has lost its first record, and brings no run     *)
(* back.                                                                       *)
THEOREM SettledIsDurable ==
    ASSUME Patient
    PROVE  Spec => []CompletedIsDurable
<1>1. RunInv => CompletedIsDurable
  BY DEF RunInv, JournalOK, CompletedIsDurable
<1> QED BY <1>1, SpecKeepsHistory, PTL

LEMMA StepNeverReruns ==
    ASSUME RunInv', RunInv, Next, NEW e \in Executions, NEW u \in Units,
           exec[e].work[u] # "executing", exec'[e].work[u] = "executing"
    PROVE  journal.st[u] # "completed"
<1> DEFINE y == exec'[e]
<1>1. RunTypes /\ RunTypes' /\ Alone' /\ HistoryOK'
  BY DEF RunInv
<1>2. ExecOK(y)
  BY <1>1 DEF RunTypes
<1>3. Busy(y, u)
  BY DEF Busy
<1>4. y.phase # "none" /\ y.st[u] # "completed"
  <2> HIDE DEF y
  <2>1. y.phase \in {"run", "drain"}
    BY <1>2, <1>3, BusyRuns
  <2> QED BY <1>2, <1>3, <2>1 DEF ExecOK
<1>5. Keeps(journal'.st, live'.snap.st) /\ Keeps(live'.snap.st, y.st)
  BY <1>1, <1>4 DEF Alone, HistoryOK
<1>6. journal'.st[u] # "completed"
  BY <1>4, <1>5 DEF Keeps
<1>7. journal' = journal
  <2>1. ~Write /\ ~WriteFails
    <3>1. 1 \in Nat
      OBVIOUS
    <3> QED BY <1>1, <3>1, FlushedExecs DEF Write, WriteFails
  <2>2. ~Restore
    BY DEF Restore
  <2>4. ASSUME NEW d \in Executions PROVE ~Thrown(d)
    <3>1. NoExecution.work[u] = "idle"
      BY DEF NoExecution
    <3> QED BY <3>1 DEF Thrown
  <2>3. \/ Moves \/ Start \/ Cancel \/ Resume \/ Crash
        \/ \E d \in Executions : Settle(d)
    BY <1>1, <2>1, <2>2, <2>4, NextMoves
  <2> QED BY <2>3 DEF Moves, Moved, Start, Cancel, Resume, Crash, Settle
<1> QED BY <1>6, <1>7

(* With the same clients, a step or item that the journal has as completed      *)
(* never begins another attempt, through crashes, cancels and resumes.          *)
THEOREM CompletedStaysDone ==
    ASSUME Patient
    PROVE  Spec => CompletedNeverReruns
<1> DEFINE Kept == \A e \in Executions, u \in Units :
                     exec[e].work[u] # "executing" /\ exec'[e].work[u] = "executing"
                       => journal.st[u] # "completed"
<1>1. RunInv /\ RunInv' /\ [Next]_vars => [Kept]_vars
  BY StepNeverReruns
<1> QED BY <1>1, SpecKeepsHistory, PTL DEF Spec, CompletedNeverReruns
=============================================================================
