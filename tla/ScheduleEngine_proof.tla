------------------------ MODULE ScheduleEngine_proof ------------------------
(***************************************************************************)
(* What the schedule engine promises, for any number of processes, runs,   *)
(* edits and disruptions: an occurrence is claimed once, the end of a run  *)
(* stands, and without manual runs the overlap policies are kept.          *)
(***************************************************************************)
EXTENDS ScheduleEngine, NumberLemmas

----------------------------------------------------------------------------
(* A chain that works on a run holds one that exists, and whatever it read of *)
(* the schedule is not newer than the schedule.                               *)
Holding == {"begin", "dispatch", "apply", "applied", "fail", "settle", "event", "blocked",
            "skip", "cancel"}

FrameOK(me, rows, s) ==
    /\ me.pc \in Holding => me.run \in Runs /\ rows[me.run].status # "absent"
    /\ \A it \in me.todo : rows[it.run].status # "absent"
    /\ me.rev <= s.rev
    /\ me.pc \in {"apply", "event"} => me.snap \in Snapshots \ {"none"}
    /\ me.pc = "settle" => me.snap \in Snapshots
    /\ me.pc = "claim" => \/ me.snap \in {"skipped", "dispatching"}
                          \/ me.snap = "pending" /\ s.concurrency = "queue"

FramesInv == \A p \in Procs, c \in Chains : FrameOK(chain[p][c], runs, sched)

\* What a decision says of the runs, as long as its claim can still succeed.
Current(p) == chain[p]["wake"].pc = "claim" /\ chain[p]["wake"].rev = sched.rev

SkipInv ==
    sched.concurrency = "skip" /\ NoManual =>
        /\ \A r, other \in InStatus(Active) : r = other
        /\ \A p \in Procs : Current(p) /\ chain[p]["wake"].snap = "dispatching"
                              => InStatus(Active) = {}

QueueInv ==
    sched.concurrency = "queue" /\ NoManual =>
        /\ \A r, other \in Waiting : r = other
        /\ \A p \in Procs : Current(p) /\ chain[p]["wake"].snap = "pending"
                              => Waiting = {}

EngineInv == TypeOK /\ FramesInv /\ OccurrenceOnce /\ SkipInv /\ QueueInv

\* What the invariant says besides the types.
RunsInv == FramesInv /\ OccurrenceOnce /\ SkipInv /\ QueueInv

RunsTyped == runs \in [Runs -> [status: Active \cup Terminal \cup {"absent"}, key: Nat,
                                exec: BOOLEAN, ver: Nat]]
ChainsTyped == chain \in [Procs -> [Chains -> Frames]]

----------------------------------------------------------------------------
(* The oldest run of a set of runs, and the copy of the oldest among copies.  *)
LEMMA OldestIn ==
    ASSUME NEW S \in SUBSET Runs, S # {}
    PROVE  Oldest(S) \in S
<1>1. S \subseteq Nat
  BY DEF Runs
<1>2. \E m \in S : \A n \in S : m <= n
  BY <1>1, LeastExists
<1> QED BY <1>2 DEF Oldest

LEMMA OldestCopyIn ==
    ASSUME NEW S \in SUBSET Copies, S # {}
    PROVE  (CHOOSE it \in S : \A other \in S : it.run <= other.run) \in S
<1> DEFINE N == {it.run : it \in S}
<1>1. N \subseteq Nat /\ N # {}
  BY DEF Copies, Runs
<1> HIDE DEF N
<1>2. PICK m \in N : \A n \in N : m <= n
  BY <1>1, LeastExists
<1>3. \E it \in S : \A other \in S : it.run <= other.run
  BY <1>2 DEF N
<1> QED BY <1>3

----------------------------------------------------------------------------
(* A step that claims nothing and starts nothing by hand keeps every row: the *)
(* occurrence it stands for, its end, and that it does not become active or   *)
(* wait again.                                                                *)
RowKept(r) ==
    /\ runs'[r].key = runs[r].key
    /\ runs'[r].status = "absent" <=> runs[r].status = "absent"
    /\ runs[r].status \in Terminal => runs'[r].status = runs[r].status
    /\ runs'[r].status \in Active => runs[r].status \in Active
    /\ runs'[r].status = "pending" /\ ~ runs'[r].exec
         => runs[r].status = "pending" /\ ~ runs[r].exec

Final == \A r \in Runs : runs[r].status \in Terminal => runs'[r].status = runs[r].status

\* No decision is new.
NoDecision ==
    \A p \in Procs : Current(p)' => /\ Current(p)
                                    /\ chain'[p]["wake"].snap = chain[p]["wake"].snap

LEMMA RowsKept ==
    ASSUME EngineInv, sched'.concurrency = sched.concurrency, NoDecision,
           \A r \in Runs : RowKept(r)
    PROVE  /\ OccurrenceOnce' /\ SkipInv' /\ QueueInv' /\ Final
<1> USE DEF EngineInv, RowKept
<1>1. OccurrenceOnce'
  BY DEF OccurrenceOnce
<1>2. NoManual' => NoManual
  BY DEF NoManual, Absent, InStatus
<1>3. InStatus(Active)' \subseteq InStatus(Active)
  BY DEF InStatus
<1>4. Waiting' \subseteq Waiting
  BY DEF Waiting, InStatus
<1>5. SkipInv'
  BY <1>2, <1>3 DEF SkipInv, NoDecision
<1>6. QueueInv'
  BY <1>2, <1>4 DEF QueueInv, NoDecision
<1> QED BY <1>1, <1>5, <1>6 DEF Final

\* A chain goes on with a frame that is right for the rows.
LEMMA FrameMoves ==
    ASSUME EngineInv, NEW p \in Procs, NEW c \in Chains, NEW to \in Frames,
           Goto(p, c, to), FrameOK(to, runs', sched'),
           sched'.rev \in Nat, sched.rev <= sched'.rev,
           sched'.concurrency = sched.concurrency,
           \A r \in Runs : runs[r].status # "absent" => runs'[r].status # "absent"
    PROVE  /\ ChainsTyped' /\ FramesInv'
           /\ chain'[p][c] = to
           /\ \A q \in Procs : q # p \/ c # "wake" => chain'[q]["wake"] = chain[q]["wake"]
<1> USE DEF Goto
<1>1. chain \in [Procs -> [Chains -> Frames]] /\ sched.rev \in Nat
  BY DEF EngineInv, TypeOK
<1>2. ChainsTyped'
  BY <1>1 DEF ChainsTyped
<1>3. chain'[p][c] = to
  BY <1>1
<1>4. \A q \in Procs, d \in Chains : q # p \/ d # c => chain'[q][d] = chain[q][d]
  BY <1>1
<1>5. ASSUME NEW q \in Procs, NEW d \in Chains PROVE FrameOK(chain[q][d], runs', sched')
  <2> DEFINE me == chain[q][d]
  <2>1. FrameOK(me, runs, sched)
    BY DEF EngineInv, FramesInv
  <2>2. me.rev \in Nat /\ me.todo \subseteq Copies
    BY <1>1 DEF Frames
  <2>3. \A it \in me.todo : it.run \in Runs
    BY <2>2 DEF Copies
  <2> HIDE DEF me
  <2>4. me.rev <= sched'.rev
    BY <1>1, <2>1, <2>2 DEF FrameOK
  <2>5. FrameOK(me, runs', sched')
    BY <2>1, <2>3, <2>4 DEF FrameOK
  <2> QED BY <2>5 DEF me
<1>6. FramesInv'
  BY <1>3, <1>4, <1>5 DEF FramesInv
<1>7. "wake" \in Chains
  BY DEF Chains
<1> QED BY <1>2, <1>3, <1>4, <1>6, <1>7

\* A chain goes on, and no row and no schedule changes.
LEMMA ChainMoves ==
    ASSUME EngineInv, NEW p \in Procs, NEW c \in Chains, NEW to \in Frames,
           Goto(p, c, to), FrameOK(to, runs, sched), c = "wake" => to.pc # "claim",
           UNCHANGED <<sched, runs>>
    PROVE  RunsTyped' /\ ChainsTyped' /\ RunsInv' /\ Final
<1>1. sched.rev \in Nat /\ RunsTyped
  BY DEF EngineInv, TypeOK, RunsTyped
<1>2. /\ ChainsTyped' /\ FramesInv' /\ chain'[p][c] = to
      /\ \A q \in Procs : q # p \/ c # "wake" => chain'[q]["wake"] = chain[q]["wake"]
  BY <1>1, FrameMoves
<1>3. NoDecision
  BY <1>2 DEF NoDecision, Current
<1>4. \A r \in Runs : RowKept(r)
  BY DEF RowKept
<1>5. OccurrenceOnce' /\ SkipInv' /\ QueueInv' /\ Final
  BY <1>3, <1>4, RowsKept
<1> QED BY <1>1, <1>2, <1>5 DEF RunsInv, RunsTyped

\* A step that touches no chain and no row.
LEMMA ChainsStay ==
    ASSUME EngineInv, UNCHANGED <<runs, chain>>,
           sched'.concurrency = sched.concurrency,
           sched'.rev \in Nat, sched.rev <= sched'.rev
    PROVE  RunsTyped' /\ ChainsTyped' /\ RunsInv' /\ Final
<1>1. sched.rev \in Nat /\ RunsTyped /\ ChainsTyped
  BY DEF EngineInv, TypeOK, RunsTyped, ChainsTyped
<1>2. ASSUME NEW p \in Procs, NEW c \in Chains PROVE FrameOK(chain[p][c], runs, sched')
  <2>1. FrameOK(chain[p][c], runs, sched)
    BY DEF EngineInv, FramesInv
  <2>2. chain[p][c].rev \in Nat
    BY <1>1 DEF ChainsTyped, Frames
  <2>3. chain[p][c].rev <= sched'.rev
    BY <1>1, <2>1, <2>2 DEF FrameOK
  <2> QED BY <2>1, <2>3 DEF FrameOK
<1>3. FramesInv'
  BY <1>2 DEF FramesInv
<1>4. NoDecision
  <2> SUFFICES ASSUME NEW p \in Procs, Current(p)' PROVE Current(p)
    BY DEF NoDecision
  <2>1. chain[p]["wake"].rev \in Nat /\ chain[p]["wake"].rev <= sched.rev
    BY <1>1 DEF ChainsTyped, Frames, EngineInv, FramesInv, FrameOK, Chains
  <2> QED BY <1>1, <2>1 DEF Current
<1>5. \A r \in Runs : RowKept(r)
  BY DEF RowKept
<1>6. OccurrenceOnce' /\ SkipInv' /\ QueueInv' /\ Final
  BY <1>4, <1>5, RowsKept
<1> QED BY <1>1, <1>3, <1>6 DEF RunsInv, RunsTyped, ChainsTyped

\* An idle chain is right whatever the rows are, and so is one that stays rejected.
LEMMA IdleTyped ==
    /\ Idle \in Frames
    /\ \A c \in Chains : Thrown(c) \in Frames
    /\ \A pc \in Pcs : [Idle EXCEPT !.pc = pc] \in Frames
<1>1. 0 \in 0..MaxRuns
  BY EngineAssumption
<1>2. Idle \in Frames
  BY <1>1 DEF Idle, Frames, Pcs, Snapshots, Live
<1>3. \A pc \in Pcs : [Idle EXCEPT !.pc = pc] \in Frames
  BY <1>2 DEF Frames
<1> QED BY <1>2, <1>3 DEF Thrown, Pcs

LEMMA IdleFrame ==
    ASSUME NEW rows, NEW s, s.rev \in Nat
    PROVE  /\ FrameOK(Idle, rows, s)
           /\ \A c \in Chains : FrameOK(Thrown(c), rows, s) /\ Thrown(c).pc # "claim"
           /\ \A pc \in Pcs \ (Holding \cup {"claim"}) :
                 FrameOK([Idle EXCEPT !.pc = pc], rows, s)
  BY DEF Thrown, Idle, FrameOK, Holding, Pcs

\* A transition writes the run the chain holds, or the chain throws.
LEMMA Transitions ==
    ASSUME EngineInv, NEW p \in Procs, NEW c \in Chains,
           NEW to \in Active \cup Terminal, NEW withExec \in BOOLEAN, NEW next \in Frames,
           Transition(p, c, to, withExec, next), UNCHANGED sched,
           chain[p][c].pc \in Holding, to = "pending" => withExec,
           FrameOK(next, runs, sched), c = "wake" => next.pc # "claim"
    PROVE  RunsTyped' /\ ChainsTyped' /\ RunsInv' /\ Final
<1> DEFINE me == chain[p][c]
           on == [next EXCEPT !.ver = IF next.run = me.run THEN me.ver + 1 ELSE @]
<1>1. RunsTyped /\ ChainsTyped /\ sched.rev \in Nat /\ FramesInv
  BY DEF EngineInv, TypeOK, RunsTyped, ChainsTyped
<1>2. me \in Frames /\ me.run \in Runs /\ runs[me.run].status # "absent" /\ me.ver \in Nat
  BY <1>1 DEF ChainsTyped, FramesInv, FrameOK, Frames
<1>3. CASE ~ CanTransition(me.run, me.ver, to)
  <2>1. Goto(p, c, Thrown(c)) /\ UNCHANGED runs
    BY <1>3 DEF Transition
  <2>2. Thrown(c) \in Frames /\ FrameOK(Thrown(c), runs, sched) /\ Thrown(c).pc # "claim"
    BY <1>1, IdleTyped, IdleFrame
  <2> QED BY <2>1, <2>2, ChainMoves
<1>4. CASE CanTransition(me.run, me.ver, to)
  <2> HIDE DEF on
  <2>1. /\ runs' = [runs EXCEPT ![me.run].status = to, ![me.run].ver = @ + 1,
                                ![me.run].exec = @ \/ withExec]
        /\ Goto(p, c, on)
    BY <1>4 DEF Transition, on
  <2>2. on \in Frames /\ on.pc = next.pc
    BY <1>2 DEF on, Frames
  <2>3. FrameOK(on, runs, sched)
    BY DEF on, FrameOK, Frames
  <2> HIDE DEF me
  <2>4. \A r \in Runs \ {me.run} : runs'[r] = runs[r]
    BY <1>1, <1>2, <2>1 DEF RunsTyped
  <2>5. /\ runs'[me.run].status = to /\ runs'[me.run].key = runs[me.run].key
        /\ runs'[me.run].exec = (runs[me.run].exec \/ withExec)
        /\ runs'[me.run].ver = runs[me.run].ver + 1
    BY <1>1, <1>2, <2>1 DEF RunsTyped
  <2>6. RunsTyped'
    BY <1>1, <1>2, <2>1 DEF RunsTyped
  <2>7. \A r \in Runs : RowKept(r)
    <3>1. RowKept(me.run)
      <4>1. runs[me.run].status \in Active \cup Terminal
        BY <1>1, <1>2 DEF RunsTyped
      <4>2. runs[me.run].status \in Terminal => to = runs[me.run].status
        BY <1>4 DEF CanTransition
      <4>3. runs[me.run].exec \in BOOLEAN
        BY <1>1, <1>2 DEF RunsTyped
      <4>4. "absent" \notin Active \cup Terminal /\ Active \cap Terminal = {}
            /\ "pending" \in Active
        BY DEF Active, Started, Terminal
      <4> QED BY <4>1, <4>2, <4>3, <4>4, <2>5 DEF RowKept
    <3> QED BY <3>1, <2>4 DEF RowKept
  <2>8. FrameOK(on, runs', sched')
    <3>1. \A it \in on.todo : it.run \in Runs
      BY <2>2 DEF Frames, Copies
    <3>2. \A r \in Runs : runs[r].status # "absent" => runs'[r].status # "absent"
      BY <2>7 DEF RowKept
    <3> QED BY <2>3, <3>1, <3>2 DEF FrameOK
  <2>9. /\ ChainsTyped' /\ FramesInv' /\ chain'[p][c] = on
        /\ \A q \in Procs : q # p \/ c # "wake" => chain'[q]["wake"] = chain[q]["wake"]
    <3>1. \A r \in Runs : runs[r].status # "absent" => runs'[r].status # "absent"
      BY <2>7 DEF RowKept
    <3>2. /\ sched'.rev \in Nat /\ sched.rev <= sched'.rev
          /\ sched'.concurrency = sched.concurrency
      BY <1>1
    <3> QED BY ZenonT(60), <2>1, <2>2, <2>8, <3>1, <3>2, FrameMoves
  <2>10. NoDecision
    BY <2>2, <2>9 DEF NoDecision, Current
  <2>11. OccurrenceOnce' /\ SkipInv' /\ QueueInv' /\ Final
    BY <2>7, <2>10, RowsKept
  <2> QED BY <2>6, <2>9, <2>11 DEF RunsInv
<1> QED BY <1>3, <1>4

----------------------------------------------------------------------------
(* The variables other than the rows and the chains, and the frames an action *)
(* reads and writes.                                                          *)
Rest ==
    /\ sched \in [concurrency: {"skip", "queue", "allow"}, misfire: {"skip", "fire_once"},
                  once: BOOLEAN, enabled: BOOLEAN, deleted: BOOLEAN,
                  rev: Nat, key: Nat, age: 0..3, edits: 0..MaxEdits]
    /\ lease \in Procs \cup {None, Gone}
    /\ life \in [Procs -> {"up", "closing", "down"}]
    /\ leader \in [Procs -> BOOLEAN]
    /\ armed \in [Procs -> BOOLEAN]
    /\ events \in [Procs -> Seq([run: Runs, snap: Snapshots \ {"none"}])]
    /\ early \in [Procs -> [Runs -> Snapshots]]
    /\ exec \in [Runs -> [state: Snapshots, host: Procs \cup {None}]]
    /\ disrupted \in 0..MaxDisruptions

LEMMA Parts == EngineInv <=> RunsTyped /\ ChainsTyped /\ Rest /\ RunsInv
  BY DEF EngineInv, TypeOK, RunsTyped, ChainsTyped, Rest, RunsInv

LEMMA PartsNext == RunsTyped' /\ ChainsTyped' /\ Rest' /\ RunsInv' => EngineInv'
  BY DEF EngineInv, TypeOK, RunsTyped, ChainsTyped, Rest, RunsInv

LEMMA RestStays ==
    ASSUME EngineInv, UNCHANGED <<sched, lease, life, leader, armed, events, early, exec,
                                  disrupted>>
    PROVE  Rest'
  BY Parts DEF Rest

LEMMA RunsNumbered == Runs \subseteq 0..MaxRuns /\ 0 \in 0..MaxRuns
  BY EngineAssumption DEF Runs

LEMMA FrameHere ==
    ASSUME EngineInv, NEW p \in Procs, NEW c \in Chains
    PROVE  /\ chain[p][c] \in Frames /\ FrameOK(chain[p][c], runs, sched)
           /\ chain[p][c].pc \in Holding
                => chain[p][c].run \in Runs /\ runs[chain[p][c].run].status # "absent"
  BY Parts DEF ChainsTyped, RunsInv, FramesInv, FrameOK

\* A chain that only takes another turn, or returns.
LEMMA FrameTurns ==
    ASSUME NEW me \in Frames, NEW rows, NEW s, FrameOK(me, rows, s),
           NEW pc \in Pcs \ {"apply", "event", "settle", "claim"},
           pc \in Holding => me.pc \in Holding
    PROVE  /\ [me EXCEPT !.pc = pc] \in Frames
           /\ FrameOK([me EXCEPT !.pc = pc], rows, s)
  BY DEF Frames, FrameOK, Holding

LEMMA FrameReturns ==
    ASSUME NEW me \in Frames, NEW rows, NEW s, s.rev \in Nat, FrameOK(me, rows, s)
    PROVE  /\ Return(me) \in Frames /\ FrameOK(Return(me), rows, s)
           /\ Return(me).pc # "claim"
<1>1. me.back \in {"idle", "recovering", "arm"}
  BY DEF Frames
<1>2. CASE me.back = "idle"
  BY <1>2, IdleTyped, IdleFrame DEF Return, Idle
<1>3. CASE me.back \in {"recovering", "arm"}
  <2>1. me.back \in Pcs \ ({"apply", "event", "settle", "claim"} \cup Holding)
    BY <1>3 DEF Pcs, Holding
  <2>2. Return(me) = [me EXCEPT !.pc = me.back]
    BY <1>3 DEF Return
  <2>3. Return(me).pc = me.back
    BY <2>2 DEF Frames
  <2>4. [me EXCEPT !.pc = me.back] \in Frames /\ FrameOK([me EXCEPT !.pc = me.back], rows, s)
    BY <2>1, FrameTurns
  <2> QED BY <1>3, <2>2, <2>3, <2>4
<1> QED BY <1>1, <1>2, <1>3

----------------------------------------------------------------------------
(* The dispatch of a run.                                                     *)
LEMMA Begins ==
    ASSUME EngineInv, NEW p \in Procs, NEW c \in Chains, Begin(p, c)
    PROVE  EngineInv' /\ Final
<1> DEFINE next == [chain[p][c] EXCEPT !.pc = "dispatch"]
<1>1. chain[p][c].pc \in Holding
  BY DEF Begin, At, Holding
<1>2. next \in Frames /\ FrameOK(next, runs, sched)
  BY <1>1, FrameHere, FrameTurns DEF Pcs
<1>3. next.pc = "dispatch"
  BY FrameHere DEF Frames
<1>4. Transition(p, c, "dispatching", FALSE, next) /\ UNCHANGED sched
  BY DEF Begin
<1> HIDE DEF next
<1>5. RunsTyped' /\ ChainsTyped' /\ RunsInv' /\ Final
  <2>1. "dispatching" \in Active \cup Terminal /\ "dispatching" # "pending"
        /\ next.pc # "claim" /\ FALSE \in BOOLEAN
    BY <1>3 DEF Active, Started
  <2> QED BY <1>1, <1>2, <1>4, <2>1, Transitions
<1>6. Rest'
  BY RestStays DEF Begin
<1> QED BY <1>5, <1>6, PartsNext

LEMMA Dispatches ==
    ASSUME EngineInv, NEW p \in Procs, NEW c \in Chains, Dispatch(p, c)
    PROVE  EngineInv' /\ Final
<1> DEFINE me == chain[p][c]
<1>1. me \in Frames /\ FrameOK(me, runs, sched) /\ me.pc = "dispatch"
  BY FrameHere DEF Dispatch, At
<1>2. me.run \in Runs /\ runs[me.run].status # "absent"
  BY <1>1 DEF FrameOK, Holding
<1>3. Rest /\ exec[me.run].state \in Snapshots
  BY <1>2, Parts DEF Rest
<1>4. PICK state \in Snapshots \ {"none"} :
         /\ Goto(p, c, [me EXCEPT !.pc = "apply", !.snap = state])
         /\ exec' = exec \/ exec' = [exec EXCEPT ![me.run] = [state |-> state, host |-> p]]
  BY <1>3, EngineAssumption DEF Dispatch, Snapshots, Live
<1> DEFINE to == [me EXCEPT !.pc = "apply", !.snap = state]
<1>5. to \in Frames /\ FrameOK(to, runs, sched) /\ to.pc # "claim"
  BY <1>1, <1>2 DEF Frames, Pcs, FrameOK, Holding
<1>6. Goto(p, c, to) /\ UNCHANGED <<sched, runs>>
  BY <1>4 DEF Dispatch
<1> HIDE DEF to
<1>7. RunsTyped' /\ ChainsTyped' /\ RunsInv' /\ Final
  BY <1>5, <1>6, ChainMoves
<1>8. Rest'
  <2> DEFINE at == me.run
             place == [state |-> state, host |-> p]
             Places == [state: Snapshots, host: Procs \cup {None}]
  <2>1. exec' \in [Runs -> Places]
    <3>1. exec \in [Runs -> Places] /\ at \in Runs
      BY <1>2, <1>3 DEF Rest
    <3>2. place \in Places
      BY <1>4
    <3>3. exec' = exec \/ exec' = [exec EXCEPT ![at] = place]
      BY <1>4
    <3> HIDE DEF at, place, Places
    <3> QED BY <3>1, <3>2, <3>3
  <2>2. UNCHANGED <<sched, lease, life, leader, armed, events, early, disrupted>>
    BY DEF Dispatch
  <2> HIDE DEF me, at
  <2> QED BY <1>3, <2>1, <2>2 DEF Rest
<1> QED BY <1>7, <1>8, PartsNext

LEMMA DispatchesFail ==
    ASSUME EngineInv, NEW p \in Procs, NEW c \in Chains, DispatchFails(p, c)
    PROVE  EngineInv' /\ Final
<1> DEFINE to == [chain[p][c] EXCEPT !.pc = "fail"]
<1>1. chain[p][c].pc \in Holding
  BY DEF DispatchFails, At, Holding
<1>2. to \in Frames /\ FrameOK(to, runs, sched)
  BY <1>1, FrameHere, FrameTurns DEF Pcs
<1>3. to.pc = "fail"
  BY FrameHere DEF Frames
<1>4. Goto(p, c, to) /\ UNCHANGED <<sched, runs>>
  BY DEF DispatchFails
<1> HIDE DEF to
<1>5. RunsTyped' /\ ChainsTyped' /\ RunsInv' /\ Final
  BY <1>2, <1>3, <1>4, ChainMoves
<1>6. Rest'
  BY RestStays DEF DispatchFails
<1> QED BY <1>5, <1>6, PartsNext

\* What a target says is a status of the run; queued, it waits with its execution.
LEMMA StatusTyped ==
    \A snap \in Snapshots \ {"none"} : StatusOf(snap) \in Active \cup Terminal
  BY DEF StatusOf, Snapshots, Live, Active, Started, Terminal

LEMMA Applies ==
    ASSUME EngineInv, NEW p \in Procs, NEW c \in Chains, Apply(p, c)
    PROVE  EngineInv' /\ Final
<1> DEFINE next == [chain[p][c] EXCEPT !.pc = "applied"]
           to == StatusOf(chain[p][c].snap)
<1>1. chain[p][c].pc = "apply" /\ chain[p][c].pc \in Holding
  BY DEF Apply, At, Holding
<1>2. next \in Frames /\ FrameOK(next, runs, sched)
  BY <1>1, FrameHere, FrameTurns DEF Pcs
<1>3. next.pc = "applied"
  BY FrameHere DEF Frames
<1>4. to \in Active \cup Terminal
  BY <1>1, FrameHere, StatusTyped DEF FrameOK
<1>5. Transition(p, c, to, TRUE, next) /\ UNCHANGED sched
  BY DEF Apply
<1> HIDE DEF next, to
<1>6. RunsTyped' /\ ChainsTyped' /\ RunsInv' /\ Final
  <2>1. next.pc # "claim" /\ TRUE \in BOOLEAN
    BY <1>3
  <2> QED BY <1>1, <1>2, <1>4, <1>5, <2>1, Transitions
<1>7. Rest'
  BY RestStays DEF Apply
<1> QED BY <1>6, <1>7, PartsNext

LEMMA AppliesEarly ==
    ASSUME EngineInv, NEW p \in Procs, NEW c \in Chains, ApplyEarly(p, c)
    PROVE  EngineInv' /\ Final
<1> DEFINE me == chain[p][c]
           snap == early[p][me.run]
           next == Return(me)
<1>1. Rest /\ sched.rev \in Nat /\ me \in Frames /\ FrameOK(me, runs, sched)
  BY Parts, FrameHere DEF Rest
<1>2. me.pc \in Holding /\ me.run \in Runs
  BY <1>1 DEF ApplyEarly, At, Holding, FrameOK
<1>3. next \in Frames /\ FrameOK(next, runs, sched) /\ next.pc # "claim"
  BY <1>1, FrameReturns
<1>4. snap \in Snapshots
  BY <1>1, <1>2 DEF Rest
<1>5. UNCHANGED <<sched, lease, life, leader, armed, events, exec, disrupted>>
  BY DEF ApplyEarly
<1>6. CASE snap = "none"
  <2>1. Goto(p, c, next) /\ UNCHANGED <<runs, early>>
    BY <1>6 DEF ApplyEarly
  <2> HIDE DEF next
  <2>2. RunsTyped' /\ ChainsTyped' /\ RunsInv' /\ Final
    BY <1>3, <1>5, <2>1, ChainMoves
  <2>3. Rest'
    BY <1>5, <2>1, RestStays
  <2> QED BY <2>2, <2>3, PartsNext
<1>7. CASE snap # "none"
  <2> DEFINE to == StatusOf(snap)
  <2>1. Transition(p, c, to, TRUE, next) /\ early' = [early EXCEPT ![p][me.run] = "none"]
    BY <1>7 DEF ApplyEarly
  <2>2. to \in Active \cup Terminal /\ TRUE \in BOOLEAN
    BY <1>4, <1>7, StatusTyped
  <2> HIDE DEF next, to
  <2>3. RunsTyped' /\ ChainsTyped' /\ RunsInv' /\ Final
    BY <1>2, <1>3, <1>5, <2>1, <2>2, Transitions
  <2>4. early' \in [Procs -> [Runs -> Snapshots]]
    BY <1>1, <1>2, <2>1 DEF Rest, Snapshots
  <2>5. Rest'
    BY <1>1, <1>5, <2>4 DEF Rest
  <2> QED BY <2>3, <2>5, PartsNext
<1> QED BY <1>6, <1>7

LEMMA Fails ==
    ASSUME EngineInv, NEW p \in Procs, NEW c \in Chains, Fail(p, c)
    PROVE  EngineInv' /\ Final
<1> DEFINE me == chain[p][c]
           next == Return(me)
<1>1. sched.rev \in Nat /\ me \in Frames /\ FrameOK(me, runs, sched)
  BY Parts, FrameHere DEF Rest
<1>2. me.pc \in Holding
  BY DEF Fail, At, Holding
<1>3. next \in Frames /\ FrameOK(next, runs, sched) /\ next.pc # "claim"
  BY <1>1, FrameReturns
<1>4. Transition(p, c, "failed", FALSE, next) /\ UNCHANGED sched
  BY DEF Fail
<1> HIDE DEF next
<1>5. RunsTyped' /\ ChainsTyped' /\ RunsInv' /\ Final
  <2>1. "failed" \in Active \cup Terminal /\ "failed" # "pending" /\ FALSE \in BOOLEAN
    BY DEF Terminal
  <2> QED BY <1>2, <1>3, <1>4, <2>1, Transitions
<1>6. Rest'
  BY RestStays DEF Fail
<1> QED BY <1>5, <1>6, PartsNext

LEMMA Drains ==
    ASSUME EngineInv, NEW p \in Procs, NEW c \in Chains, Drain(p, c)
    PROVE  EngineInv' /\ Final
<1> DEFINE me == chain[p][c]
           pick == [me EXCEPT !.pc = "pick"]
<1>1. sched.rev \in Nat /\ me \in Frames /\ FrameOK(me, runs, sched)
  BY Parts, FrameHere DEF Rest
<1>2. Return(me) \in Frames /\ FrameOK(Return(me), runs, sched) /\ Return(me).pc # "claim"
  BY <1>1, FrameReturns
<1>3. pick \in Frames /\ FrameOK(pick, runs, sched)
  BY <1>1, FrameTurns DEF Pcs, Holding
<1>4. pick.pc # "claim"
  BY <1>1 DEF Frames
<1>5. PICK to \in {Return(me), pick} : Goto(p, c, to)
  BY DEF Drain
<1>6. UNCHANGED <<sched, runs>>
  BY DEF Drain
<1> HIDE DEF pick
<1>7. RunsTyped' /\ ChainsTyped' /\ RunsInv' /\ Final
  BY <1>2, <1>3, <1>4, <1>5, <1>6, ChainMoves
<1>8. Rest'
  BY RestStays DEF Drain
<1> QED BY <1>7, <1>8, PartsNext

LEMMA Picks ==
    ASSUME EngineInv, NEW p \in Procs, NEW c \in Chains, Pick(p, c)
    PROVE  EngineInv' /\ Final
<1> DEFINE me == chain[p][c]
           r == Oldest(InStatus({"pending"}))
           begin == [me EXCEPT !.pc = "begin", !.run = r, !.ver = runs[r].ver]
<1>1. /\ sched.rev \in Nat /\ RunsTyped
      /\ me \in Frames /\ FrameOK(me, runs, sched)
  BY Parts, FrameHere DEF Rest
<1>2. Return(me) \in Frames /\ FrameOK(Return(me), runs, sched) /\ Return(me).pc # "claim"
  BY <1>1, FrameReturns
<1>3. UNCHANGED <<sched, runs>>
  BY DEF Pick
<1>4. CASE InStatus({"pending"}) = {}
  <2>1. Goto(p, c, Return(me))
    BY <1>4 DEF Pick
  <2> QED BY <1>2, <1>3, <2>1, ChainMoves, RestStays, PartsNext DEF Pick
<1>5. CASE InStatus({"pending"}) # {}
  <2>1. r \in InStatus({"pending"})
    BY <1>5, OldestIn DEF InStatus
  <2>2. r \in Runs /\ runs[r].status = "pending" /\ runs[r].ver \in Nat
    BY <1>1, <2>1 DEF InStatus, RunsTyped
  <2>3. Goto(p, c, begin)
    BY <1>5 DEF Pick
  <2> HIDE DEF r
  <2>4. begin \in Frames /\ begin.pc # "claim"
    BY <1>1, <2>2, RunsNumbered DEF Frames, Pcs
  <2>5. FrameOK(begin, runs, sched)
    BY <1>1, <2>2 DEF FrameOK, Frames, Holding
  <2> HIDE DEF begin
  <2> QED BY <1>3, <2>3, <2>4, <2>5, ChainMoves, RestStays, PartsNext DEF Pick
<1> QED BY <1>4, <1>5

LEMMA DispatchingKeeps ==
    ASSUME EngineInv, NEW p \in Procs, NEW c \in Chains, Dispatching(p, c)
    PROVE  EngineInv' /\ Final
  BY Begins, Dispatches, DispatchesFail, Applies, AppliesEarly, Fails, Drains, Picks
  DEF Dispatching

----------------------------------------------------------------------------
(* The wake of a process.                                                     *)
LEMMA Wakes ==
    ASSUME EngineInv, NEW p \in Procs, Wake(p)
    PROVE  EngineInv' /\ Final
<1>1. Rest /\ sched.rev \in Nat /\ "wake" \in Chains
  BY Parts DEF Rest, Chains
<1>2. PICK pc \in {"arm", "list", "recover"} : Goto(p, "wake", [Idle EXCEPT !.pc = pc])
  BY DEF Wake
<1> DEFINE to == [Idle EXCEPT !.pc = pc]
<1>3. to \in Frames /\ FrameOK(to, runs, sched) /\ to.pc # "claim"
  BY <1>1, IdleTyped, IdleFrame DEF Pcs, Holding, Idle
<1>4. UNCHANGED <<sched, runs>> /\ Goto(p, "wake", to)
  BY <1>2 DEF Wake
<1> HIDE DEF to
<1>5. RunsTyped' /\ ChainsTyped' /\ RunsInv' /\ Final
  BY <1>1, <1>3, <1>4, ChainMoves
<1>6. armed' \in [Procs -> BOOLEAN] /\ leader' \in [Procs -> BOOLEAN]
      /\ lease' \in Procs \cup {None, Gone}
  BY <1>1 DEF Wake, Rest, Leads
<1>7. UNCHANGED <<sched, life, events, early, exec, disrupted>>
  BY DEF Wake
<1>8. Rest'
  BY <1>1, <1>6, <1>7 DEF Rest
<1> QED BY <1>5, <1>8, PartsNext

LEMMA Recovers ==
    ASSUME EngineInv, NEW p \in Procs, Recover(p)
    PROVE  EngineInv' /\ Final
<1> DEFINE me == chain[p]["wake"]
           copies == {[run |-> r, ver |-> runs[r].ver, status |-> runs[r].status] :
                        r \in Recoverable}
           drains == InStatus({"pending"}) # {}
           to == [me EXCEPT !.pc = "recovering", !.todo = copies, !.drains = drains]
<1>1. RunsTyped /\ me \in Frames /\ FrameOK(me, runs, sched) /\ "wake" \in Chains
  BY Parts, FrameHere DEF Chains
<1>2. copies \in SUBSET Copies /\ \A it \in copies : runs[it.run].status # "absent"
  <2>1. \A r \in Recoverable : /\ r \in Runs /\ runs[r].status \in Started
                               /\ runs[r].ver \in Nat /\ runs[r].status # "absent"
    BY <1>1 DEF Recoverable, InStatus, RunsTyped, Started
  <2> QED BY <2>1 DEF Copies
<1>3. drains \in BOOLEAN
  OBVIOUS
<1>4. Goto(p, "wake", to) /\ UNCHANGED <<sched, runs>>
  BY DEF Recover
<1> HIDE DEF copies, drains
<1>5. to \in Frames /\ to.pc # "claim"
  BY <1>1, <1>2, <1>3 DEF Frames, Pcs
<1>6. FrameOK(to, runs, sched)
  BY <1>1, <1>2 DEF FrameOK, Frames, Holding
<1> HIDE DEF to
<1>7. RunsTyped' /\ ChainsTyped' /\ RunsInv' /\ Final
  BY <1>1, <1>4, <1>5, <1>6, ChainMoves
<1>8. Rest'
  BY RestStays DEF Recover
<1> QED BY <1>7, <1>8, PartsNext

LEMMA Inspects ==
    ASSUME EngineInv, NEW p \in Procs, Inspect(p)
    PROVE  EngineInv' /\ Final
<1> DEFINE me == chain[p]["wake"]
           it == CHOOSE it \in me.todo : \A other \in me.todo : it.run <= other.run
<1>1. Rest /\ me \in Frames /\ FrameOK(me, runs, sched) /\ "wake" \in Chains
  BY Parts, FrameHere DEF Chains
<1>2. me.todo \in SUBSET Copies /\ me.todo # {}
  BY <1>1 DEF Frames, Inspect
<1>3. it \in me.todo
  BY <1>2, OldestCopyIn
<1>4. PICK snap \in {exec[it.run].state, "none"} :
        Goto(p, "wake", [me EXCEPT !.pc = IF snap = "none" /\ it.status = "dispatching"
                                          THEN "dispatch" ELSE "settle",
                                   !.run = it.run, !.ver = it.ver, !.snap = snap,
                                   !.back = "recovering", !.todo = @ \ {it}])
  BY DEF Inspect
<1> HIDE DEF it
<1>5. it \in Copies /\ it.run \in Runs /\ it.ver \in Nat /\ runs[it.run].status # "absent"
  BY <1>1, <1>2, <1>3 DEF Copies, FrameOK
<1>6. snap \in Snapshots
  BY <1>1, <1>5 DEF Rest, Snapshots
<1> DEFINE pc == IF snap = "none" /\ it.status = "dispatching" THEN "dispatch" ELSE "settle"
           to == [me EXCEPT !.pc = pc, !.run = it.run, !.ver = it.ver, !.snap = snap,
                            !.back = "recovering", !.todo = @ \ {it}]
<1>7. pc \in {"dispatch", "settle"}
  OBVIOUS
<1>8. Goto(p, "wake", to) /\ UNCHANGED <<sched, runs>>
  BY <1>4 DEF Inspect
<1> HIDE DEF pc
<1>9. to \in Frames /\ to.pc # "claim"
  BY <1>1, <1>5, <1>6, <1>7, RunsNumbered DEF Frames, Pcs
<1>10. FrameOK(to, runs, sched)
  BY <1>1, <1>5, <1>6, <1>7 DEF FrameOK, Frames, Holding
<1> HIDE DEF to
<1>11. RunsTyped' /\ ChainsTyped' /\ RunsInv' /\ Final
  BY <1>1, <1>8, <1>9, <1>10, ChainMoves
<1>12. Rest'
  BY RestStays DEF Inspect
<1> QED BY <1>11, <1>12, PartsNext

LEMMA RunSettles ==
    ASSUME EngineInv, NEW p \in Procs, Settle(p)
    PROVE  EngineInv' /\ Final
<1> DEFINE me == chain[p]["wake"]
           to == IF me.snap = "none" THEN "interrupted" ELSE StatusOf(me.snap)
           known == me.snap # "none"
           pc == IF to \in Terminal THEN "drain" ELSE "recovering"
           next == [me EXCEPT !.pc = pc]
<1>1. me \in Frames /\ FrameOK(me, runs, sched) /\ "wake" \in Chains
  BY FrameHere DEF Chains
<1>2. me.pc = "settle" /\ me.pc \in Holding /\ me.snap \in Snapshots
  BY <1>1 DEF Settle, At, Holding, FrameOK
<1>3. to \in Active \cup Terminal /\ (to = "pending" => known) /\ known \in BOOLEAN
  BY <1>2, StatusTyped DEF Terminal
<1>4. Transition(p, "wake", to, known, next) /\ UNCHANGED sched
  BY DEF Settle
<1>5. pc \in {"drain", "recovering"}
  OBVIOUS
<1> HIDE DEF to, known, pc
<1>6. next \in Frames /\ FrameOK(next, runs, sched)
  BY <1>1, <1>5, FrameTurns DEF Pcs, Holding
<1>7. next.pc # "claim"
  BY <1>1, <1>5 DEF Frames
<1> HIDE DEF next
<1>8. RunsTyped' /\ ChainsTyped' /\ RunsInv' /\ Final
  BY <1>1, <1>2, <1>3, <1>4, <1>6, <1>7, Transitions
<1>9. Rest'
  BY RestStays DEF Settle
<1> QED BY <1>8, <1>9, PartsNext

LEMMA RecoveryEnds ==
    ASSUME EngineInv, NEW p \in Procs, Recovered(p)
    PROVE  EngineInv' /\ Final
<1> DEFINE me == chain[p]["wake"]
           drain == [me EXCEPT !.pc = "drain", !.back = "recovering", !.drains = FALSE]
           list == [Idle EXCEPT !.pc = "list"]
<1>1. /\ sched.rev \in Nat /\ me \in Frames /\ FrameOK(me, runs, sched) /\ "wake" \in Chains
  BY Parts, FrameHere DEF Rest, Chains
<1>2. drain \in Frames /\ FrameOK(drain, runs, sched) /\ drain.pc # "claim"
  BY ZenonT(60), <1>1 DEF Frames, Pcs, FrameOK, Holding
<1>3. list \in Frames /\ FrameOK(list, runs, sched) /\ list.pc # "claim"
  BY <1>1, IdleTyped, IdleFrame DEF Pcs, Holding, Idle
<1>4. PICK to \in {drain, list} : Goto(p, "wake", to)
  BY DEF Recovered
<1>5. UNCHANGED <<sched, runs>>
  BY DEF Recovered
<1> HIDE DEF drain, list
<1>6. RunsTyped' /\ ChainsTyped' /\ RunsInv' /\ Final
  BY <1>1, <1>2, <1>3, <1>4, <1>5, ChainMoves
<1>7. Rest'
  BY RestStays DEF Recovered
<1> QED BY <1>6, <1>7, PartsNext

LEMMA Lists ==
    ASSUME EngineInv, NEW p \in Procs, List(p)
    PROVE  EngineInv' /\ Final
<1> DEFINE due == [Idle EXCEPT !.pc = "decide", !.rev = sched.rev, !.key = sched.key,
                               !.late = sched.age]
           arm == [Idle EXCEPT !.pc = "arm"]
<1>1. sched.rev \in Nat /\ sched.key \in Nat /\ sched.age \in 0..3 /\ "wake" \in Chains
  BY Parts DEF Rest, Chains
<1>2. due \in Frames /\ FrameOK(due, runs, sched) /\ due.pc # "claim"
  <2>1. Idle \in Frames /\ Idle.todo = {}
    BY IdleTyped DEF Idle
  <2>2. due \in Frames /\ due.todo = {} /\ due.pc = "decide" /\ due.rev = sched.rev
    BY <1>1, <2>1 DEF Frames, Pcs
  <2> QED BY <1>1, <2>2 DEF FrameOK, Holding
<1>3. arm \in Frames /\ FrameOK(arm, runs, sched) /\ arm.pc # "claim"
  BY <1>1, IdleTyped, IdleFrame DEF Pcs, Holding, Idle
<1>4. PICK to \in {due, arm} : Goto(p, "wake", to)
  BY DEF List
<1>5. UNCHANGED <<sched, runs>>
  BY DEF List
<1> HIDE DEF due, arm
<1>6. RunsTyped' /\ ChainsTyped' /\ RunsInv' /\ Final
  BY <1>1, <1>2, <1>3, <1>4, <1>5, ChainMoves
<1>7. Rest'
  BY RestStays DEF List
<1> QED BY <1>6, <1>7, PartsNext

LEMMA Arms ==
    ASSUME EngineInv, NEW p \in Procs, Arm(p)
    PROVE  EngineInv' /\ Final
<1>1. Rest /\ sched.rev \in Nat /\ "wake" \in Chains
  BY Parts DEF Rest, Chains
<1>2. Idle \in Frames /\ FrameOK(Idle, runs, sched) /\ Idle.pc # "claim"
  BY <1>1, IdleTyped, IdleFrame DEF Idle
<1>3. Goto(p, "wake", Idle) /\ UNCHANGED <<sched, runs>>
  BY DEF Arm
<1>4. RunsTyped' /\ ChainsTyped' /\ RunsInv' /\ Final
  BY <1>1, <1>2, <1>3, ChainMoves
<1>5. armed' \in [Procs -> BOOLEAN]
  BY <1>1 DEF Arm, Rest
<1>6. Rest'
  BY <1>1, <1>5 DEF Rest, Arm
<1> QED BY <1>4, <1>6, PartsNext

\* The decision is what the policy says of the runs that are active now.
LEMMA Decides ==
    ASSUME EngineInv, NEW p \in Procs, Decide(p)
    PROVE  EngineInv' /\ Final
<1> DEFINE me == chain[p]["wake"]
           first == FirstStatus(me.late)
           to == [me EXCEPT !.pc = "claim", !.snap = first]
<1>1. /\ Rest /\ RunsTyped /\ me \in Frames /\ FrameOK(me, runs, sched) /\ "wake" \in Chains
      /\ OccurrenceOnce /\ SkipInv /\ QueueInv
  BY Parts, FrameHere DEF Chains, RunsInv
<1>2. /\ first \in {"skipped", "dispatching", "pending"}
      /\ first = "dispatching" => InStatus(Active) = {} \/ sched.concurrency = "allow"
      /\ first = "pending" => sched.concurrency = "queue" /\ InStatus({"pending"}) = {}
  BY <1>1 DEF FirstStatus, Rest
<1>3. Goto(p, "wake", to) /\ UNCHANGED <<sched, runs>>
  BY DEF Decide
<1> HIDE DEF first
<1>4. to \in Frames /\ to.pc = "claim" /\ to.snap = first
  BY <1>1, <1>2 DEF Frames, Pcs
<1>5. FrameOK(to, runs, sched)
  <2>1. to.todo = me.todo /\ to.rev = me.rev
    BY <1>1 DEF Frames
  <2> QED BY <1>1, <1>2, <1>4, <2>1 DEF FrameOK, Holding
<1> HIDE DEF to
<1>6. /\ ChainsTyped' /\ FramesInv' /\ chain'[p]["wake"] = to
      /\ \A q \in Procs : q # p => chain'[q]["wake"] = chain[q]["wake"]
  <2>1. /\ sched'.rev \in Nat /\ sched.rev <= sched'.rev
        /\ sched'.concurrency = sched.concurrency
    BY <1>1, <1>3 DEF Rest
  <2>2. FrameOK(to, runs', sched')
    BY <1>3, <1>5
  <2>3. \A r \in Runs : runs[r].status # "absent" => runs'[r].status # "absent"
    BY <1>3
  <2> QED BY <1>1, <1>3, <1>4, <2>1, <2>2, <2>3, FrameMoves
<1>7. OccurrenceOnce' /\ Final
  BY <1>1, <1>3 DEF OccurrenceOnce, Final
<1>8. InStatus(Active)' = InStatus(Active) /\ NoManual' = NoManual /\ Waiting' = Waiting
  BY <1>3 DEF InStatus, NoManual, Waiting, Absent
<1>9. SkipInv'
  <2> SUFFICES ASSUME sched.concurrency = "skip", NoManual
               PROVE  /\ \A r, other \in InStatus(Active) : r = other
                      /\ \A q \in Procs : Current(q)' /\ chain'[q]["wake"].snap = "dispatching"
                                            => InStatus(Active) = {}
    BY <1>3, <1>8 DEF SkipInv
  <2> QED BY <1>1, <1>2, <1>3, <1>4, <1>6 DEF SkipInv, Current
<1>10. QueueInv'
  <2> SUFFICES ASSUME sched.concurrency = "queue", NoManual
               PROVE  /\ \A r, other \in Waiting : r = other
                      /\ \A q \in Procs : Current(q)' /\ chain'[q]["wake"].snap = "pending"
                                            => Waiting = {}
    BY <1>3, <1>8 DEF QueueInv
  <2>1. InStatus({"pending"}) = {} => Waiting = {}
    BY DEF Waiting
  <2> QED BY <1>1, <1>2, <1>3, <1>4, <1>6, <2>1 DEF QueueInv, Current
<1>11. RunsTyped' /\ Rest'
  BY <1>1, <1>3, RestStays DEF RunsTyped, Decide
<1> QED BY <1>6, <1>7, <1>9, <1>10, <1>11, PartsNext DEF RunsInv

\* A new row takes the place of an absent one; the others keep theirs.
LEMMA RowInserted ==
    ASSUME RunsTyped, NEW r \in Absent, NEW status \in Active \cup Terminal, NEW key \in Nat,
           runs' = [runs EXCEPT ![r] = [status |-> status, key |-> key, exec |-> FALSE,
                                        ver |-> 1]]
    PROVE  /\ RunsTyped' /\ Final /\ r \in Runs
           /\ runs'[r].status = status /\ runs'[r].key = key /\ ~ runs'[r].exec
           /\ runs[r].status = "absent"
           /\ \A other \in Runs : other # r => runs'[other] = runs[other]
           /\ \A other \in Runs : runs[other].status # "absent"
                                    => runs'[other].status # "absent"
<1>1. r \in Runs /\ runs[r].status = "absent"
  BY DEF Absent, InStatus
<1>2. "absent" \notin Terminal
  BY DEF Terminal
<1>3. \A other \in Runs : other # r => runs'[other] = runs[other]
  BY <1>1 DEF RunsTyped
<1>4. runs'[r] = [status |-> status, key |-> key, exec |-> FALSE, ver |-> 1]
  BY <1>1 DEF RunsTyped
<1>5. RunsTyped'
  BY <1>1 DEF RunsTyped
<1> QED BY <1>1, <1>2, <1>3, <1>4, <1>5 DEF Final

\* The claim of an occurrence nobody has claimed, by a decision that is still current.
LEMMA Claims ==
    ASSUME EngineInv, NEW p \in Procs, Claim(p)
    PROVE  EngineInv' /\ Final
<1> DEFINE me == chain[p]["wake"]
           r == Oldest(Absent)
           arm == [Idle EXCEPT !.pc = "arm"]
           start == [Idle EXCEPT !.pc = "dispatch", !.run = r, !.ver = 1, !.back = "arm"]
<1>1. /\ Rest /\ RunsTyped /\ ChainsTyped /\ sched.rev \in Nat
      /\ me \in Frames /\ FrameOK(me, runs, sched) /\ "wake" \in Chains
      /\ OccurrenceOnce /\ SkipInv /\ QueueInv
  BY Parts, FrameHere DEF Chains, RunsInv, Rest
<1>2. arm \in Frames /\ arm.pc = "arm"
      /\ \A rows, s : s.rev \in Nat => FrameOK(arm, rows, s)
  BY IdleTyped, IdleFrame DEF Pcs, Holding, Idle
<1>3. UNCHANGED <<lease, life, leader, armed, events, early, exec, disrupted>>
  BY DEF Claim
<1>4. CASE ~ Claimable(me)
  <2>1. Goto(p, "wake", arm) /\ UNCHANGED <<sched, runs>>
    BY <1>4 DEF Claim
  <2> HIDE DEF arm
  <2>2. FrameOK(arm, runs, sched) /\ arm.pc # "claim"
    BY <1>1, <1>2
  <2>3. RunsTyped' /\ ChainsTyped' /\ RunsInv' /\ Final
    BY <1>1, <1>2, <2>1, <2>2, ChainMoves
  <2>4. Rest'
    BY <1>3, <2>1, RestStays
  <2> QED BY <2>3, <2>4, PartsNext
<1>5. CASE Claimable(me)
  <2>1. me.pc = "claim" /\ Absent # {} /\ me.rev = sched.rev
        /\ \A other \in Runs : runs[other].key # me.key
    BY <1>5 DEF Claim, At, Claimable
  <2>2. r \in Absent
    BY <2>1, OldestIn DEF Absent, InStatus
  <2>3. /\ me.snap \in {"skipped", "dispatching", "pending"} /\ me.key \in Nat
        /\ me.snap = "pending" => sched.concurrency = "queue"
    BY <1>1, <2>1 DEF FrameOK, Frames
  <2>4. runs' = [runs EXCEPT ![r] = [status |-> me.snap, key |-> me.key, exec |-> FALSE,
                                     ver |-> 1]]
    BY <1>5 DEF Claim
  <2>5. sched' = [sched EXCEPT !.enabled = ~ sched.once, !.rev = @ + 1, !.key = @ + 1,
                               !.age = 0]
    BY <1>5 DEF Claim
  <2>6. PICK to \in {arm, start} : Goto(p, "wake", to)
    BY <1>5 DEF Claim
  <2> HIDE DEF r, arm
  <2>7. /\ RunsTyped' /\ Final /\ r \in Runs
        /\ runs'[r].status = me.snap /\ runs'[r].key = me.key /\ ~ runs'[r].exec
        /\ runs[r].status = "absent"
        /\ \A other \in Runs : other # r => runs'[other] = runs[other]
        /\ \A other \in Runs : runs[other].status # "absent"
                                 => runs'[other].status # "absent"
    <3>1. me.snap \in Active \cup Terminal
      BY <2>3 DEF Active, Started, Terminal
    <3> QED BY <1>1, <2>2, <2>3, <2>4, <3>1, RowInserted
  <2>8. sched'.rev = sched.rev + 1 /\ sched'.concurrency = sched.concurrency
    BY <1>1, <2>5 DEF Rest
  <2>9. Rest'
    <3>1. sched' \in [concurrency: {"skip", "queue", "allow"}, misfire: {"skip", "fire_once"},
                      once: BOOLEAN, enabled: BOOLEAN, deleted: BOOLEAN,
                      rev: Nat, key: Nat, age: 0..3, edits: 0..MaxEdits]
      <4>1. /\ (~ sched.once) \in BOOLEAN /\ sched.rev + 1 \in Nat /\ sched.key + 1 \in Nat
            /\ 0 \in 0..3
        BY <1>1 DEF Rest
      <4> QED BY <1>1, <2>5, <4>1 DEF Rest
    <3> QED BY <1>1, <1>3, <3>1 DEF Rest
  <2>10. to \in Frames /\ FrameOK(to, runs', sched') /\ to.pc # "claim"
    <3>1. sched'.rev \in Nat
      BY <1>1, <2>8
    <3>2. start \in Frames /\ start.pc = "dispatch" /\ start.run = r /\ start.todo = {}
          /\ start.rev = 0
      <4>1. Idle \in Frames /\ Idle.todo = {} /\ Idle.rev = 0
        BY IdleTyped DEF Idle
      <4>2. r \in 0..MaxRuns
        BY <2>7, RunsNumbered
      <4> QED BY ZenonT(60), <4>1, <4>2 DEF Frames, Pcs
    <3>3. runs'[r].status # "absent"
      BY <2>3, <2>7
    <3> HIDE DEF start
    <3>4. FrameOK(start, runs', sched')
      BY <2>7, <3>1, <3>2, <3>3 DEF FrameOK
    <3> QED BY <1>2, <2>6, <3>1, <3>2, <3>4
  <2>11. /\ ChainsTyped' /\ FramesInv' /\ chain'[p]["wake"] = to
         /\ \A q \in Procs : q # p => chain'[q]["wake"] = chain[q]["wake"]
    <3>1. sched'.rev \in Nat /\ sched.rev <= sched'.rev
      BY <1>1, <2>8
    <3> QED BY <1>1, <2>6, <2>7, <2>8, <2>10, <3>1, FrameMoves
  <2>12. \A q \in Procs : ~ Current(q)'
    <3> SUFFICES ASSUME NEW q \in Procs, Current(q)' PROVE FALSE
      OBVIOUS
    <3>1. q # p
      BY <2>10, <2>11 DEF Current
    <3>2. chain[q]["wake"].rev \in Nat /\ chain[q]["wake"].rev <= sched.rev
      BY <1>1, FrameHere DEF FrameOK, Frames
    <3>3. chain'[q]["wake"].rev = sched'.rev
      BY DEF Current
    <3> QED BY <1>1, <2>8, <2>11, <3>1, <3>2, <3>3
  <2>13. OccurrenceOnce'
    BY <1>1, <2>1, <2>7 DEF OccurrenceOnce
  <2>14. NoManual' => NoManual
    BY <2>7 DEF NoManual, Absent, InStatus
  <2>15. Current(p)
    BY <2>1 DEF Current
  <2>16. SkipInv'
    <3> SUFFICES ASSUME sched.concurrency = "skip", NoManual
                 PROVE  \A one, other \in InStatus(Active)' : one = other
      BY <2>8, <2>12, <2>14 DEF SkipInv
    <3>1. \A one, other \in InStatus(Active) : one = other
      BY <1>1 DEF SkipInv
    <3>2. CASE me.snap = "dispatching"
      <4>1. InStatus(Active) = {}
        BY <1>1, <2>15, <3>2 DEF SkipInv
      <4> QED BY <2>7, <4>1 DEF InStatus
    <3>3. CASE me.snap = "skipped"
      <4>1. "skipped" \notin Active
        BY DEF Active, Started
      <4> QED BY <2>7, <3>1, <3>3, <4>1 DEF InStatus
    <3> QED BY <2>3, <3>2, <3>3
  <2>17. QueueInv'
    <3> SUFFICES ASSUME sched.concurrency = "queue", NoManual
                 PROVE  \A one, other \in Waiting' : one = other
      BY <2>8, <2>12, <2>14 DEF QueueInv
    <3>1. \A one, other \in Waiting : one = other
      BY <1>1 DEF QueueInv
    <3>2. CASE me.snap = "pending"
      <4>1. Waiting = {}
        BY <1>1, <2>15, <3>2 DEF QueueInv
      <4> QED BY <2>7, <4>1 DEF Waiting, InStatus
    <3>3. CASE me.snap # "pending"
      BY <2>7, <3>1, <3>3 DEF Waiting, InStatus
    <3> QED BY <3>2, <3>3
  <2> QED BY <2>7, <2>9, <2>11, <2>13, <2>16, <2>17, PartsNext DEF RunsInv
<1> QED BY <1>4, <1>5

LEMMA WakingKeeps ==
    ASSUME EngineInv, NEW p \in Procs, Waking(p)
    PROVE  EngineInv' /\ Final
  BY Wakes, Recovers, Inspects, RunSettles, RecoveryEnds, Lists, Decides, Claims, Arms
  DEF Waking

----------------------------------------------------------------------------
(* The target's events.                                                       *)
LEMMA HeadAndTail ==
    ASSUME NEW S, NEW q \in Seq(S), q # <<>>
    PROVE  Head(q) \in S /\ Tail(q) \in Seq(S)
  OBVIOUS

LEMMA TakesEvent ==
    ASSUME EngineInv, NEW p \in Procs, TakeEvent(p)
    PROVE  EngineInv' /\ Final
<1> DEFINE e == Head(events[p])
           found == runs[e.run].status \in Active
           to == [Idle EXCEPT !.pc = "event", !.run = e.run, !.ver = runs[e.run].ver,
                              !.snap = e.snap]
<1>1. Rest /\ RunsTyped /\ sched.rev \in Nat /\ "event" \in Chains /\ "event" # "wake"
  BY Parts DEF Rest, Chains
<1>2. /\ e \in [run: Runs, snap: Snapshots \ {"none"}]
      /\ Tail(events[p]) \in Seq([run: Runs, snap: Snapshots \ {"none"}])
  <2>1. events[p] \in Seq([run: Runs, snap: Snapshots \ {"none"}]) /\ events[p] # <<>>
    BY <1>1 DEF Rest, TakeEvent
  <2> QED BY <2>1, HeadAndTail
<1>3. UNCHANGED <<sched, runs, lease, life, leader, armed, exec, disrupted>>
  BY DEF TakeEvent
<1>4. events' = [events EXCEPT ![p] = Tail(@)]
  BY DEF TakeEvent
<1>5. early' = early \/ early' = [early EXCEPT ![p][e.run] = e.snap]
  BY DEF TakeEvent
<1>6. UNCHANGED chain \/ (found /\ Goto(p, "event", to))
  BY DEF TakeEvent
<1> HIDE DEF e
<1>7. Rest'
  <2>1. events' \in [Procs -> Seq([run: Runs, snap: Snapshots \ {"none"}])]
    BY <1>1, <1>2, <1>4 DEF Rest
  <2>2. early' \in [Procs -> [Runs -> Snapshots]]
    <3>1. e.run \in Runs /\ e.snap \in Snapshots
      BY <1>2
    <3>2. early \in [Procs -> [Runs -> Snapshots]]
      BY <1>1 DEF Rest
    <3> QED BY <1>5, <3>1, <3>2
  <2> QED BY <1>1, <1>3, <2>1, <2>2 DEF Rest
<1>8. CASE UNCHANGED chain
  <2>1. RunsTyped' /\ ChainsTyped' /\ RunsInv' /\ Final
    BY <1>1, <1>3, <1>8, ChainsStay
  <2> QED BY <1>7, <2>1, PartsNext
<1>9. CASE found /\ Goto(p, "event", to)
  <2>1. Idle \in Frames /\ Idle.todo = {} /\ Idle.rev = 0
    BY IdleTyped DEF Idle
  <2>2. e.run \in 0..MaxRuns /\ e.run \in Runs /\ runs[e.run].ver \in Nat
        /\ e.snap \in Snapshots \ {"none"} /\ runs[e.run].status # "absent"
    BY <1>1, <1>2, <1>9, RunsNumbered DEF RunsTyped, Active, Started
  <2>3. /\ to \in Frames /\ to.pc = "event" /\ to.run = e.run /\ to.snap = e.snap
        /\ to.todo = {} /\ to.rev = 0
    BY ZenonT(60), <2>1, <2>2 DEF Frames, Pcs
  <2>4. Goto(p, "event", to)
    BY <1>9
  <2> HIDE DEF to
  <2>5. FrameOK(to, runs, sched)
    BY <1>1, <2>2, <2>3 DEF FrameOK
  <2>6. RunsTyped' /\ ChainsTyped' /\ RunsInv' /\ Final
    BY <1>1, <1>3, <2>3, <2>4, <2>5, ChainMoves
  <2> QED BY <1>7, <2>6, PartsNext
<1> QED BY <1>6, <1>8, <1>9

LEMMA AppliesEvent ==
    ASSUME EngineInv, NEW p \in Procs, ApplyEvent(p)
    PROVE  EngineInv' /\ Final
<1> DEFINE me == chain[p]["event"]
           to == StatusOf(me.snap)
           next == IF to \in Terminal THEN [Idle EXCEPT !.pc = "drain"] ELSE Idle
<1>1. me \in Frames /\ FrameOK(me, runs, sched) /\ "event" \in Chains /\ sched.rev \in Nat
  BY Parts, FrameHere DEF Rest, Chains
<1>2. me.pc = "event" /\ me.pc \in Holding /\ me.snap \in Snapshots \ {"none"}
  BY <1>1 DEF ApplyEvent, At, Holding, FrameOK
<1>3. to \in Active \cup Terminal /\ TRUE \in BOOLEAN
  BY <1>2, StatusTyped
<1>4. next \in Frames /\ FrameOK(next, runs, sched)
  BY <1>1, IdleTyped, IdleFrame DEF Pcs, Holding
<1>5. Transition(p, "event", to, TRUE, next) /\ UNCHANGED sched /\ "event" # "wake"
  BY DEF ApplyEvent
<1> HIDE DEF to, next
<1>6. RunsTyped' /\ ChainsTyped' /\ RunsInv' /\ Final
  BY <1>1, <1>2, <1>3, <1>4, <1>5, Transitions
<1>7. Rest'
  BY RestStays DEF ApplyEvent
<1> QED BY <1>6, <1>7, PartsNext

----------------------------------------------------------------------------
(* The user's calls.  A manual run ends what the invariant says of policies.  *)
LEMMA RunsNow ==
    ASSUME EngineInv, NEW p \in Procs, NEW respect \in BOOLEAN, RunNow(p, respect)
    PROVE  EngineInv' /\ Final
<1> DEFINE r == Oldest(Absent)
           pc == IF respect THEN "blocked" ELSE "begin"
           to == [Idle EXCEPT !.pc = pc, !.run = r, !.ver = 1]
<1>1. /\ Rest /\ RunsTyped /\ sched.rev \in Nat /\ OccurrenceOnce
      /\ "user" \in Chains /\ "user" # "wake"
  BY Parts DEF Rest, Chains, RunsInv
<1>2. Absent # {}
  <2>1. Cardinality(Absent) > (IF sched.age > 0 THEN 1 ELSE 0)
    BY DEF RunNow
  <2> QED BY <2>1, FS_EmptySet
<1>3. r \in Absent
  BY <1>2, OldestIn DEF Absent, InStatus
<1>4. /\ runs' = [runs EXCEPT ![r] = [status |-> "pending", key |-> 0, exec |-> FALSE,
                                      ver |-> 1]]
      /\ Goto(p, "user", to)
      /\ UNCHANGED <<sched, lease, life, leader, armed, events, early, exec, disrupted>>
  BY DEF RunNow
<1> HIDE DEF r
<1>5. /\ RunsTyped' /\ Final /\ r \in Runs
      /\ runs'[r].status = "pending" /\ runs'[r].key = 0
      /\ \A other \in Runs : other # r => runs'[other] = runs[other]
      /\ \A other \in Runs : runs[other].status # "absent"
                               => runs'[other].status # "absent"
  <2> DEFINE key == 0
             status == "pending"
  <2>1. status \in Active \cup Terminal /\ key \in Nat
    BY DEF Active
  <2>2. runs' = [runs EXCEPT ![r] = [status |-> status, key |-> key, exec |-> FALSE,
                                     ver |-> 1]]
    BY <1>4
  <2> HIDE DEF key, status
  <2>3. /\ RunsTyped' /\ Final /\ r \in Runs
        /\ runs'[r].status = status /\ runs'[r].key = key
        /\ \A other \in Runs : other # r => runs'[other] = runs[other]
        /\ \A other \in Runs : runs[other].status # "absent"
                                 => runs'[other].status # "absent"
    BY <1>1, <1>3, <2>1, <2>2, RowInserted
  <2> QED BY <2>3 DEF key, status
<1>6. pc \in {"blocked", "begin"}
  OBVIOUS
<1> HIDE DEF pc
<1>7. to \in Frames /\ to.pc = pc /\ to.run = r /\ to.todo = {} /\ to.rev = 0
  <2>1. Idle \in Frames /\ Idle.todo = {} /\ Idle.rev = 0
    BY IdleTyped DEF Idle
  <2>2. r \in 0..MaxRuns
    BY <1>5, RunsNumbered
  <2> QED BY ZenonT(60), <1>6, <2>1, <2>2 DEF Frames, Pcs
<1> HIDE DEF to
<1>8. FrameOK(to, runs', sched')
  BY <1>1, <1>4, <1>5, <1>6, <1>7 DEF FrameOK
<1>9. ChainsTyped' /\ FramesInv'
  <2>1. sched'.rev \in Nat /\ sched.rev <= sched'.rev
        /\ sched'.concurrency = sched.concurrency
    BY <1>1, <1>4
  <2> QED BY <1>1, <1>4, <1>5, <1>7, <1>8, <2>1, FrameMoves
<1>10. OccurrenceOnce'
  BY <1>1, <1>5 DEF OccurrenceOnce
<1>11. ~ NoManual'
  BY <1>5 DEF NoManual, Absent, InStatus
<1>12. SkipInv' /\ QueueInv'
  BY <1>11 DEF SkipInv, QueueInv
<1>13. Rest'
  BY <1>4, RestStays
<1> QED BY <1>5, <1>9, <1>10, <1>12, <1>13, PartsNext DEF RunsInv

LEMMA Blocks ==
    ASSUME EngineInv, NEW p \in Procs, Blocked(p)
    PROVE  EngineInv' /\ Final
<1> DEFINE me == chain[p]["user"]
<1>1. /\ sched.rev \in Nat /\ me \in Frames /\ FrameOK(me, runs, sched)
      /\ "user" \in Chains /\ "user" # "wake"
  BY Parts, FrameHere DEF Rest, Chains
<1>2. me.pc \in Holding
  BY DEF Blocked, At, Holding
<1> DEFINE skip == [me EXCEPT !.pc = "skip"]
           begin == [me EXCEPT !.pc = "begin"]
<1>3. skip \in Frames /\ FrameOK(skip, runs, sched)
  BY <1>1, <1>2, FrameTurns DEF Pcs
<1>4. begin \in Frames /\ FrameOK(begin, runs, sched)
  BY <1>1, <1>2, FrameTurns DEF Pcs
<1>5. Idle \in Frames /\ FrameOK(Idle, runs, sched)
  BY <1>1, IdleTyped, IdleFrame
<1>6. PICK to \in {Idle, skip, begin} : Goto(p, "user", to)
  BY DEF Blocked
<1>7. UNCHANGED <<sched, runs>>
  BY DEF Blocked
<1> HIDE DEF skip, begin
<1>8. RunsTyped' /\ ChainsTyped' /\ RunsInv' /\ Final
  BY <1>1, <1>3, <1>4, <1>5, <1>6, <1>7, ChainMoves
<1>9. Rest'
  BY RestStays DEF Blocked
<1> QED BY <1>8, <1>9, PartsNext

LEMMA Skips ==
    ASSUME EngineInv, NEW p \in Procs, Skip(p)
    PROVE  EngineInv' /\ Final
<1>1. /\ sched.rev \in Nat /\ "user" \in Chains /\ "user" # "wake"
      /\ Idle \in Frames /\ FrameOK(Idle, runs, sched)
  BY Parts, IdleTyped, IdleFrame DEF Rest, Chains
<1>2. chain[p]["user"].pc \in Holding
  BY DEF Skip, At, Holding
<1>3. "skipped" \in Active \cup Terminal /\ "skipped" # "pending" /\ FALSE \in BOOLEAN
  BY DEF Terminal
<1>4. Transition(p, "user", "skipped", FALSE, Idle) /\ UNCHANGED sched
  BY DEF Skip
<1>5. RunsTyped' /\ ChainsTyped' /\ RunsInv' /\ Final
  BY <1>1, <1>2, <1>3, <1>4, Transitions
<1>6. Rest'
  BY RestStays DEF Skip
<1> QED BY <1>5, <1>6, PartsNext

LEMMA CancelCommits ==
    ASSUME EngineInv, NEW p \in Procs, CancelCommit(p)
    PROVE  EngineInv' /\ Final
<1> DEFINE next == [Idle EXCEPT !.pc = "drain"]
<1>1. /\ sched.rev \in Nat /\ "user" \in Chains /\ "user" # "wake"
  BY Parts DEF Rest, Chains
<1>2. next \in Frames /\ FrameOK(next, runs, sched)
  BY <1>1, IdleTyped, IdleFrame DEF Pcs, Holding
<1>3. chain[p]["user"].pc \in Holding
  BY DEF CancelCommit, At, Holding
<1>4. "cancelled" \in Active \cup Terminal /\ "cancelled" # "pending" /\ FALSE \in BOOLEAN
  BY DEF Terminal
<1>5. Transition(p, "user", "cancelled", FALSE, next) /\ UNCHANGED sched
  BY DEF CancelCommit
<1> HIDE DEF next
<1>6. RunsTyped' /\ ChainsTyped' /\ RunsInv' /\ Final
  BY <1>1, <1>2, <1>3, <1>4, <1>5, Transitions
<1>7. Rest'
  BY RestStays DEF CancelCommit
<1> QED BY <1>6, <1>7, PartsNext

\* What the target says reaches the events of its host.
LEMMA Publishes ==
    ASSUME Rest, NEW p \in Procs, NEW r \in Runs, NEW snap \in Snapshots \ {"none"},
           Publish(p, r, snap)
    PROVE  events' \in [Procs -> Seq([run: Runs, snap: Snapshots \ {"none"}])]
<1> DEFINE E == [run: Runs, snap: Snapshots \ {"none"}]
           e == [run |-> r, snap |-> snap]
<1>1. e \in E /\ events \in [Procs -> Seq(E)]
  BY DEF Rest
<1>2. events' = [events EXCEPT ![p] = Append(@, e)]
  BY DEF Publish
<1> HIDE DEF E, e
<1>3. Append(events[p], e) \in Seq(E)
  BY <1>1
<1>4. events' \in [Procs -> Seq(E)]
  BY <1>1, <1>2, <1>3
<1> QED BY <1>4 DEF E

LEMMA Cancelled ==
    ASSUME EngineInv, NEW p \in Procs, NEW r \in Runs, CancelRun(p, r)
    PROVE  EngineInv' /\ Final
<1>1. /\ Rest /\ RunsTyped /\ sched.rev \in Nat /\ "user" \in Chains /\ "user" # "wake"
  BY Parts DEF Rest, Chains
<1>2. UNCHANGED <<sched, runs, lease, life, leader, armed, early, disrupted>>
  BY DEF CancelRun
<1>3. CASE runs[r].exec
  <2>1. /\ exec' = [exec EXCEPT ![r].state = "cancelled"] /\ Publish(p, r, "cancelled")
        /\ UNCHANGED chain
    BY <1>3 DEF CancelRun
  <2>2. exec' \in [Runs -> [state: Snapshots, host: Procs \cup {None}]]
    BY ZenonT(60), <1>1, <2>1 DEF Rest, Snapshots
  <2>3. events' \in [Procs -> Seq([run: Runs, snap: Snapshots \ {"none"}])]
    <3>1. "cancelled" \in Snapshots \ {"none"}
      BY DEF Snapshots
    <3> QED BY <1>1, <2>1, <3>1, Publishes
  <2>4. Rest'
    BY <1>1, <1>2, <2>2, <2>3 DEF Rest
  <2>5. RunsTyped' /\ ChainsTyped' /\ RunsInv' /\ Final
    BY <1>1, <1>2, <2>1, ChainsStay
  <2> QED BY <2>4, <2>5, PartsNext
<1>4. CASE ~ runs[r].exec
  <2> DEFINE to == [Idle EXCEPT !.pc = "cancel", !.run = r, !.ver = runs[r].ver]
  <2>1. Goto(p, "user", to) /\ UNCHANGED <<events, exec>> /\ runs[r].status \in Active
    BY <1>4 DEF CancelRun
  <2>2. r \in 0..MaxRuns /\ runs[r].ver \in Nat /\ runs[r].status # "absent"
    BY <1>1, <2>1, RunsNumbered DEF RunsTyped, Active, Started
  <2>3. to \in Frames /\ to.pc = "cancel" /\ to.run = r /\ to.todo = {} /\ to.rev = 0
    <3>1. Idle \in Frames /\ Idle.todo = {} /\ Idle.rev = 0
      BY IdleTyped DEF Idle
    <3> QED BY ZenonT(60), <2>2, <3>1 DEF Frames, Pcs
  <2> HIDE DEF to
  <2>4. FrameOK(to, runs, sched)
    BY <1>1, <2>2, <2>3 DEF FrameOK
  <2>5. RunsTyped' /\ ChainsTyped' /\ RunsInv' /\ Final
    BY <1>1, <1>2, <2>1, <2>3, <2>4, ChainMoves
  <2>6. Rest'
    BY <1>2, <2>1, RestStays
  <2> QED BY <2>5, <2>6, PartsNext
<1> QED BY <1>3, <1>4

LEMMA Pokes == ASSUME EngineInv, NEW p \in Procs PROVE Poked(p) \in [Procs -> BOOLEAN]
  BY Parts DEF Rest, Poked

\* An edit is a new revision, for which no decision was taken.
LEMMA Updates ==
    ASSUME EngineInv, NEW p \in Procs, NEW enabled \in BOOLEAN, NEW recalculates \in BOOLEAN,
           Update(p, enabled, recalculates)
    PROVE  EngineInv' /\ Final
<1> DEFINE key == IF enabled /\ recalculates THEN sched.key + 1 ELSE sched.key
           age == IF enabled /\ ~ recalculates THEN sched.age ELSE 0
<1>1. Rest /\ sched.rev \in Nat
  BY Parts DEF Rest
<1>2. key \in Nat /\ age \in 0..3 /\ sched.edits + 1 \in 0..MaxEdits /\ sched.rev + 1 \in Nat
  BY SMTT(60), <1>1, EngineAssumption DEF Rest, Update
<1>3. sched' = [sched EXCEPT !.enabled = enabled, !.rev = sched.rev + 1,
                             !.edits = sched.edits + 1, !.key = key, !.age = age]
  BY DEF Update
<1> HIDE DEF key, age
<1>4. sched' \in [concurrency: {"skip", "queue", "allow"}, misfire: {"skip", "fire_once"},
                  once: BOOLEAN, enabled: BOOLEAN, deleted: BOOLEAN,
                  rev: Nat, key: Nat, age: 0..3, edits: 0..MaxEdits]
  BY <1>1, <1>2, <1>3 DEF Rest
<1>5. sched'.rev = sched.rev + 1 /\ sched'.concurrency = sched.concurrency
  BY <1>1, <1>3 DEF Rest
<1>6. UNCHANGED <<runs, lease, life, leader, chain, events, early, exec, disrupted>>
      /\ armed' = Poked(p)
  BY DEF Update
<1>7. RunsTyped' /\ ChainsTyped' /\ RunsInv' /\ Final
  BY <1>1, <1>5, <1>6, ChainsStay
<1>8. Rest'
  BY <1>1, <1>4, <1>6, Pokes DEF Rest
<1> QED BY <1>7, <1>8, PartsNext

LEMMA SoftDeletes ==
    ASSUME EngineInv, NEW p \in Procs, SoftDelete(p)
    PROVE  EngineInv' /\ Final
<1>1. Rest /\ sched.rev \in Nat
  BY Parts DEF Rest
<1>2. 0 \in 0..3 /\ sched.edits + 1 \in 0..MaxEdits /\ sched.rev + 1 \in Nat
  BY <1>1, EngineAssumption DEF Rest, SoftDelete
<1>3. sched' = [sched EXCEPT !.enabled = FALSE, !.deleted = TRUE, !.rev = sched.rev + 1,
                             !.edits = sched.edits + 1, !.age = 0]
  BY DEF SoftDelete
<1>4. sched' \in [concurrency: {"skip", "queue", "allow"}, misfire: {"skip", "fire_once"},
                  once: BOOLEAN, enabled: BOOLEAN, deleted: BOOLEAN,
                  rev: Nat, key: Nat, age: 0..3, edits: 0..MaxEdits]
  BY <1>1, <1>2, <1>3 DEF Rest
<1>5. sched'.rev = sched.rev + 1 /\ sched'.concurrency = sched.concurrency
  BY <1>1, <1>3 DEF Rest
<1>6. UNCHANGED <<runs, lease, life, leader, chain, events, early, exec, disrupted>>
      /\ armed' = Poked(p)
  BY DEF SoftDelete
<1>7. RunsTyped' /\ ChainsTyped' /\ RunsInv' /\ Final
  BY <1>1, <1>5, <1>6, ChainsStay
<1>8. Rest'
  BY <1>1, <1>4, <1>6, Pokes DEF Rest
<1> QED BY <1>7, <1>8, PartsNext

----------------------------------------------------------------------------
(* Targets, processes and time.                                               *)
LEMMA TargetMovesOn ==
    ASSUME EngineInv, NEW r \in Runs, NEW to \in Snapshots, TargetMoves(r, to)
    PROVE  EngineInv' /\ Final
<1>1. Rest /\ sched.rev \in Nat
  BY Parts DEF Rest
<1>2. to # "none" /\ exec[r].host \in Procs
  BY <1>1, EngineAssumption DEF Rest, TargetMoves
<1>3. /\ exec' = [exec EXCEPT ![r].state = to] /\ Publish(exec[r].host, r, to)
      /\ UNCHANGED <<sched, runs, lease, life, leader, armed, chain, early>>
  BY DEF TargetMoves
<1>4. exec' \in [Runs -> [state: Snapshots, host: Procs \cup {None}]]
  BY SMTT(60), <1>1, <1>3 DEF Rest
<1>5. events' \in [Procs -> Seq([run: Runs, snap: Snapshots \ {"none"}])]
  BY <1>1, <1>2, <1>3, Publishes
<1>6. disrupted' \in 0..MaxDisruptions
  BY <1>1, EngineAssumption DEF Rest, TargetMoves, Disrupt
<1>7. Rest'
  BY <1>1, <1>3, <1>4, <1>5, <1>6 DEF Rest
<1>8. RunsTyped' /\ ChainsTyped' /\ RunsInv' /\ Final
  BY <1>1, <1>3, ChainsStay
<1> QED BY <1>7, <1>8, PartsNext

\* A process that is gone decides nothing any more.
LEMMA Forgets ==
    ASSUME EngineInv, NEW p \in Procs, Forget(p), UNCHANGED <<sched, runs>>,
           lease' \in Procs \cup {None, Gone}, disrupted' \in 0..MaxDisruptions
    PROVE  EngineInv' /\ Final
<1>1. Rest /\ RunsTyped /\ ChainsTyped /\ RunsInv /\ sched.rev \in Nat /\ "wake" \in Chains
  BY Parts DEF Rest, Chains
<1>2. chain' = [chain EXCEPT ![p] = [c \in Chains |-> Idle]]
  BY DEF Forget
<1>3. Idle \in Frames /\ FrameOK(Idle, runs, sched) /\ Idle.pc # "claim"
  BY <1>1, IdleTyped, IdleFrame DEF Idle
<1> DEFINE idle == [c \in Chains |-> Idle]
<1>4. idle \in [Chains -> Frames] /\ \A c \in Chains : idle[c] = Idle
  BY <1>3
<1> HIDE DEF idle
<1>5. chain' = [chain EXCEPT ![p] = idle]
  BY <1>2 DEF idle
<1>6. ChainsTyped' /\ chain'[p] = idle
      /\ \A q \in Procs : q # p => chain'[q] = chain[q]
  BY <1>1, <1>4, <1>5 DEF ChainsTyped
<1>7. FramesInv'
  <2> SUFFICES ASSUME NEW q \in Procs, NEW c \in Chains
               PROVE  FrameOK(chain'[q][c], runs, sched)
    BY DEF FramesInv
  <2>1. CASE q = p
    BY <1>3, <1>4, <1>6, <2>1
  <2>2. CASE q # p
    BY <1>6, <2>2, FrameHere
  <2> QED BY <2>1, <2>2
<1>8. NoDecision
  BY <1>1, <1>3, <1>4, <1>6 DEF NoDecision, Current
<1>9. \A r \in Runs : RowKept(r)
  BY DEF RowKept
<1>10. OccurrenceOnce' /\ SkipInv' /\ QueueInv' /\ Final
  BY <1>8, <1>9, RowsKept
<1>11. /\ life' \in [Procs -> {"up", "closing", "down"}]
       /\ leader' \in [Procs -> BOOLEAN] /\ armed' \in [Procs -> BOOLEAN]
  BY <1>1 DEF Forget, Rest
<1>12. events' \in [Procs -> Seq([run: Runs, snap: Snapshots \ {"none"}])]
  <2> DEFINE E == [run: Runs, snap: Snapshots \ {"none"}]
  <2>1. events \in [Procs -> Seq(E)] /\ events' = [events EXCEPT ![p] = <<>>]
    BY <1>1 DEF Forget, Rest
  <2> HIDE DEF E
  <2>2. events' \in [Procs -> Seq(E)]
    BY <2>1
  <2> QED BY <2>2 DEF E
<1>13. early' \in [Procs -> [Runs -> Snapshots]]
  <2>1. [r \in Runs |-> "none"] \in [Runs -> Snapshots]
    BY DEF Snapshots
  <2> QED BY <1>1, <2>1 DEF Forget, Rest
<1>14. exec' \in [Runs -> [state: Snapshots, host: Procs \cup {None}]]
  <2>1. {"none", "running", "interrupted"} \subseteq Snapshots
    BY DEF Snapshots, Live
  <2> QED BY <1>1, <2>1 DEF Forget, Rest
<1>15. Rest'
  BY <1>1, <1>11, <1>12, <1>13, <1>14 DEF Rest
<1> QED BY <1>1, <1>6, <1>7, <1>10, <1>15, PartsNext DEF RunsInv, RunsTyped

LEMMA Crashes ==
    ASSUME EngineInv, NEW p \in Procs, Crash(p)
    PROVE  EngineInv' /\ Final
<1>1. lease' \in Procs \cup {None, Gone} /\ disrupted' \in 0..MaxDisruptions
  BY Parts, EngineAssumption DEF Rest, Crash, Disrupt
<1> QED BY <1>1, Forgets DEF Crash

LEMMA Releases ==
    ASSUME EngineInv, NEW p \in Procs, Release(p)
    PROVE  EngineInv' /\ Final
<1>1. lease' \in Procs \cup {None, Gone} /\ disrupted' \in 0..MaxDisruptions
  BY Parts DEF Rest, Release
<1> QED BY <1>1, Forgets DEF Release

LEMMA Starts ==
    ASSUME EngineInv, NEW p \in Procs, Start(p)
    PROVE  EngineInv' /\ Final
<1>1. Rest /\ sched.rev \in Nat
  BY Parts DEF Rest
<1>2. UNCHANGED <<sched, runs, lease, leader, chain, events, early, disrupted>>
  BY DEF Start
<1>3. life' \in [Procs -> {"up", "closing", "down"}] /\ armed' \in [Procs -> BOOLEAN]
  BY <1>1 DEF Start, Rest
<1>4. exec' \in [Runs -> [state: Snapshots, host: Procs \cup {None}]]
  BY <1>1 DEF Start, Rest
<1>5. Rest'
  BY <1>1, <1>2, <1>3, <1>4 DEF Rest
<1>6. RunsTyped' /\ ChainsTyped' /\ RunsInv' /\ Final
  BY <1>1, <1>2, ChainsStay
<1> QED BY <1>5, <1>6, PartsNext

LEMMA Closes ==
    ASSUME EngineInv, NEW p \in Procs, Close(p)
    PROVE  EngineInv' /\ Final
<1>1. Rest /\ sched.rev \in Nat
  BY Parts DEF Rest
<1>2. UNCHANGED <<sched, runs, lease, leader, chain, events, early, exec>>
  BY DEF Close
<1>3. life' \in [Procs -> {"up", "closing", "down"}] /\ armed' \in [Procs -> BOOLEAN]
  BY <1>1 DEF Close, Rest
<1>4. disrupted' \in 0..MaxDisruptions
  BY <1>1, EngineAssumption DEF Close, Rest, Disrupt
<1>5. Rest'
  BY <1>1, <1>2, <1>3, <1>4 DEF Rest
<1>6. RunsTyped' /\ ChainsTyped' /\ RunsInv' /\ Final
  BY <1>1, <1>2, ChainsStay
<1> QED BY <1>5, <1>6, PartsNext

LEMMA LeaseRunsOut ==
    ASSUME EngineInv, LeaseExpires
    PROVE  EngineInv' /\ Final
<1>1. Rest /\ sched.rev \in Nat
  BY Parts DEF Rest
<1>2. UNCHANGED <<sched, runs, life, leader, armed, chain, events, early, exec>>
      /\ lease' = None
  BY DEF LeaseExpires
<1>3. disrupted' \in 0..MaxDisruptions
  BY <1>1, EngineAssumption DEF LeaseExpires, Rest, Disrupt
<1>4. Rest'
  BY <1>1, <1>2, <1>3 DEF Rest
<1>5. RunsTyped' /\ ChainsTyped' /\ RunsInv' /\ Final
  BY <1>1, <1>2, ChainsStay
<1> QED BY <1>4, <1>5, PartsNext

LEMMA Ticks ==
    ASSUME EngineInv, Tick
    PROVE  EngineInv' /\ Final
<1>1. Rest /\ sched.rev \in Nat
  BY Parts DEF Rest
<1>2. sched' = [sched EXCEPT !.age = sched.age + 1] /\ sched.age + 1 \in 0..3
  BY <1>1, EngineAssumption DEF Tick, Rest
<1>3. UNCHANGED <<runs, lease, life, leader, armed, chain, events, early, exec, disrupted>>
  BY DEF Tick
<1>4. /\ sched'.rev = sched.rev /\ sched'.concurrency = sched.concurrency
      /\ sched' \in [concurrency: {"skip", "queue", "allow"}, misfire: {"skip", "fire_once"},
                     once: BOOLEAN, enabled: BOOLEAN, deleted: BOOLEAN,
                     rev: Nat, key: Nat, age: 0..3, edits: 0..MaxEdits]
  BY <1>1, <1>2 DEF Rest
<1>5. Rest'
  BY <1>1, <1>3, <1>4 DEF Rest
<1>6. RunsTyped' /\ ChainsTyped' /\ RunsInv' /\ Final
  BY <1>1, <1>3, <1>4, ChainsStay
<1> QED BY <1>5, <1>6, PartsNext

----------------------------------------------------------------------------
LEMMA InitEngine == Init => EngineInv
<1> SUFFICES ASSUME Init PROVE EngineInv
  OBVIOUS
<1>1. PICK policy \in Policies :
         sched = [concurrency |-> policy.concurrency, misfire |-> policy.misfire,
                  once |-> policy.once, enabled |-> TRUE, deleted |-> FALSE,
                  rev |-> 1, key |-> 1, age |-> 0, edits |-> 0]
  BY DEF Init
<1>2. sched \in [concurrency: {"skip", "queue", "allow"}, misfire: {"skip", "fire_once"},
                 once: BOOLEAN, enabled: BOOLEAN, deleted: BOOLEAN,
                 rev: Nat, key: Nat, age: 0..3, edits: 0..MaxEdits]
  <2>1. policy \in [concurrency: {"skip", "queue", "allow"}, misfire: {"skip", "fire_once"},
                    once: BOOLEAN] /\ 0 \in 0..MaxEdits
    BY EngineAssumption
  <2> QED BY <1>1, <2>1
<1>3. sched.rev \in Nat
  BY <1>2
<1>4. RunsTyped /\ \A r \in Runs : runs[r].key = 0 /\ runs[r].status = "absent"
  BY DEF Init, RunsTyped
<1>5. /\ ChainsTyped
      /\ \A p \in Procs, c \in Chains : chain[p][c] = Idle
  BY IdleTyped DEF Init, ChainsTyped
<1>6. FramesInv
  BY <1>3, <1>5, IdleFrame DEF FramesInv
<1>7. OccurrenceOnce
  BY <1>4 DEF OccurrenceOnce
<1>8. SkipInv /\ QueueInv
  <2>1. \A p \in Procs : ~ Current(p)
    BY <1>5 DEF Current, Idle, Chains
  <2>2. InStatus(Active) = {} /\ Waiting = {}
    BY <1>4 DEF InStatus, Active, Started, Waiting
  <2> QED BY <2>1, <2>2 DEF SkipInv, QueueInv
<1>9. Rest
  <2>1. events \in [Procs -> Seq([run: Runs, snap: Snapshots \ {"none"}])]
    BY DEF Init
  <2>2. early \in [Procs -> [Runs -> Snapshots]]
        /\ exec \in [Runs -> [state: Snapshots, host: Procs \cup {None}]]
    BY DEF Init, Snapshots
  <2>3. disrupted \in 0..MaxDisruptions
    BY EngineAssumption DEF Init
  <2>4. /\ lease \in Procs \cup {None, Gone} /\ life \in [Procs -> {"up", "closing", "down"}]
        /\ leader \in [Procs -> BOOLEAN] /\ armed \in [Procs -> BOOLEAN]
    BY DEF Init
  <2> QED BY <1>2, <2>1, <2>2, <2>3, <2>4 DEF Rest
<1> QED BY <1>4, <1>5, <1>6, <1>7, <1>8, <1>9, Parts DEF RunsInv

LEMMA EngineStutters == EngineInv /\ UNCHANGED vars => EngineInv' /\ Final
<1> SUFFICES ASSUME EngineInv, UNCHANGED vars PROVE EngineInv' /\ Final
  OBVIOUS
<1>1. Rest'
  BY RestStays DEF vars
<1>2. UNCHANGED <<runs, chain, sched>> /\ sched.rev \in Nat
  BY Parts DEF vars, Rest
<1>3. RunsTyped' /\ ChainsTyped' /\ RunsInv' /\ Final
  BY <1>2, ChainsStay
<1> QED BY <1>1, <1>3, PartsNext

LEMMA EngineSteps == EngineInv /\ [Next]_vars => EngineInv' /\ Final
<1> SUFFICES ASSUME EngineInv, [Next]_vars PROVE EngineInv' /\ Final
  OBVIOUS
<1>1. ASSUME NEW p \in Procs, Working(p) PROVE EngineInv' /\ Final
  <2>1. ASSUME NEW c \in Chains, Dispatching(p, c) PROVE EngineInv' /\ Final
    BY <2>1, DispatchingKeeps
  <2>2. ASSUME Handling(p) PROVE EngineInv' /\ Final
    BY <2>2, TakesEvent, AppliesEvent DEF Handling
  <2>3. ASSUME Answering(p) PROVE EngineInv' /\ Final
    BY <2>3, Blocks, Skips, CancelCommits DEF Answering
  <2> QED BY <1>1, <2>1, <2>2, <2>3, WakingKeeps DEF Working
<1>2. ASSUME NEW p \in Procs, Calling(p) PROVE EngineInv' /\ Final
  <2>1. ASSUME NEW respect \in {TRUE, ~ Insists}, RunNow(p, respect) PROVE EngineInv' /\ Final
    <3>1. respect \in BOOLEAN
      OBVIOUS
    <3> QED BY <2>1, <3>1, RunsNow
  <2>2. ASSUME NEW r \in Runs, CancelRun(p, r) PROVE EngineInv' /\ Final
    BY <2>2, Cancelled
  <2>3. ASSUME NEW enabled \in BOOLEAN, NEW recalculates \in BOOLEAN,
               Update(p, enabled, recalculates)
        PROVE  EngineInv' /\ Final
    BY <2>3, Updates
  <2>4. ASSUME SoftDelete(p) PROVE EngineInv' /\ Final
    BY <2>4, SoftDeletes
  <2> QED BY <1>2, <2>1, <2>2, <2>3, <2>4 DEF Calling
<1>3. ASSUME NEW r \in Runs, NEW to \in Snapshots, TargetMoves(r, to)
      PROVE  EngineInv' /\ Final
  BY <1>3, TargetMovesOn
<1>4. ASSUME NEW p \in Procs, Crash(p) \/ Start(p) \/ Close(p) \/ Release(p)
      PROVE  EngineInv' /\ Final
  BY <1>4, Crashes, Starts, Closes, Releases
<1>5. ASSUME LeaseExpires \/ Tick PROVE EngineInv' /\ Final
  BY <1>5, LeaseRunsOut, Ticks
<1>6. ASSUME UNCHANGED vars PROVE EngineInv' /\ Final
  BY <1>6, EngineStutters
<1> QED BY <1>1, <1>2, <1>3, <1>4, <1>5, <1>6 DEF Next

\* The rows, the frames of the chains and the decisions not yet claimed hold together,
\* whichever processes believe they lead: the invariant the others follow from.
THEOREM EngineCorrect == Spec => []EngineInv
<1> QED BY InitEngine, EngineSteps, PTL DEF Spec

\* Every variable of the engine keeps its type, and every chain a well-formed frame.
THEOREM EngineTypeCorrect == Spec => []TypeOK
<1>1. EngineInv => TypeOK
  BY DEF EngineInv
<1> QED BY <1>1, EngineCorrect, PTL

\* claimOccurrence gives an occurrence one run, however many processes decided on it.
THEOREM OccurrenceOnceCorrect == Spec => []OccurrenceOnce
<1>1. EngineInv => OccurrenceOnce
  BY DEF EngineInv
<1> QED BY <1>1, EngineCorrect, PTL

\* A set in which any two are the same has at most one member.
LEMMA AtMostOne ==
    ASSUME NEW S, \A r, other \in S : r = other
    PROVE  Cardinality(S) <= 1
<1>1. CASE S = {}
  BY <1>1, FS_EmptySet
<1>2. CASE S # {}
  <2>1. PICK r \in S : TRUE
    BY <1>2
  <2>2. S = {r}
    BY <2>1
  <2>3. Cardinality(S) = 1
    BY <2>2, FS_Singleton
  <2> QED BY <2>3
<1> QED BY <1>1, <1>2

\* A schedule that skips has one started run at a time, as long as nobody starts one by
\* hand: the decision to dispatch is claimed only at the revision it was taken at.
THEOREM SkipNeverOverlapsCorrect == Spec => []SkipNeverOverlaps
<1>1. EngineInv => SkipNeverOverlaps
  <2> SUFFICES ASSUME EngineInv, sched.concurrency = "skip", NoManual
               PROVE  Cardinality(InStatus(Started)) <= 1
    BY DEF SkipNeverOverlaps
  <2>1. \A r, other \in InStatus(Active) : r = other
    BY DEF EngineInv, SkipInv
  <2>2. InStatus(Started) \subseteq InStatus(Active)
    BY DEF InStatus, Active
  <2>3. \A r, other \in InStatus(Started) : r = other
    BY <2>1, <2>2
  <2> QED BY <2>3, AtMostOne
<1> QED BY <1>1, EngineCorrect, PTL

\* A schedule that queues coalesces what waits into one run, as long as nobody starts one
\* by hand.
THEOREM OneQueuedCorrect == Spec => []OneQueued
<1>1. EngineInv => OneQueued
  <2> SUFFICES ASSUME EngineInv, sched.concurrency = "queue", NoManual
               PROVE  Cardinality(Waiting) <= 1
    BY DEF OneQueued
  <2>1. \A r, other \in Waiting : r = other
    BY DEF EngineInv, QueueInv
  <2> QED BY <2>1, AtMostOne
<1> QED BY <1>1, EngineCorrect, PTL

\* transitionRunWithDeliveries lets no chain, event or recovery move a run that ended.
THEOREM RunsFinalCorrect == Spec => RunsFinal
<1>1. EngineInv /\ [Next]_vars
        => [\A r \in Runs : runs[r].status \in Terminal => runs'[r].status = runs[r].status]_vars
  BY EngineSteps DEF Final
<1> QED BY <1>1, EngineCorrect, PTL DEF Spec, RunsFinal
=============================================================================
