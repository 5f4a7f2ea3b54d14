--------------------------- MODULE AgentTeams_proof ---------------------------
(***************************************************************************)
(* What the slots of a team promise, for any tasks, members, sub-agents,   *)
(* limits and deaths of the process: no semaphore admits more than it has  *)
(* slots for, a member works at one task at a time, and a task that began  *)
(* or ended neither begins again nor changes its outcome.                  *)
(***************************************************************************)
EXTENDS AgentTeams, NumberLemmas, SequenceTheorems

-----------------------------------------------------------------------------
(* A semaphore admits no more than its limit, lets nobody wait while a slot   *)
(* is free, and has nobody twice.                                             *)
Agents == Tasks \cup Workers
Semaphore == [held : SUBSET Agents, line : Seq(Agents)]

Fair(s, sem) ==
  /\ IsFiniteSet(sem.held) /\ Cardinality(sem.held) <= Limit[s]
  /\ sem.line # <<>> => Cardinality(sem.held) = Limit[s]
  /\ IsInjective(sem.line) /\ ToSet(sem.line) \cap sem.held = {}

AllFair(all) == /\ all \in [Semaphores -> Semaphore]
                /\ \A s \in Semaphores : Fair(s, all[s])
SlotsOK == AllFair(slots)

(* What a task holds and waits for is what its execution says, and it is      *)
(* nowhere else: it waits where it asks, holds what it was granted before,    *)
(* and at work it holds all that it will give back.                           *)
InLine(x, s) == x \in ToSet(slots[s].line)
Holds(x, s)  == x \in slots[s].held

PCs == {"none", "waiting", "preparing", "work", "ended", "closing", "leaving"}
TaskRecords == [state : {"none", "queued"} \cup Unsafe \cup Finals,
                member : Members \cup {Main}, started : BOOLEAN]
RunRecords  == [pc : PCs, next : 1 .. 3, abort : {"none", "cancelled", "timeout"},
                end : {"none", "completed", "failed", "cancelled"}, seen : MemberState]

Within(t, s) ==
  \/ s = task[t].member
  \/ s = "team" /\ (run[t].pc = "waiting" => run[t].next >= 2)
  \/ s = "agents" /\ (run[t].pc = "waiting" => run[t].next = 3)
Placed(t) ==
  /\ \A s \in Semaphores :
       /\ InLine(t, s) => run[t].pc = "waiting" /\ run[t].abort = "none" /\ s = Asking(t)
       /\ Holds(t, s) => run[t].pc # "none" /\ Within(t, s)
  /\ run[t].pc = "waiting" => /\ run[t].next >= 2 => Holds(t, task[t].member)
                              /\ run[t].next = 3 => Holds(t, "team")
  /\ t \in AtWork => Holds(t, task[t].member) /\ Holds(t, "team")

TaskOK(t) ==
  /\ task[t].state = "none" => run[t].pc = "none"
  /\ task[t].state # "none" => task[t].member \in Members
  /\ task[t].state = "queued" => ~task[t].started
  /\ run[t].pc = "waiting" => ~task[t].started
  /\ run[t].pc = "waiting" /\ task[t].state \in Finals => run[t].abort # "none"
  /\ run[t].pc = "ended" => run[t].end # "none"
  /\ Placed(t)

WorkerStates == {"none", "queued", "running", "idle", "failed", "cancelled",
                 "timed_out", "closed"}
WorkerRecords == [state : WorkerStates, pc : {"none", "waiting", "work", "late"},
                  owner : Members \cup {Main}, timedOut : BOOLEAN]
WorkerOK(w) ==
  /\ worker[w].pc = "waiting" <=> worker[w].state = "queued"
  /\ worker[w].pc = "work" <=> worker[w].state = "running"
  /\ worker[w].pc = "late" => worker[w].state = "cancelled"
  /\ \A s \in Semaphores :
       /\ InLine(w, s) => s = "agents" /\ worker[w].pc = "waiting"
       /\ Holds(w, s) => s = "agents" /\ worker[w].pc # "none"

(* A disabling finds the process at rest, and nothing moves before it cancels *)
(* its first task and with that all sub-agents of the member: it never meets  *)
(* one that was admitted and has not heard of it.                             *)
DisablingOK ==
  /\ disabling.todo \in Seq(Tasks)
  /\ \A i \in DOMAIN disabling.todo : /\ task[disabling.todo[i]].member = disabling.of
                                      /\ task[disabling.todo[i]].state # "none"
  /\ disabling # NoCall =>
       \/ Orphans(disabling.of) = {}
       \/ Still /\ \A i \in DOMAIN disabling.todo : task[disabling.todo[i]].state \notin Finals

DownOK == ~up => /\ run = [t \in Tasks |-> NoRun] /\ worker = [w \in Workers |-> NoWorker]
                 /\ slots = NoSlots /\ disabling = NoCall

RecordsOK == /\ task \in [Tasks -> TaskRecords] /\ run \in [Tasks -> RunRecords]
             /\ worker \in [Workers -> WorkerRecords] /\ member \in [Members -> MemberState]
             /\ disabling \in [of : Members \cup {Main}, todo : Seq(Tasks), seen : MemberState]
             /\ up \in BOOLEAN

TeamInv == /\ RecordsOK /\ SlotsOK /\ DisablingOK /\ DownOK
           /\ \A t \in Tasks : TaskOK(t)
           /\ \A w \in Workers : WorkerOK(w)

-----------------------------------------------------------------------------
(* Numbers in order: each once.                                               *)
LEMMA Ordered ==
    ASSUME NEW n \in Nat, NEW S \in SUBSET (1 .. n)
    PROVE  /\ InOrder(S) \in Seq(S)
           /\ \A i, j \in DOMAIN InOrder(S) : InOrder(S)[i] = InOrder(S)[j] => i = j
<1> DEFINE c == Cardinality(S)
           At(k) == CHOOSE x \in S : Cardinality({y \in S : y <= x}) = k
<1>1. IsFiniteSet(S) /\ c \in Nat
  <2>1. IsFiniteSet(1 .. n)
    BY FS_Interval
  <2> QED BY <2>1, FS_Subset, FS_CardinalityType
<1>2. ASSUME NEW k \in 1 .. c
      PROVE  At(k) \in S /\ Cardinality({y \in S : y <= At(k)}) = k
  <2>1. \E x \in S : Cardinality({y \in S : y <= x}) = k
    BY RankExists
  <2> QED BY <2>1
<1>3. InOrder(S) = [k \in 1 .. c |-> At(k)]
  BY DEF InOrder
<1> HIDE DEF c, At
<1>4. InOrder(S) \in [1 .. c -> S]
  BY <1>2, <1>3
<1>5. \A i, j \in 1 .. c : At(i) = At(j) => i = j
  BY <1>2
<1> QED BY <1>1, <1>3, <1>4, <1>5

(* A line without some of those who waited keeps the others, each as often as *)
(* before.                                                                    *)
LEMMA WithoutThem ==
    ASSUME NEW A, NEW line \in Seq(A), IsInjective(line), NEW X
    PROVE  /\ Without(line, X) \in Seq(A) /\ IsInjective(Without(line, X))
           /\ ToSet(Without(line, X)) \subseteq ToSet(line) \ X
           /\ Without(line, X) # <<>> => line # <<>>
<1> DEFINE S == {i \in DOMAIN line : line[i] \notin X}
           kept == InOrder(S)
           r == Without(line, X)
<1>1. Len(line) \in Nat /\ DOMAIN line = 1 .. Len(line) /\ \A i \in DOMAIN line : line[i] \in A
  OBVIOUS
<1>2. S \in SUBSET (1 .. Len(line))
  BY <1>1
<1>3. r = [k \in DOMAIN kept |-> line[kept[k]]]
  BY DEF Without
<1>4. \A x \in S : x \in DOMAIN line /\ line[x] \notin X
  OBVIOUS
<1> HIDE DEF S
<1>5. /\ kept \in Seq(S)
      /\ \A i, j \in DOMAIN kept : kept[i] = kept[j] => i = j
  BY <1>1, <1>2, Ordered
<1> HIDE DEF kept, r
<1>6. DOMAIN kept = 1 .. Len(kept) /\ Len(kept) \in Nat /\ \A i \in DOMAIN kept : kept[i] \in S
  BY <1>5
<1>7. \A k \in 1 .. Len(kept) : line[kept[k]] \in A
  BY <1>1, <1>4, <1>6
<1>8. r \in [1 .. Len(kept) -> A]
  BY <1>3, <1>6, <1>7
<1>9. r \in Seq(A)
  BY <1>6, <1>8
<1>10. IsInjective(r)
  BY <1>3, <1>4, <1>5, <1>6 DEF IsInjective
<1>11. ToSet(r) \subseteq ToSet(line) \ X
  BY <1>3, <1>4, <1>6 DEF ToSet
<1>12. r # <<>> => line # <<>>
  <2>1. SUFFICES ASSUME r # <<>> PROVE line # <<>>
    OBVIOUS
  <2>2. 1 \in DOMAIN r
    BY <1>9, <2>1
  <2>3. kept[1] \in DOMAIN line
    BY <1>3, <1>4, <1>6, <2>2
  <2> QED BY <2>3
<1> QED BY <1>9, <1>10, <1>11, <1>12 DEF r

(* A set with n elements that come from a line has n elements more than what  *)
(* it is added to.                                                            *)
LEMMA FirstCounted ==
    ASSUME NEW A, NEW q \in Seq(A), IsInjective(q), NEW n \in 0 .. Len(q)
    PROVE  /\ IsFiniteSet(ToSet(SubSeq(q, 1, n)))
           /\ Cardinality(ToSet(SubSeq(q, 1, n))) = n
<1> DEFINE p == SubSeq(q, 1, n)
           T == ToSet(p)
           f == [i \in 1 .. n |-> p[i]]
<1>1. /\ p \in Seq(A) /\ Len(p) = n /\ DOMAIN p = 1 .. n
      /\ \A i \in 1 .. n : p[i] = q[i] /\ i \in DOMAIN q
  OBVIOUS
<1> HIDE DEF p
<1>2. f \in [1 .. n -> T] /\ \A y \in T : \E i \in 1 .. n : f[i] = y
  BY <1>1 DEF ToSet
<1>3. \A i, j \in 1 .. n : f[i] = f[j] => i = j
  BY <1>1 DEF IsInjective
<1> HIDE DEF f, T
<1>4. f \in Surjection(1 .. n, T) /\ f \in Injection(1 .. n, T)
  BY <1>2, <1>3 DEF Surjection, Injection, IsInjective
<1>5. IsFiniteSet(1 .. n) /\ Cardinality(1 .. n) = n
  BY FS_Interval
<1> QED BY <1>4, <1>5, FS_Surjection DEF T, p
LEMMA Limits == ASSUME NEW s \in Semaphores PROVE Limit[s] \in Nat \ {0}
BY TeamAssumption DEF Limit, Semaphores

(* Whoever is admitted was first in line, and nobody is told to wait while a  *)
(* slot is free.                                                              *)
Tidy(s, sem) ==
  /\ sem \in Semaphore
  /\ IsFiniteSet(sem.held) /\ Cardinality(sem.held) <= Limit[s]
  /\ IsInjective(sem.line) /\ ToSet(sem.line) \cap sem.held = {}
Admitted(sem, d) ==
  /\ sem.held \subseteq d.held /\ d.held \subseteq sem.held \cup ToSet(sem.line)
  /\ ToSet(d.line) \subseteq ToSet(sem.line)

LEMMA DrainedFair ==
    ASSUME NEW s \in Semaphores, NEW sem, Tidy(s, sem)
    PROVE  /\ Drained(s, sem) \in Semaphore /\ Fair(s, Drained(s, sem))
           /\ Admitted(sem, Drained(s, sem))
<1> DEFINE q == sem.line
           h == sem.held
           c == Cardinality(h)
           l == Len(q)
           n == IF Limit[s] - c < l THEN Limit[s] - c ELSE l
           F == ToSet(SubSeq(q, 1, n))
           r == SubSeq(q, n + 1, l)
           d == Drained(s, sem)
<1>1. h \in SUBSET Agents /\ q \in Seq(Agents) /\ IsFiniteSet(h) /\ c <= Limit[s]
      /\ IsInjective(q) /\ ToSet(q) \cap h = {}
  BY DEF Tidy, Semaphore
<1>2. d = [held |-> h \cup F, line |-> r]
  BY DEF Drained
<1>3. c \in Nat /\ l \in Nat /\ Limit[s] \in Nat
  BY <1>1, FS_CardinalityType, Limits
<1>4. n \in 0 .. l /\ c + n <= Limit[s] /\ (n < l => c + n = Limit[s])
  BY <1>1, <1>3
<1> HIDE DEF c, l, n, d, q, h
<1>5. /\ SubSeq(q, 1, n) \in Seq(Agents) /\ Len(SubSeq(q, 1, n)) = n
      /\ \A i \in 1 .. n : SubSeq(q, 1, n)[i] = q[i] /\ i \in DOMAIN q
  BY <1>1, <1>4 DEF l
<1>6. /\ r \in Seq(Agents) /\ Len(r) = l - n
      /\ \A i \in 1 .. l - n : r[i] = q[n + i] /\ n + i \in DOMAIN q
  BY <1>1, <1>4 DEF l
<1>7. IsFiniteSet(F) /\ Cardinality(F) = n
  BY <1>1, <1>4, FirstCounted DEF l
<1>8. DOMAIN SubSeq(q, 1, n) = 1 .. n /\ DOMAIN r = 1 .. l - n
  BY <1>4, <1>5, <1>6
<1>9. F \subseteq ToSet(q) /\ ToSet(r) \subseteq ToSet(q)
  BY <1>5, <1>6, <1>8 DEF ToSet
<1>10. F \cap h = {} /\ ToSet(r) \cap h = {}
  BY <1>1, <1>9
<1>11. ToSet(r) \cap F = {}
  <2>1. SUFFICES ASSUME NEW x \in ToSet(r), x \in F PROVE FALSE
    OBVIOUS
  <2>2. PICK i \in 1 .. l - n : x = q[n + i] /\ n + i \in DOMAIN q
    BY <1>6, <1>8, <2>1 DEF ToSet
  <2>3. PICK j \in 1 .. n : x = q[j] /\ j \in DOMAIN q
    BY <1>5, <1>8, <2>1 DEF ToSet
  <2>4. n + i = j
    BY <1>1, <2>2, <2>3 DEF IsInjective
  <2> QED BY <1>3, <1>4, <2>4
<1>12. IsInjective(r)
  <2>1. SUFFICES ASSUME NEW i \in 1 .. l - n, NEW j \in 1 .. l - n, r[i] = r[j] PROVE i = j
    BY <1>8 DEF IsInjective
  <2>2. n + i = n + j
    BY <1>1, <1>6, <2>1 DEF IsInjective
  <2> QED BY <1>3, <1>4, <2>2
<1>13. F \subseteq Agents
  BY <1>5, <1>8 DEF ToSet
<1> HIDE DEF F, r
<1>14. IsFiniteSet(h \cup F) /\ Cardinality(h \cup F) = c + n
  <2>1. Cardinality(h \cap F) = 0 /\ h \cap F = {}
    BY <1>10, FS_EmptySet
  <2>2. /\ IsFiniteSet(h \cup F)
        /\ Cardinality(h \cup F) = Cardinality(h) + Cardinality(F) - Cardinality(h \cap F)
    BY <1>1, <1>7, FS_Union
  <2> QED BY <1>3, <1>4, <1>7, <2>1, <2>2 DEF c
<1>15. r # <<>> => c + n = Limit[s]
  <2>1. r = <<>> \/ l - n > 0
    BY <1>3, <1>4, <1>6
  <2> QED BY <1>3, <1>4, <2>1
<1>16. d.held = h \cup F /\ d.line = r
  BY <1>2
<1>17. d \in Semaphore
  <2>1. h \cup F \in SUBSET Agents
    BY <1>1, <1>13
  <2> QED BY <1>2, <1>6, <2>1 DEF Semaphore
<1>18. Fair(s, d)
  BY <1>3, <1>4, <1>10, <1>11, <1>12, <1>14, <1>15, <1>16 DEF Fair
<1>19. Admitted(sem, d)
  BY <1>9, <1>16 DEF Admitted, q, h
<1> QED BY <1>17, <1>18, <1>19 DEF d
-----------------------------------------------------------------------------
(* What asking, giving back and withdrawing do to the semaphores.             *)
AskedFor(all, new, s0, x) ==
  \A s \in Semaphores :
    /\ all[s].held \subseteq new[s].held
    /\ \A y \in new[s].held :
         y \in all[s].held \/ y \in ToSet(all[s].line) \/ (y = x /\ s = s0)
    /\ \A y \in ToSet(new[s].line) : y \in ToSet(all[s].line) \/ (y = x /\ s = s0)

LEMMA AskedFair ==
    ASSUME NEW all, AllFair(all), NEW s0 \in Semaphores, NEW x \in Agents,
           x \notin all[s0].held, x \notin ToSet(all[s0].line)
    PROVE  AllFair(Asked(all, s0, x)) /\ AskedFor(all, Asked(all, s0, x), s0, x)
<1> DEFINE q == all[s0].line
           sem == [held |-> all[s0].held, line |-> Append(q, x)]
           new == Asked(all, s0, x)
<1>1. all \in [Semaphores -> Semaphore] /\ Fair(s0, all[s0]) /\ all[s0] \in Semaphore
  BY DEF AllFair
<1>2. new = [all EXCEPT ![s0] = Drained(s0, sem)]
  BY DEF Asked
<1>3. sem = [held |-> all[s0].held, line |-> Append(q, x)] /\ q \in Seq(Agents)
  BY <1>1 DEF Semaphore
<1>4. ToSet(Append(q, x)) = ToSet(q) \cup {x} /\ IsInjective(Append(q, x))
  <2>1. /\ DOMAIN q = 1 .. Len(q) /\ Len(q) \in Nat
        /\ DOMAIN Append(q, x) = 1 .. Len(q) + 1
        /\ \A i \in 1 .. Len(q) : Append(q, x)[i] = q[i]
        /\ Append(q, x)[Len(q) + 1] = x
    BY <1>3
  <2>2. \A i \in 1 .. Len(q) : q[i] \in ToSet(q) /\ q[i] # x
    BY <2>1 DEF ToSet
  <2>3. IsInjective(q)
    BY <1>1 DEF Fair
  <2>4. ToSet(Append(q, x)) \subseteq ToSet(q) \cup {x}
    BY <2>1 DEF ToSet
  <2>5. ToSet(q) \cup {x} \subseteq ToSet(Append(q, x))
    BY <2>1 DEF ToSet
  <2>6. IsInjective(Append(q, x))
    <3>1. SUFFICES ASSUME NEW i \in 1 .. Len(q) + 1, NEW j \in 1 .. Len(q) + 1,
                          Append(q, x)[i] = Append(q, x)[j]
                   PROVE  i = j
      BY <2>1 DEF IsInjective
    <3>2. CASE i \in 1 .. Len(q) /\ j \in 1 .. Len(q)
      BY <2>1, <2>3, <3>1, <3>2 DEF IsInjective
    <3>3. CASE i = Len(q) + 1 \/ j = Len(q) + 1
      BY <2>1, <2>2, <3>1, <3>3
    <3> QED BY <2>1, <3>2, <3>3
  <2> QED BY <2>4, <2>5, <2>6
<1>5. Tidy(s0, sem)
  <2>1. Append(q, x) \in Seq(Agents)
    BY <1>3
  <2>2. ToSet(q) \cap all[s0].held = {} /\ IsFiniteSet(all[s0].held)
        /\ Cardinality(all[s0].held) <= Limit[s0]
    BY <1>1 DEF Fair
  <2>3. sem \in Semaphore
    BY <1>1, <1>3, <2>1 DEF Semaphore
  <2> QED BY <1>3, <1>4, <2>2, <2>3 DEF Tidy
<1> DEFINE d == Drained(s0, sem)
<1>6. d \in Semaphore /\ Fair(s0, d) /\ Admitted(sem, d)
  BY <1>5, DrainedFair
<1>7. sem.held = all[s0].held /\ ToSet(sem.line) = ToSet(q) \cup {x}
  BY <1>3, <1>4
<1> HIDE DEF d, new, sem
<1>8. new[s0] = d /\ (\A s \in Semaphores : s # s0 => new[s] = all[s])
      /\ new \in [Semaphores -> Semaphore]
  BY <1>1, <1>2, <1>6 DEF d
<1>9. AllFair(new)
  BY <1>6, <1>8 DEF AllFair
<1>10. AskedFor(all, new, s0, x)
  BY <1>6, <1>7, <1>8 DEF AskedFor, Admitted
<1> QED BY <1>9, <1>10 DEF new

ReleasedBy(all, new, S, x) ==
  \A s \in Semaphores :
    /\ s \notin S => new[s] = all[s]
    /\ \A y \in all[s].held : y # x => y \in new[s].held
    /\ \A y \in new[s].held :
         (y \in all[s].held /\ (y # x \/ s \notin S)) \/ y \in ToSet(all[s].line)
    /\ ToSet(new[s].line) \subseteq ToSet(all[s].line)

LEMMA ReleasedFair ==
    ASSUME NEW all, AllFair(all), NEW S, NEW x
    PROVE  AllFair(Released(all, S, x)) /\ ReleasedBy(all, Released(all, S, x), S, x)
<1> DEFINE new == Released(all, S, x)
<1>1. all \in [Semaphores -> Semaphore]
  BY DEF AllFair
<1>2. ASSUME NEW s \in Semaphores
      PROVE  /\ new[s] \in Semaphore /\ Fair(s, new[s])
             /\ s \notin S => new[s] = all[s]
             /\ \A y \in all[s].held : y # x => y \in new[s].held
             /\ \A y \in new[s].held :
                  (y \in all[s].held /\ (y # x \/ s \notin S)) \/ y \in ToSet(all[s].line)
             /\ ToSet(new[s].line) \subseteq ToSet(all[s].line)
  <2> DEFINE sem == [held |-> all[s].held \ {x}, line |-> all[s].line]
  <2>1. all[s] \in Semaphore /\ Fair(s, all[s])
    BY DEF AllFair
  <2>2. new[s] = IF s \in S /\ x \in all[s].held THEN Drained(s, sem) ELSE all[s]
    BY DEF Released
  <2>3. sem = [held |-> all[s].held \ {x}, line |-> all[s].line]
    BY <2>1 DEF Semaphore
  <2>4. Tidy(s, sem)
    <3>1. /\ IsFiniteSet(all[s].held \ {x})
          /\ Cardinality(all[s].held \ {x}) = IF x \in all[s].held
                                              THEN Cardinality(all[s].held) - 1
                                              ELSE Cardinality(all[s].held)
          /\ Cardinality(all[s].held) \in Nat
      BY <2>1, FS_RemoveElement, FS_CardinalityType DEF Fair
    <3>2. Cardinality(all[s].held \ {x}) <= Limit[s]
      BY <2>1, <3>1, Limits DEF Fair
    <3>3. sem \in Semaphore
      BY <2>1, <2>3 DEF Semaphore
    <3> QED BY <2>1, <2>3, <3>1, <3>2, <3>3 DEF Tidy, Fair
  <2>5. Drained(s, sem) \in Semaphore /\ Fair(s, Drained(s, sem)) /\ Admitted(sem, Drained(s, sem))
    BY <2>4, DrainedFair
  <2>6. sem.held = all[s].held \ {x} /\ sem.line = all[s].line
    BY <2>3
  <2>7. CASE s \in S /\ x \in all[s].held
    <3> DEFINE d == Drained(s, sem)
    <3>1. new[s] = d /\ d \in Semaphore /\ Fair(s, d) /\ Admitted(sem, d)
      BY <2>2, <2>5, <2>7
    <3> HIDE DEF d, sem, new
    <3> QED BY <2>6, <2>7, <3>1 DEF Admitted
  <2>8. CASE ~(s \in S /\ x \in all[s].held)
    <3>1. new[s] = all[s]
      BY <2>2, <2>8
    <3> HIDE DEF new
    <3> QED BY <2>1, <2>8, <3>1
  <2> QED BY <2>7, <2>8
<1>3. new \in [Semaphores -> Semaphore]
  BY <1>2 DEF Released
<1> HIDE DEF new
<1>4. AllFair(new) /\ ReleasedBy(all, new, S, x)
  BY <1>2, <1>3 DEF AllFair, ReleasedBy
<1> QED BY <1>4 DEF new

WithdrawnFrom(all, new, X) ==
  \A s \in Semaphores :
    /\ new[s].held = all[s].held
    /\ ToSet(new[s].line) \subseteq ToSet(all[s].line) \ X

LEMMA WithdrawnFair ==
    ASSUME NEW all, AllFair(all), NEW X
    PROVE  AllFair(Withdrawn(all, X)) /\ WithdrawnFrom(all, Withdrawn(all, X), X)
<1> DEFINE new == Withdrawn(all, X)
<1>2. ASSUME NEW s \in Semaphores
      PROVE  /\ new[s] \in Semaphore /\ Fair(s, new[s])
             /\ new[s].held = all[s].held
             /\ ToSet(new[s].line) \subseteq ToSet(all[s].line) \ X
  <2> DEFINE w == Without(all[s].line, X)
  <2>1. all[s] \in Semaphore /\ Fair(s, all[s]) /\ all[s].line \in Seq(Agents)
    BY DEF AllFair, Semaphore
  <2>2. /\ w \in Seq(Agents) /\ IsInjective(w) /\ ToSet(w) \subseteq ToSet(all[s].line) \ X
        /\ w # <<>> => all[s].line # <<>>
    BY <2>1, WithoutThem DEF Fair
  <2>3. new[s] = [held |-> all[s].held, line |-> w]
    BY <2>1 DEF Withdrawn, Semaphore
  <2> HIDE DEF w, new
  <2>4. new[s] \in Semaphore
    BY <2>1, <2>2, <2>3 DEF Semaphore
  <2>5. Fair(s, new[s])
    BY <2>1, <2>2, <2>3 DEF Fair
  <2> QED BY <2>2, <2>3, <2>4, <2>5
<1>3. new \in [Semaphores -> Semaphore]
  BY <1>2 DEF Withdrawn
<1> HIDE DEF new
<1>4. AllFair(new) /\ WithdrawnFrom(all, new, X)
  BY <1>2, <1>3 DEF AllFair, WithdrawnFrom
<1> QED BY <1>4 DEF new
-----------------------------------------------------------------------------
(* What a step that concerns others leaves as it is.                          *)
Undisturbed(x, new) ==
  \A s \in Semaphores :
    /\ x \in ToSet(new[s].line) => x \in ToSet(slots[s].line)
    /\ x \in new[s].held => x \in slots[s].held \/ x \in ToSet(slots[s].line)
    /\ x \in slots[s].held => x \in new[s].held

LEMMA OthersUndisturbed ==
    ASSUME NEW new, NEW x
    PROVE  /\ \A s \in Semaphores : AskedFor(slots, new, s, x) =>
                \A y : y # x => Undisturbed(y, new)
           /\ \A S : ReleasedBy(slots, new, S, x) => \A y : y # x => Undisturbed(y, new)
           /\ \A X : WithdrawnFrom(slots, new, X) => \A y : Undisturbed(y, new)
           /\ new = slots => \A y : Undisturbed(y, new)
BY DEF AskedFor, ReleasedBy, WithdrawnFrom, Undisturbed

LEMMA AskingIs ==
    ASSUME NEW t \in Tasks
    PROVE  /\ run[t].next = 1 => Asking(t) = task[t].member
           /\ run[t].next = 2 => Asking(t) = "team"
           /\ run[t].next = 3 => Asking(t) = "agents"
BY DEF Asking, Path

LEMMA AsksWithin ==
    ASSUME TeamInv, NEW t \in Tasks, run[t].pc = "waiting"
    PROVE  Within(t, Asking(t)) /\ Asking(t) \in Semaphores
<1>1. run[t].next \in 1 .. 3
  BY DEF TeamInv, RecordsOK, RunRecords
<1>2. task[t].member \in Members
  BY DEF TeamInv, TaskOK
<1>3. run[t].next = 1 \/ run[t].next = 2 \/ run[t].next = 3
  BY <1>1
<1>4. CASE run[t].next = 1
  BY <1>2, <1>4, AskingIs DEF Within, Semaphores
<1>5. CASE run[t].next = 2
  BY <1>5, AskingIs DEF Within, Semaphores
<1>6. CASE run[t].next = 3
  BY <1>6, AskingIs DEF Within, Semaphores
<1> QED BY <1>3, <1>4, <1>5, <1>6

LEMMA TaskStays ==
    ASSUME TeamInv, NEW t \in Tasks, task'[t] = task[t], run'[t] = run[t],
           Undisturbed(t, slots')
    PROVE  TaskOK(t)'
<1>1. TaskOK(t) /\ Placed(t)
  BY DEF TeamInv, TaskOK
<1>2. (Asking(t) = Asking(t)') /\ (t \in AtWork <=> (t \in AtWork)')
      /\ \A s : Within(t, s) <=> Within(t, s)'
  BY DEF Asking, Path, AtWork, Within
<1>3. ASSUME NEW s \in Semaphores
      PROVE  /\ InLine(t, s)' => run'[t].pc = "waiting" /\ run'[t].abort = "none" /\ s = Asking(t)'
             /\ Holds(t, s)' => run'[t].pc # "none" /\ Within(t, s)'
  <2>1. InLine(t, s)' => InLine(t, s)
    BY DEF Undisturbed, InLine
  <2>2. Holds(t, s)' => Holds(t, s) \/ InLine(t, s)
    BY DEF Undisturbed, InLine, Holds
  <2>3. InLine(t, s) => run[t].pc = "waiting" /\ run[t].abort = "none" /\ s = Asking(t)
    BY <1>1 DEF Placed
  <2>4. Holds(t, s) => run[t].pc # "none" /\ Within(t, s)
    BY <1>1 DEF Placed
  <2>5. InLine(t, s) => run[t].pc # "none" /\ Within(t, s)
    BY <2>3, AsksWithin
  <2> QED BY <1>2, <2>1, <2>2, <2>3, <2>4, <2>5
<1>4. \A s \in Semaphores : Holds(t, s) => Holds(t, s)'
  BY DEF Undisturbed, Holds
<1>5. task[t].state # "none" => task[t].member \in Semaphores
  BY <1>1 DEF TaskOK, Semaphores
<1>6. "team" \in Semaphores
  BY DEF Semaphores
<1>7. run[t].pc # "none" => task[t].member \in Semaphores
  BY <1>1, <1>5 DEF TaskOK
<1>8. /\ run'[t].pc = "waiting" => /\ run'[t].next >= 2 => Holds(t, task[t].member)'
                                   /\ run'[t].next = 3 => Holds(t, "team")'
      /\ (t \in AtWork)' => Holds(t, task[t].member)' /\ Holds(t, "team")'
  <2>1. t \in AtWork => run[t].pc # "none"
    BY DEF AtWork
  <2> QED BY <1>1, <1>2, <1>4, <1>6, <1>7, <2>1 DEF Placed
<1>9. Placed(t)'
  BY <1>3, <1>8 DEF Placed
<1> QED BY <1>1, <1>9 DEF TaskOK

LEMMA WorkerStays ==
    ASSUME TeamInv, NEW w \in Workers, worker'[w] = worker[w], Undisturbed(w, slots')
    PROVE  WorkerOK(w)'
<1>1. WorkerOK(w)
  BY DEF TeamInv
<1>2. ASSUME NEW s \in Semaphores
      PROVE  /\ InLine(w, s)' => s = "agents" /\ worker'[w].pc = "waiting"
             /\ Holds(w, s)' => s = "agents" /\ worker'[w].pc # "none"
  <2>1. InLine(w, s)' => InLine(w, s)
    BY DEF Undisturbed, InLine
  <2>2. Holds(w, s)' => Holds(w, s) \/ InLine(w, s)
    BY DEF Undisturbed, InLine, Holds
  <2> QED BY <1>1, <2>1, <2>2 DEF WorkerOK
<1> QED BY <1>1, <1>2 DEF WorkerOK

(* No call that disables a member is under way, or it has cancelled all the   *)
(* sub-agents of the member.                                                  *)
LEMMA QuietFrame ==
    ASSUME TeamInv, Quiet, UNCHANGED <<up, disabling>>
    PROVE  DisablingOK' /\ DownOK'
BY DEF Quiet, DisablingOK, DownOK, NoCall

LEMMA ChainFrame ==
    ASSUME TeamInv, up, ~Still, UNCHANGED <<up, disabling>>,
           \A t \in Tasks : /\ task'[t].member = task[t].member
                            /\ task[t].state # "none" => task'[t].state # "none",
           \A w \in Workers : /\ worker'[w].owner = worker[w].owner
                              /\ Cancellable(w)' => Cancellable(w)
    PROVE  DisablingOK' /\ DownOK'
<1>1. disabling # NoCall => Orphans(disabling.of) = {}
  BY DEF TeamInv, DisablingOK
<1>2. disabling # NoCall => Orphans(disabling.of)' = {}
  BY <1>1 DEF Orphans
<1>3. disabling.todo \in Seq(Tasks)
      /\ \A i \in DOMAIN disabling.todo : /\ task[disabling.todo[i]].member = disabling.of
                                          /\ task[disabling.todo[i]].state # "none"
  BY DEF TeamInv, DisablingOK
<1>4. \A i \in DOMAIN disabling.todo : disabling.todo[i] \in Tasks
  BY <1>3
<1> QED BY <1>2, <1>3, <1>4 DEF DisablingOK, DownOK

(* An execution is under way only while the process is up.                    *)
LEMMA MovesWhenUp ==
    ASSUME TeamInv
    PROVE  /\ \A t \in Tasks : run[t].pc # "none" => up
           /\ \A w \in Workers : worker[w].pc # "none" => up
           /\ disabling # NoCall => up
BY DEF TeamInv, DownOK, NoRun, NoWorker, Run, Worker

(* A step of one task.                                                        *)
LEMMA TaskMoves ==
    ASSUME TeamInv, NEW t \in Tasks, UNCHANGED worker,
           \A u \in Tasks : u # t => task'[u] = task[u] /\ run'[u] = run[u],
           \A y : y # t => Undisturbed(y, slots'), TaskOK(t)'
    PROVE  (\A u \in Tasks : TaskOK(u)') /\ (\A w \in Workers : WorkerOK(w)')
<1>1. ASSUME NEW u \in Tasks PROVE TaskOK(u)'
  BY TaskStays
<1>2. ASSUME NEW w \in Workers PROVE WorkerOK(w)'
  <2>1. w # t
    BY TeamAssumption
  <2> QED BY <2>1, WorkerStays
<1> QED BY <1>1, <1>2

LEMMA WorkerMoves ==
    ASSUME TeamInv, NEW w \in Workers, UNCHANGED <<task, run>>,
           \A v \in Workers : v # w => worker'[v] = worker[v],
           \A y : y # w => Undisturbed(y, slots'), WorkerOK(w)'
    PROVE  (\A u \in Tasks : TaskOK(u)') /\ (\A v \in Workers : WorkerOK(v)')
<1>1. ASSUME NEW v \in Workers PROVE WorkerOK(v)'
  BY WorkerStays
<1>2. ASSUME NEW u \in Tasks PROVE TaskOK(u)'
  <2>1. w # u
    BY TeamAssumption
  <2> QED BY <2>1, TaskStays
<1> QED BY <1>1, <1>2
-----------------------------------------------------------------------------
(* The steps of a task.                                                       *)
LEMMA DelegateStep ==
    ASSUME TeamInv, NEW t \in Tasks, NEW m \in Members, Delegate(t, m)
    PROVE  TeamInv'
<1> DEFINE r == [pc |-> "waiting", next |-> 1, abort |-> "none", end |-> "none",
                 seen |-> "queued"]
           k == [state |-> "queued", member |-> m, started |-> FALSE]
<1>1. /\ Quiet /\ task[t].state = "none" /\ slots' = Asked(slots, m, t)
      /\ task' = [task EXCEPT ![t] = k] /\ member' = [member EXCEPT ![m] = "queued"]
      /\ run' = [run EXCEPT ![t] = r]
      /\ UNCHANGED <<worker, disabling, up>>
  BY DEF Delegate, Run
<1>2. r \in RunRecords /\ k \in TaskRecords
  BY DEF RunRecords, TaskRecords, PCs, MemberState
<1>3. task'[t] = k /\ run'[t] = r
      /\ \A u \in Tasks : u # t => task'[u] = task[u] /\ run'[u] = run[u]
  BY <1>1 DEF TeamInv, RecordsOK
<1>4. RecordsOK'
  BY <1>1, <1>2 DEF TeamInv, RecordsOK, MemberState
<1>5. run[t].pc = "none" /\ m \in Semaphores /\ t \in Agents
  BY <1>1 DEF TeamInv, TaskOK, Semaphores, Agents
<1>6. \A s \in Semaphores : t \notin slots[s].held /\ t \notin ToSet(slots[s].line)
  BY <1>5 DEF TeamInv, TaskOK, Placed, InLine, Holds
<1>7. AllFair(slots') /\ AskedFor(slots, slots', m, t)
  BY <1>1, <1>5, <1>6, AskedFair DEF TeamInv, SlotsOK
<1>8. Asking(t)' = m
  BY <1>3 DEF Asking, Path
<1>9. TaskOK(t)'
  <2>1. \A s \in Semaphores : (InLine(t, s)' => s = m) /\ (Holds(t, s)' => s = m)
    BY <1>6, <1>7 DEF AskedFor, InLine, Holds
  <2>2. ~(t \in AtWork)'
    BY <1>3 DEF AtWork
  <2>3. Within(t, m)'
    BY <1>3 DEF Within
  <2>4. Placed(t)'
    BY <1>3, <1>8, <2>1, <2>2, <2>3 DEF Placed
  <2> QED BY <1>3, <2>4 DEF TaskOK, Finals
<1>10. \A y : y # t => Undisturbed(y, slots')
  BY <1>5, <1>7, OthersUndisturbed
<1>11. (\A u \in Tasks : TaskOK(u)') /\ (\A w \in Workers : WorkerOK(w)')
  BY <1>1, <1>3, <1>9, <1>10, TaskMoves
<1>12. DisablingOK' /\ DownOK'
  BY <1>1, QuietFrame
<1> QED BY <1>4, <1>7, <1>11, <1>12 DEF TeamInv, SlotsOK

(* While an execution waits, its member is one of the team.                   *)
LEMMA MemberKnown ==
    ASSUME TeamInv, NEW t \in Tasks, run[t].pc # "none"
    PROVE  /\ task[t].member \in Members /\ task[t].member \in Semaphores
           /\ task[t].member \notin {"team", "agents"}
           /\ {"team", "agents"} \subseteq Semaphores
BY TeamAssumption DEF TeamInv, TaskOK, Semaphores

LEMMA AskStep ==
    ASSUME TeamInv, NEW t \in Tasks, Ask(t)
    PROVE  TeamInv'
<1>a. run \in [Tasks -> RunRecords] /\ run[t].next < 3
  BY DEF TeamInv, RecordsOK, Ask
<1>b. run[t].next \in 1 .. 3
  BY <1>a DEF RunRecords
<1>0. PICK n \in {1, 2} : n = run[t].next
  BY <1>a, <1>b
<1>c. PICK s0 : s0 = Path(t)[n + 1]
  OBVIOUS
<1>d. PICK m : m = task[t].member
  OBVIOUS
<1>1. /\ run[t].pc = "waiting" /\ Granted(t) /\ run[t].abort = "none"
      /\ run' = [run EXCEPT ![t].next = n + 1] /\ slots' = Asked(slots, s0, t)
      /\ UNCHANGED <<task, member, worker, disabling, up>>
  BY <1>0, <1>c DEF Ask
<1>3. /\ run' \in [Tasks -> RunRecords] /\ run'[t].next = n + 1 /\ run'[t].pc = "waiting"
      /\ run'[t].abort = "none" /\ run'[t].end = run[t].end
      /\ \A u \in Tasks : u # t => run'[u] = run[u]
  BY <1>1, <1>a DEF RunRecords
<1>4. RecordsOK'
  BY <1>1, <1>3 DEF TeamInv, RecordsOK
<1>5. m \in Members /\ m \in Semaphores /\ m # "team" /\ m # "agents"
      /\ "team" \in Semaphores /\ "agents" \in Semaphores
  BY <1>1, <1>d, MemberKnown
<1>6. /\ n = 1 => s0 = "team" /\ Asking(t) = m
      /\ n = 2 => s0 = "agents" /\ Asking(t) = "team"
  BY <1>0, <1>c, <1>d DEF Path, Asking
<1>7. TaskOK(t) /\ Placed(t)
  BY DEF TeamInv, TaskOK
<1>e. Within(t, Asking(t)) /\ Asking(t) \in Semaphores
  BY <1>1, AsksWithin
<1>f. ~Within(t, s0) /\ s0 \in Semaphores
  BY <1>0, <1>1, <1>5, <1>6, <1>d DEF Within
<1>g. Asking(t)' = s0
  <2>1. Asking(t)' = Path(t)'[n + 1]
    BY <1>3 DEF Asking
  <2>2. Path(t)' = Path(t)
    BY <1>1 DEF Path
  <2> QED BY <1>c, <2>1, <2>2
<1>h. ASSUME NEW s, Within(t, s) \/ s = s0 PROVE Within(t, s)'
  <2>1. CASE n = 1
    BY <1>0, <1>1, <1>3, <1>6, <1>h, <2>1 DEF Within
  <2>2. CASE n = 2
    BY <1>0, <1>1, <1>3, <1>6, <1>h, <2>2 DEF Within
  <2> QED BY <2>1, <2>2
<1>10. \A s \in Semaphores : ~InLine(t, s)
  <2>1. ~InLine(t, Asking(t))
    BY <1>1, <1>e DEF Granted, InLine, TeamInv, SlotsOK, AllFair, Fair
  <2> QED BY <1>7, <2>1 DEF Placed
<1>11. ~Holds(t, s0)
  BY <1>7, <1>f DEF Placed
<1>12. AllFair(slots') /\ AskedFor(slots, slots', s0, t)
  <2>1. t \in Agents /\ t \notin slots[s0].held /\ t \notin ToSet(slots[s0].line)
    BY <1>f, <1>10, <1>11 DEF Agents, InLine, Holds
  <2>2. AllFair(slots)
    BY DEF TeamInv, SlotsOK
  <2> QED BY <1>1, <1>f, <2>1, <2>2, AskedFair
<1>13. TaskOK(t)'
  <2>1. \A s \in Semaphores : InLine(t, s)' => s = s0
    BY <1>10, <1>12 DEF AskedFor, InLine
  <2>2. ASSUME NEW s \in Semaphores, Holds(t, s)' PROVE Within(t, s)'
    <3>1. Holds(t, s) \/ s = s0
      BY <1>10, <1>12, <2>2 DEF AskedFor, InLine, Holds
    <3>2. Holds(t, s) => Within(t, s)
      BY <1>7 DEF Placed
    <3> QED BY <1>h, <3>1, <3>2
  <2>3. \A s \in Semaphores : Holds(t, s) => Holds(t, s)'
    BY <1>12 DEF AskedFor, Holds
  <2>4. Holds(t, Asking(t))
    BY <1>1 DEF Granted, Holds
  <2>5. Holds(t, m)' /\ (n = 2 => Holds(t, "team")')
    <3>1. CASE n = 1
      BY <1>5, <1>6, <2>3, <2>4, <3>1
    <3>2. CASE n = 2
      <4>1. Holds(t, m) /\ Holds(t, "team")
        BY <1>0, <1>1, <1>d, <1>6, <1>7, <2>4, <3>2 DEF Placed
      <4> QED BY <1>5, <2>3, <4>1
    <3> QED BY <3>1, <3>2
  <2>6. ~(t \in AtWork)'
    BY <1>3 DEF AtWork
  <2>7. task'[t] = task[t] /\ task'[t].member = m
    BY <1>1, <1>d
  <2>8. run'[t].next = 3 => n = 2
    BY <1>3
  <2>9. Placed(t)'
    BY <1>3, <1>g, <2>1, <2>2, <2>5, <2>6, <2>7, <2>8 DEF Placed
  <2> QED BY <1>1, <1>3, <1>7, <2>7, <2>9 DEF TaskOK
<1>14. (\A u \in Tasks : TaskOK(u)') /\ (\A w \in Workers : WorkerOK(w)')
  <2>1. \A y : y # t => Undisturbed(y, slots')
    BY <1>f, <1>12, OthersUndisturbed
  <2> QED BY <1>1, <1>3, <1>13, <2>1, TaskMoves
<1>15. DisablingOK' /\ DownOK'
  <2>1. up /\ ~Still
    BY <1>1, MovesWhenUp DEF Still
  <2>2. \A w \in Workers : Cancellable(w)' <=> Cancellable(w)
    BY <1>1 DEF Cancellable
  <2> QED BY <1>1, <2>1, <2>2, ChainFrame
<1> QED BY <1>4, <1>12, <1>14, <1>15 DEF TeamInv, SlotsOK
(* Who was granted his slot, gave up or went on is in no line.                *)
LEMMA NotInLine ==
    ASSUME TeamInv, NEW t \in Tasks,
           run[t].pc # "waiting" \/ run[t].abort # "none" \/ Granted(t)
    PROVE  \A s \in Semaphores : ~InLine(t, s)
<1>1. Placed(t)
  BY DEF TeamInv, TaskOK
<1>2. CASE run[t].pc # "waiting" \/ run[t].abort # "none"
  BY <1>1, <1>2 DEF Placed
<1>3. CASE run[t].pc = "waiting" /\ Granted(t)
  <2>1. Asking(t) \in Semaphores
    BY <1>3, AsksWithin
  <2>2. ~InLine(t, Asking(t))
    BY <1>3, <2>1 DEF Granted, InLine, TeamInv, SlotsOK, AllFair, Fair
  <2> QED BY <1>1, <2>2 DEF Placed
<1> QED BY <1>2, <1>3

LEMMA InsideMoves ==
    ASSUME TeamInv, NEW t \in Tasks, UNCHANGED <<slots, worker>>,
           \A u \in Tasks : u # t => task'[u] = task[u] /\ run'[u] = run[u],
           task'[t].member = task[t].member, run[t].pc # "none",
           \A s \in Semaphores : ~InLine(t, s),
           run'[t].pc \notin {"none", "waiting"},
           run'[t].pc = "ended" => run'[t].end # "none",
           (t \in AtWork)' => Holds(t, task[t].member) /\ Holds(t, "team"),
           task'[t].state \notin {"none", "queued"}
             \/ (task'[t].state = task[t].state /\ task'[t].started = task[t].started)
    PROVE  SlotsOK' /\ (\A u \in Tasks : TaskOK(u)') /\ (\A w \in Workers : WorkerOK(w)')
<1>1. TaskOK(t) /\ Placed(t)
  BY DEF TeamInv, TaskOK
<1>2. \A s \in Semaphores : (InLine(t, s)' <=> InLine(t, s)) /\ (Holds(t, s)' <=> Holds(t, s))
  BY DEF InLine, Holds
<1>3. \A s : Within(t, s) => Within(t, s)'
  BY DEF Within
<1>4. PICK m : m = task[t].member
  OBVIOUS
<1>5. m \in Semaphores /\ "team" \in Semaphores /\ m \in Members
  BY <1>4, MemberKnown
<1>6. (t \in AtWork)' => Holds(t, m)' /\ Holds(t, "team")'
  BY <1>2, <1>4, <1>5
<1>7. task'[t].member = m
  BY <1>4
<1>8. Placed(t)'
  BY <1>1, <1>2, <1>3, <1>6, <1>7 DEF Placed
<1>9. TaskOK(t)'
  BY <1>1, <1>5, <1>7, <1>8 DEF TaskOK
<1>10. \A y : Undisturbed(y, slots')
  BY OthersUndisturbed
<1> QED BY <1>9, <1>10, TaskMoves DEF TeamInv, SlotsOK

LEMMA BeginStep ==
    ASSUME TeamInv, NEW t \in Tasks, Begin(t)
    PROVE  TeamInv'
<1>0. run \in [Tasks -> RunRecords] /\ task \in [Tasks -> TaskRecords]
      /\ member \in [Members -> MemberState]
  BY DEF TeamInv, RecordsOK
<1>1. /\ run[t].pc = "waiting" /\ run[t].next = 3 /\ Granted(t)
      /\ task' = [task EXCEPT ![t].state = "running", ![t].started = TRUE]
      /\ member' = member \/ member' = [member EXCEPT ![task[t].member] = "running"]
      /\ run' = [run EXCEPT ![t].pc = "preparing", ![t].seen = "running"]
      /\ UNCHANGED <<worker, slots, disabling, up>>
  BY DEF Begin, Begins
<1>2. /\ run' \in [Tasks -> RunRecords] /\ run'[t].pc = "preparing"
      /\ \A u \in Tasks : u # t => run'[u] = run[u]
  <2>1. run' = [run EXCEPT ![t] = [run[t] EXCEPT !.pc = "preparing", !.seen = "running"]]
    BY <1>1
  <2>2. run[t] \in RunRecords
    BY <1>0
  <2>3. PICK r : r = [run[t] EXCEPT !.pc = "preparing", !.seen = "running"]
    OBVIOUS
  <2>4. r \in RunRecords /\ r.pc = "preparing"
    BY <2>2, <2>3 DEF RunRecords, PCs, MemberState
  <2> QED BY <1>0, <2>1, <2>3, <2>4
<1>3. /\ task' \in [Tasks -> TaskRecords] /\ task'[t].state = "running"
      /\ task'[t].member = task[t].member
      /\ \A u \in Tasks : u # t => task'[u] = task[u]
  <2>1. PICK k : k = [task[t] EXCEPT !.state = "running", !.started = TRUE]
    OBVIOUS
  <2>2. task' = [task EXCEPT ![t] = k] /\ task[t] \in TaskRecords
    BY <1>0, <1>1, <2>1
  <2>3. k \in TaskRecords /\ k.state = "running" /\ k.member = task[t].member
    BY <2>1, <2>2 DEF TaskRecords, Unsafe
  <2> QED BY <1>0, <2>2, <2>3
<1>4. member' \in [Members -> MemberState]
  BY <1>0, <1>1 DEF MemberState
<1>5. RecordsOK'
  BY <1>1, <1>2, <1>3, <1>4 DEF TeamInv, RecordsOK
<1>6. \A s \in Semaphores : ~InLine(t, s)
  BY <1>1, NotInLine
<1>7. Holds(t, task[t].member) /\ Holds(t, "team")
  BY <1>1 DEF TeamInv, TaskOK, Placed
<1>8. SlotsOK' /\ (\A u \in Tasks : TaskOK(u)') /\ (\A w \in Workers : WorkerOK(w)')
  BY <1>1, <1>2, <1>3, <1>6, <1>7, InsideMoves
<1>9. DisablingOK' /\ DownOK'
  <2>1. up /\ ~Still
    BY <1>1, MovesWhenUp DEF Still
  <2>2. \A w \in Workers : Cancellable(w)' <=> Cancellable(w)
    BY <1>1 DEF Cancellable
  <2>3. \A u \in Tasks : /\ task'[u].member = task[u].member
                         /\ task[u].state # "none" => task'[u].state # "none"
    BY <1>3
  <2> QED BY <1>1, <2>1, <2>2, <2>3, ChainFrame
<1> QED BY <1>5, <1>8, <1>9 DEF TeamInv

(* The steps of a turn that leave the row of the task alone or set a state    *)
(* after the queued one.                                                      *)
LEMMA WorkHeld ==
    ASSUME TeamInv, NEW t \in Tasks, t \in AtWork
    PROVE  Holds(t, task[t].member) /\ Holds(t, "team")
BY DEF TeamInv, TaskOK, Placed

LEMMA TurnStep ==
    ASSUME TeamInv, NEW t \in Tasks,
           Prepare(t) \/ Expire(t) \/ RequireApproval(t) \/ \E end \in TurnEnds : Return(t, end)
    PROVE  TeamInv'
<1>0. run \in [Tasks -> RunRecords] /\ task \in [Tasks -> TaskRecords]
      /\ member \in [Members -> MemberState]
  BY DEF TeamInv, RecordsOK
<1>1. /\ Quiet /\ UNCHANGED <<worker, slots, disabling, up>>
      /\ run[t].pc \in {"preparing", "work"}
  BY DEF Prepare, Expire, RequireApproval, Return
<1>2. /\ run' \in [Tasks -> RunRecords] /\ run'[t].pc \in {"preparing", "work", "ended"}
      /\ run'[t].pc = "ended" => run'[t].end # "none"
      /\ \A u \in Tasks : u # t => run'[u] = run[u]
  <2>1. CASE Prepare(t)
    BY <1>0, <2>1 DEF Prepare, RunRecords, PCs
  <2>2. CASE Expire(t)
    BY <1>0, <2>2 DEF Expire, RunRecords, PCs
  <2>3. CASE RequireApproval(t)
    BY <1>0, <2>3 DEF RequireApproval
  <2>4. ASSUME NEW end \in TurnEnds, Return(t, end)
        PROVE  /\ run' \in [Tasks -> RunRecords] /\ run'[t].pc = "ended" /\ run'[t].end # "none"
               /\ \A u \in Tasks : u # t => run'[u] = run[u]
    <3>1. end \in {"completed", "failed", "cancelled"}
      BY TeamAssumption
    <3>2. PICK r : r = [run[t] EXCEPT !.pc = "ended", !.end = end, !.abort = "none"]
      OBVIOUS
    <3>3. run' = [run EXCEPT ![t] = r]
      BY <2>4, <3>2 DEF Return
    <3>4. run[t] \in RunRecords
      BY <1>0
    <3>5. r \in RunRecords /\ r.pc = "ended" /\ r.end = end
      BY <3>1, <3>2, <3>4 DEF RunRecords, PCs
    <3> QED BY <1>0, <3>1, <3>3, <3>5
  <2> QED BY <2>1, <2>2, <2>3, <2>4
<1>3. /\ task' \in [Tasks -> TaskRecords] /\ task'[t].member = task[t].member
      /\ task'[t].started = task[t].started
      /\ task'[t].state = task[t].state \/ task'[t].state = "waiting_approval"
      /\ \A u \in Tasks : u # t => task'[u] = task[u]
      /\ member' \in [Members -> MemberState]
  <2>1. CASE RequireApproval(t)
    BY <1>0, <2>1 DEF RequireApproval, TaskRecords, Unsafe, MemberState
  <2>2. CASE UNCHANGED <<task, member>>
    BY <1>0, <2>2
  <2> QED BY <2>1, <2>2 DEF Prepare, Expire, Return
<1>4. RecordsOK'
  BY <1>1, <1>2, <1>3 DEF TeamInv, RecordsOK
<1>5. \A s \in Semaphores : ~InLine(t, s)
  BY <1>1, NotInLine
<1>6. (t \in AtWork)' => Holds(t, task[t].member) /\ Holds(t, "team")
  <2>1. (t \in AtWork)' => t \in AtWork
    BY <1>1, <1>3 DEF AtWork
  <2> QED BY <2>1, WorkHeld
<1>7. SlotsOK' /\ (\A u \in Tasks : TaskOK(u)') /\ (\A w \in Workers : WorkerOK(w)')
  BY <1>1, <1>2, <1>3, <1>5, <1>6, InsideMoves
<1> QED BY <1>1, <1>4, <1>7, QuietFrame DEF TeamInv
(* The steps after the turn, also taken by an execution that never began.     *)
LEMMA NotStill ==
    ASSUME TeamInv, NEW t \in Tasks, run[t].pc # "none", ~Still,
           UNCHANGED <<up, disabling, worker>>,
           \A u \in Tasks : /\ task'[u].member = task[u].member
                            /\ task[u].state # "none" => task'[u].state # "none"
    PROVE  DisablingOK' /\ DownOK'
<1>1. up
  BY MovesWhenUp
<1>2. \A w \in Workers : Cancellable(w)' <=> Cancellable(w)
  BY DEF Cancellable
<1> QED BY <1>1, <1>2, ChainFrame

LEMMA EndStep ==
    ASSUME TeamInv, NEW t \in Tasks, Finish(t) \/ Look(t)
    PROVE  TeamInv'
<1>0. run \in [Tasks -> RunRecords] /\ task \in [Tasks -> TaskRecords]
      /\ member \in [Members -> MemberState] /\ run[t] \in RunRecords
  BY DEF TeamInv, RecordsOK
<1>1. /\ UNCHANGED <<member, worker, slots, disabling, up>>
      /\ run[t].pc \in {"ended", "closing"} /\ (task[t].started => Quiet)
  BY DEF Finish, Look
<1>2. task[t].member \in Members
  BY <1>1, MemberKnown
<1>3. /\ task' \in [Tasks -> TaskRecords] /\ task'[t].member = task[t].member
      /\ task'[t].started = task[t].started
      /\ task'[t].state = task[t].state \/ task'[t].state \in Finals
      /\ \A u \in Tasks : u # t => task'[u] = task[u]
  <2>1. CASE Finish(t) /\ Writes(t)
    <3>1. run[t].end \in {"completed", "failed", "cancelled"}
      <4>1. run[t].pc = "ended" => run[t].end # "none"
        BY DEF TeamInv, TaskOK
      <4>2. run[t].pc = "ended"
        BY <2>1 DEF Finish
      <4> QED BY <1>0, <4>1, <4>2 DEF RunRecords
    <3>2. PICK end : end = run[t].end
      OBVIOUS
    <3>3. task' = [task EXCEPT ![t].state = end]
      BY <2>1, <3>2 DEF Finish
    <3>4. end \in Finals
      BY <3>1, <3>2 DEF Finals
    <3> QED BY <1>0, <3>3, <3>4 DEF TaskRecords
  <2>2. CASE UNCHANGED task
    BY <1>0, <2>2
  <2> QED BY <2>1, <2>2 DEF Finish, Look
<1>4. /\ run' \in [Tasks -> RunRecords] /\ run'[t].pc \in {"closing", "leaving"}
      /\ run'[t].pc = "closing" => run[t].pc = "ended"
      /\ \A u \in Tasks : u # t => run'[u] = run[u]
  <2>1. CASE Finish(t)
    <3>1. PICK r : r = [run[t] EXCEPT !.pc = "closing", !.end = "none"]
      OBVIOUS
    <3>2. run' = [run EXCEPT ![t] = r] /\ run[t].pc = "ended"
      BY <2>1, <3>1 DEF Finish
    <3>3. r \in RunRecords /\ r.pc = "closing"
      BY <1>0, <3>1 DEF RunRecords, PCs
    <3> QED BY <1>0, <3>2, <3>3
  <2>2. CASE Look(t)
    <3>1. PICK seen \in MemberState : seen = member[task[t].member]
      BY <1>0, <1>2
    <3>2. PICK r : r = [run[t] EXCEPT !.pc = "leaving", !.seen = seen]
      OBVIOUS
    <3>3. run' = [run EXCEPT ![t] = r]
      BY <2>2, <3>1, <3>2 DEF Look
    <3>4. r \in RunRecords /\ r.pc = "leaving"
      BY <1>0, <3>2 DEF RunRecords, PCs
    <3> QED BY <1>0, <3>3, <3>4
  <2> QED BY <2>1, <2>2
<1>5. RecordsOK'
  BY <1>1, <1>3, <1>4 DEF TeamInv, RecordsOK
<1>6. \A s \in Semaphores : ~InLine(t, s)
  BY <1>1, NotInLine
<1>7. (t \in AtWork)' => Holds(t, task[t].member) /\ Holds(t, "team")
  <2>1. (t \in AtWork)' => t \in AtWork
    BY <1>1, <1>3, <1>4 DEF AtWork
  <2> QED BY <2>1, WorkHeld
<1>8. SlotsOK' /\ (\A u \in Tasks : TaskOK(u)') /\ (\A w \in Workers : WorkerOK(w)')
  <2>1. task'[t].state \notin {"none", "queued"}
          \/ (task'[t].state = task[t].state /\ task'[t].started = task[t].started)
    BY <1>3 DEF Finals
  <2> QED BY <1>1, <1>3, <1>4, <1>6, <1>7, <2>1, InsideMoves
<1>9. DisablingOK' /\ DownOK'
  <2>1. CASE task[t].started
    BY <1>1, <2>1, QuietFrame
  <2>2. CASE ~task[t].started
    <3>1. ~Still /\ run[t].pc # "none"
      BY <1>1, <2>2 DEF Still
    <3>2. \A u \in Tasks : /\ task'[u].member = task[u].member
                           /\ task[u].state # "none" => task'[u].state # "none"
      BY <1>3 DEF Finals
    <3> QED BY <1>1, <3>1, <3>2, NotStill
  <2> QED BY <2>1, <2>2
<1> QED BY <1>5, <1>8, <1>9 DEF TeamInv

(* One that gives up keeps only slots that it will give back when it leaves.  *)
LEMMA RefuseStep ==
    ASSUME TeamInv, NEW t \in Tasks, Refuse(t)
    PROVE  TeamInv'
<1>0. run \in [Tasks -> RunRecords] /\ run[t] \in RunRecords /\ TaskOK(t) /\ Placed(t)
      /\ AllFair(slots)
  BY DEF TeamInv, RecordsOK, SlotsOK, TaskOK
<1>1. PICK S : /\ run[t].pc = "waiting" /\ run[t].abort # "none" /\ slots' = Released(slots, S, t)
               /\ UNCHANGED <<task, member, worker, disabling, up>>
  BY DEF Refuse
<1>2. /\ run' \in [Tasks -> RunRecords] /\ run'[t].pc = "ended" /\ run'[t].end = "cancelled"
      /\ \A u \in Tasks : u # t => run'[u] = run[u]
  <2>1. PICK r : r = [run[t] EXCEPT !.pc = "ended", !.end = "cancelled",
                                    !.next = 1, !.abort = "none"]
    OBVIOUS
  <2>2. run' = [run EXCEPT ![t] = r]
    BY <2>1 DEF Refuse
  <2>3. r \in RunRecords /\ r.pc = "ended" /\ r.end = "cancelled"
    <3>1. /\ r.pc = "ended" /\ r.end = "cancelled" /\ r.next = 1 /\ r.abort = "none"
          /\ r.seen = run[t].seen
      BY <1>0, <2>1 DEF RunRecords
    <3>2. r = [pc |-> "ended", next |-> 1, abort |-> "none", end |-> "cancelled",
               seen |-> run[t].seen]
      BY <1>0, <2>1 DEF RunRecords
    <3>3. run[t].seen \in MemberState
      BY <1>0 DEF RunRecords
    <3> QED BY <3>1, <3>2, <3>3 DEF RunRecords, PCs
  <2> QED BY <1>0, <2>2, <2>3
<1>3. RecordsOK'
  BY <1>1, <1>2 DEF TeamInv, RecordsOK
<1>4. AllFair(slots') /\ ReleasedBy(slots, slots', S, t)
  BY <1>0, <1>1, ReleasedFair
<1>5. \A s \in Semaphores : ~InLine(t, s)
  BY <1>1, NotInLine
<1>6. \A s \in Semaphores : ~InLine(t, s)' /\ (Holds(t, s)' => Holds(t, s))
  BY <1>4, <1>5 DEF ReleasedBy, InLine, Holds
<1>7. \A s : Within(t, s) => Within(t, s)'
  BY <1>1, <1>2 DEF Within
<1>8. ~(t \in AtWork)'
  BY <1>0, <1>1 DEF AtWork, TaskOK
<1>9. Placed(t)'
  BY <1>0, <1>2, <1>6, <1>7, <1>8 DEF Placed
<1>10. TaskOK(t)'
  BY <1>0, <1>1, <1>2, <1>9 DEF TaskOK
<1>11. (\A u \in Tasks : TaskOK(u)') /\ (\A w \in Workers : WorkerOK(w)')
  <2>1. \A y : y # t => Undisturbed(y, slots')
    BY <1>4, OthersUndisturbed
  <2> QED BY <1>1, <1>2, <1>10, <2>1, TaskMoves
<1>12. DisablingOK' /\ DownOK'
  <2>1. ~Still /\ run[t].pc # "none"
    BY <1>1 DEF Still
  <2> QED BY <1>1, <2>1, NotStill
<1> QED BY <1>3, <1>4, <1>11, <1>12 DEF TeamInv, SlotsOK

(* An execution leaves nothing behind.                                        *)
LEMMA LeaveStep ==
    ASSUME TeamInv, NEW t \in Tasks, Leave(t)
    PROVE  TeamInv'
<1>0. run \in [Tasks -> RunRecords] /\ member \in [Members -> MemberState]
      /\ TaskOK(t) /\ Placed(t) /\ AllFair(slots)
  BY DEF TeamInv, RecordsOK, SlotsOK, TaskOK
<1>1. /\ run[t].pc = "leaving" /\ slots' = Released(slots, Kept(t), t)
      /\ run' = [run EXCEPT ![t] = NoRun]
      /\ member' = member \/ member' = [member EXCEPT ![task[t].member] = "idle"]
      /\ UNCHANGED <<task, worker, disabling, up>>
  BY DEF Leave
<1>2. NoRun \in RunRecords /\ NoRun.pc = "none"
  BY DEF NoRun, Run, RunRecords, PCs, MemberState
<1>3. /\ run' \in [Tasks -> RunRecords] /\ run'[t].pc = "none"
      /\ \A u \in Tasks : u # t => run'[u] = run[u]
  BY <1>0, <1>1, <1>2
<1>4. member' \in [Members -> MemberState]
  BY <1>0, <1>1 DEF MemberState
<1>5. RecordsOK'
  BY <1>1, <1>3, <1>4 DEF TeamInv, RecordsOK
<1>6. PICK K : K = Kept(t)
  OBVIOUS
<1>7. AllFair(slots') /\ ReleasedBy(slots, slots', K, t)
  BY <1>0, <1>1, <1>6, ReleasedFair
<1>8. \A s \in Semaphores : ~InLine(t, s)
  BY <1>1, NotInLine
<1>9. ASSUME NEW s \in Semaphores PROVE ~InLine(t, s)' /\ ~Holds(t, s)'
  <2>1. Holds(t, s) => s \in K
    BY <1>0, <1>6 DEF Placed, Within, Kept
  <2> QED BY <1>7, <1>8, <2>1 DEF ReleasedBy, InLine, Holds
<1>10. ~(t \in AtWork)'
  BY <1>3 DEF AtWork
<1>11. Placed(t)'
  BY <1>3, <1>9, <1>10 DEF Placed
<1>12. TaskOK(t)'
  BY <1>0, <1>1, <1>3, <1>11 DEF TaskOK
<1>13. (\A u \in Tasks : TaskOK(u)') /\ (\A w \in Workers : WorkerOK(w)')
  <2>1. \A y : y # t => Undisturbed(y, slots')
    BY <1>7, OthersUndisturbed
  <2> QED BY <1>1, <1>3, <1>12, <2>1, TaskMoves
<1>14. DisablingOK' /\ DownOK'
  <2>1. ~Still /\ run[t].pc # "none"
    BY <1>1 DEF Still
  <2> QED BY <1>1, <2>1, NotStill
<1> QED BY <1>5, <1>7, <1>13, <1>14 DEF TeamInv, SlotsOK
-----------------------------------------------------------------------------
(* The steps of a sub-agent.                                                  *)
LEMMA WorkerPlaced ==
    ASSUME TeamInv, NEW w \in Workers
    PROVE  /\ worker[w] \in WorkerRecords /\ WorkerOK(w)
           /\ worker[w].pc # "waiting" \/ WorkerGranted(w) => \A s \in Semaphores : ~InLine(w, s)
           /\ worker[w].pc = "none" => \A s \in Semaphores : ~InLine(w, s) /\ ~Holds(w, s)
<1>1. worker[w] \in WorkerRecords /\ WorkerOK(w)
  BY DEF TeamInv, RecordsOK
<1>2. "agents" \in Semaphores
  BY DEF Semaphores
<1>3. WorkerGranted(w) => ~InLine(w, "agents")
  BY <1>2 DEF WorkerGranted, InLine, TeamInv, SlotsOK, AllFair, Fair
<1> QED BY <1>1, <1>3 DEF WorkerOK

LEMMA AsksStep ==
    ASSUME TeamInv, NEW w \in Workers, (\E owner \in Spawners : Start(w, owner)) \/ Send(w)
    PROVE  TeamInv'
<1>0. worker \in [Workers -> WorkerRecords] /\ WorkerOK(w) /\ AllFair(slots)
      /\ worker[w] \in WorkerRecords
  BY DEF TeamInv, RecordsOK, SlotsOK
<1>1. /\ Quiet /\ slots' = Asked(slots, "agents", w) /\ worker[w].state \in {"none", "idle"}
      /\ UNCHANGED <<task, member, run, disabling, up>>
  BY DEF Start, Send
<1>2. /\ worker' \in [Workers -> WorkerRecords]
      /\ worker'[w].pc = "waiting" /\ worker'[w].state = "queued"
      /\ \A v \in Workers : v # w => worker'[v] = worker[v]
  <2>1. ASSUME NEW owner \in Spawners, Start(w, owner)
        PROVE  /\ worker' \in [Workers -> WorkerRecords]
               /\ worker'[w].pc = "waiting" /\ worker'[w].state = "queued"
               /\ \A v \in Workers : v # w => worker'[v] = worker[v]
    <3>1. owner \in Members \cup {Main}
      BY TeamAssumption
    <3>2. PICK r : r = [state |-> "queued", pc |-> "waiting", owner |-> owner, timedOut |-> FALSE]
      OBVIOUS
    <3>3. worker' = [worker EXCEPT ![w] = r]
      BY <2>1, <3>2 DEF Start, Worker
    <3>4. r \in WorkerRecords /\ r.pc = "waiting" /\ r.state = "queued"
      BY <3>1, <3>2 DEF WorkerRecords, WorkerStates
    <3> QED BY <1>0, <3>3, <3>4
  <2>2. CASE Send(w)
    <3>1. PICK r : r = [worker[w] EXCEPT !.state = "queued", !.pc = "waiting"]
      OBVIOUS
    <3>2. worker' = [worker EXCEPT ![w] = r]
      BY <2>2, <3>1 DEF Send
    <3>3. r \in WorkerRecords /\ r.pc = "waiting" /\ r.state = "queued"
      BY <1>0, <3>1 DEF WorkerRecords, WorkerStates
    <3> QED BY <1>0, <3>2, <3>3
  <2> QED BY <2>1, <2>2
<1>3. RecordsOK'
  BY <1>1, <1>2 DEF TeamInv, RecordsOK
<1>4. worker[w].pc = "none"
  BY <1>0, <1>1 DEF WorkerOK, WorkerRecords
<1>5. \A s \in Semaphores : ~InLine(w, s) /\ ~Holds(w, s)
  BY <1>4, WorkerPlaced
<1>6. AllFair(slots') /\ AskedFor(slots, slots', "agents", w) /\ "agents" \in Semaphores
  <2>1. "agents" \in Semaphores /\ w \in Agents
    BY DEF Semaphores, Agents
  <2>2. w \notin slots["agents"].held /\ w \notin ToSet(slots["agents"].line)
    BY <1>5, <2>1 DEF InLine, Holds
  <2> QED BY <1>0, <1>1, <2>1, <2>2, AskedFair
<1>7. WorkerOK(w)'
  <2>1. \A s \in Semaphores : (InLine(w, s)' => s = "agents") /\ (Holds(w, s)' => s = "agents")
    BY <1>5, <1>6 DEF AskedFor, InLine, Holds
  <2> QED BY <1>2, <2>1 DEF WorkerOK
<1>8. (\A u \in Tasks : TaskOK(u)') /\ (\A v \in Workers : WorkerOK(v)')
  <2>1. \A y : y # w => Undisturbed(y, slots')
    BY <1>6, OthersUndisturbed
  <2> QED BY <1>1, <1>2, <1>7, <2>1, WorkerMoves
<1> QED BY <1>1, <1>3, <1>6, <1>8, QuietFrame DEF TeamInv, SlotsOK

LEMMA AdmitStep ==
    ASSUME TeamInv, NEW w \in Workers, Admit(w)
    PROVE  TeamInv'
<1>0. worker \in [Workers -> WorkerRecords] /\ WorkerOK(w) /\ worker[w] \in WorkerRecords
  BY DEF TeamInv, RecordsOK
<1>1. /\ worker[w].pc = "waiting" /\ WorkerGranted(w)
      /\ UNCHANGED <<task, member, run, slots, disabling, up>>
  BY DEF Admit
<1>2. /\ worker' \in [Workers -> WorkerRecords]
      /\ worker'[w].pc = "work" /\ worker'[w].state = "running"
      /\ worker'[w].owner = worker[w].owner
      /\ \A v \in Workers : v # w => worker'[v] = worker[v]
  <2>1. PICK r : r = [worker[w] EXCEPT !.state = "running", !.pc = "work"]
    OBVIOUS
  <2>2. worker' = [worker EXCEPT ![w] = r]
    BY <2>1 DEF Admit
  <2>3. r \in WorkerRecords /\ r.pc = "work" /\ r.state = "running" /\ r.owner = worker[w].owner
    BY <1>0, <2>1 DEF WorkerRecords, WorkerStates
  <2> QED BY <1>0, <2>2, <2>3
<1>3. RecordsOK' /\ SlotsOK'
  BY <1>1, <1>2 DEF TeamInv, RecordsOK, SlotsOK
<1>4. WorkerOK(w)'
  <2>1. \A s \in Semaphores : ~InLine(w, s) /\ (Holds(w, s) => s = "agents")
    BY <1>0, <1>1, WorkerPlaced DEF WorkerOK
  <2>2. \A s \in Semaphores : ~InLine(w, s)' /\ (Holds(w, s)' => s = "agents")
    BY <1>1, <2>1 DEF InLine, Holds
  <2> QED BY <1>2, <2>2 DEF WorkerOK
<1>5. (\A u \in Tasks : TaskOK(u)') /\ (\A v \in Workers : WorkerOK(v)')
  <2>1. \A y : y # w => Undisturbed(y, slots')
    BY <1>1, OthersUndisturbed
  <2> QED BY <1>1, <1>2, <1>4, <2>1, WorkerMoves
<1>6. DisablingOK' /\ DownOK'
  <2>1. up /\ ~Still
    BY <1>1, MovesWhenUp DEF Still
  <2>2. worker[w].state = "queued"
    BY <1>0, <1>1 DEF WorkerOK
  <2>3. \A v \in Workers : worker'[v].owner = worker[v].owner /\ (Cancellable(v)' => Cancellable(v))
    BY <1>2, <2>2 DEF Cancellable
  <2> QED BY <1>1, <2>1, <2>3, ChainFrame
<1> QED BY <1>3, <1>5, <1>6 DEF TeamInv

LEMMA WorkStep ==
    ASSUME TeamInv, NEW w \in Workers, ExpireWorker(w) \/ Close(w)
    PROVE  TeamInv'
<1>0. worker \in [Workers -> WorkerRecords] /\ WorkerOK(w) /\ worker[w] \in WorkerRecords
  BY DEF TeamInv, RecordsOK
<1>1. Quiet /\ UNCHANGED <<task, member, run, slots, disabling, up>>
  BY DEF ExpireWorker, Close
<1>2. /\ worker' \in [Workers -> WorkerRecords] /\ worker'[w].pc = worker[w].pc
      /\ worker'[w].state = worker[w].state
           \/ (worker[w].state = "idle" /\ worker'[w].state = "closed")
      /\ \A v \in Workers : v # w => worker'[v] = worker[v]
  <2>1. CASE ExpireWorker(w)
    BY <1>0, <2>1 DEF ExpireWorker, WorkerRecords
  <2>2. CASE Close(w)
    BY <1>0, <2>2 DEF Close, WorkerRecords, WorkerStates
  <2> QED BY <2>1, <2>2
<1>3. RecordsOK' /\ SlotsOK'
  BY <1>1, <1>2 DEF TeamInv, RecordsOK, SlotsOK
<1>4. WorkerOK(w)'
  <2>1. \A s \in Semaphores : (InLine(w, s)' <=> InLine(w, s)) /\ (Holds(w, s)' <=> Holds(w, s))
    BY <1>1 DEF InLine, Holds
  <2>2. worker[w].state = "idle" => worker[w].pc \notin {"waiting", "work", "late"}
    BY <1>0 DEF WorkerOK
  <2> QED BY <1>0, <1>2, <2>1, <2>2 DEF WorkerOK
<1>5. (\A u \in Tasks : TaskOK(u)') /\ (\A v \in Workers : WorkerOK(v)')
  <2>1. \A y : y # w => Undisturbed(y, slots')
    BY <1>1, OthersUndisturbed
  <2> QED BY <1>1, <1>2, <1>4, <2>1, WorkerMoves
<1> QED BY <1>1, <1>3, <1>5, QuietFrame DEF TeamInv

LEMMA ReturnWorkerStep ==
    ASSUME TeamInv, NEW w \in Workers, NEW end \in RoundEnds, ReturnWorker(w, end)
    PROVE  TeamInv'
<1>0. worker \in [Workers -> WorkerRecords] /\ WorkerOK(w) /\ worker[w] \in WorkerRecords
      /\ AllFair(slots)
  BY DEF TeamInv, RecordsOK, SlotsOK
<1>1. /\ Quiet /\ worker[w].pc \in {"work", "late"} /\ slots' = Released(slots, {"agents"}, w)
      /\ UNCHANGED <<task, member, run, disabling, up>>
  BY DEF ReturnWorker
<1>2. /\ worker' \in [Workers -> WorkerRecords] /\ worker'[w].pc = "none"
      /\ worker'[w].state \notin {"queued", "running"}
      /\ \A v \in Workers : v # w => worker'[v] = worker[v]
  <2>1. PICK st \in WorkerStates \ {"queued", "running"} :
           st = IF worker[w].state = "cancelled" THEN "cancelled"
                ELSE IF worker[w].timedOut THEN "timed_out" ELSE end
    BY TeamAssumption DEF WorkerStates
  <2>2. worker' = [worker EXCEPT ![w].pc = "none", ![w].timedOut = FALSE, ![w].state = st]
    BY <1>0, <2>1 DEF ReturnWorker
  <2>3. PICK r : r = [worker[w] EXCEPT !.pc = "none", !.timedOut = FALSE, !.state = st]
    OBVIOUS
  <2>4. worker' = [worker EXCEPT ![w] = r]
    BY <2>2, <2>3
  <2>5. r \in WorkerRecords /\ r.pc = "none" /\ r.state = st
    BY <1>0, <2>3 DEF WorkerRecords
  <2> QED BY <1>0, <2>4, <2>5
<1>3. RecordsOK'
  BY <1>1, <1>2 DEF TeamInv, RecordsOK
<1>4. AllFair(slots') /\ ReleasedBy(slots, slots', {"agents"}, w)
  BY <1>0, <1>1, ReleasedFair
<1>5. WorkerOK(w)'
  <2>1. \A s \in Semaphores : ~InLine(w, s) /\ (Holds(w, s) => s = "agents")
    BY <1>0, <1>1, WorkerPlaced DEF WorkerOK
  <2>2. \A s \in Semaphores : ~InLine(w, s)' /\ ~Holds(w, s)'
    BY <1>4, <2>1 DEF ReleasedBy, InLine, Holds
  <2> QED BY <1>2, <2>2 DEF WorkerOK
<1>6. (\A u \in Tasks : TaskOK(u)') /\ (\A v \in Workers : WorkerOK(v)')
  <2>1. \A y : y # w => Undisturbed(y, slots')
    BY <1>4, OthersUndisturbed
  <2> QED BY <1>1, <1>2, <1>5, <2>1, WorkerMoves
<1> QED BY <1>1, <1>3, <1>4, <1>6, QuietFrame DEF TeamInv, SlotsOK

(* A sub-agent that is cancelled while no chain is between its grant and its  *)
(* start keeps a slot only if it is at work.                                  *)
LEMMA Cancels ==
    ASSUME TeamInv, NEW w \in Workers, Cancellable(w), worker'[w] = CancelledWorker(w),
           worker[w].pc = "waiting" => ~WorkerGranted(w),
           NEW X, w \in X, WithdrawnFrom(slots, slots', X)
    PROVE  WorkerOK(w)' /\ worker'[w] \in WorkerRecords /\ worker'[w].state = "cancelled"
           /\ worker'[w].owner = worker[w].owner
<1>1. worker[w] \in WorkerRecords /\ WorkerOK(w)
  BY WorkerPlaced
<1>2. /\ worker'[w] \in WorkerRecords /\ worker'[w].state = "cancelled"
      /\ worker'[w].owner = worker[w].owner
      /\ worker'[w].pc = IF worker[w].pc = "work" THEN "late" ELSE "none"
  <2>1. PICK pc : pc = IF worker[w].pc = "work" THEN "late" ELSE "none"
    OBVIOUS
  <2>2. PICK r : r = [worker[w] EXCEPT !.state = "cancelled", !.pc = pc]
    OBVIOUS
  <2>3. worker'[w] = r
    BY <1>1, <2>1, <2>2 DEF CancelledWorker
  <2>4. r \in WorkerRecords /\ r.state = "cancelled" /\ r.owner = worker[w].owner /\ r.pc = pc
    BY <1>1, <2>1, <2>2 DEF WorkerRecords, WorkerStates
  <2> QED BY <2>1, <2>3, <2>4
<1>3. ASSUME NEW s \in Semaphores
      PROVE  ~InLine(w, s)' /\ (Holds(w, s)' => s = "agents" /\ worker'[w].pc # "none")
  <2>1. ~InLine(w, s)' /\ (Holds(w, s)' => Holds(w, s))
    BY DEF WithdrawnFrom, InLine, Holds
  <2>2. Holds(w, s) => s = "agents" /\ worker[w].pc # "none"
    BY <1>1 DEF WorkerOK
  <2>3. Holds(w, "agents") => WorkerGranted(w)
    BY DEF Holds, WorkerGranted
  <2>4. worker[w].pc \in {"waiting", "work", "none"}
    BY <1>1 DEF WorkerOK, WorkerRecords, Cancellable
  <2> QED BY <1>2, <2>1, <2>2, <2>3, <2>4
<1> QED BY <1>2, <1>3 DEF WorkerOK

LEMMA CancelWorkerStep ==
    ASSUME TeamInv, NEW w \in Workers, CancelWorker(w)
    PROVE  TeamInv'
<1>0. worker \in [Workers -> WorkerRecords] /\ AllFair(slots)
  BY DEF TeamInv, RecordsOK, SlotsOK
<1>1. /\ Quiet /\ Cancellable(w) /\ worker' = [worker EXCEPT ![w] = CancelledWorker(w)]
      /\ slots' = Withdrawn(slots, {w})
      /\ UNCHANGED <<task, member, run, disabling, up>>
  BY DEF CancelWorker
<1>2. AllFair(slots') /\ WithdrawnFrom(slots, slots', {w})
  BY <1>0, <1>1, WithdrawnFair
<1>3. worker'[w] = CancelledWorker(w) /\ \A v \in Workers : v # w => worker'[v] = worker[v]
  BY <1>0, <1>1
<1>4. WorkerOK(w)' /\ worker'[w] \in WorkerRecords
  <2>1. worker[w].pc = "waiting" => ~WorkerGranted(w)
    BY <1>1 DEF Quiet, Still
  <2> QED BY <1>1, <1>2, <1>3, <2>1, Cancels
<1>5. RecordsOK'
  <2>1. worker' \in [Workers -> WorkerRecords]
    BY <1>0, <1>1, <1>3, <1>4
  <2> QED BY <1>1, <2>1 DEF TeamInv, RecordsOK
<1>6. (\A u \in Tasks : TaskOK(u)') /\ (\A v \in Workers : WorkerOK(v)')
  <2>1. \A y : y # w => Undisturbed(y, slots')
    BY <1>2, OthersUndisturbed
  <2> QED BY <1>1, <1>3, <1>4, <2>1, WorkerMoves
<1> QED BY <1>1, <1>2, <1>5, <1>6, QuietFrame DEF TeamInv, SlotsOK
-----------------------------------------------------------------------------
(* Cancelling and disabling.                                                  *)
LEMMA CancelMoves ==
    ASSUME TeamInv, NEW t \in Tasks, CancelTask(t), task[t].state \notin {"none"} \cup Finals,
           Still \/ Orphans(task[t].member) = {}
    PROVE  /\ task' \in [Tasks -> TaskRecords] /\ run' \in [Tasks -> RunRecords]
           /\ worker' \in [Workers -> WorkerRecords] /\ SlotsOK'
           /\ (\A u \in Tasks : TaskOK(u)') /\ (\A w \in Workers : WorkerOK(w)')
           /\ \A u \in Tasks : /\ task'[u].member = task[u].member
                               /\ task[u].state # "none" => task'[u].state # "none"
           /\ Orphans(task[t].member)' = {}
<1>0. /\ task \in [Tasks -> TaskRecords] /\ run \in [Tasks -> RunRecords]
      /\ worker \in [Workers -> WorkerRecords] /\ AllFair(slots) /\ TaskOK(t) /\ Placed(t)
  BY DEF TeamInv, RecordsOK, SlotsOK, TaskOK
<1>1. PICK m : m = task[t].member
  OBVIOUS
<1>2. PICK O : O = Orphans(m)
  OBVIOUS
<1>3. /\ run' = run \/ run' = [run EXCEPT ![t].abort = "cancelled"]
      /\ run[t].pc = "waiting" => run'[t].abort # "none"
      /\ worker' = [w \in Workers |-> IF w \in O THEN CancelledWorker(w) ELSE worker[w]]
      /\ slots' = Withdrawn(slots, {t} \cup O)
      /\ task' = [task EXCEPT ![t].state = "cancelled"]
  BY <1>0, <1>1, <1>2 DEF CancelTask, RunRecords
<1>4. AllFair(slots') /\ WithdrawnFrom(slots, slots', {t} \cup O)
  BY <1>0, <1>3, WithdrawnFair
<1>5. \A y : Undisturbed(y, slots')
  BY <1>4, OthersUndisturbed
<1>6. /\ run' \in [Tasks -> RunRecords] /\ run'[t].pc = run[t].pc /\ run'[t].next = run[t].next
      /\ run'[t].end = run[t].end /\ \A u \in Tasks : u # t => run'[u] = run[u]
  BY <1>0, <1>3 DEF RunRecords
<1>7. /\ task' \in [Tasks -> TaskRecords] /\ task'[t].member = m /\ task'[t].state = "cancelled"
      /\ task'[t].started = task[t].started
      /\ \A u \in Tasks : u # t => task'[u] = task[u]
  BY <1>0, <1>1, <1>3 DEF TaskRecords, Finals
<1>8. TaskOK(t)'
  <2>1. \A s \in Semaphores : ~InLine(t, s)' /\ (Holds(t, s)' <=> Holds(t, s))
    BY <1>4 DEF WithdrawnFrom, InLine, Holds
  <2>2. \A s : Within(t, s) <=> Within(t, s)'
    BY <1>1, <1>6, <1>7 DEF Within
  <2>3. (t \in AtWork)' <=> t \in AtWork
    BY <1>6, <1>7 DEF AtWork
  <2>4. run[t].pc # "none" => m \in Semaphores /\ "team" \in Semaphores
    BY <1>1, MemberKnown
  <2>5. t \in AtWork => run[t].pc # "none"
    BY DEF AtWork
  <2>6. /\ run'[t].pc = "waiting" => /\ run'[t].next >= 2 => Holds(t, m)'
                                     /\ run'[t].next = 3 => Holds(t, "team")'
        /\ (t \in AtWork)' => Holds(t, m)' /\ Holds(t, "team")'
    BY <1>0, <1>1, <1>6, <2>1, <2>3, <2>4, <2>5 DEF Placed
  <2>7. Placed(t)'
    BY <1>0, <1>6, <1>7, <2>1, <2>2, <2>6 DEF Placed
  <2>8. m \in Members
    BY <1>0, <1>1 DEF TaskOK
  <2> QED BY <1>0, <1>3, <1>6, <1>7, <2>7, <2>8 DEF TaskOK
<1>9. \A u \in Tasks : TaskOK(u)'
  BY <1>5, <1>6, <1>7, <1>8, TaskStays
<1>10. ASSUME NEW w \in Workers
       PROVE  /\ WorkerOK(w)' /\ worker'[w] \in WorkerRecords
              /\ worker'[w].owner = worker[w].owner
              /\ w \in O => worker'[w].state = "cancelled"
              /\ w \notin O => worker'[w] = worker[w]
  <2>1. CASE w \in O
    <3>1. worker'[w] = CancelledWorker(w) /\ Cancellable(w)
      BY <1>2, <1>3, <2>1 DEF Orphans
    <3>2. worker[w].pc = "waiting" => ~WorkerGranted(w)
      BY <1>1, <1>2, <2>1 DEF Still
    <3> QED BY <1>4, <2>1, <3>1, <3>2, Cancels
  <2>2. CASE w \notin O
    <3>1. worker'[w] = worker[w]
      BY <1>3, <2>2
    <3> QED BY <1>0, <1>5, <2>2, <3>1, WorkerStays
  <2> QED BY <2>1, <2>2
<1>11. worker' \in [Workers -> WorkerRecords]
  BY <1>3, <1>10
<1>12. Orphans(task[t].member)' = {}
  <2>1. \A w \in Workers : ~(worker'[w].owner = m /\ Cancellable(w)')
    BY <1>2, <1>10 DEF Orphans, Cancellable
  <2>2. Orphans(m)' = {}
    BY <2>1 DEF Orphans
  <2> QED BY <1>7, <2>2 DEF Orphans
<1> QED BY <1>1, <1>4, <1>6, <1>7, <1>9, <1>10, <1>11, <1>12 DEF SlotsOK

LEMMA CancelStep ==
    ASSUME TeamInv, NEW t \in Tasks, Cancel(t)
    PROVE  TeamInv'
<1>1. /\ Quiet /\ CancelTask(t) /\ UNCHANGED disabling
      /\ task[t].state \notin {"none"} \cup Finals
      /\ UNCHANGED <<member, up>> /\ Still
  BY DEF Cancel, CancelTask, Unsafe, Finals, Quiet
<1>2. /\ task' \in [Tasks -> TaskRecords] /\ run' \in [Tasks -> RunRecords]
      /\ worker' \in [Workers -> WorkerRecords] /\ SlotsOK'
      /\ (\A u \in Tasks : TaskOK(u)') /\ (\A w \in Workers : WorkerOK(w)')
  BY <1>1, CancelMoves
<1>3. RecordsOK'
  BY <1>1, <1>2 DEF TeamInv, RecordsOK
<1> QED BY <1>1, <1>2, <1>3, QuietFrame DEF TeamInv

(* A step that changes none of what tasks and sub-agents depend on.           *)
LEMMA AllStay ==
    ASSUME TeamInv, UNCHANGED <<task, run, worker, slots>>
    PROVE  SlotsOK' /\ (\A u \in Tasks : TaskOK(u)') /\ (\A w \in Workers : WorkerOK(w)')
<1>1. \A y : Undisturbed(y, slots')
  BY OthersUndisturbed
<1> QED BY <1>1, TaskStays, WorkerStays DEF TeamInv, SlotsOK

LEMMA DisableStep ==
    ASSUME TeamInv, NEW m \in Members, Disable(m)
    PROVE  TeamInv'
<1>1. /\ Quiet /\ UNCHANGED <<task, member, run, worker, slots, up>>
      /\ disabling' = [of |-> m, todo |-> InOrder(Active(m)), seen |-> member[m]]
  BY DEF Disable
<1>2. PICK A : A = Active(m)
  OBVIOUS
<1>3. A \subseteq Tasks /\ \A t \in A : task[t].member = m /\ task[t].state \notin {"none"} \cup Finals
  BY <1>2 DEF Active, Unsafe, Finals
<1>4. InOrder(A) \in Seq(A)
  <2>1. PICK n \in Nat : Tasks = 1 .. n
    BY TeamAssumption, FS_CardinalityType
  <2> QED BY <1>3, <2>1, Ordered
<1>5. PICK q : q = InOrder(A)
  OBVIOUS
<1>6. q \in Seq(Tasks) /\ \A i \in DOMAIN q : q[i] \in A
  BY <1>3, <1>4, <1>5
<1>7. disabling' = [of |-> m, todo |-> q, seen |-> member[m]]
  BY <1>1, <1>2, <1>5
<1>8. member[m] \in MemberState
  BY DEF TeamInv, RecordsOK
<1>9. RecordsOK'
  BY <1>1, <1>6, <1>7, <1>8 DEF TeamInv, RecordsOK
<1>10. DisablingOK'
  <2>1. disabling'.todo = q /\ disabling'.of = m
    BY <1>7
  <2>2. Still'
    BY <1>1 DEF Quiet, Still, Granted, WorkerGranted, Asking, Path
  <2>3. \A i \in DOMAIN q : /\ task'[q[i]].member = m
                            /\ task'[q[i]].state \notin {"none"} \cup Finals
    BY <1>1, <1>3, <1>6
  <2> QED BY <1>6, <2>1, <2>2, <2>3 DEF DisablingOK
<1>11. DownOK'
  BY <1>1 DEF DownOK, Quiet
<1> QED BY <1>1, <1>9, <1>10, <1>11, AllStay DEF TeamInv

LEMMA DisableNextStep ==
    ASSUME TeamInv, DisableNext
    PROVE  TeamInv'
<1>1. disabling.todo # <<>> /\ disabling' = [disabling EXCEPT !.todo = Tail(@)]
  BY DEF DisableNext
<1>2. /\ disabling \in [of : Members \cup {Main}, todo : Seq(Tasks), seen : MemberState]
      /\ DisablingOK
  BY DEF TeamInv, RecordsOK
<1>3. PICK q \in Seq(Tasks) : q = disabling.todo
  BY <1>2
<1>4. PICK m : m = disabling.of
  OBVIOUS
<1>5. PICK t \in Tasks : t = Head(q)
  BY <1>1, <1>3
<1>6. /\ Tail(q) \in Seq(Tasks) /\ 1 \in DOMAIN q /\ t = q[1]
      /\ \A i \in DOMAIN Tail(q) : i + 1 \in DOMAIN q /\ Tail(q)[i] = q[i + 1]
  BY <1>1, <1>3, <1>5
<1>7. \A i \in DOMAIN q : q[i] \in Tasks /\ task[q[i]].member = m /\ task[q[i]].state # "none"
  BY <1>2, <1>3, <1>4 DEF DisablingOK
<1>8. disabling'.todo = Tail(q) /\ disabling'.of = m
      /\ disabling' \in [of : Members \cup {Main}, todo : Seq(Tasks), seen : MemberState]
  BY <1>1, <1>2, <1>3, <1>4, <1>6
<1>9. disabling # NoCall
  BY <1>1 DEF NoCall
<1>10. up /\ (Orphans(m) = {} \/ (Still /\ task[t].state \notin Finals))
  BY <1>2, <1>3, <1>4, <1>6, <1>9, MovesWhenUp DEF DisablingOK
<1>11. UNCHANGED <<member, up>>
  <2>1. CASE task[t].state \in Finals
    BY <1>3, <1>5, <2>1 DEF DisableNext
  <2>2. CASE task[t].state \notin Finals
    BY <1>3, <1>5, <2>2 DEF DisableNext, CancelTask
  <2> QED BY <2>1, <2>2
<1>12. /\ task' \in [Tasks -> TaskRecords] /\ run' \in [Tasks -> RunRecords]
       /\ worker' \in [Workers -> WorkerRecords] /\ SlotsOK'
       /\ (\A u \in Tasks : TaskOK(u)') /\ (\A w \in Workers : WorkerOK(w)')
       /\ \A u \in Tasks : /\ task'[u].member = task[u].member
                           /\ task[u].state # "none" => task'[u].state # "none"
       /\ Orphans(m)' = {}
  <2>1. CASE task[t].state \in Finals
    <3>1. UNCHANGED <<task, run, worker, slots>>
      BY <1>3, <1>5, <2>1 DEF DisableNext
    <3>2. Orphans(m)' = {}
      BY <1>10, <2>1, <3>1 DEF Orphans, Cancellable
    <3> QED BY <3>1, <3>2, AllStay DEF TeamInv, RecordsOK
  <2>2. CASE task[t].state \notin Finals
    <3>1. CancelTask(t)
      BY <1>3, <1>5, <2>2 DEF DisableNext
    <3>2. task[t].member = m /\ task[t].state \notin {"none"} \cup Finals
      BY <1>6, <1>7, <2>2
    <3>3. Still \/ Orphans(task[t].member) = {}
      BY <1>10, <3>2
    <3>4. /\ task' \in [Tasks -> TaskRecords] /\ run' \in [Tasks -> RunRecords]
          /\ worker' \in [Workers -> WorkerRecords] /\ SlotsOK'
          /\ (\A u \in Tasks : TaskOK(u)') /\ (\A w \in Workers : WorkerOK(w)')
          /\ \A u \in Tasks : /\ task'[u].member = task[u].member
                              /\ task[u].state # "none" => task'[u].state # "none"
          /\ Orphans(task[t].member)' = {}
      BY <3>1, <3>2, <3>3, CancelMoves
    <3>5. Orphans(m)' = {}
      <4>1. task'[t].member = m
        BY <3>2, <3>4
      <4> QED BY <3>4, <4>1 DEF Orphans
    <3> QED BY <3>4, <3>5
  <2> QED BY <2>1, <2>2
<1>13. RecordsOK'
  BY <1>8, <1>11, <1>12 DEF TeamInv, RecordsOK
<1>14. DisablingOK'
  <2>1. \A i \in DOMAIN Tail(q) : /\ task'[Tail(q)[i]].member = m
                                  /\ task'[Tail(q)[i]].state # "none"
    BY <1>6, <1>7, <1>12
  <2>2. Orphans(disabling.of)' = {}
    BY <1>8, <1>12 DEF Orphans
  <2> QED BY <1>6, <1>8, <2>1, <2>2 DEF DisablingOK
<1>15. DownOK'
  BY <1>10, <1>11 DEF DownOK
<1> QED BY <1>12, <1>13, <1>14, <1>15 DEF TeamInv

LEMMA MemberStep ==
    ASSUME TeamInv, DisableLast \/ \E m \in Members : Enable(m)
    PROVE  TeamInv'
<1>1. UNCHANGED <<task, run, worker, slots, up>>
  BY DEF DisableLast, Enable
<1>2. up /\ (disabling' = NoCall)
  BY MovesWhenUp DEF DisableLast, Enable, Quiet
<1>3. member' \in [Members -> MemberState]
  BY DEF DisableLast, Enable, TeamInv, RecordsOK, MemberState
<1>4. NoCall \in [of : Members \cup {Main}, todo : Seq(Tasks), seen : MemberState]
  BY DEF NoCall, MemberState
<1>5. RecordsOK'
  BY <1>1, <1>2, <1>3, <1>4 DEF TeamInv, RecordsOK
<1>6. DisablingOK' /\ DownOK'
  BY <1>1, <1>2 DEF DisablingOK, DownOK, NoCall
<1> QED BY <1>1, <1>5, <1>6, AllStay DEF TeamInv
-----------------------------------------------------------------------------
(* The end of the process, and the next start.                                *)
LEMMA NobodyThere ==
    /\ NoRun \in RunRecords /\ NoRun.pc = "none"
    /\ NoWorker \in WorkerRecords /\ NoWorker.pc = "none" /\ NoWorker.state = "none"
    /\ AllFair(NoSlots)
    /\ \A s \in Semaphores : NoSlots[s].held = {} /\ ToSet(NoSlots[s].line) = {}
    /\ NoCall \in [of : Members \cup {Main}, todo : Seq(Tasks), seen : MemberState]
    /\ NoCall.todo = <<>>
<1>1. NoRun \in RunRecords /\ NoRun.pc = "none"
  BY DEF NoRun, Run, RunRecords, PCs, MemberState
<1>2. NoWorker \in WorkerRecords /\ NoWorker.pc = "none" /\ NoWorker.state = "none"
  BY DEF NoWorker, Worker, WorkerRecords, WorkerStates
<1>3. ASSUME NEW s \in Semaphores
      PROVE  /\ NoSlots[s] \in Semaphore /\ Fair(s, NoSlots[s])
             /\ NoSlots[s].held = {} /\ ToSet(NoSlots[s].line) = {}
  <2>1. NoSlots[s] = [held |-> {}, line |-> <<>>]
    BY DEF NoSlots
  <2>2. ToSet(<<>>) = {} /\ IsInjective(<<>>)
    BY DEF ToSet, IsInjective
  <2>3. IsFiniteSet({}) /\ Cardinality({}) = 0
    BY FS_EmptySet
  <2>4. Cardinality({}) <= Limit[s]
    BY <2>3, Limits
  <2>5. <<>> \in Seq(Agents)
    OBVIOUS
  <2> QED BY <2>1, <2>2, <2>3, <2>4, <2>5 DEF Semaphore, Fair
<1>4. NoSlots \in [Semaphores -> Semaphore]
  BY <1>3 DEF NoSlots
<1>5. AllFair(NoSlots)
  BY <1>3, <1>4 DEF AllFair
<1>6. NoCall \in [of : Members \cup {Main}, todo : Seq(Tasks), seen : MemberState]
      /\ NoCall.todo = <<>>
  BY DEF NoCall, MemberState
<1> QED BY <1>1, <1>2, <1>3, <1>5, <1>6

(* The rows outlive the process; nothing else does.                           *)
LEMMA CrashStep ==
    ASSUME TeamInv, Crash
    PROVE  TeamInv'
<1>1. /\ ~up' /\ run' = [t \in Tasks |-> NoRun] /\ worker' = [w \in Workers |-> NoWorker]
      /\ slots' = NoSlots /\ disabling' = NoCall /\ UNCHANGED <<task, member>>
      /\ up' = FALSE
  BY DEF Crash
<1>2. /\ run' \in [Tasks -> RunRecords] /\ worker' \in [Workers -> WorkerRecords]
      /\ \A t \in Tasks : run'[t].pc = "none"
      /\ \A w \in Workers : worker'[w].pc = "none" /\ worker'[w].state = "none"
  BY <1>1, NobodyThere
<1>3. RecordsOK'
  BY <1>1, <1>2, NobodyThere DEF TeamInv, RecordsOK
<1>4. SlotsOK'
  BY <1>1, NobodyThere DEF SlotsOK
<1>5. \A s \in Semaphores : \A x : ~InLine(x, s)' /\ ~Holds(x, s)'
  BY <1>1, NobodyThere DEF InLine, Holds
<1>6. ASSUME NEW t \in Tasks PROVE TaskOK(t)'
  <2>1. TaskOK(t)
    BY DEF TeamInv
  <2>2. ~(t \in AtWork)'
    BY <1>2 DEF AtWork
  <2>3. Placed(t)'
    BY <1>2, <1>5, <2>2 DEF Placed
  <2> QED BY <1>1, <1>2, <2>1, <2>3 DEF TaskOK
<1>7. \A w \in Workers : WorkerOK(w)'
  BY <1>2, <1>5 DEF WorkerOK
<1>8. DisablingOK' /\ DownOK'
  <2>1. disabling'.todo = <<>> /\ disabling' = NoCall
    BY <1>1, NobodyThere
  <2>2. DisablingOK'
    BY <2>1 DEF DisablingOK
  <2> QED BY <1>1, <2>2 DEF DownOK
<1> QED BY <1>3, <1>4, <1>6, <1>7, <1>8 DEF TeamInv

(* At the next start the queued tasks of a member ask for its slot, one after *)
(* the other.                                                                 *)
LEMMA RestartStep ==
    ASSUME TeamInv, Restart
    PROVE  TeamInv'
<1>0. /\ task \in [Tasks -> TaskRecords] /\ member \in [Members -> MemberState]
      /\ \A t \in Tasks : TaskOK(t)
  BY DEF TeamInv, RecordsOK
<1>1. /\ ~up /\ up' = TRUE /\ UNCHANGED <<member, worker, disabling>>
      /\ worker = [w \in Workers |-> NoWorker] /\ disabling = NoCall
  BY DEF Restart, TeamInv, DownOK
<1>2. PICK R : R = Rescheduled
  OBVIOUS
<1>3. /\ R \subseteq Tasks
      /\ \A t \in R : /\ task[t].state = "queued" /\ ~task[t].started
                      /\ task[t].member \in Members /\ task[t].member \in Semaphores
  BY <1>0, <1>2 DEF Rescheduled, TaskOK, Semaphores
<1>4. ASSUME NEW t \in Tasks
      PROVE  /\ task'[t] \in TaskRecords /\ task'[t].member = task[t].member
             /\ task'[t].started = task[t].started
             /\ t \in R => task'[t].state = "queued"
             /\ task'[t].state = "none" <=> task[t].state = "none"
             /\ task'[t].state = "queued" <=> task[t].state = "queued"
  <2>1. task'[t] = IF task[t].state \in Unsafe
                   THEN [task[t] EXCEPT !.state = "interrupted"] ELSE task[t]
    BY DEF Restart
  <2>2. task[t] \in TaskRecords
    BY <1>0
  <2> QED BY <1>3, <2>1, <2>2 DEF TaskRecords, Unsafe, Finals
<1>5. task' \in [Tasks -> TaskRecords]
  BY <1>4 DEF Restart
<1>6. ASSUME NEW t \in Tasks
      PROVE  /\ run'[t] \in RunRecords
             /\ t \notin R => run'[t].pc = "none"
             /\ t \in R => /\ run'[t].pc = "waiting" /\ run'[t].next = 1
                           /\ run'[t].abort = "none"
  <2>1. run'[t] = IF t \in R THEN Run("waiting", member[task[t].member]) ELSE NoRun
    BY <1>2 DEF Restart
  <2>2. CASE t \in R
    <3>1. PICK seen \in MemberState : seen = member[task[t].member]
      BY <1>0, <1>3, <2>2
    <3>2. run'[t] = [pc |-> "waiting", next |-> 1, abort |-> "none", end |-> "none",
                     seen |-> seen]
      BY <2>1, <2>2, <3>1 DEF Run
    <3> QED BY <2>2, <3>2 DEF RunRecords, PCs
  <2>3. CASE t \notin R
    BY <2>1, <2>3, NobodyThere
  <2> QED BY <2>2, <2>3
<1>7. run' \in [Tasks -> RunRecords]
  BY <1>6 DEF Restart
<1>8. RecordsOK'
  BY <1>1, <1>5, <1>7 DEF TeamInv, RecordsOK
<1>9. ASSUME NEW s \in Semaphores
      PROVE  /\ slots'[s] \in Semaphore /\ Fair(s, slots'[s])
             /\ \A x : x \in slots'[s].held \cup ToSet(slots'[s].line) =>
                         x \in R /\ task[x].member = s
  <2>1. PICK N : N = {t \in R : task[t].member = s}
    OBVIOUS
  <2>2. PICK q : q = InOrder(N)
    OBVIOUS
  <2>3. PICK n \in Nat : Tasks = 1 .. n
    BY TeamAssumption, FS_CardinalityType
  <2>4. N \in SUBSET (1 .. n)
    BY <1>3, <2>1, <2>3
  <2>5. q \in Seq(N) /\ \A i, j \in DOMAIN q : q[i] = q[j] => i = j
    BY <2>2, <2>3, <2>4, Ordered
  <2>6. IsInjective(q) /\ ToSet(q) \subseteq N /\ q \in Seq(Agents)
    <3>1. IsInjective(q)
      BY <2>5 DEF IsInjective
    <3>2. \A i \in DOMAIN q : q[i] \in N
      BY <2>5
    <3>3. ToSet(q) \subseteq N
      BY <3>2 DEF ToSet
    <3>4. N \subseteq Agents
      BY <2>3, <2>4 DEF Agents
    <3> QED BY <2>5, <3>1, <3>3, <3>4
  <2>7. PICK sem : sem = [held |-> {}, line |-> q]
    OBVIOUS
  <2>8. slots'[s] = Drained(s, sem)
    BY <1>2, <2>1, <2>2, <2>7 DEF Restart
  <2>9. Tidy(s, sem)
    <3>1. IsFiniteSet({}) /\ Cardinality({}) <= Limit[s]
      BY FS_EmptySet, Limits
    <3>2. sem \in Semaphore
      BY <2>6, <2>7 DEF Semaphore
    <3> QED BY <2>6, <2>7, <3>1, <3>2 DEF Tidy
  <2>10. slots'[s] \in Semaphore /\ Fair(s, slots'[s]) /\ Admitted(sem, slots'[s])
    BY <2>8, <2>9, DrainedFair
  <2>11. \A x : x \in slots'[s].held \cup ToSet(slots'[s].line) => x \in N
    BY <2>6, <2>7, <2>10 DEF Admitted
  <2> QED BY <2>1, <2>10, <2>11
<1>10. SlotsOK'
  <2>1. slots' \in [Semaphores -> Semaphore]
    BY <1>9 DEF Restart
  <2> QED BY <1>9, <2>1 DEF SlotsOK, AllFair
<1>11. ASSUME NEW t \in Tasks PROVE TaskOK(t)'
  <2> PICK m : m = task[t].member
    OBVIOUS
  <2>1. \A s \in Semaphores : InLine(t, s)' \/ Holds(t, s)' => t \in R /\ s = m
    BY <1>9 DEF InLine, Holds
  <2>2. ~(t \in AtWork)'
    BY <1>6 DEF AtWork
  <2>3. t \in R => Asking(t)' = m
    BY <1>4, <1>6 DEF Asking, Path
  <2>4. Within(t, m)'
    BY <1>4 DEF Within
  <2>5. Placed(t)'
    BY <1>6, <2>1, <2>2, <2>3, <2>4 DEF Placed
  <2>6. task'[t].state = "queued" => t \in R
    BY <1>2, <1>4 DEF Rescheduled
  <2>7. TaskOK(t)
    BY <1>0
  <2> QED BY <1>3, <1>4, <1>6, <2>5, <2>6, <2>7 DEF TaskOK, Finals
<1>12. ASSUME NEW w \in Workers PROVE WorkerOK(w)'
  <2>1. w \notin Tasks
    BY TeamAssumption
  <2>2. \A s \in Semaphores : ~InLine(w, s)' /\ ~Holds(w, s)'
    BY <1>3, <1>9, <2>1 DEF InLine, Holds
  <2>3. worker'[w].pc = "none" /\ worker'[w].state = "none"
    BY <1>1, NobodyThere
  <2> QED BY <2>2, <2>3 DEF WorkerOK
<1>13. DisablingOK' /\ DownOK'
  <2>1. disabling' = NoCall /\ disabling'.todo = <<>>
    BY <1>1, NobodyThere
  <2>2. DisablingOK'
    BY <2>1 DEF DisablingOK
  <2> QED BY <1>1, <2>2 DEF DownOK
<1> QED BY <1>8, <1>10, <1>11, <1>12, <1>13 DEF TeamInv
-----------------------------------------------------------------------------
(* The theorems                                                               *)
LEMMA InitTeam == Init => TeamInv
<1> SUFFICES ASSUME Init PROVE TeamInv
  OBVIOUS
<1>1. /\ task = [t \in Tasks |-> [state |-> "none", member |-> Main, started |-> FALSE]]
      /\ member = [m \in Members |-> "idle"]
      /\ run = [t \in Tasks |-> NoRun] /\ worker = [w \in Workers |-> NoWorker]
      /\ slots = NoSlots /\ disabling = NoCall /\ up = TRUE
  BY DEF Init
<1>2. /\ task \in [Tasks -> TaskRecords] /\ member \in [Members -> MemberState]
      /\ \A t \in Tasks : task[t].state = "none"
  BY <1>1 DEF TaskRecords, MemberState
<1>3. /\ run \in [Tasks -> RunRecords] /\ worker \in [Workers -> WorkerRecords]
      /\ \A t \in Tasks : run[t].pc = "none"
      /\ \A w \in Workers : worker[w].pc = "none" /\ worker[w].state = "none"
  BY <1>1, NobodyThere
<1>4. RecordsOK
  BY <1>1, <1>2, <1>3, NobodyThere DEF RecordsOK
<1>5. SlotsOK
  BY <1>1, NobodyThere DEF SlotsOK
<1>6. \A s \in Semaphores : \A x : ~InLine(x, s) /\ ~Holds(x, s)
  BY <1>1, NobodyThere DEF InLine, Holds
<1>7. ASSUME NEW t \in Tasks PROVE TaskOK(t)
  <2>1. t \notin AtWork
    BY <1>3 DEF AtWork
  <2>2. Placed(t)
    BY <1>3, <1>6, <2>1 DEF Placed
  <2> QED BY <1>2, <1>3, <2>2 DEF TaskOK
<1>8. \A w \in Workers : WorkerOK(w)
  BY <1>3, <1>6 DEF WorkerOK
<1>9. DisablingOK /\ DownOK
  BY <1>1, NobodyThere DEF DisablingOK, DownOK
<1> QED BY <1>4, <1>5, <1>7, <1>8, <1>9 DEF TeamInv

LEMMA StutterStep == TeamInv /\ UNCHANGED vars => TeamInv'
<1> SUFFICES ASSUME TeamInv, UNCHANGED vars PROVE TeamInv'
  OBVIOUS
<1>1. UNCHANGED <<task, member, run, worker, slots, disabling, up>>
  BY DEF vars
<1>2. RecordsOK'
  BY <1>1 DEF TeamInv, RecordsOK
<1>3. DownOK'
  BY <1>1 DEF TeamInv, DownOK
<1>4. DisablingOK'
  <2>1. Still <=> Still'
    BY <1>1 DEF Still, Granted, WorkerGranted, Asking, Path
  <2>2. \A m : Orphans(m) = Orphans(m)'
    BY <1>1 DEF Orphans, Cancellable
  <2> QED BY <1>1, <2>1, <2>2 DEF TeamInv, DisablingOK
<1> QED BY <1>1, <1>2, <1>3, <1>4, AllStay DEF TeamInv

LEMMA TeamStep == TeamInv /\ [Next]_vars => TeamInv'
<1> SUFFICES ASSUME TeamInv, [Next]_vars PROVE TeamInv'
  OBVIOUS
<1>1. ASSUME NEW t \in Tasks, TaskStep(t) PROVE TeamInv'
  BY <1>1, DelegateStep, AskStep, BeginStep, RefuseStep, TurnStep, EndStep, LeaveStep,
     CancelStep DEF TaskStep
<1>2. ASSUME NEW w \in Workers, WorkerStep(w) PROVE TeamInv'
  BY <1>2, AsksStep, AdmitStep, WorkStep, ReturnWorkerStep, CancelWorkerStep DEF WorkerStep
<1>3. CASE \E m \in Members : Disable(m) \/ Enable(m)
  BY <1>3, DisableStep, MemberStep
<1>4. CASE DisableNext \/ DisableLast
  BY <1>4, DisableNextStep, MemberStep
<1>5. CASE Crash \/ Restart
  BY <1>5, CrashStep, RestartStep
<1>6. CASE UNCHANGED vars
  BY <1>6, StutterStep
<1> QED BY <1>1, <1>2, <1>3, <1>4, <1>5, <1>6 DEF Next

(* The slots a team keeps are always in order: what an execution holds and    *)
(* where it waits is what it says of itself, and no semaphore admits more     *)
(* than its limit (SlotScheduler.acquire and release, TeamManager.execute).   *)
THEOREM TeamsCorrect == TeamSpec => []TeamInv
BY InitTeam, TeamStep, PTL DEF TeamSpec

(* The types of the rows and executions, and the semaphores: only one who is  *)
(* under way holds a slot or waits for one, and nobody waits while one is     *)
(* free (subagent/scheduler.ts, acquire and drain).                           *)
THEOREM TeamTypeCorrect == TeamSpec => []TeamTypeOK
<1>1. TeamInv => TeamTypeOK
  <2> SUFFICES ASSUME TeamInv PROVE TeamTypeOK
    OBVIOUS
  <2>1. ASSUME NEW t \in Tasks
        PROVE  /\ task[t].state \in {"none", "queued"} \cup Unsafe \cup Finals
               /\ task[t].state # "none" => task[t].member \in Members
               /\ run[t].next \in 1 .. 3 /\ run[t].seen \in MemberState
               /\ run[t].abort \in {"none", "cancelled", "timeout"}
    <3>1. task[t] \in TaskRecords /\ run[t] \in RunRecords /\ TaskOK(t)
      BY DEF TeamInv, RecordsOK
    <3> QED BY <3>1 DEF TaskRecords, RunRecords, TaskOK
  <2>2. ASSUME NEW s \in Semaphores
        PROVE  /\ Cardinality(slots[s].held) <= Limit[s]
               /\ slots[s].line # <<>> => Cardinality(slots[s].held) = Limit[s]
               /\ IsInjective(slots[s].line) /\ ToSet(slots[s].line) \cap slots[s].held = {}
               /\ ToSet(slots[s].line) \cup slots[s].held
                    \subseteq {t \in Tasks : run[t].pc # "none"}
                              \cup {w \in Workers : worker[w].pc # "none"}
    <3>1. Fair(s, slots[s]) /\ slots[s] \in Semaphore
      BY DEF TeamInv, SlotsOK, AllFair
    <3>2. ToSet(slots[s].line) \cup slots[s].held \subseteq Tasks \cup Workers
      BY <3>1 DEF Semaphore, Agents, ToSet
    <3>3. ASSUME NEW t \in Tasks, InLine(t, s) \/ Holds(t, s) PROVE run[t].pc # "none"
      BY <3>3 DEF TeamInv, TaskOK, Placed
    <3>4. ASSUME NEW w \in Workers, InLine(w, s) \/ Holds(w, s) PROVE worker[w].pc # "none"
      BY <3>4 DEF TeamInv, WorkerOK
    <3> QED BY <3>1, <3>2, <3>3, <3>4 DEF Fair, InLine, Holds
  <2>3. member \in [Members -> MemberState]
    BY DEF TeamInv, RecordsOK
  <2> QED BY <2>1, <2>2, <2>3 DEF TeamTypeOK
<1> QED BY <1>1, TeamsCorrect, PTL

(* A member works at one task at a time and a team at no more than its limit  *)
(* (TeamManager.execute, which acquires the slot of the member and then that  *)
(* of the team).                                                              *)
THEOREM MemberSerialCorrect == TeamSpec => []MemberSerial
<1>1. TeamInv => MemberSerial
  <2> SUFFICES ASSUME TeamInv PROVE MemberSerial
    OBVIOUS
  <2>1. \A s \in Semaphores : IsFiniteSet(slots[s].held) /\ Cardinality(slots[s].held) <= Limit[s]
    BY DEF TeamInv, SlotsOK, AllFair, Fair
  <2>2. Cardinality(AtWork) <= TeamLimit
    <3>1. "team" \in Semaphores /\ Limit["team"] = TeamLimit
      BY DEF Semaphores, Limit
    <3>2. AtWork \subseteq slots["team"].held
      BY WorkHeld DEF AtWork, Holds
    <3>3. /\ Cardinality(AtWork) <= Cardinality(slots["team"].held)
          /\ IsFiniteSet(AtWork)
      BY <2>1, <3>1, <3>2, FS_Subset
    <3>4. /\ Cardinality(AtWork) \in Nat /\ Cardinality(slots["team"].held) \in Nat
          /\ TeamLimit \in Nat
      BY <2>1, <3>1, <3>3, FS_CardinalityType, TeamAssumption
    <3> QED BY <2>1, <3>1, <3>3, <3>4
  <2>3. ASSUME NEW t \in AtWork, NEW u \in AtWork, task[t].member = task[u].member
        PROVE  t = u
    <3>1. PICK m : m = task[t].member
      OBVIOUS
    <3>2. t \in Tasks /\ u \in Tasks /\ run[t].pc # "none"
      BY DEF AtWork
    <3>3. m \in Semaphores /\ Limit[m] = 1
      BY <3>1, <3>2, MemberKnown DEF Limit
    <3>4. t \in slots[m].held /\ u \in slots[m].held
      BY <2>3, <3>1, <3>2, WorkHeld DEF Holds
    <3>5. \/ Cardinality(slots[m].held) = 0
          \/ Cardinality(slots[m].held) = 1
      BY <2>1, <3>3, FS_CardinalityType
    <3>6. Cardinality(slots[m].held) = 1
      BY <2>1, <3>3, <3>4, <3>5, FS_EmptySet
    <3>7. PICK x : slots[m].held = {x}
      BY <2>1, <3>3, <3>6, FS_Singleton
    <3> QED BY <3>4, <3>7
  <2> QED BY <2>2, <2>3 DEF MemberSerial
<1> QED BY <1>1, TeamsCorrect, PTL

(* No step changes the state of a task that is final: each looks first, and   *)
(* an execution whose task was cancelled while it waited was aborted.         *)
LEMMA FinalStays ==
    ASSUME TeamInv, [Next]_vars, NEW t \in Tasks, task[t].state \in Finals
    PROVE  task'[t].state = task[t].state
<1>0. task \in [Tasks -> TaskRecords] /\ task[t].state # "none"
      /\ task[t].state \notin {"queued"} \cup Unsafe
  BY DEF TeamInv, RecordsOK, Finals, Unsafe
<1>1. ASSUME NEW u \in Tasks, TaskStep(u) PROVE task'[t].state = task[t].state
  <2>1. CASE \E m \in Members : Delegate(u, m)
    <3>1. u # t
      BY <1>0, <2>1 DEF Delegate
    <3> QED BY <1>0, <2>1, <3>1 DEF Delegate
  <2>2. CASE Begin(u)
    <3>1. run[u].pc = "waiting" /\ run[u].abort = "none"
      BY <2>2 DEF Begin, Begins
    <3>2. u # t
      BY <3>1 DEF TeamInv, TaskOK
    <3> QED BY <1>0, <2>2, <3>2 DEF Begin
  <2>3. CASE RequireApproval(u)
    <3>1. u # t
      BY <2>3 DEF RequireApproval
    <3> QED BY <1>0, <2>3, <3>1 DEF RequireApproval
  <2>4. CASE Finish(u)
    <3>1. CASE Writes(u)
      <4>1. u # t
        BY <3>1 DEF Writes
      <4> QED BY <1>0, <2>4, <3>1, <4>1 DEF Finish
    <3>2. CASE ~Writes(u)
      BY <2>4, <3>2 DEF Finish
    <3> QED BY <3>1, <3>2
  <2>5. CASE Cancel(u)
    <3>1. u # t
      BY <1>0, <2>5 DEF Cancel
    <3> QED BY <1>0, <2>5, <3>1 DEF Cancel, CancelTask
  <2>6. CASE UNCHANGED task
    BY <2>6
  <2> QED BY <1>1, <2>1, <2>2, <2>3, <2>4, <2>5, <2>6
       DEF TaskStep, Ask, Refuse, Prepare, Expire, Return, Look, Leave
<1>2. ASSUME NEW w \in Workers, WorkerStep(w) PROVE task' = task
  BY <1>2 DEF WorkerStep, Start, Admit, ExpireWorker, ReturnWorker, Send, Close, CancelWorker
<1>3. CASE DisableNext
  <2>1. PICK u : u = Head(disabling.todo)
    OBVIOUS
  <2>2. CASE task[u].state \in Finals
    BY <1>3, <2>1, <2>2 DEF DisableNext
  <2>3. CASE task[u].state \notin Finals
    <3>1. u # t
      BY <2>3
    <3>2. CancelTask(u)
      BY <1>3, <2>1, <2>3 DEF DisableNext
    <3> QED BY <1>0, <3>1, <3>2 DEF CancelTask
  <2> QED BY <2>2, <2>3
<1>4. CASE Restart
  BY <1>0, <1>4 DEF Restart
<1>5. CASE \/ \E m \in Members : Disable(m) \/ Enable(m)
           \/ DisableLast \/ Crash \/ UNCHANGED vars
  BY <1>5 DEF Disable, Enable, DisableLast, Crash, vars
<1> QED BY <1>1, <1>2, <1>3, <1>4, <1>5 DEF Next

(* A task that is final stays what it is, and one that began never begins     *)
(* again, also when the process dies (TeamManager.execute and                 *)
(* recoverInterrupted).                                                       *)
THEOREM TasksRunOnceCorrect == TeamSpec => TasksRunOnce
<1>1. TeamInv /\ [Next]_vars =>
        [\A t \in Tasks :
           /\ task[t].state \in Finals => task'[t].state = task[t].state
           /\ task[t].started => ~(run[t].pc = "waiting" /\ run'[t].pc = "preparing")]_vars
  <2> SUFFICES ASSUME TeamInv, [Next]_vars, NEW t \in Tasks
               PROVE  /\ task[t].state \in Finals => task'[t].state = task[t].state
                      /\ task[t].started => ~(run[t].pc = "waiting" /\ run'[t].pc = "preparing")
    OBVIOUS
  <2>1. task[t].state \in Finals => task'[t].state = task[t].state
    BY FinalStays
  <2>2. run[t].pc = "waiting" => ~task[t].started
    BY DEF TeamInv, TaskOK
  <2> QED BY <2>1, <2>2
<1> QED BY <1>1, TeamsCorrect, PTL DEF TeamSpec, TasksRunOnce
=============================================================================
