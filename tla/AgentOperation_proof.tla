------------------------ MODULE AgentOperation_proof ------------------------
(***************************************************************************)
(* What one operation of the agent promises, for any limits, any number of *)
(* tool calls and any deaths of the process: a call that may not be        *)
(* replayed has its effect once at most, no call runs but with a stored    *)
(* intent and a permission of this life, a recovery that says a call did   *)
(* not run is right, the recovery of an operation that was never resumed   *)
(* meets no conflict, and an operation that was completed, cancelled or    *)
(* recovered leaves every tool call with its result.                       *)
(***************************************************************************)
EXTENDS AgentOperation, NumberLemmas, SequenceTheorems

----------------------------------------------------------------------------
(* The writes a step still has to do: entries and leaf moves, and then at     *)
(* most one saved state.  An entry is there when the leaf is moved to it, the *)
(* calls of an answer bear its number, and an entry that tells that a call    *)
(* did not run is only on the way during a recovery, for one that did not.    *)
Appends == [w : {"append"}, id : EntryIds, calls : Seq(CallIds), code : EntryCodes]
Moves   == [w : {"leaf"}, id : EntryIds]
Writes  == Appends \cup Moves \cup [w : {"save"}, st : States]

Owned(id, calls) == \A i \in DOMAIN calls : id[1] = "asst" /\ calls[i][1] = id[2]

Connects(ws, j) ==
  ws[j].w = "leaf" =>
    \/ Has(ws[j].id)
    \/ \E k \in 1 .. j - 1 : ws[k].w = "append" /\ ws[k].id = ws[j].id

Truthful(w) ==
  w.w = "append" =>
    /\ Owned(w.id, w.calls)
    /\ w.code = "before_execution" =>
         proc = "recover" /\ \A c \in DOMAIN effects : w.id # ResId(c)

TodoInv ==
  /\ todo \in Seq(Writes)
  /\ \A j \in 1 .. Len(todo) - 1 : todo[j].w # "save"
  /\ \A j \in DOMAIN todo : Connects(todo, j) /\ Truthful(todo[j])

EntryRecords == [path : Seq(EntryIds), calls : Seq(CallIds), code : EntryCodes]
EntriesInv ==
  /\ DOMAIN entries \subseteq EntryIds /\ entries \in [DOMAIN entries -> EntryRecords]
  /\ \A id \in DOMAIN entries :
       /\ entries[id].path # <<>> /\ entries[id].path[Len(entries[id].path)] = id
       /\ Owned(id, entries[id].calls)
  /\ leaf \in Seq(EntryIds)
  /\ leaf # <<>> => /\ Has(leaf[Len(leaf)])
                    /\ entries[leaf[Len(leaf)]].path = leaf

----------------------------------------------------------------------------
(* The state once the writes are done.                                        *)
Target == IF todo # <<>> /\ todo[Len(todo)].w = "save" THEN todo[Len(todo)].st ELSE state

(* What is stored or about to be, against what was executed: a call that is   *)
(* planned was not, one that may not be replayed once at most, and none of an *)
(* answer that was not yet taken.                                             *)
Recorded(s) ==
  /\ s \in States
  /\ \A i \in DOMAIN s.calls : s.calls[i].id = <<s.rsp, s.attempt, i>>
  /\ \A c \in DOMAIN effects : c[1] < s.rsp \/ (c[1] = s.rsp /\ s.phase # "model_pending")
  /\ \A i \in DOMAIN s.calls :
       /\ s.calls[i].status = "planned" => s.calls[i].id \notin DOMAIN effects
       /\ s.calls[i].replay = "never" => Executions(s.calls[i].id) <= 1

(* While a process lives: what it was permitted, it was permitted in this     *)
(* life, and what it began itself has no effect before it is executed.        *)
Living == {"top", "request", "model", "approval", "executed", "resumed"}
Lived(s, pc, doubts, permits) ==
  \A i \in DOMAIN s.calls :
    /\ s.calls[i].status = "planned" /\ s.calls[i].perm = "allowed"
         => s.calls[i].id \in permits
    /\ s.calls[i].status = "effect_pending" /\ s.calls[i].id \notin doubts
         => /\ s.calls[i].id \in permits
            /\ s.calls[i].id \in DOMAIN effects => pc = "executed" /\ i = s.cur

Placed(s, pc) ==
  /\ pc = "model" => s.phase = "model_pending"
  /\ pc = "approval" => s.phase = "tools" /\ Current(s).status = "planned"
  /\ pc = "executed" => s.phase = "tools" /\ Current(s).status = "effect_pending"

TypesInv ==
  /\ proc \in Living \cup {"done", "down", "recover", "blocked"}
  /\ uncertain \subseteq CallIds /\ granted \subseteq CallIds
  /\ DOMAIN effects \subseteq CallIds /\ effects \in [DOMAIN effects -> Nat \ {0}]
  /\ notes \in Nat

OperationInv ==
  /\ TypesInv /\ EntriesInv /\ TodoInv /\ HonestInterruption
  /\ state = op \/ state = ResetPermissions(op)
  /\ Recorded(op) /\ Recorded(Target)
  /\ proc \in Living => Lived(Target, proc, uncertain, granted) /\ Placed(Target, proc)
  /\ proc \in {"executed", "down"} => todo = <<>>

----------------------------------------------------------------------------
(* The n-th open call is one of the open calls.                               *)
LEMMA OpenTyped ==
    ASSUME NEW s \in States
    PROVE  /\ Cardinality(Unsettled(s)) \in Nat
           /\ \A k \in 1 .. Cardinality(Unsettled(s)) : NthOpen(s, k) \in CallIds
<1> DEFINE S == Unsettled(s)
<1>1. s.calls \in Seq(ToolCallStates)
  BY DEF States
<1>2. Len(s.calls) \in Nat /\ DOMAIN s.calls = 1 .. Len(s.calls)
      /\ \A i \in DOMAIN s.calls : s.calls[i] \in ToolCallStates
  BY <1>1
<1>3. S \in SUBSET (1 .. Len(s.calls))
  BY <1>2 DEF Unsettled
<1> HIDE DEF S
<1>4. Cardinality(S) \in Nat
  <2>1. IsFiniteSet(1 .. Len(s.calls))
    BY <1>2, FS_Interval
  <2>2. IsFiniteSet(S)
    BY <1>3, <2>1, FS_Subset
  <2> QED BY <2>2, FS_CardinalityType
<1>5. ASSUME NEW k \in 1 .. Cardinality(S)
      PROVE  s.calls[CHOOSE i \in S : Cardinality({j \in S : j <= i}) = k].id \in CallIds
  <2>1. \E i \in S : Cardinality({j \in S : j <= i}) = k
    BY <1>2, <1>3, RankExists
  <2>2. (CHOOSE i \in S : Cardinality({j \in S : j <= i}) = k) \in S
    BY <2>1
  <2> QED BY <1>2, <1>3, <2>2 DEF ToolCallStates
<1> QED BY <1>4, <1>5 DEF S, NthOpen

----------------------------------------------------------------------------
(* What a running process writes: entries and leaf moves, none of which says  *)
(* that a call did not run.                                                   *)
Plain(ws) ==
  /\ ws \in Seq(Appends \cup Moves)
  /\ \A j \in DOMAIN ws :
       /\ Connects(ws, j)
       /\ ws[j].w = "append" => /\ Owned(ws[j].id, ws[j].calls)
                                /\ ws[j].code # "before_execution"

LEMMA PlainEmpty == Plain(<<>>)
BY DEF Plain

LEMMA PlainMessage ==
    ASSUME NEW id \in EntryIds, NEW calls \in Seq(CallIds), Owned(id, calls),
           NEW code \in EntryCodes, code # "before_execution"
    PROVE  Plain(Message(id, calls, code))
<1> DEFINE ws == Message(id, calls, code)
<1>1. Entry(id, calls, code) \in Appends /\ Leaf(id) \in Moves
  BY DEF Appends, Moves, Entry, Leaf
<1>2. ws \in Seq(Appends \cup Moves) /\ DOMAIN ws = 1 .. 2
      /\ ws[1] = Entry(id, calls, code) /\ ws[2] = Leaf(id)
  BY <1>1 DEF Message
<1> HIDE DEF ws
<1>3. ws[1].w = "append" /\ ws[1].id = id /\ ws[1].calls = calls /\ ws[1].code = code
      /\ ws[2].w = "leaf" /\ ws[2].id = id
  BY <1>2 DEF Entry, Leaf
<1>4. Connects(ws, 1)
  BY <1>3 DEF Connects
<1>5. Connects(ws, 2)
  <2>1. 1 \in 1 .. 2 - 1
    OBVIOUS
  <2> QED BY <1>3, <2>1 DEF Connects
<1>6. Plain(ws)
  <2>1. \A j \in DOMAIN ws : j = 1 \/ j = 2
    BY <1>2
  <2> QED BY <1>2, <1>3, <1>4, <1>5, <2>1 DEF Plain
<1> QED BY <1>6 DEF ws

LEMMA PlainConcat ==
    ASSUME NEW a, NEW b, Plain(a), Plain(b)
    PROVE  Plain(a \o b)
<1> DEFINE ws == a \o b
           T  == Appends \cup Moves
<1>1. a \in Seq(T) /\ b \in Seq(T)
  BY DEF Plain
<1> HIDE DEF T
<1>2. ws \in Seq(T) /\ Len(ws) = Len(a) + Len(b) /\ Len(a) \in Nat /\ Len(b) \in Nat
      /\ DOMAIN ws = 1 .. Len(ws) /\ DOMAIN a = 1 .. Len(a) /\ DOMAIN b = 1 .. Len(b)
  BY <1>1
<1>3. /\ \A j \in 1 .. Len(a) : ws[j] = a[j]
      /\ \A j \in 1 .. Len(b) : ws[Len(a) + j] = b[j]
  BY <1>1
<1> HIDE DEF ws
<1>4. ASSUME NEW j \in DOMAIN ws, j <= Len(a)
      PROVE  /\ Connects(ws, j)
             /\ ws[j].w = "append" => /\ Owned(ws[j].id, ws[j].calls)
                                      /\ ws[j].code # "before_execution"
  <2>1. j \in DOMAIN a /\ ws[j] = a[j]
    BY <1>2, <1>3, <1>4
  <2>2. \A k \in 1 .. j - 1 : ws[k] = a[k]
    BY <1>2, <1>3, <2>1
  <2>3. Connects(a, j)
    BY <2>1 DEF Plain
  <2>4. Connects(ws, j)
    BY <2>1, <2>2, <2>3 DEF Connects
  <2> QED BY <2>1, <2>4 DEF Plain
<1>5. ASSUME NEW j \in DOMAIN ws, ~(j <= Len(a))
      PROVE  /\ Connects(ws, j)
             /\ ws[j].w = "append" => /\ Owned(ws[j].id, ws[j].calls)
                                      /\ ws[j].code # "before_execution"
  <2> DEFINE i == j - Len(a)
  <2>1. i \in DOMAIN b /\ j = Len(a) + i /\ ws[j] = b[i]
    BY <1>2, <1>3, <1>5
  <2>2. Connects(b, i)
    BY <2>1 DEF Plain
  <2>3. \A k \in 1 .. i - 1 : Len(a) + k \in 1 .. j - 1 /\ ws[Len(a) + k] = b[k]
    BY <1>2, <1>3, <2>1
  <2> HIDE DEF i
  <2>4. Connects(ws, j)
    BY <2>1, <2>2, <2>3 DEF Connects
  <2> QED BY <2>1, <2>4 DEF Plain
<1>6. Plain(ws)
  BY <1>2, <1>4, <1>5 DEF Plain, T
<1> QED BY <1>6 DEF ws

LEMMA PlainResult ==
    ASSUME NEW c \in CallIds, NEW code \in EntryCodes, code # "before_execution"
    PROVE  Plain(Result(c, code))
<1>1. ResId(c) \in EntryIds
  BY DEF ResId, EntryIds, CallIds
<1>2. <<>> \in Seq(CallIds) /\ Owned(ResId(c), <<>>)
  BY DEF Owned
<1> QED BY <1>1, <1>2, PlainMessage DEF Result

LEMMA PlainNote ==
    ASSUME TypesInv
    PROVE  Plain(Note)
<1>1. NoteId(notes) \in EntryIds
  BY DEF NoteId, EntryIds, TypesInv
<1> DEFINE id == NoteId(notes)
           none == <<>>
           code == "none"
<1>2. none \in Seq(CallIds) /\ Owned(id, none)
  BY DEF Owned
<1>3. code \in EntryCodes /\ code # "before_execution" /\ id \in EntryIds
  BY <1>1 DEF EntryCodes
<1>4. Note = Message(id, none, code)
  BY DEF Note
<1> HIDE DEF id, none, code
<1> QED BY <1>2, <1>3, <1>4, PlainMessage

LEMMA PlainAssistant ==
    ASSUME NEW n \in Nat, state.rsp \in Nat, state.attempt \in Nat
    PROVE  Plain(Assistant(NewCalls(n))) /\ Plain(Assistant(<<>>))
<1>1. AsstId(state.rsp) \in EntryIds
  BY DEF AsstId, EntryIds
<1>2. NewCalls(n) \in Seq(CallIds) /\ Owned(AsstId(state.rsp), NewCalls(n))
  BY DEF NewCalls, Owned, AsstId, CallIds
<1> DEFINE id == AsstId(state.rsp)
           calls == NewCalls(n)
           none == <<>>
           code == "none"
<1>3. none \in Seq(CallIds) /\ Owned(id, none)
  BY DEF Owned
<1>4. code \in EntryCodes /\ code # "before_execution" /\ id \in EntryIds
      /\ calls \in Seq(CallIds) /\ Owned(id, calls)
  BY <1>1, <1>2 DEF EntryCodes
<1>5. Assistant(calls) = Message(id, calls, code) /\ Assistant(<<>>) = Message(id, none, code)
  BY DEF Assistant
<1> HIDE DEF id, none, code, calls
<1>6. Plain(Assistant(calls)) /\ Plain(Assistant(<<>>))
  BY <1>3, <1>4, <1>5, PlainMessage
<1> QED BY <1>6 DEF calls

LEMMA PlainInterrupted ==
    ASSUME NEW s \in States
    PROVE  Plain(Interrupted(s))
<1>1. CASE s.phase # "tools"
  BY <1>1, PlainEmpty DEF Interrupted
<1>2. CASE s.phase = "tools"
  <2> DEFINE N  == Cardinality(Unsettled(s))
             ws == Interrupted(s)
             Id(n) == ResId(NthOpen(s, (n + 1) \div 2))
  <2>1. N \in Nat
    BY OpenTyped
  <2>2. ws = [n \in 1 .. 2 * N |-> IF n % 2 = 1 THEN Entry(Id(n), <<>>, "cancelled")
                                                ELSE Leaf(Id(n))]
    BY <1>2 DEF Interrupted
  <2>3. ASSUME NEW n \in 1 .. 2 * N PROVE Id(n) \in EntryIds
    <3>1. (n + 1) \div 2 \in 1 .. N
      BY <2>1
    <3>2. NthOpen(s, (n + 1) \div 2) \in CallIds
      BY <3>1, OpenTyped
    <3> QED BY <3>2 DEF ResId, EntryIds, CallIds
  <2>4. ASSUME NEW n \in 1 .. 2 * N, n % 2 # 1
        PROVE  n - 1 \in 1 .. n - 1 /\ (n - 1) % 2 = 1 /\ Id(n - 1) = Id(n)
    <3>1. n - 1 \in 1 .. n - 1 /\ (n - 1) % 2 = 1 /\ (n - 1 + 1) \div 2 = (n + 1) \div 2
      BY <2>1, <2>4
    <3> QED BY <3>1
  <2> HIDE DEF Id, ws, N
  <2>5. DOMAIN ws = 1 .. 2 * N
    BY <2>2
  <2>6. ASSUME NEW n \in 1 .. 2 * N, n % 2 = 1
        PROVE  /\ ws[n] = Entry(Id(n), <<>>, "cancelled") /\ ws[n] \in Appends
               /\ ws[n].w = "append" /\ ws[n].id = Id(n)
               /\ ws[n].code = "cancelled" /\ Owned(ws[n].id, ws[n].calls)
    <3>1. ws[n] = Entry(Id(n), <<>>, "cancelled")
      BY <2>2, <2>6
    <3>2. <<>> \in Seq(CallIds) /\ "cancelled" \in EntryCodes
      BY DEF EntryCodes
    <3>3. ws[n].w = "append" /\ ws[n].id = Id(n) /\ ws[n].code = "cancelled"
          /\ ws[n].calls = <<>>
      BY <3>1 DEF Entry
    <3>4. Owned(ws[n].id, ws[n].calls)
      BY <3>3 DEF Owned
    <3>5. ws[n] \in Appends
      BY <2>3, <3>1, <3>2 DEF Entry, Appends
    <3> QED BY <3>1, <3>3, <3>4, <3>5
  <2>7. ASSUME NEW n \in 1 .. 2 * N, n % 2 # 1
        PROVE  ws[n] \in Moves /\ ws[n].w = "leaf" /\ ws[n].id = Id(n)
    BY <2>2, <2>3, <2>7 DEF Leaf, Moves
  <2>8. ws \in Seq(Appends \cup Moves)
    <3>1. \A n \in 1 .. 2 * N : ws[n] \in Appends \cup Moves
      BY <2>6, <2>7
    <3>2. 2 * N \in Nat
      BY <2>1
    <3>3. ws = [n \in 1 .. 2 * N |-> ws[n]]
      BY <2>2
    <3> QED BY <3>1, <3>2, <3>3, IsASeq
  <2>9. ASSUME NEW n \in 1 .. 2 * N PROVE Connects(ws, n)
    <3>1. CASE n % 2 = 1
      BY <3>1, <2>6 DEF Connects
    <3>2. CASE n % 2 # 1
      <4>1. n - 1 \in 1 .. n - 1 /\ (n - 1) % 2 = 1 /\ Id(n - 1) = Id(n)
        BY <2>4, <3>2
      <4>2. n - 1 \in 1 .. 2 * N
        BY <2>1, <4>1
      <4>3. ws[n - 1].w = "append" /\ ws[n - 1].id = ws[n].id
        BY <2>6, <2>7, <3>2, <4>1, <4>2
      <4> QED BY <4>1, <4>3 DEF Connects
    <3> QED BY <3>1, <3>2
  <2>10. \A n \in 1 .. 2 * N :
           ws[n].w = "append" => Owned(ws[n].id, ws[n].calls)
                                 /\ ws[n].code # "before_execution"
    BY <2>6, <2>7
  <2>11. Plain(ws)
    BY <2>5, <2>8, <2>9, <2>10 DEF Plain
  <2> QED BY <2>11 DEF ws
<1> QED BY <1>1, <1>2

----------------------------------------------------------------------------
(* A step that gives the process its next writes, without or with a state to  *)
(* be saved.                                                                  *)
Begins(ws, pc) ==
  todo' = ws /\ proc' = pc /\ UNCHANGED <<op, leaf, entries, state, effects, notes>>
Between == uncertain' \subseteq CallIds /\ granted' \subseteq CallIds

LEMMA PlainTodo ==
    ASSUME NEW a, Plain(a), NEW j \in DOMAIN a,
           UNCHANGED <<entries, effects>>
    PROVE  /\ a[j] \in Writes /\ a[j].w # "save"
           /\ Connects(a, j)' /\ Truthful(a[j])'
<1>1. a[j] \in Appends \cup Moves
  BY DEF Plain
<1>2. a[j] \in Writes /\ a[j].w # "save"
  BY <1>1 DEF Writes, Appends, Moves
<1>3. Connects(a, j)'
  BY DEF Plain, Connects, Has
<1>4. Truthful(a[j])'
  BY DEF Plain, Truthful, Owned
<1> QED BY <1>2, <1>3, <1>4

LEMMA Unchanged ==
    ASSUME OperationInv, UNCHANGED <<op, leaf, entries, state, effects, notes>>, Between,
           proc' \in Living \cup {"done", "down", "recover", "blocked"}
    PROVE  /\ TypesInv' /\ EntriesInv' /\ HonestInterruption'
           /\ (state = op \/ state = ResetPermissions(op))'
           /\ Recorded(op)'
<1>1. TypesInv'
  BY DEF OperationInv, TypesInv, Between
<1>2. EntriesInv'
  BY DEF OperationInv, EntriesInv, EntryRecords, Owned, Has
<1>3. HonestInterruption'
  BY DEF OperationInv, HonestInterruption, Has
<1>4. (state = op \/ state = ResetPermissions(op))'
  BY DEF OperationInv, ResetPermissions
<1>5. Recorded(op)'
  BY DEF OperationInv, Recorded, Executions
<1> QED BY <1>1, <1>2, <1>3, <1>4, <1>5

LEMMA Goes ==
    ASSUME OperationInv, NEW a, NEW pc, Plain(a), Begins(a, pc), Between,
           pc \in Living \cup {"recover", "blocked"}, pc # "executed",
           Recorded(state),
           pc \in Living => Lived(state, pc, uncertain', granted') /\ Placed(state, pc)
    PROVE  OperationInv'
<1>1. a \in Seq(Appends \cup Moves)
  BY DEF Plain
<1>2. Len(a) \in Nat /\ DOMAIN a = 1 .. Len(a)
  BY <1>1
<1>3. \A j \in DOMAIN a : /\ a[j] \in Writes /\ a[j].w # "save"
                          /\ Connects(a, j)' /\ Truthful(a[j])'
  <2>1. UNCHANGED <<entries, effects>>
    BY DEF Begins
  <2> QED BY <2>1, PlainTodo
<1>4. todo' = a /\ proc' = pc /\ state' = state /\ effects' = effects
  BY DEF Begins
<1>5. a \in Seq(Writes)
  BY <1>1 DEF Writes
<1>6. TodoInv'
  BY <1>2, <1>3, <1>4, <1>5 DEF TodoInv
<1>7. Target' = state
  <2>1. a # <<>> => Len(a) \in DOMAIN a
    BY <1>1, <1>2
  <2> QED BY <1>3, <1>4, <2>1 DEF Target
<1>8. Recorded(Target)'
  BY <1>4, <1>7 DEF Recorded, Executions
<1>9. (proc \in Living => Lived(Target, proc, uncertain, granted) /\ Placed(Target, proc))'
  BY <1>4, <1>7 DEF Lived, Placed, Current
<1>10. (proc \in {"executed", "down"} => todo = <<>>)'
  BY <1>4 DEF Living
<1>11. /\ TypesInv' /\ EntriesInv' /\ HonestInterruption'
       /\ (state = op \/ state = ResetPermissions(op))' /\ Recorded(op)'
  <2>1. proc' \in Living \cup {"done", "down", "recover", "blocked"}
    BY <1>4
  <2>2. UNCHANGED <<op, leaf, entries, state, effects, notes>>
    BY DEF Begins
  <2> QED BY <2>1, <2>2, Unchanged
<1> QED BY <1>6, <1>8, <1>9, <1>10, <1>11 DEF OperationInv

LEMMA Saves ==
    ASSUME OperationInv, NEW a, NEW st, NEW pc, Plain(a), Begins(a \o <<Save(st)>>, pc),
           Between, pc \in {"top", "request", "model", "approval", "done"},
           Recorded(st),
           pc # "done" => Lived(st, pc, uncertain', granted') /\ Placed(st, pc)
    PROVE  OperationInv'
<1> DEFINE ws == a \o <<Save(st)>>
<1>1. a \in Seq(Appends \cup Moves)
  BY DEF Plain
<1>2. Save(st) \in Writes /\ Save(st).w = "save" /\ Save(st).st = st
  BY DEF Writes, Save, Recorded
<1>3. a \in Seq(Writes)
  BY <1>1 DEF Writes
<1>4. /\ ws \in Seq(Writes) /\ Len(ws) = Len(a) + 1 /\ Len(a) \in Nat
      /\ DOMAIN ws = 1 .. Len(ws) /\ DOMAIN a = 1 .. Len(a)
      /\ ws[Len(ws)] = Save(st) /\ ws # <<>>
      /\ \A j \in 1 .. Len(a) : ws[j] = a[j]
  BY <1>2, <1>3
<1>5. todo' = ws /\ proc' = pc /\ state' = state /\ effects' = effects
  BY DEF Begins
<1> HIDE DEF ws
<1>6. \A j \in DOMAIN a : /\ a[j] \in Writes /\ a[j].w # "save"
                          /\ Connects(a, j)' /\ Truthful(a[j])'
  <2>1. UNCHANGED <<entries, effects>>
    BY DEF Begins
  <2> QED BY <2>1, PlainTodo
<1>7. ASSUME NEW j \in DOMAIN ws
      PROVE  Connects(ws, j)' /\ Truthful(ws[j])' /\ (j \in 1 .. Len(ws) - 1 => ws[j].w # "save")
  <2>1. CASE j \in 1 .. Len(a)
    <3>1. \A k \in 1 .. j - 1 : ws[k] = a[k]
      BY <1>4, <2>1
    <3>2. ws[j] = a[j] /\ Connects(a, j)' /\ Truthful(a[j])' /\ a[j].w # "save"
      BY <1>4, <1>6, <2>1
    <3>3. Connects(ws, j)'
      BY <3>1, <3>2 DEF Connects
    <3> QED BY <3>2, <3>3
  <2>2. CASE j \notin 1 .. Len(a)
    <3>1. j = Len(ws) /\ ws[j].w = "save"
      BY <1>2, <1>4, <2>2
    <3>2. Connects(ws, j)' /\ Truthful(ws[j])'
      BY <3>1 DEF Connects, Truthful
    <3> QED BY <1>4, <3>1, <3>2
  <2> QED BY <2>1, <2>2
<1>8. TodoInv'
  <2>1. \A j \in 1 .. Len(ws) - 1 : j \in DOMAIN ws
    BY <1>4
  <2> QED BY <1>4, <1>5, <1>7, <2>1 DEF TodoInv
<1>9. Target' = st
  BY <1>2, <1>4, <1>5 DEF Target
<1>10. Recorded(Target)'
  BY <1>5, <1>9 DEF Recorded, Executions
<1>11. (proc \in Living => Lived(Target, proc, uncertain, granted) /\ Placed(Target, proc))'
  BY <1>5, <1>9 DEF Lived, Placed, Current, Living
<1>12. (proc \in {"executed", "down"} => todo = <<>>)'
  BY <1>5
<1>13. /\ TypesInv' /\ EntriesInv' /\ HonestInterruption'
       /\ (state = op \/ state = ResetPermissions(op))' /\ Recorded(op)'
  <2>1. proc' \in Living \cup {"done", "down", "recover", "blocked"}
    BY <1>5 DEF Living
  <2>2. UNCHANGED <<op, leaf, entries, state, effects, notes>>
    BY DEF Begins
  <2> QED BY <2>1, <2>2, Unchanged
<1> QED BY <1>8, <1>10, <1>11, <1>12, <1>13 DEF OperationInv

LEMMA SavesOnly ==
    ASSUME OperationInv, NEW st, NEW pc, Begins(<<Save(st)>>, pc),
           Between, pc \in {"top", "request", "model", "approval", "done"},
           Recorded(st),
           pc # "done" => Lived(st, pc, uncertain', granted') /\ Placed(st, pc)
    PROVE  OperationInv'
<1> DEFINE a == <<>>
<1>1. <<Save(st)>> = a \o <<Save(st)>>
  <2>1. <<Save(st)>> \in Seq({Save(st)})
    OBVIOUS
  <2> QED BY <2>1
<1>2. Plain(a)
  BY PlainEmpty
<1> HIDE DEF a
<1>3. Begins(a \o <<Save(st)>>, pc)
  BY <1>1
<1> QED BY <1>2, <1>3, Saves

LEMMA Here ==
    ASSUME OperationInv, todo = <<>>
    PROVE  /\ Recorded(state)
           /\ proc \in Living => Lived(state, proc, uncertain, granted) /\ Placed(state, proc)
<1>1. Target = state
  BY DEF Target
<1> QED BY <1>1 DEF OperationInv

----------------------------------------------------------------------------
(* The reducer's transitions keep the record: those that keep the calls or    *)
(* drop them, those of one call, and the two that number new answers.         *)
LEMMA StateFields ==
    ASSUME NEW s \in States
    PROVE  /\ s.phase \in Phases /\ s.iter \in Nat
           /\ s.conts \in 0 .. MAX_OUTPUT_CONTINUATIONS
           /\ s.limit \in IterationLimit .. RunLimit /\ s.rsp \in Nat /\ s.attempt \in Nat
           /\ s.final \in BOOLEAN /\ s.calls \in Seq(ToolCallStates)
           /\ s.cur \in Nat \ {0} /\ s.code \in ErrorCodes
           /\ s.phase = "tools" => s.cur \in DOMAIN s.calls
           /\ Len(s.calls) \in Nat /\ DOMAIN s.calls = 1 .. Len(s.calls)
           /\ \A i \in DOMAIN s.calls : s.calls[i] \in ToolCallStates
<1>1. s.calls \in Seq(ToolCallStates)
  BY DEF States
<1>2. Len(s.calls) \in Nat /\ DOMAIN s.calls = 1 .. Len(s.calls)
      /\ \A i \in DOMAIN s.calls : s.calls[i] \in ToolCallStates
  BY <1>1
<1> QED BY <1>1, <1>2 DEF States

LEMMA Carried ==
    ASSUME NEW s, Recorded(s), NEW t \in States, t.rsp = s.rsp, t.attempt = s.attempt,
           t.calls = s.calls \/ t.calls = <<>>, t.phase # "model_pending"
    PROVE  Recorded(t)
BY DEF Recorded

LEMMA CarriedLived ==
    ASSUME NEW s, NEW t, NEW pc, NEW pc2, NEW d, NEW d2, NEW g, NEW g2,
           Lived(s, pc, d, g), t.calls = s.calls \/ t.calls = <<>>,
           pc # "executed", d \subseteq d2, g \subseteq g2
    PROVE  Lived(t, pc2, d2, g2)
BY DEF Lived

LEMMA ReadyRecorded ==
    ASSUME effects = << >>
    PROVE  Recorded(ReadyState)
<1>1. ReadyState \in States
  <2>1. <<>> \in Seq(ToolCallStates)
    OBVIOUS
  <2> QED BY <2>1, LimitsAssumption
          DEF ReadyState, States, Phases, ErrorCodes, MAX_OUTPUT_CONTINUATIONS
<1> QED BY <1>1 DEF Recorded, ReadyState

LEMMA EndRecorded ==
    ASSUME NEW s, Recorded(s)
    PROVE  /\ Recorded(Completed(s)) /\ Recorded(Aborted(s))
           /\ \A code \in ErrorCodes : Recorded(Failed(s, code))
<1>1. s \in States
  BY DEF Recorded
<1>2. Completed(s) \in States /\ Aborted(s) \in States
      /\ \A code \in ErrorCodes : Failed(s, code) \in States
  BY <1>1 DEF States, Completed, Aborted, Failed, Phases
<1>3. Recorded(Completed(s))
  <2> DEFINE t == Completed(s)
  <2>1. t.rsp = s.rsp /\ t.attempt = s.attempt /\ t.calls = s.calls /\ t.phase = "completed"
    BY <1>1 DEF Completed, States
  <2> HIDE DEF t
  <2> QED BY <1>2, <2>1, Carried DEF t
<1>4. Recorded(Aborted(s))
  <2> DEFINE t == Aborted(s)
  <2>1. t.rsp = s.rsp /\ t.attempt = s.attempt /\ t.calls = s.calls /\ t.phase = "aborted"
    BY <1>1 DEF Aborted, States
  <2> HIDE DEF t
  <2> QED BY <1>2, <2>1, Carried DEF t
<1>5. ASSUME NEW code \in ErrorCodes PROVE Recorded(Failed(s, code))
  <2> DEFINE t == Failed(s, code)
  <2>1. t.rsp = s.rsp /\ t.attempt = s.attempt /\ t.calls = s.calls /\ t.phase = "failed"
    BY <1>1 DEF Failed, States
  <2> HIDE DEF t
  <2> QED BY <1>2, <2>1, Carried DEF t
<1> QED BY <1>3, <1>4, <1>5

LEMMA LimitRecorded ==
    ASSUME NEW s, Recorded(s), s.phase \in {"ready", "checkpoint"}, s.limit < RunLimit
    PROVE  Recorded(ExtendLimit(s)) /\ ExtendLimit(s).calls = s.calls
<1> DEFINE t == ExtendLimit(s)
<1>1. s \in States
  BY DEF Recorded
<1>2. t \in States
  <2>1. s.limit + 1 \in IterationLimit .. RunLimit
    BY <1>1, StateFields, LimitsAssumption
  <2> QED BY <1>1, <2>1 DEF States, ExtendLimit
<1>3. t.rsp = s.rsp /\ t.attempt = s.attempt /\ t.calls = s.calls
      /\ t.phase # "model_pending"
  BY <1>1 DEF ExtendLimit, States
<1> HIDE DEF t
<1>4. Recorded(t)
  BY <1>2, <1>3, Carried
<1> QED BY <1>3, <1>4 DEF t

LEMMA FinalRecorded ==
    ASSUME NEW s, Recorded(s)
    PROVE  /\ Recorded(EnterFinalResponse(s)) /\ EnterFinalResponse(s).calls = <<>>
           /\ Recorded(EnterFinalResponseAfterModel(s))
           /\ EnterFinalResponseAfterModel(s).calls = s.calls
<1>1. s \in States
  BY DEF Recorded
<1>2. /\ Recorded(EnterFinalResponse(s)) /\ EnterFinalResponse(s).calls = <<>>
  <2> DEFINE t == EnterFinalResponse(s)
  <2>1. t.rsp = s.rsp /\ t.attempt = s.attempt /\ t.calls = <<>> /\ t.phase = "final_response"
    BY <1>1 DEF EnterFinalResponse, States
  <2>2. t \in States
    <3>1. <<>> \in Seq(ToolCallStates) /\ 1 \in Nat \ {0} /\ "final_response" \in Phases
      BY DEF Phases
    <3>2. t = [s EXCEPT !.phase = "final_response", !.calls = <<>>, !.cur = 1]
      BY DEF EnterFinalResponse
    <3> HIDE DEF t
    <3> QED BY <1>1, <2>1, <3>1, <3>2 DEF States
  <2> HIDE DEF t
  <2>3. Recorded(t)
    BY <2>1, <2>2, Carried
  <2> QED BY <2>1, <2>3 DEF t
<1>3. /\ Recorded(EnterFinalResponseAfterModel(s))
      /\ EnterFinalResponseAfterModel(s).calls = s.calls
  <2> DEFINE t == EnterFinalResponseAfterModel(s)
  <2>1. t.rsp = s.rsp /\ t.attempt = s.attempt /\ t.calls = s.calls
        /\ t.phase = "final_response"
    BY <1>1 DEF EnterFinalResponseAfterModel, States
  <2>2. t \in States
    <3>1. s.iter + 1 \in Nat /\ 0 \in 0 .. MAX_OUTPUT_CONTINUATIONS
          /\ "final_response" \in Phases
      BY <1>1, StateFields DEF Phases, MAX_OUTPUT_CONTINUATIONS
    <3>2. t = [s EXCEPT !.phase = "final_response", !.iter = s.iter + 1, !.conts = 0]
      BY DEF EnterFinalResponseAfterModel
    <3> HIDE DEF t
    <3> QED BY <1>1, <2>1, <3>1, <3>2 DEF States
  <2> HIDE DEF t
  <2>3. Recorded(t)
    BY <2>1, <2>2, Carried
  <2> QED BY <2>1, <2>3 DEF t
<1> QED BY <1>2, <1>3

LEMMA ContinueRecorded ==
    ASSUME NEW s, Recorded(s), s.conts < MAX_OUTPUT_CONTINUATIONS, NEW final \in BOOLEAN
    PROVE  Recorded(ContinueOutput(s, final)) /\ ContinueOutput(s, final).calls = s.calls
<1> DEFINE t == ContinueOutput(s, final)
<1>1. s \in States
  BY DEF Recorded
<1>2. t.rsp = s.rsp /\ t.attempt = s.attempt /\ t.calls = s.calls
      /\ t.phase # "model_pending"
  BY <1>1 DEF ContinueOutput, States
<1>3. t \in States
  <2>1. s.conts + 1 \in 0 .. MAX_OUTPUT_CONTINUATIONS /\ s.iter + 1 \in Nat
    BY <1>1, StateFields DEF MAX_OUTPUT_CONTINUATIONS
  <2> QED BY <1>1, <2>1 DEF States, ContinueOutput, Phases
<1> HIDE DEF t
<1>4. Recorded(t)
  BY <1>2, <1>3, Carried
<1> QED BY <1>2, <1>4 DEF t

LEMMA AdvanceRecorded ==
    ASSUME NEW s, Recorded(s), s.phase = "tools"
    PROVE  /\ Recorded(AdvanceTool(s))
           /\ AdvanceTool(s).calls = s.calls \/ AdvanceTool(s).calls = <<>>
<1> DEFINE t == AdvanceTool(s)
<1>1. s \in States
  BY DEF Recorded
<1>2. t.rsp = s.rsp /\ t.attempt = s.attempt /\ (t.calls = s.calls \/ t.calls = <<>>)
      /\ t.phase # "model_pending"
  BY <1>1 DEF AdvanceTool, States
<1>3. t \in States
  <2>1. CASE s.cur < Len(s.calls)
    <3>1. s.cur + 1 \in Nat \ {0} /\ s.cur + 1 \in DOMAIN s.calls
      BY <1>1, <2>1, StateFields
    <3> QED BY <1>1, <2>1, <3>1 DEF States, AdvanceTool
  <2>2. CASE ~(s.cur < Len(s.calls))
    <3>1. <<>> \in Seq(ToolCallStates) /\ s.iter + 1 \in Nat /\ 1 \in Nat \ {0}
          /\ 0 \in 0 .. MAX_OUTPUT_CONTINUATIONS /\ "checkpoint" \in Phases
      BY <1>1, StateFields DEF Phases, MAX_OUTPUT_CONTINUATIONS
    <3>2. t = [s EXCEPT !.phase = "checkpoint", !.iter = s.iter + 1, !.conts = 0,
                        !.calls = <<>>, !.cur = 1]
      BY <2>2 DEF AdvanceTool
    <3>3. t.phase = "checkpoint"
      BY <1>1, <3>2 DEF States
    <3> HIDE DEF t
    <3> QED BY <1>1, <3>1, <3>2, <3>3 DEF States
  <2> QED BY <2>1, <2>2
<1> HIDE DEF t
<1>4. Recorded(t)
  BY <1>2, <1>3, Carried
<1> QED BY <1>2, <1>4 DEF t

LEMMA RequestRecorded ==
    ASSUME NEW s, Recorded(s), DOMAIN effects \subseteq CallIds
    PROVE  /\ Recorded(BeginModelRequest(s)) /\ BeginModelRequest(s).calls = <<>>
           /\ BeginModelRequest(s).phase = "model_pending"
<1> DEFINE t == BeginModelRequest(s)
<1>1. s \in States
  BY DEF Recorded
<1>2. t.calls = <<>> /\ t.phase = "model_pending"
      /\ t.rsp = IF s.phase = "model_pending" THEN s.rsp ELSE s.rsp + 1
  BY <1>1 DEF BeginModelRequest, States
<1>3. t \in States
  <2> DEFINE p == s.phase = "model_pending"
             f == IF p THEN s.final ELSE s.phase = "final_response"
             r == IF p THEN s.rsp ELSE s.rsp + 1
             a == IF p THEN s.attempt + 1 ELSE 1
  <2>1. <<>> \in Seq(ToolCallStates) /\ 1 \in Nat \ {0} /\ "model_pending" \in Phases
        /\ r \in Nat /\ a \in Nat
    BY <1>1, StateFields DEF Phases
  <2>2. f \in BOOLEAN
    BY <1>1, StateFields
  <2>3. t = [s EXCEPT !.phase = "model_pending", !.final = f, !.rsp = r, !.attempt = a,
                      !.calls = <<>>, !.cur = 1]
    BY <1>1 DEF BeginModelRequest, States
  <2> HIDE DEF t, f, r, a, p
  <2> QED BY <1>1, <1>2, <2>1, <2>2, <2>3 DEF States
<1>4. ASSUME NEW c \in DOMAIN effects PROVE c[1] < t.rsp
  <2>1. c[1] \in Nat /\ s.rsp \in Nat
    BY <1>1, StateFields DEF CallIds
  <2>2. c[1] < s.rsp \/ (c[1] = s.rsp /\ s.phase # "model_pending")
    BY DEF Recorded
  <2> QED BY <1>2, <2>1, <2>2
<1> HIDE DEF t
<1>5. Recorded(t)
  <2>1. \A i \in DOMAIN t.calls : FALSE
    BY <1>2
  <2> QED BY <1>3, <1>4, <2>1 DEF Recorded
<1> QED BY <1>2, <1>5 DEF t

LEMMA PlanRecorded ==
    ASSUME NEW s, Recorded(s), s.phase = "model_pending", NEW n \in Nat \ {0},
           NEW replay \in [1 .. n -> {"safe", "never"}], NEW ids,
           ids = [i \in 1 .. n |-> <<s.rsp, s.attempt, i>>],
           NEW pc, NEW d, NEW g
    PROVE  /\ Recorded(PlanToolCalls(s, ids, replay))
           /\ Lived(PlanToolCalls(s, ids, replay), pc, d, g)
<1> DEFINE t  == PlanToolCalls(s, ids, replay)
           cs == [i \in 1 .. n |-> [id |-> ids[i], replay |-> replay[i],
                                    perm |-> "pending", status |-> "planned"]]
<1>1. s \in States /\ s.rsp \in Nat /\ s.attempt \in Nat
  BY StateFields DEF Recorded
<1>2. cs \in Seq(ToolCallStates) /\ DOMAIN cs = 1 .. n
  <2>1. \A i \in 1 .. n : ids[i] \in CallIds /\ replay[i] \in {"safe", "never"}
    BY <1>1 DEF CallIds
  <2>2. \A i \in 1 .. n : cs[i] \in ToolCallStates
    BY <2>1 DEF ToolCallStates
  <2>3. n \in Nat
    OBVIOUS
  <2> QED BY <2>2, <2>3
<1>3. \A i \in 1 .. n : cs[i].id = <<s.rsp, s.attempt, i>> /\ cs[i].status = "planned"
                        /\ cs[i].perm = "pending" /\ cs[i].id[1] = s.rsp
  OBVIOUS
<1>4. t = [s EXCEPT !.phase = "tools", !.cur = 1, !.calls = cs]
  BY DEF PlanToolCalls
<1> HIDE DEF t, cs
<1>5. t.calls = cs /\ t.rsp = s.rsp /\ t.attempt = s.attempt /\ t.cur = 1
      /\ t.phase = "tools"
  BY <1>1, <1>4 DEF States
<1>6. t \in States
  <2>1. 1 \in Nat \ {0} /\ "tools" \in Phases /\ 1 \in DOMAIN cs
    BY <1>2 DEF Phases
  <2> QED BY <1>1, <1>2, <1>4, <1>5, <2>1 DEF States
<1>7. \A c \in DOMAIN effects : c[1] < s.rsp
  BY DEF Recorded
<1>8. \A i \in DOMAIN cs : cs[i].id \notin DOMAIN effects /\ Executions(cs[i].id) = 0
  <2>1. ~(s.rsp < s.rsp)
    BY <1>1
  <2> QED BY <1>2, <1>3, <1>7, <2>1 DEF Executions
<1>9. Recorded(t)
  BY <1>2, <1>3, <1>5, <1>6, <1>7, <1>8 DEF Recorded
<1>10. Lived(t, pc, d, g)
  BY <1>2, <1>3, <1>5 DEF Lived
<1> QED BY <1>9, <1>10 DEF t

Others(s, t) ==
  /\ t.rsp = s.rsp /\ t.attempt = s.attempt /\ t.cur = s.cur /\ t.phase = s.phase
  /\ DOMAIN t.calls = DOMAIN s.calls /\ s.cur \in DOMAIN s.calls
  /\ \A i \in DOMAIN s.calls : i # s.cur => t.calls[i] = s.calls[i]

LEMMA SetFields ==
    ASSUME NEW s \in States, s.phase = "tools",
           NEW perm \in {"pending", "allowed", "denied"},
           NEW status \in {"planned", "effect_pending", "completed"}
    PROVE  LET t == SetCurrent(s, perm, status)
           IN  /\ t \in States /\ Others(s, t)
               /\ Current(t).id = Current(s).id /\ Current(t).replay = Current(s).replay
               /\ Current(t).perm = perm /\ Current(t).status = status
<1> DEFINE t == SetCurrent(s, perm, status)
           u == [s.calls[s.cur] EXCEPT !.perm = perm, !.status = status]
           cs == [s.calls EXCEPT ![s.cur] = u]
<1>1. s.cur \in DOMAIN s.calls /\ s.calls[s.cur] \in ToolCallStates
      /\ s.calls \in Seq(ToolCallStates)
  BY StateFields
<1>2. u \in ToolCallStates /\ u.id = s.calls[s.cur].id /\ u.replay = s.calls[s.cur].replay
      /\ u.perm = perm /\ u.status = status
  BY <1>1 DEF ToolCallStates
<1> HIDE DEF u
<1>3. /\ cs \in Seq(ToolCallStates) /\ DOMAIN cs = DOMAIN s.calls /\ cs[s.cur] = u
      /\ \A i \in DOMAIN s.calls : i # s.cur => cs[i] = s.calls[i]
  BY <1>1, <1>2
<1>4. t = [s EXCEPT !.calls = cs]
  <2>1. s = [phase |-> s.phase, iter |-> s.iter, conts |-> s.conts, limit |-> s.limit,
             rsp |-> s.rsp, attempt |-> s.attempt, final |-> s.final, calls |-> s.calls,
             cur |-> s.cur, code |-> s.code]
    BY DEF States
  <2> QED BY <1>1, <2>1 DEF SetCurrent, u, States, ToolCallStates
<1> HIDE DEF cs, t
<1>5. t.calls = cs /\ t.rsp = s.rsp /\ t.attempt = s.attempt /\ t.cur = s.cur
      /\ t.phase = s.phase
  BY <1>4 DEF States
<1>6. t \in States
  BY <1>1, <1>3, <1>4, <1>5 DEF States
<1>7. Others(s, t)
  BY <1>1, <1>3, <1>5 DEF Others
<1> QED BY <1>2, <1>3, <1>5, <1>6, <1>7 DEF t, Current

(* What the new permission and status of the current call have to respect.    *)
Fate(s, perm, status, permits) ==
  /\ perm \in {"pending", "allowed", "denied"}
  /\ status \in {"planned", "effect_pending", "completed"}
  /\ status = "planned" => Current(s).status = "planned"
  /\ status = "planned" /\ perm = "allowed" => Current(s).id \in permits
  /\ status = "effect_pending" =>
       Current(s).id \in permits /\ Current(s).id \notin DOMAIN effects

Doubted(s, doubts, after) == doubts \ {Current(s).id} \subseteq after
Granted(permits, after) == permits \subseteq after

LEMMA SetRecorded ==
    ASSUME NEW s, Recorded(s), s.phase = "tools",
           NEW perm, NEW status, NEW pc, NEW d, NEW g, Lived(s, pc, d, g),
           NEW pc2, NEW d2, NEW g2, Fate(s, perm, status, g2),
           Doubted(s, d, d2) /\ Granted(g, g2)
    PROVE  /\ Recorded(SetCurrent(s, perm, status))
           /\ Lived(SetCurrent(s, perm, status), pc2, d2, g2)
           /\ SetCurrent(s, perm, status).phase = "tools"
           /\ Current(SetCurrent(s, perm, status)).status = status
<1> USE DEF Fate, Doubted, Granted
<1> DEFINE t == SetCurrent(s, perm, status)
<1>1. s \in States
  BY DEF Recorded
<1>2. /\ t \in States /\ Others(s, t)
      /\ Current(t).id = Current(s).id /\ Current(t).replay = Current(s).replay
      /\ Current(t).perm = perm /\ Current(t).status = status
  BY <1>1, SetFields
<1> HIDE DEF t
<1>3. \A i \in DOMAIN s.calls : s.calls[i].id = <<s.rsp, s.attempt, i>>
  BY DEF Recorded
<1>4. \A i \in DOMAIN s.calls : t.calls[i].id = s.calls[i].id
                                /\ t.calls[i].replay = s.calls[i].replay
  BY <1>2 DEF Others, Current
<1>5. \A i \in DOMAIN s.calls : i # s.cur => s.calls[i].id # s.calls[s.cur].id
  BY <1>2, <1>3 DEF Others
<1>6. Recorded(t)
  <2>1. \A c \in DOMAIN effects : c[1] < t.rsp \/ (c[1] = t.rsp /\ t.phase # "model_pending")
    BY <1>2 DEF Others, Recorded
  <2>2. \A i \in DOMAIN t.calls : t.calls[i].id = <<t.rsp, t.attempt, i>>
    BY <1>2, <1>3, <1>4 DEF Others
  <2>3. ASSUME NEW i \in DOMAIN t.calls
        PROVE  /\ t.calls[i].status = "planned" => t.calls[i].id \notin DOMAIN effects
               /\ t.calls[i].replay = "never" => Executions(t.calls[i].id) <= 1
    <3>1. i \in DOMAIN s.calls
      BY <1>2 DEF Others
    <3>2. t.calls[i].status = "planned" => s.calls[i].status = "planned"
      BY <1>2, <3>1 DEF Others, Current
    <3> QED BY <1>4, <3>1, <3>2 DEF Recorded
  <2> QED BY <1>2, <2>1, <2>2, <2>3 DEF Recorded
<1>7. Lived(t, pc2, d2, g2)
  <2>1. ASSUME NEW i \in DOMAIN t.calls, i = s.cur
        PROVE  /\ t.calls[i].status = "planned" /\ t.calls[i].perm = "allowed"
                    => t.calls[i].id \in g2
               /\ t.calls[i].status = "effect_pending"
                    => t.calls[i].id \in g2 /\ t.calls[i].id \notin DOMAIN effects
    BY <1>2, <2>1 DEF Others, Current
  <2>2. ASSUME NEW i \in DOMAIN t.calls, i # s.cur
        PROVE  /\ t.calls[i].status = "planned" /\ t.calls[i].perm = "allowed"
                    => t.calls[i].id \in g2
               /\ t.calls[i].status = "effect_pending" /\ t.calls[i].id \notin d2
                    => t.calls[i].id \in g2 /\ t.calls[i].id \notin DOMAIN effects
    <3>1. i \in DOMAIN s.calls /\ t.calls[i] = s.calls[i] /\ s.calls[i].id # Current(s).id
      BY <1>2, <1>5, <2>2 DEF Others, Current
    <3>2. s.calls[i].id \notin d2 => s.calls[i].id \notin d
      BY <3>1
    <3> QED BY <2>2, <3>1, <3>2 DEF Lived
  <2> QED BY <2>1, <2>2 DEF Lived
<1>8. t.phase = "tools"
  BY <1>2 DEF Others
<1> QED BY <1>2, <1>6, <1>7, <1>8 DEF t

(* A resumed runner starts from the stored state without its permissions.     *)
LEMMA ResetRecorded ==
    ASSUME NEW s, Recorded(s)
    PROVE  LET t == ResetPermissions(s)
           IN  /\ Recorded(t) /\ DOMAIN t.calls = DOMAIN s.calls
               /\ t.phase = s.phase /\ t.rsp = s.rsp /\ t.attempt = s.attempt
               /\ t.cur = s.cur
               /\ \A i \in DOMAIN s.calls :
                    /\ t.calls[i].id = s.calls[i].id /\ t.calls[i].status = s.calls[i].status
                    /\ t.calls[i].replay = s.calls[i].replay
                    /\ t.calls[i].status = "planned" => t.calls[i].perm = "pending"
<1> DEFINE t  == ResetPermissions(s)
           cs == [i \in DOMAIN s.calls |->
                    IF s.calls[i].status = "planned"
                    THEN [s.calls[i] EXCEPT !.perm = "pending"] ELSE s.calls[i]]
<1>1. s \in States
  BY DEF Recorded
<1>2. DOMAIN s.calls = 1 .. Len(s.calls) /\ Len(s.calls) \in Nat
      /\ \A i \in DOMAIN s.calls : s.calls[i] \in ToolCallStates
  BY <1>1, StateFields
<1>3. \A i \in DOMAIN s.calls :
        /\ cs[i] \in ToolCallStates
        /\ cs[i].id = s.calls[i].id /\ cs[i].status = s.calls[i].status
        /\ cs[i].replay = s.calls[i].replay
        /\ cs[i].status = "planned" => cs[i].perm = "pending"
  BY <1>2 DEF ToolCallStates
<1>4. cs \in Seq(ToolCallStates) /\ DOMAIN cs = DOMAIN s.calls
  <2>1. cs = [i \in 1 .. Len(s.calls) |-> cs[i]] /\ DOMAIN cs = DOMAIN s.calls
    BY <1>2
  <2>2. \A i \in 1 .. Len(s.calls) : cs[i] \in ToolCallStates
    BY <1>2, <1>3
  <2> HIDE DEF cs
  <2>3. [i \in 1 .. Len(s.calls) |-> cs[i]] \in Seq(ToolCallStates)
    BY <1>2, <2>2
  <2> QED BY <2>1, <2>3
<1>5. t = [s EXCEPT !.calls = cs]
  BY DEF ResetPermissions
<1> HIDE DEF t, cs
<1>6. t.calls = cs /\ t.rsp = s.rsp /\ t.attempt = s.attempt /\ t.cur = s.cur
      /\ t.phase = s.phase
  BY <1>1, <1>5 DEF States
<1>7. t \in States
  BY <1>1, <1>4, <1>5, <1>6 DEF States
<1>8. Recorded(t)
  BY <1>3, <1>4, <1>6, <1>7 DEF Recorded
<1> QED BY <1>3, <1>4, <1>6, <1>8 DEF t

----------------------------------------------------------------------------
(* The actions                                                                *)
LEMMA InitOperation == Init => OperationInv
<1> SUFFICES ASSUME Init PROVE OperationInv
  OBVIOUS
<1>1. Recorded(op) /\ Recorded(state)
  BY ReadyRecorded DEF Init
<1> DEFINE id == NoteId(0)
           none == <<>>
           code == "none"
<1>2. id \in EntryIds /\ none \in Seq(CallIds) /\ Owned(id, none)
      /\ code \in EntryCodes /\ code # "before_execution"
  BY DEF NoteId, EntryIds, Owned, EntryCodes
<1>3. todo = Message(id, none, code)
  BY DEF Init
<1> HIDE DEF id, none, code
<1>4. Plain(todo)
  BY <1>2, <1>3, PlainMessage
<1>5. todo \in Seq(Appends \cup Moves) /\ \A j \in DOMAIN todo : todo[j].w # "save"
  BY <1>4 DEF Plain, Appends, Moves
<1>6. TodoInv
  <2>1. Len(todo) \in Nat /\ DOMAIN todo = 1 .. Len(todo) /\ todo \in Seq(Writes)
    BY <1>5 DEF Writes
  <2>2. \A j \in 1 .. Len(todo) - 1 : j \in DOMAIN todo
    BY <2>1
  <2>3. \A j \in DOMAIN todo : Connects(todo, j) /\ Truthful(todo[j])
    BY <1>4 DEF Plain, Truthful
  <2> QED BY <1>5, <2>1, <2>2, <2>3 DEF TodoInv
<1>7. Target = state
  <2>1. todo # <<>> => Len(todo) \in DOMAIN todo
    BY <1>5
  <2> QED BY <1>5, <2>1 DEF Target
<1>8. Lived(Target, proc, uncertain, granted) /\ Placed(Target, proc)
  BY <1>7 DEF Lived, Placed, Init, ReadyState
<1>9. TypesInv
  BY DEF TypesInv, Init, Living
<1>10. EntriesInv
  <2>1. <<>> \in Seq(EntryIds)
    OBVIOUS
  <2> QED BY <2>1 DEF EntriesInv, Init, Has
<1>11. HonestInterruption
  BY DEF HonestInterruption, Init
<1>12. proc = "top"
  BY DEF Init
<1> QED BY <1>1, <1>6, <1>7, <1>8, <1>9, <1>10, <1>11, <1>12 DEF OperationInv, Init

(* What holds whenever a living process decides its next step.                *)
LEMMA Deciding ==
    ASSUME OperationInv, todo = <<>>, proc \in Living
    PROVE  /\ state \in States /\ Recorded(state)
           /\ Lived(state, proc, uncertain, granted) /\ Placed(state, proc)
           /\ uncertain \subseteq CallIds /\ granted \subseteq CallIds
           /\ DOMAIN effects \subseteq CallIds
           /\ Plain(Note) /\ Plain(Interrupted(state))
           /\ state.rsp \in Nat /\ state.attempt \in Nat
           /\ \A i \in DOMAIN state.calls : state.calls[i].id \in CallIds
<1>1. /\ Recorded(state) /\ Lived(state, proc, uncertain, granted) /\ Placed(state, proc)
  BY Here
<1>2. state \in States
  BY <1>1 DEF Recorded
<1>3. TypesInv
  BY DEF OperationInv
<1>4. Plain(Note) /\ Plain(Interrupted(state))
  BY <1>2, <1>3, PlainNote, PlainInterrupted
<1>5. state.rsp \in Nat /\ state.attempt \in Nat
      /\ \A i \in DOMAIN state.calls : state.calls[i].id \in CallIds
  BY <1>2, StateFields DEF ToolCallStates
<1> QED BY <1>1, <1>2, <1>3, <1>4, <1>5 DEF TypesInv

LEMMA SameBetween == OperationInv /\ Same => Between /\ uncertain' = uncertain
                                                     /\ granted' = granted
BY DEF OperationInv, TypesInv, Same, Between

LEMMA FailStep ==
    ASSUME OperationInv, todo = <<>>, proc \in Living, NEW code \in ErrorCodes, Fail(code)
    PROVE  OperationInv'
<1>1. Recorded(state)
  BY Deciding
<1>2. Recorded(Failed(state, code))
  BY <1>1, EndRecorded
<1>3. Begins(<<Save(Failed(state, code))>>, "done") /\ Between
  BY SameBetween DEF Fail, Do, Go, Begins
<1> DEFINE r == Failed(state, code)
           pc == "done"
<1>4. Begins(<<Save(r)>>, pc) /\ Recorded(r) /\ pc = "done"
      /\ pc \in {"top", "request", "model", "approval", "done"}
  BY <1>2, <1>3
<1> HIDE DEF r, pc
<1> QED BY <1>3, <1>4, SavesOnly

LEMMA AbortStep ==
    ASSUME OperationInv, todo = <<>>, proc \in Living, AbortNow
    PROVE  OperationInv'
<1>1. Recorded(state) /\ Plain(Interrupted(state))
  BY Deciding
<1>2. Recorded(Aborted(state))
  BY <1>1, EndRecorded
<1>3. Begins(Interrupted(state) \o <<Save(Aborted(state))>>, "done") /\ Between
  BY SameBetween DEF AbortNow, Do, Go, Begins
<1> DEFINE r == Aborted(state)
           a == Interrupted(state)
           pc == "done"
<1>4. Begins(a \o <<Save(r)>>, pc) /\ Recorded(r) /\ Plain(a) /\ pc = "done"
      /\ pc \in {"top", "request", "model", "approval", "done"}
  BY <1>1, <1>2, <1>3
<1> HIDE DEF r, a, pc
<1> QED BY <1>3, <1>4, Saves

(* The process is told where to go on and has nothing to write.               *)
LEMMA MoveStep ==
    ASSUME OperationInv, todo = <<>>, NEW pc \in {"request", "top", "blocked"},
           Do(<<>>, pc), proc \in Living \cup {"recover"}, proc # "executed",
           pc # "blocked" => proc \in Living,
           Between, uncertain' = uncertain, granted \subseteq granted'
    PROVE  OperationInv'
<1> DEFINE a == <<>>
<1>1. Begins(a, pc) /\ Plain(a)
  BY PlainEmpty DEF Do, Go, Begins
<1>2. Recorded(state)
  BY Here
<1>3. pc \in Living => Lived(state, pc, uncertain', granted') /\ Placed(state, pc)
  <2>1. SUFFICES ASSUME pc \in Living
                 PROVE  Lived(state, pc, uncertain', granted') /\ Placed(state, pc)
    OBVIOUS
  <2>2. Lived(state, proc, uncertain, granted)
    BY <2>1, Here DEF Living
  <2>3. Lived(state, pc, uncertain', granted')
    BY <2>2 DEF Lived
  <2>4. Placed(state, pc)
    BY DEF Placed
  <2> QED BY <2>3, <2>4
<1>4. pc \in Living \cup {"recover", "blocked"} /\ pc # "executed"
  BY DEF Living
<1> HIDE DEF a
<1> QED BY <1>1, <1>2, <1>3, <1>4, Goes

(* It saves a state with the calls of the last one, or with none.             *)
LEMMA CarryStep ==
    ASSUME OperationInv, todo = <<>>, proc \in Living, proc # "executed",
           NEW a, Plain(a), NEW r, Recorded(r), r.calls = state.calls \/ r.calls = <<>>,
           NEW pc \in {"top", "request", "model", "done"},
           pc = "model" => r.phase = "model_pending",
           Begins(a \o <<Save(r)>>, pc), Same
    PROVE  OperationInv'
<1>1. Between /\ uncertain' = uncertain /\ granted' = granted
  BY SameBetween
<1>2. Lived(state, proc, uncertain, granted)
  BY Deciding
<1>3. Lived(r, pc, uncertain', granted')
  BY <1>1, <1>2, CarriedLived
<1>4. Placed(r, pc)
  BY DEF Placed
<1> QED BY <1>1, <1>3, <1>4, Saves

LEMMA CarryOnlyStep ==
    ASSUME OperationInv, todo = <<>>, proc \in Living, proc # "executed",
           NEW r, Recorded(r), r.calls = state.calls \/ r.calls = <<>>,
           NEW pc \in {"top", "request", "model", "done"},
           pc = "model" => r.phase = "model_pending",
           Begins(<<Save(r)>>, pc), Same
    PROVE  OperationInv'
<1>1. Between /\ uncertain' = uncertain /\ granted' = granted
  BY SameBetween
<1>2. Lived(state, proc, uncertain, granted)
  BY Deciding
<1>3. Lived(r, pc, uncertain', granted')
  BY <1>1, <1>2, CarriedLived
<1>4. Placed(r, pc)
  BY DEF Placed
<1> QED BY <1>1, <1>3, <1>4, SavesOnly

LEMMA LoopStep ==
    ASSUME OperationInv, Loop
    PROVE  OperationInv'
<1>1. CASE GuardContinue
  <2> DEFINE pc == "request"
  <2>1. todo = <<>> /\ proc \in Living /\ proc # "executed" /\ Do(<<>>, pc) /\ Same
    BY <1>1 DEF GuardContinue, At, Living
  <2>2. pc \in {"request", "top", "blocked"}
    OBVIOUS
  <2> HIDE DEF pc
  <2> QED BY <2>1, <2>2, SameBetween, MoveStep
<1>2. CASE GuardExtend
  <2> DEFINE pc == "request"
             r  == ExtendLimit(state)
  <2>1. /\ todo = <<>> /\ proc \in Living /\ proc # "executed" /\ Same
        /\ Begins(<<Save(r)>>, pc) /\ pc = "request"
        /\ state.phase \in {"ready", "checkpoint"} /\ state.limit < RunLimit
    BY <1>2 DEF GuardExtend, At, Living, Go, Begins
  <2>2. Recorded(r) /\ r.calls = state.calls
    BY <2>1, Deciding, LimitRecorded
  <2> HIDE DEF pc, r
  <2> QED BY <2>1, <2>2, CarryOnlyStep
<1>3. CASE GuardFinalize
  <2> DEFINE pc == "request"
             r  == EnterFinalResponse(state)
  <2>1. /\ todo = <<>> /\ proc \in Living /\ proc # "executed" /\ Same
        /\ Begins(Note \o <<Save(r)>>, pc) /\ pc = "request"
    BY <1>3 DEF GuardFinalize, At, Living, Do, Go, Begins
  <2>2. Recorded(r) /\ r.calls = <<>> /\ Plain(Note)
    BY <2>1, Deciding, FinalRecorded
  <2> HIDE DEF pc, r
  <2> QED BY <2>1, <2>2, CarryStep
<1>4. CASE GuardStop
  <2> DEFINE pc == "done"
             r  == Completed(state)
  <2>1. /\ todo = <<>> /\ proc \in Living /\ proc # "executed" /\ Same
        /\ Begins(<<Save(r)>>, pc) /\ pc = "done"
    BY <1>4 DEF GuardStop, At, Living, Do, Go, Begins
  <2>2. Recorded(r) /\ state \in States
    BY <2>1, Deciding, EndRecorded
  <2>3. r.calls = state.calls
    BY <2>2 DEF Completed, States
  <2> HIDE DEF pc, r
  <2> QED BY <2>1, <2>2, <2>3, CarryOnlyStep
<1>5. CASE AskAgain
  <2> DEFINE pc == "request"
  <2>1. todo = <<>> /\ proc \in Living /\ proc # "executed" /\ Do(<<>>, pc) /\ Same
    BY <1>5 DEF AskAgain, At, Living
  <2>2. pc \in {"request", "top", "blocked"}
    OBVIOUS
  <2> HIDE DEF pc
  <2> QED BY <2>1, <2>2, SameBetween, MoveStep
<1>6. CASE LimitExceeded
  <2>1. todo = <<>> /\ proc \in Living /\ proc # "executed"
    BY <1>6 DEF LimitExceeded, At, Living
  <2>2. CASE Fail("exceeded")
    <3> DEFINE code == "exceeded"
    <3>1. code \in ErrorCodes /\ Fail(code)
      BY <2>2 DEF ErrorCodes
    <3> HIDE DEF code
    <3> QED BY <2>1, <3>1, FailStep
  <2>3. CASE Do(<<Save(Completed(state))>>, "done") /\ Same
    <3> DEFINE pc == "done"
               r  == Completed(state)
    <3>1. Same /\ Begins(<<Save(r)>>, pc) /\ pc = "done"
      BY <2>3 DEF Do, Go, Begins
    <3>2. Recorded(r) /\ state \in States
      BY <2>1, Deciding, EndRecorded
    <3>3. r.calls = state.calls
      BY <3>2 DEF Completed, States
    <3> HIDE DEF pc, r
    <3> QED BY <2>1, <3>1, <3>2, <3>3, CarryOnlyStep
  <2> QED BY <1>6, <2>2, <2>3 DEF LimitExceeded
<1>7. CASE RequestModel
  <2> DEFINE pc == "model"
             r  == BeginModelRequest(state)
  <2>1. /\ todo = <<>> /\ proc \in Living /\ proc # "executed" /\ Same /\ pc = "model"
        /\ Begins(<<Save(r)>>, pc) \/ Begins(Note \o <<Save(r)>>, pc)
    BY <1>7 DEF RequestModel, At, Living, Do, Go, Begins, Context
  <2>2. Recorded(r) /\ r.calls = <<>> /\ r.phase = "model_pending" /\ Plain(Note)
    BY <2>1, Deciding, RequestRecorded
  <2> HIDE DEF pc, r
  <2> QED BY <2>1, <2>2, CarryStep, CarryOnlyStep
<1> QED BY <1>1, <1>2, <1>3, <1>4, <1>5, <1>6, <1>7 DEF Loop

LEMMA ModelStepStep ==
    ASSUME OperationInv, ModelStep
    PROVE  OperationInv'
<1>0. todo = <<>> /\ proc \in Living /\ proc # "executed" /\ proc = "model"
  BY DEF ModelStep, ModelText, ModelCutOff, ModelToolOutputLimit, ModelError,
         ModelCallsDropped, ModelCallsRefused, ModelCalls, At, Living
<1>01. /\ state \in States /\ Recorded(state) /\ state.phase = "model_pending"
       /\ state.final \in BOOLEAN /\ Plain(Note)
       /\ state.rsp \in Nat /\ state.attempt \in Nat
  BY <1>0, Deciding, StateFields DEF Placed
<1>02. Plain(Assistant(<<>>)) /\ \A n \in Nat : Plain(Assistant(NewCalls(n)))
  <2>1. 0 \in Nat
    OBVIOUS
  <2> QED BY <1>01, <2>1, PlainAssistant
<1>1. CASE ModelText
  <2> DEFINE pc == "done"
             r  == Completed(state)
             a  == Assistant(<<>>)
  <2>1. Begins(a \o <<Save(r)>>, pc) /\ pc = "done" /\ Same
    BY <1>1 DEF ModelText, Do, Go, Begins
  <2>2. Recorded(r) /\ r.calls = state.calls /\ Plain(a)
    BY <1>01, <1>02, EndRecorded DEF Completed, States
  <2> HIDE DEF pc, r, a
  <2> QED BY <1>0, <2>1, <2>2, CarryStep
<1>2. CASE ModelCutOff
  <2> DEFINE pc == "top"
             r  == ContinueOutput(state, state.final)
             a  == Assistant(<<>>) \o Note
  <2>1. Begins(a \o <<Save(r)>>, pc) /\ pc = "top" /\ Same /\ MayContinue
    BY <1>2 DEF ModelCutOff, Do, Go, Begins
  <2>2. Recorded(r) /\ r.calls = state.calls /\ Plain(a)
    BY <1>01, <1>02, <2>1, PlainConcat, ContinueRecorded DEF MayContinue
  <2> HIDE DEF pc, r, a
  <2> QED BY <1>0, <2>1, <2>2, CarryStep
<1>3. CASE ModelToolOutputLimit
  <2> DEFINE pc == "top"
             r  == ContinueOutput(state, FALSE)
  <2>1. Begins(Note \o <<Save(r)>>, pc) /\ pc = "top" /\ Same /\ MayContinue
    BY <1>3 DEF ModelToolOutputLimit, Go, Begins
  <2>2. Recorded(r) /\ r.calls = state.calls
    BY <1>01, <2>1, ContinueRecorded DEF MayContinue
  <2> HIDE DEF pc, r
  <2> QED BY <1>0, <1>01, <2>1, <2>2, CarryStep
<1>4. CASE ModelError
  <2> DEFINE code == "provider_error"
  <2>1. code \in ErrorCodes /\ Fail(code)
    BY <1>4 DEF ErrorCodes, ModelError
  <2> HIDE DEF code
  <2> QED BY <1>0, <2>1, FailStep
<1>5. CASE ModelCallsDropped
  <2> DEFINE pc == "top"
             r  == EnterFinalResponseAfterModel(state)
             a  == Assistant(<<>>) \o Note
  <2>1. Begins(a \o <<Save(r)>>, pc) /\ pc = "top" /\ Same
    BY <1>5 DEF ModelCallsDropped, Assistant, Go, Begins
  <2>2. Recorded(r) /\ r.calls = state.calls /\ Plain(a)
    BY <1>01, <1>02, PlainConcat, FinalRecorded
  <2> HIDE DEF pc, r, a
  <2> QED BY <1>0, <2>1, <2>2, CarryStep
<1>6. CASE ModelCallsRefused
  <2>1. PICK n \in Batches :
          Do(Assistant(NewCalls(n)) \o <<Save(Failed(state, "no_progress"))>>, "done")
    BY <1>6 DEF ModelCallsRefused
  <2> DEFINE pc == "done"
             r  == Failed(state, "no_progress")
             a  == Assistant(NewCalls(n))
  <2>2. Begins(a \o <<Save(r)>>, pc) /\ pc = "done" /\ Same
    BY <1>6, <2>1 DEF ModelCallsRefused, Do, Go, Begins
  <2>3. n \in Nat
    BY DEF Batches
  <2>4. Recorded(r)
    <3> DEFINE code == "no_progress"
    <3>1. code \in ErrorCodes /\ r = Failed(state, code)
      BY DEF ErrorCodes
    <3> HIDE DEF code, r
    <3> QED BY <1>01, <3>1, EndRecorded
  <2>5. r.calls = state.calls /\ Plain(a)
    BY <1>01, <1>02, <2>3 DEF Failed, States
  <2> HIDE DEF pc, r, a
  <2> QED BY <1>0, <2>2, <2>4, <2>5, CarryStep
<1>7. CASE ModelCalls
  <2>1. PICK n \in Batches : \E replay \in [1 .. n -> {"safe", "never"}] :
          Do(Assistant(NewCalls(n))
               \o <<Save(PlanToolCalls(state, NewCalls(n), replay))>>, "top")
    BY <1>7 DEF ModelCalls
  <2>2. PICK replay \in [1 .. n -> {"safe", "never"}] :
          Do(Assistant(NewCalls(n))
               \o <<Save(PlanToolCalls(state, NewCalls(n), replay))>>, "top")
    BY <2>1
  <2> DEFINE pc == "top"
             ids == NewCalls(n)
             r  == PlanToolCalls(state, ids, replay)
             a  == Assistant(ids)
  <2>3. Begins(a \o <<Save(r)>>, pc) /\ pc = "top" /\ Same
    BY <1>7, <2>2 DEF ModelCalls, Do, Go, Begins
  <2>4. n \in Nat \ {0}
    BY LimitsAssumption DEF Batches
  <2>5. ids = [i \in 1 .. n |-> <<state.rsp, state.attempt, i>>]
    BY DEF NewCalls
  <2>6. Plain(a)
    BY <1>02, <2>4
  <2> HIDE DEF pc, ids, r, a
  <2>7. Recorded(r) /\ Lived(r, pc, uncertain', granted')
    BY <1>01, <2>4, <2>5, PlanRecorded DEF r
  <2>8. Placed(r, pc) /\ pc \in {"top", "request", "model", "approval", "done"}
    BY <2>3 DEF Placed
  <2>9. Between
    BY <2>3, SameBetween
  <2> QED BY <2>3, <2>6, <2>7, <2>8, <2>9, Saves
<1> QED BY <1>1, <1>2, <1>3, <1>4, <1>5, <1>6, <1>7 DEF ModelStep

(* It saves the current call with another permission or status.               *)
CallFate(perm, status) == Fate(state, perm, status, granted')

LEMMA CallKept ==
    ASSUME Recorded(state), Lived(state, proc, uncertain, granted), state.phase = "tools",
           NEW perm, NEW status, CallFate(perm, status), NEW pc,
           uncertain \ {Current(state).id} \subseteq uncertain', granted \subseteq granted'
    PROVE  LET r == SetCurrent(state, perm, status)
           IN  /\ Recorded(r) /\ Lived(r, pc, uncertain', granted')
               /\ r.phase = "tools" /\ Current(r).status = status
<1> DEFINE s == state
           q == proc
           d == uncertain
           g == granted
           d2 == uncertain'
           g2 == granted'
<1>1. Recorded(s) /\ Lived(s, q, d, g) /\ s.phase = "tools" /\ s = state
      /\ Doubted(s, d, d2) /\ Granted(g, g2)
  BY DEF Doubted, Granted
<1>2. Fate(s, perm, status, g2)
  BY DEF CallFate
<1> HIDE DEF s, q, d, g, d2, g2
<1>3. /\ Recorded(SetCurrent(s, perm, status))
      /\ Lived(SetCurrent(s, perm, status), pc, d2, g2)
      /\ SetCurrent(s, perm, status).phase = "tools"
      /\ Current(SetCurrent(s, perm, status)).status = status
  BY <1>1, <1>2, SetRecorded
<1> QED BY <1>1, <1>3 DEF d2, g2

LEMMA CallStep ==
    ASSUME OperationInv, todo = <<>>, proc \in Living, state.phase = "tools",
           NEW perm, NEW status, CallFate(perm, status),
           NEW a, Plain(a), NEW pc \in {"top", "approval"},
           pc = "approval" => status = "planned",
           Begins(a \o <<Save(SetCurrent(state, perm, status))>>, pc), Between,
           uncertain \ {Current(state).id} \subseteq uncertain', granted \subseteq granted'
    PROVE  OperationInv'
<1> DEFINE r == SetCurrent(state, perm, status)
<1>1. Recorded(state) /\ Lived(state, proc, uncertain, granted)
  BY Deciding
<1>2. /\ Recorded(r) /\ Lived(r, pc, uncertain', granted')
      /\ r.phase = "tools" /\ Current(r).status = status
  BY <1>1, CallKept
<1>3. Placed(r, pc)
  BY <1>2 DEF Placed
<1>4. pc \in {"top", "request", "model", "approval", "done"}
  OBVIOUS
<1> HIDE DEF r
<1>5. Begins(a \o <<Save(r)>>, pc)
  BY DEF r
<1> QED BY <1>2, <1>3, <1>4, <1>5, Saves

LEMMA CallOnlyStep ==
    ASSUME OperationInv, todo = <<>>, proc \in Living, state.phase = "tools",
           NEW perm, NEW status, CallFate(perm, status),
           NEW pc \in {"top", "approval"}, pc = "approval" => status = "planned",
           Begins(<<Save(SetCurrent(state, perm, status))>>, pc), Between,
           uncertain \ {Current(state).id} \subseteq uncertain', granted \subseteq granted'
    PROVE  OperationInv'
<1> DEFINE r == SetCurrent(state, perm, status)
<1>1. Recorded(state) /\ Lived(state, proc, uncertain, granted)
  BY Deciding
<1>2. /\ Recorded(r) /\ Lived(r, pc, uncertain', granted')
      /\ r.phase = "tools" /\ Current(r).status = status
  BY <1>1, CallKept
<1>3. Placed(r, pc)
  BY <1>2 DEF Placed
<1>4. pc \in {"top", "request", "model", "approval", "done"}
  OBVIOUS
<1> HIDE DEF r
<1>5. Begins(<<Save(r)>>, pc)
  BY DEF r
<1> QED BY <1>2, <1>3, <1>4, <1>5, SavesOnly

(* What holds whenever the current call is looked at.                         *)
LEMMA AtCall ==
    ASSUME OperationInv, todo = <<>>, proc \in Living, state.phase = "tools"
    PROVE  /\ state.cur \in DOMAIN state.calls /\ Current(state) \in ToolCallStates
           /\ Call.id \in CallIds
           /\ Grant => Between /\ granted \subseteq granted' /\ Call.id \in granted'
                       /\ uncertain' = uncertain
           /\ Settled => Between /\ granted' = granted
                         /\ uncertain \ {Current(state).id} \subseteq uncertain'
           /\ \A code \in EntryCodes : code # "before_execution" => Plain(Result(Call.id, code))
<1>1. state.cur \in DOMAIN state.calls /\ Current(state) \in ToolCallStates
  BY Deciding, StateFields DEF Current
<1>2. Call.id \in CallIds
  BY <1>1 DEF Call, ToolCallStates
<1>3. uncertain \subseteq CallIds /\ granted \subseteq CallIds
  BY Deciding
<1>4. Grant => Between /\ granted \subseteq granted' /\ Call.id \in granted'
               /\ uncertain' = uncertain
  BY <1>2, <1>3 DEF Grant, Between, Call, Current
<1>5. Settled => Between /\ granted' = granted
                 /\ uncertain \ {Current(state).id} \subseteq uncertain'
  BY <1>2, <1>3 DEF Settled, Between
<1>6. \A code \in EntryCodes : code # "before_execution" => Plain(Result(Call.id, code))
  BY <1>2, PlainResult
<1> QED BY <1>1, <1>2, <1>4, <1>5, <1>6

LEMMA GateStep ==
    ASSUME OperationInv,
           GateRefuses \/ GateAllows \/ GateAsks \/ GateFails \/ Approval
    PROVE  OperationInv'
<1>1. /\ todo = <<>> /\ proc \in Living /\ proc # "executed"
      /\ proc = "approval" \/ (state.phase = "tools" /\ Current(state).status = "planned")
  BY DEF GateRefuses, GateAllows, GateAsks, GateFails, Approval, UserApproves, UserDenies,
         ApprovalFails, ToolTop, At, Living, Call
<1>2. state.phase = "tools" /\ Current(state).status = "planned"
  BY <1>1, Deciding DEF Placed
<1>3. CASE GateRefuses \/ UserDenies
  <2> DEFINE pc     == "top"
             perm   == "denied"
             status == "completed"
             code   == "denied"
             a      == Result(Call.id, code)
  <2>1. Begins(a \o <<Save(SetCurrent(state, perm, status))>>, pc) /\ Same /\ pc = "top"
    BY <1>3 DEF GateRefuses, UserDenies, Refused, Do, Go, Begins, SettleToolWithoutEffect
  <2>2. CallFate(perm, status)
    BY DEF CallFate, Fate
  <2>3. code \in EntryCodes /\ code # "before_execution"
    BY DEF EntryCodes
  <2> HIDE DEF code
  <2>4. Plain(a)
    BY <1>1, <1>2, <2>3, AtCall
  <2>5. Between /\ uncertain' = uncertain /\ granted' = granted
    BY <2>1, SameBetween
  <2> HIDE DEF pc, perm, status, a
  <2> QED BY <1>1, <1>2, <2>1, <2>2, <2>4, <2>5, CallStep
<1>4. CASE GateAllows \/ UserApproves
  <2> DEFINE pc     == "top"
             perm   == "allowed"
             status == "planned"
  <2>1. Begins(<<Save(SetCurrent(state, perm, status))>>, pc) /\ Grant /\ pc = "top"
    BY <1>4 DEF GateAllows, UserApproves, Do, Go, Begins, ResolveToolPermission
  <2>2. Between /\ granted \subseteq granted' /\ Call.id \in granted'
        /\ uncertain' = uncertain
    BY <1>1, <1>2, <2>1, AtCall
  <2>3. CallFate(perm, status)
    BY <1>2, <2>2 DEF CallFate, Fate, Call
  <2> HIDE DEF pc, perm, status
  <2> QED BY <1>1, <1>2, <2>1, <2>2, <2>3, CallOnlyStep
<1>5. CASE GateAsks
  <2> DEFINE pc     == "approval"
             perm   == "pending"
             status == "planned"
  <2>1. Begins(<<Save(SetCurrent(state, perm, status))>>, pc) /\ Same /\ pc = "approval"
        /\ status = "planned"
    BY <1>5 DEF GateAsks, Do, Go, Begins, ResolveToolPermission
  <2>2. Between /\ uncertain' = uncertain /\ granted' = granted
    BY <2>1, SameBetween
  <2>3. CallFate(perm, status)
    BY <1>2 DEF CallFate, Fate
  <2> HIDE DEF pc, perm, status
  <2> QED BY <1>1, <1>2, <2>1, <2>2, <2>3, CallOnlyStep
<1>6. CASE GateFails
  <2> DEFINE code == "tool_error"
  <2>1. code \in ErrorCodes /\ Fail(code)
    BY <1>6 DEF ErrorCodes, GateFails
  <2> HIDE DEF code
  <2> QED BY <1>1, <2>1, FailStep
<1>7. CASE ApprovalFails
  <2> DEFINE code == "approval_interrupted"
  <2>1. code \in ErrorCodes /\ Fail(code)
    BY <1>7 DEF ErrorCodes, ApprovalFails
  <2> HIDE DEF code
  <2> QED BY <1>1, <2>1, FailStep
<1> QED BY <1>3, <1>4, <1>5, <1>6, <1>7 DEF Approval

LEMMA PrepareStep ==
    ASSUME OperationInv, PrepareTool
    PROVE  OperationInv'
<1> DEFINE pc     == "top"
           perm   == Current(state).perm
           status == "effect_pending"
<1>1. /\ todo = <<>> /\ proc \in Living /\ state.phase = "tools" /\ Same
      /\ Current(state).status = "planned" /\ Current(state).perm = "allowed"
      /\ Begins(<<Save(SetCurrent(state, perm, status))>>, pc) /\ pc = "top"
  BY DEF PrepareTool, ToolTop, At, Living, Permitted, Call, Do, Go, Begins, PrepareToolEffect
<1>2. Between /\ uncertain' = uncertain /\ granted' = granted
  BY <1>1, SameBetween
<1>3. Recorded(state) /\ Lived(state, proc, uncertain, granted)
      /\ state.cur \in DOMAIN state.calls
  BY <1>1, Deciding, AtCall
<1>4. Current(state).id \in granted' /\ Current(state).id \notin DOMAIN effects
  BY <1>1, <1>2, <1>3 DEF Recorded, Lived, Current
<1>5. CallFate(perm, status)
  BY <1>1, <1>4 DEF CallFate, Fate
<1> HIDE DEF pc, perm, status
<1> QED BY <1>1, <1>2, <1>5, CallOnlyStep

(* The steps that settle the current call.                                    *)
LEMMA SettleStep ==
    ASSUME OperationInv,
           SynthesizeInterrupted \/ ReuseResult \/ ReplayRefused \/ RecordResult
    PROVE  OperationInv'
<1> DEFINE pc     == "top"
           perm   == Current(state).perm
           status == "completed"
<1>1. /\ todo = <<>> /\ proc \in Living /\ Settled
      /\ proc = "executed" \/ state.phase = "tools"
  BY DEF SynthesizeInterrupted, ReuseResult, ReplayRefused, RecordResult, ToolTop, At,
         Living, Executes
<1>2. state.phase = "tools"
  BY <1>1, Deciding DEF Placed
<1>3. /\ Between /\ granted' = granted /\ Current(state) \in ToolCallStates
      /\ uncertain \ {Current(state).id} \subseteq uncertain'
      /\ \A code \in EntryCodes : code # "before_execution" => Plain(Result(Call.id, code))
  BY <1>1, <1>2, AtCall
<1>4. CallFate(perm, status)
  BY <1>3 DEF CallFate, Fate, ToolCallStates
<1>5. \E a : Plain(a) /\ Begins(a \o <<Save(SetCurrent(state, perm, status))>>, pc)
  <2>1. /\ "done" \in EntryCodes /\ "denied" \in EntryCodes /\ "uncertain" \in EntryCodes
    BY DEF EntryCodes
  <2>2. /\ Plain(Result(Call.id, "done")) /\ Plain(Result(Call.id, "denied"))
        /\ Plain(Result(Call.id, "uncertain"))
    BY <1>3, <2>1
  <2>3. CASE SynthesizeInterrupted
    <3> WITNESS Result(Call.id, "uncertain")
    <3> QED BY <2>2, <2>3 DEF SynthesizeInterrupted, Do, Go, Begins, SettleToolEffect
  <2>4. CASE ReuseResult
    <3> WITNESS IF OnPath(ResId(Call.id)) THEN <<>> ELSE Result(Call.id, "done")
    <3>1. Begins((IF OnPath(ResId(Call.id)) THEN <<>> ELSE Result(Call.id, "done"))
                   \o <<Save(SetCurrent(state, perm, status))>>, pc)
      BY <2>4 DEF ReuseResult, Do, Go, Begins, SettleToolEffect
    <3>2. Plain(IF OnPath(ResId(Call.id)) THEN <<>> ELSE Result(Call.id, "done"))
      BY <2>2, PlainEmpty
    <3> QED BY <3>1, <3>2
  <2>5. CASE ReplayRefused
    <3> WITNESS Result(Call.id, "denied")
    <3> QED BY <2>2, <2>5 DEF ReplayRefused, Do, Go, Begins, SettleToolEffect
  <2>6. CASE RecordResult
    <3>1. CASE Begins(Result(Call.id, "done") \o <<Save(SetCurrent(state, perm, status))>>, pc)
      BY <2>2, <3>1
    <3>2. CASE Begins(Result(Call.id, "done") \o Note
                        \o <<Save(SetCurrent(state, perm, status))>>, pc)
      <4>1. Plain(Result(Call.id, "done") \o Note)
        BY <1>1, <2>2, Deciding, PlainConcat
      <4> QED BY <3>2, <4>1
    <3> QED BY <2>6, <3>1, <3>2 DEF RecordResult, Do, Go, Begins, SettleToolEffect
  <2> QED BY <2>3, <2>4, <2>5, <2>6
<1>6. PICK a : Plain(a) /\ Begins(a \o <<Save(SetCurrent(state, perm, status))>>, pc)
  BY <1>5
<1>7. pc \in {"top", "approval"} /\ pc # "approval"
  OBVIOUS
<1> HIDE DEF pc, perm, status
<1> QED BY <1>1, <1>2, <1>3, <1>4, <1>6, <1>7, CallStep

LEMMA OtherToolStep ==
    ASSUME OperationInv,
           ReplayAllowed \/ AdvanceToolStep \/ ResumeContinue \/ ResumeFinalize \/ Cancel
    PROVE  OperationInv'
<1>1. CASE ReplayAllowed
  <2> DEFINE pc == "top"
  <2>1. /\ todo = <<>> /\ proc \in Living /\ proc # "executed" /\ Do(<<>>, pc) /\ Grant
        /\ state.phase = "tools" /\ pc = "top"
    BY <1>1 DEF ReplayAllowed, Executes, ToolTop, At, Living
  <2>2. Between /\ uncertain' = uncertain /\ granted \subseteq granted'
    BY <2>1, AtCall
  <2>3. pc \in {"request", "top", "blocked"} /\ pc # "blocked"
    OBVIOUS
  <2> HIDE DEF pc
  <2> QED BY <2>1, <2>2, <2>3, MoveStep
<1>2. CASE AdvanceToolStep
  <2> DEFINE pc == "top"
             r  == AdvanceTool(state)
  <2>1. /\ todo = <<>> /\ proc \in Living /\ proc # "executed" /\ Same /\ pc = "top"
        /\ Begins(<<Save(r)>>, pc) /\ state.phase = "tools"
    BY <1>2 DEF AdvanceToolStep, ToolTop, At, Living, Do, Go, Begins
  <2>2. Recorded(r) /\ (r.calls = state.calls \/ r.calls = <<>>)
    BY <2>1, Deciding, AdvanceRecorded
  <2> HIDE DEF pc, r
  <2> QED BY <2>1, <2>2, CarryOnlyStep
<1>3. CASE ResumeContinue
  <2> DEFINE pc == "top"
  <2>1. todo = <<>> /\ proc \in Living /\ proc # "executed" /\ Do(<<>>, pc) /\ Same
    BY <1>3 DEF ResumeContinue, At, Living
  <2>2. pc \in {"request", "top", "blocked"}
    OBVIOUS
  <2> HIDE DEF pc
  <2> QED BY <2>1, <2>2, SameBetween, MoveStep
<1>4. CASE ResumeFinalize
  <2>1. todo = <<>> /\ proc \in Living /\ proc # "executed" /\ Same
    BY <1>4 DEF ResumeFinalize, At, Living
  <2>2. Recorded(state) /\ Plain(Note) /\ Plain(Interrupted(state))
    BY <2>1, Deciding
  <2>3. CASE Do(Interrupted(state) \o Note \o <<Save(EnterFinalResponse(state))>>, "top")
    <3> DEFINE pc == "top"
               r  == EnterFinalResponse(state)
               a  == Interrupted(state) \o Note
    <3>1. Begins(a \o <<Save(r)>>, pc) /\ pc = "top"
      BY <2>3 DEF Do, Go, Begins
    <3>2. Recorded(r) /\ r.calls = <<>> /\ Plain(a)
      BY <2>2, PlainConcat, FinalRecorded
    <3> HIDE DEF pc, r, a
    <3> QED BY <2>1, <3>1, <3>2, CarryStep
  <2>4. CASE Do(Note \o <<Save(EnterFinalResponseAfterModel(state))>>, "top")
    <3> DEFINE pc == "top"
               r  == EnterFinalResponseAfterModel(state)
    <3>1. Begins(Note \o <<Save(r)>>, pc) /\ pc = "top"
      BY <2>4 DEF Do, Go, Begins
    <3>2. Recorded(r) /\ r.calls = state.calls
      BY <2>2, FinalRecorded
    <3> HIDE DEF pc, r
    <3> QED BY <2>1, <2>2, <3>1, <3>2, CarryStep
  <2> QED BY <1>4, <2>3, <2>4 DEF ResumeFinalize
<1>5. CASE Cancel
  <2>1. todo = <<>> /\ proc \in Living /\ AbortNow
    BY <1>5 DEF Cancel, Living
  <2> QED BY <2>1, AbortStep
<1> QED BY <1>1, <1>2, <1>3, <1>4, <1>5

(* The effect: what is stored about the call is at least its intent.          *)
LEMMA ExecuteStep ==
    ASSUME OperationInv, ExecuteTool
    PROVE  /\ OperationInv'
           /\ Call.id \in granted /\ ~Has(ResId(Call.id))
           /\ \E i \in DOMAIN op.calls : op.calls[i].id = Call.id
                                         /\ op.calls[i].status = "effect_pending"
<1>0. PICK c : c = Call.id
  OBVIOUS
<1>1. /\ proc = "top" /\ todo = <<>> /\ state.phase = "tools"
      /\ Current(state).status = "effect_pending" /\ c = state.calls[state.cur].id
      /\ ~(c \in uncertain /\ state.calls[state.cur].replay = "never")
      /\ ~Has(ResId(c)) /\ (c \in uncertain => c \in granted)
      /\ effects' = [x \in DOMAIN effects \cup {c} |->
                       Executions(x) + (IF x = c THEN 1 ELSE 0)]
      /\ proc' = "executed" /\ todo' = todo
      /\ UNCHANGED <<op, leaf, entries, state, uncertain, granted, notes>>
  BY <1>0 DEF ExecuteTool, Executes, ToolTop, At, Call, Recovering, Current
<1>2. /\ state \in States /\ Recorded(state) /\ Lived(state, proc, uncertain, granted)
      /\ state.cur \in DOMAIN state.calls /\ c \in CallIds
  <2>1. proc \in Living
    BY <1>1 DEF Living
  <2> QED BY <1>0, <1>1, <2>1, Deciding, AtCall
<1>3. c \in granted /\ (c \notin uncertain => c \notin DOMAIN effects)
  BY <1>1, <1>2 DEF Lived, Current
<1>4. /\ op.phase = "tools" /\ DOMAIN op.calls = DOMAIN state.calls
      /\ op.rsp = state.rsp /\ op.attempt = state.attempt
      /\ \A i \in DOMAIN op.calls : /\ op.calls[i].id = state.calls[i].id
                                    /\ op.calls[i].status = state.calls[i].status
                                    /\ op.calls[i].replay = state.calls[i].replay
  <2>1. state = op \/ state = ResetPermissions(op)
    BY DEF OperationInv
  <2>2. Recorded(op)
    BY DEF OperationInv
  <2> QED BY <1>1, <2>1, <2>2, ResetRecorded
<1>5. /\ DOMAIN effects' = DOMAIN effects \cup {c}
      /\ \A x \in DOMAIN effects' : effects'[x] = Executions(x) + (IF x = c THEN 1 ELSE 0)
  BY <1>1
<1>6. effects \in [DOMAIN effects -> Nat \ {0}] /\ DOMAIN effects \subseteq CallIds
  BY DEF OperationInv, TypesInv
<1>7. \A x : Executions(x) \in Nat
  BY <1>6 DEF Executions
<1>8. \A x : Executions(x)' = Executions(x) + (IF x = c THEN 1 ELSE 0)
  BY <1>5, <1>7 DEF Executions
<1>9. TypesInv'
  <2>1. \A x \in DOMAIN effects' : effects'[x] \in Nat \ {0}
    <3>1. SUFFICES ASSUME NEW x \in DOMAIN effects' PROVE effects'[x] \in Nat \ {0}
      OBVIOUS
    <3>2. x \in DOMAIN effects => Executions(x) \in Nat \ {0}
      BY <1>6 DEF Executions
    <3> QED BY <1>5, <1>7, <3>2
  <2>2. effects' = [x \in DOMAIN effects' |-> effects'[x]]
    BY <1>1
  <2>3. effects' \in [DOMAIN effects' -> Nat \ {0}]
    BY <2>1, <2>2
  <2> QED BY <1>1, <1>2, <1>5, <2>3 DEF OperationInv, TypesInv, Living
<1>10. EntriesInv'
  BY <1>1 DEF OperationInv, EntriesInv, EntryRecords, Owned, Has
<1>11. TodoInv'
  BY <1>1 DEF TodoInv
<1>12. HonestInterruption'
  <2>1. \A x \in DOMAIN effects' : x \in DOMAIN effects \/ x = c
    BY <1>5
  <2> QED BY <1>1, <2>1 DEF OperationInv, HonestInterruption, Has
<1>13. ASSUME NEW s, s.calls = state.calls \/ s = op, Recorded(s),
              s.rsp = state.rsp, s.attempt = state.attempt, s.phase = "tools"
       PROVE  Recorded(s)'
  <2>1. \A i \in DOMAIN s.calls : s.calls[i].id = <<s.rsp, s.attempt, i>>
    BY <1>13 DEF Recorded
  <2>2. /\ state.cur \in DOMAIN s.calls /\ s.calls[state.cur].id = c
        /\ s.calls[state.cur].status = "effect_pending"
        /\ s.calls[state.cur].replay = state.calls[state.cur].replay
    BY <1>1, <1>2, <1>4, <1>13 DEF Current
  <2>3. c[1] = s.rsp
    BY <2>1, <2>2
  <2>4. \A x \in DOMAIN effects' : x[1] < s.rsp \/ (x[1] = s.rsp /\ s.phase # "model_pending")
    BY <1>5, <1>13, <2>3 DEF Recorded
  <2>5. ASSUME NEW i \in DOMAIN s.calls
        PROVE  /\ s.calls[i].status = "planned" => s.calls[i].id \notin DOMAIN effects'
               /\ s.calls[i].replay = "never" => Executions(s.calls[i].id)' <= 1
    <3>1. CASE i = state.cur
      <4>1. s.calls[i].replay = "never" => Executions(c) = 0
        BY <1>1, <1>3, <2>2, <3>1 DEF Executions
      <4>2. Executions(c)' = Executions(c) + 1
        BY <1>8
      <4> QED BY <2>2, <3>1, <4>1, <4>2
    <3>2. CASE i # state.cur
      <4>1. s.calls[i].id # c
        BY <2>1, <2>2, <3>2
      <4>2. Executions(s.calls[i].id)' = Executions(s.calls[i].id)
        BY <1>7, <1>8, <4>1
      <4>3. s.calls[i].replay = "never" => Executions(s.calls[i].id) <= 1
        BY <1>13 DEF Recorded
      <4> QED BY <1>5, <1>13, <4>1, <4>2, <4>3 DEF Recorded
    <3> QED BY <3>1, <3>2
  <2> QED BY <1>13, <2>1, <2>4, <2>5 DEF Recorded, Executions
<1>14. Recorded(op)' /\ Recorded(state)'
  <2>1. Recorded(op)
    BY DEF OperationInv
  <2> DEFINE o == op
             s == state
  <2>2. Recorded(o) /\ Recorded(s) /\ o = op /\ s = state
    BY <1>2, <2>1
  <2>3. o' = o /\ s' = s
    BY SMTT(30), <1>1
  <2>4. Recorded(o)'
    <3>1. /\ op.rsp = state.rsp /\ op.attempt = state.attempt /\ op.phase = "tools"
      BY <1>4
    <3>2. PICK r : r = op
      OBVIOUS
    <3>3. Recorded(r)'
      BY <1>13, <2>1, <3>1, <3>2
    <3> QED BY ZenonT(60), <1>1, <3>2, <3>3 DEF Recorded, Executions
  <2>5. Recorded(s)'
    <3>1. PICK r : r = state
      OBVIOUS
    <3>2. Recorded(r)'
      BY <1>1, <1>2, <1>13, <3>1
    <3> QED BY ZenonT(60), <1>1, <3>1, <3>2 DEF Recorded, Executions
  <2> QED BY <2>4, <2>5
<1>15. Target' = state'
  BY <1>1 DEF Target
<1>16. Lived(Target, proc, uncertain, granted)' /\ Placed(Target, proc)'
  <2>1. \A i \in DOMAIN state.calls : state.calls[i].id = <<state.rsp, state.attempt, i>>
    BY <1>2 DEF Recorded
  <2>2. \A i \in DOMAIN state.calls : i # state.cur => state.calls[i].id # c
    BY <1>1, <1>2, <2>1
  <2>3. \A i \in DOMAIN state.calls :
          /\ state.calls[i].status = "planned" /\ state.calls[i].perm = "allowed"
               => state.calls[i].id \in granted
          /\ state.calls[i].status = "effect_pending" /\ state.calls[i].id \notin uncertain
               => /\ state.calls[i].id \in granted
                  /\ state.calls[i].id \in DOMAIN effects' => i = state.cur
    BY <1>1, <1>2, <1>3, <1>5, <2>2 DEF Lived
  <2>4. Lived(Target, proc, uncertain, granted)'
    BY <1>1, <1>15, <2>3 DEF Lived
  <2>5. Placed(Target, proc)'
    BY <1>1, <1>15 DEF Placed, Current
  <2> QED BY <2>4, <2>5
<1>17. Recorded(Target)'
  BY <1>14, <1>15 DEF Recorded, Executions
<1>18. (state = op \/ state = ResetPermissions(op))'
  BY <1>1 DEF OperationInv, ResetPermissions
<1>19. OperationInv'
  BY <1>1, <1>9, <1>10, <1>11, <1>12, <1>14, <1>16, <1>17, <1>18 DEF OperationInv
<1>20. \E i \in DOMAIN op.calls : op.calls[i].id = c /\ op.calls[i].status = "effect_pending"
  BY <1>1, <1>2, <1>4 DEF Current
<1> QED BY <1>0, <1>1, <1>3, <1>19, <1>20

(* A write reaches the store.                                                 *)
LEMMA WriteStep ==
    ASSUME OperationInv, Write
    PROVE  OperationInv' /\ UNCHANGED <<effects, granted>>
<1>0. PICK w : w = Head(todo)
  OBVIOUS
<1>1. /\ todo # <<>> /\ todo' = Tail(todo)
      /\ UNCHANGED <<proc, uncertain, effects, granted>>
  BY DEF Write
<1>2. /\ todo \in Seq(Writes) /\ Len(todo) \in Nat \ {0} /\ w = todo[1]
      /\ DOMAIN todo = 1 .. Len(todo) /\ 1 \in DOMAIN todo
      /\ \A j \in 1 .. Len(todo) - 1 : todo[j].w # "save"
      /\ \A j \in DOMAIN todo : Connects(todo, j) /\ Truthful(todo[j])
  BY <1>0, <1>1 DEF OperationInv, TodoInv
<1>3. /\ todo' \in Seq(Writes) /\ Len(todo') = Len(todo) - 1
      /\ DOMAIN todo' = 1 .. Len(todo) - 1
      /\ \A j \in 1 .. Len(todo) - 1 : todo'[j] = todo[j + 1] /\ j + 1 \in DOMAIN todo
  BY <1>1, <1>2
<1>4. w \in Writes /\ Connects(todo, 1) /\ Truthful(w)
  BY <1>2
<1>5. (proc \in {"executed", "down"} => todo = <<>>)'
  BY <1>1 DEF OperationInv
<1>6. CASE w.w = "append"
  <2>1. /\ entries' = [id \in DOMAIN entries \cup {w.id} |->
                         IF Has(id) THEN entries[id]
                         ELSE [path |-> Append(leaf, id), calls |-> w.calls, code |-> w.code]]
        /\ notes' = (IF w.id[1] = "note" THEN notes + 1 ELSE notes)
        /\ UNCHANGED <<op, state, leaf>>
    BY <1>0, <1>6 DEF Write
  <2>2. /\ w.id \in EntryIds /\ w.calls \in Seq(CallIds) /\ w.code \in EntryCodes
        /\ Owned(w.id, w.calls)
        /\ w.code = "before_execution" => \A c \in DOMAIN effects : w.id # ResId(c)
    BY <1>4, <1>6 DEF Writes, Appends, Moves, Truthful
  <2>3. TypesInv'
    <3>1. notes \in Nat
      BY DEF OperationInv, TypesInv
    <3>2. notes' \in Nat
      BY <2>1, <3>1
    <3> QED BY <1>1, <3>2 DEF OperationInv, TypesInv
  <2>4. /\ DOMAIN entries' = DOMAIN entries \cup {w.id}
        /\ \A id \in DOMAIN entries : entries'[id] = entries[id]
        /\ w.id \notin DOMAIN entries =>
             entries'[w.id] = [path |-> Append(leaf, w.id), calls |-> w.calls, code |-> w.code]
    BY <2>1 DEF Has
  <2>5. /\ leaf \in Seq(EntryIds) /\ DOMAIN entries \subseteq EntryIds
        /\ entries \in [DOMAIN entries -> EntryRecords]
    BY DEF OperationInv, EntriesInv
  <2>6. ASSUME NEW id \in DOMAIN entries'
        PROVE  /\ entries'[id] \in EntryRecords
               /\ entries'[id].path # <<>> /\ entries'[id].path[Len(entries'[id].path)] = id
               /\ Owned(id, entries'[id].calls)
    <3>1. CASE id \in DOMAIN entries
      BY <2>4, <2>5, <3>1 DEF OperationInv, EntriesInv
    <3>2. CASE id \notin DOMAIN entries
      <4>1. id = w.id /\ entries'[id] = [path |-> Append(leaf, id), calls |-> w.calls,
                                         code |-> w.code]
        BY <2>4, <3>2
      <4>2. /\ Append(leaf, id) \in Seq(EntryIds) /\ Append(leaf, id) # <<>>
            /\ Append(leaf, id)[Len(Append(leaf, id))] = id
        BY <2>2, <2>5, <4>1
      <4> QED BY <2>2, <4>1, <4>2 DEF EntryRecords
    <3> QED BY <3>1, <3>2
  <2>7. EntriesInv'
    <3>1. entries' = [id \in DOMAIN entries' |-> entries'[id]]
      BY <2>1
    <3>2. entries' \in [DOMAIN entries' -> EntryRecords]
      BY <2>6, <3>1
    <3>3. DOMAIN entries' \subseteq EntryIds
      BY <2>2, <2>4, <2>5
    <3>4. leaf' # <<>> => /\ leaf'[Len(leaf')] \in DOMAIN entries'
                          /\ entries'[leaf'[Len(leaf')]].path = leaf'
      BY <2>1, <2>4 DEF OperationInv, EntriesInv, Has
    <3>5. leaf' \in Seq(EntryIds)
      BY <2>1, <2>5
    <3>6. \A id \in DOMAIN entries' :
            /\ entries'[id].path # <<>> /\ entries'[id].path[Len(entries'[id].path)] = id
            /\ Owned(id, entries'[id].calls)
      BY <2>6
    <3> QED BY <3>2, <3>3, <3>4, <3>5, <3>6 DEF EntriesInv, Has, Owned
  <2>8. HonestInterruption'
    <3>1. SUFFICES ASSUME NEW c \in DOMAIN effects, ResId(c) \in DOMAIN entries'
                   PROVE  entries'[ResId(c)].code # "before_execution"
      BY <1>1 DEF HonestInterruption, Has
    <3>2. CASE ResId(c) \in DOMAIN entries
      BY <2>4, <3>2 DEF OperationInv, HonestInterruption, Has
    <3>3. CASE ResId(c) \notin DOMAIN entries
      <4>1. ResId(c) = w.id /\ entries'[ResId(c)].code = w.code
        BY <2>4, <3>1, <3>3
      <4> QED BY <2>2, <4>1
    <3> QED BY <3>2, <3>3
  <2>9. ASSUME NEW j \in DOMAIN todo'
        PROVE  Connects(todo, j)' /\ Truthful(todo[j])'
               /\ (j \in 1 .. Len(todo') - 1 => todo'[j].w # "save")
    <3>1. todo'[j] = todo[j + 1] /\ j + 1 \in DOMAIN todo /\ j \in 1 .. Len(todo) - 1
      BY <1>3
    <3>2. Connects(todo, j + 1) /\ Truthful(todo[j + 1])
      BY <1>2, <3>1
    <3>3. Truthful(todo[j])'
      BY <1>1, <3>1, <3>2 DEF Truthful, Owned
    <3>4. Connects(todo, j)'
      <4>1. SUFFICES ASSUME todo'[j].w = "leaf"
                     PROVE  \/ todo'[j].id \in DOMAIN entries'
                            \/ \E k \in 1 .. j - 1 : todo'[k].w = "append"
                                                     /\ todo'[k].id = todo'[j].id
        BY DEF Connects, Has
      <4>2. CASE todo[j + 1].id \in DOMAIN entries
        BY <2>4, <3>1, <4>2
      <4>3. CASE \E k \in 1 .. j + 1 - 1 : todo[k].w = "append" /\ todo[k].id = todo[j + 1].id
        <5>1. PICK k \in 1 .. j : todo[k].w = "append" /\ todo[k].id = todo[j + 1].id
          BY <3>1, <4>3
        <5>2. CASE k = 1
          BY <1>2, <2>4, <3>1, <5>1, <5>2
        <5>3. CASE k # 1
          <6>1. k - 1 \in 1 .. j - 1 /\ k - 1 \in 1 .. Len(todo) - 1 /\ k - 1 + 1 = k
            BY <1>2, <3>1, <5>3
          <6>2. todo'[k - 1] = todo[k]
            BY <1>3, <6>1
          <6> QED BY <3>1, <5>1, <6>1, <6>2
        <5> QED BY <5>2, <5>3
      <4> QED BY <3>1, <3>2, <4>1, <4>2, <4>3 DEF Connects, Has
    <3>5. j \in 1 .. Len(todo') - 1 => todo'[j].w # "save"
      <4>1. j \in 1 .. Len(todo') - 1 => j + 1 \in 1 .. Len(todo) - 1
        BY <1>2, <1>3, <3>1
      <4> QED BY <1>2, <3>1, <4>1
    <3> QED BY <3>3, <3>4, <3>5
  <2>10. TodoInv'
    <3>1. \A j \in 1 .. Len(todo') - 1 : j \in DOMAIN todo'
      BY <1>2, <1>3
    <3> QED BY <1>3, <2>9, <3>1 DEF TodoInv
  <2>11. Target' = Target
    <3>1. CASE Len(todo) = 1
      <4>1. todo' = <<>>
        BY <1>3, <3>1
      <4>2. todo[Len(todo)].w # "save"
        BY <1>2, <1>6, <3>1
      <4> QED BY <2>1, <4>1, <4>2 DEF Target
    <3>2. CASE Len(todo) # 1
      <4>1. todo' # <<>> /\ todo'[Len(todo')] = todo[Len(todo)]
        BY <1>2, <1>3, <3>2
      <4> QED BY <1>1, <2>1, <4>1 DEF Target
    <3> QED BY <3>1, <3>2
  <2>12. Recorded(op)' /\ Recorded(Target)'
    BY <1>1, <2>1, <2>11 DEF OperationInv, Recorded, Executions
  <2>13. (proc \in Living => Lived(Target, proc, uncertain, granted) /\ Placed(Target, proc))'
    BY <1>1, <2>11 DEF OperationInv, Lived, Placed, Current
  <2>14. (state = op \/ state = ResetPermissions(op))'
    BY <2>1 DEF OperationInv, ResetPermissions
  <2> QED BY <1>1, <1>5, <2>3, <2>7, <2>8, <2>10, <2>12, <2>13, <2>14 DEF OperationInv
<1>7. CASE w.w = "leaf"
  <2>1. leaf' = entries[w.id].path /\ UNCHANGED <<op, state, entries, notes>>
    BY <1>0, <1>7 DEF Write
  <2>2. Has(w.id)
    <3>1. \A k \in 1 .. 1 - 1 : FALSE
      OBVIOUS
    <3> QED BY <1>2, <1>4, <1>7, <3>1 DEF Connects
  <2>3. EntriesInv'
    <3>1. /\ entries[w.id] \in EntryRecords /\ entries[w.id].path # <<>>
          /\ entries[w.id].path[Len(entries[w.id].path)] = w.id
      BY <2>2 DEF OperationInv, EntriesInv, Has
    <3>2. leaf' \in Seq(EntryIds)
      BY <2>1, <3>1 DEF EntryRecords
    <3>3. leaf'[Len(leaf')] = w.id
      BY <2>1, <3>1
    <3> QED BY <2>1, <2>2, <3>2, <3>3 DEF OperationInv, EntriesInv, EntryRecords, Owned, Has
  <2>4. ASSUME NEW j \in DOMAIN todo'
        PROVE  Connects(todo, j)' /\ Truthful(todo[j])'
               /\ (j \in 1 .. Len(todo') - 1 => todo'[j].w # "save")
    <3>1. todo'[j] = todo[j + 1] /\ j + 1 \in DOMAIN todo /\ j \in 1 .. Len(todo) - 1
      BY <1>3
    <3>2. Connects(todo, j + 1) /\ Truthful(todo[j + 1])
      BY <1>2, <3>1
    <3>3. Truthful(todo[j])'
      BY <1>1, <3>1, <3>2 DEF Truthful, Owned
    <3>4. Connects(todo, j)'
      <4>1. SUFFICES ASSUME todo'[j].w = "leaf"
                     PROVE  \/ todo'[j].id \in DOMAIN entries
                            \/ \E k \in 1 .. j - 1 : todo'[k].w = "append"
                                                     /\ todo'[k].id = todo'[j].id
        BY <2>1 DEF Connects, Has
      <4>2. CASE \E k \in 1 .. j + 1 - 1 : todo[k].w = "append" /\ todo[k].id = todo[j + 1].id
        <5>1. PICK k \in 1 .. j : todo[k].w = "append" /\ todo[k].id = todo[j + 1].id
          BY <3>1, <4>2
        <5>2. k # 1
          BY <1>2, <1>7, <5>1
        <5>3. k - 1 \in 1 .. j - 1 /\ k - 1 \in 1 .. Len(todo) - 1 /\ k - 1 + 1 = k
          BY <1>2, <3>1, <5>2
        <5>4. todo'[k - 1] = todo[k]
          BY <1>3, <5>3
        <5> QED BY <3>1, <5>1, <5>3, <5>4
      <4> QED BY <3>1, <3>2, <4>1, <4>2 DEF Connects, Has
    <3>5. j \in 1 .. Len(todo') - 1 => todo'[j].w # "save"
      <4>1. j \in 1 .. Len(todo') - 1 => j + 1 \in 1 .. Len(todo) - 1
        BY <1>2, <1>3, <3>1
      <4> QED BY <1>2, <3>1, <4>1
    <3> QED BY <3>3, <3>4, <3>5
  <2>5. TodoInv'
    <3>1. \A j \in 1 .. Len(todo') - 1 : j \in DOMAIN todo'
      BY <1>2, <1>3
    <3> QED BY <1>3, <2>4, <3>1 DEF TodoInv
  <2>6. Target' = Target
    <3>1. CASE Len(todo) = 1
      <4>1. todo' = <<>>
        BY <1>3, <3>1
      <4>2. todo[Len(todo)].w # "save"
        BY <1>2, <1>7, <3>1
      <4> QED BY <2>1, <4>1, <4>2 DEF Target
    <3>2. CASE Len(todo) # 1
      <4>1. todo' # <<>> /\ todo'[Len(todo')] = todo[Len(todo)]
        BY <1>2, <1>3, <3>2
      <4> QED BY <1>1, <2>1, <4>1 DEF Target
    <3> QED BY <3>1, <3>2
  <2>7. Recorded(op)' /\ Recorded(Target)'
    BY <1>1, <2>1, <2>6 DEF OperationInv, Recorded, Executions
  <2>8. (proc \in Living => Lived(Target, proc, uncertain, granted) /\ Placed(Target, proc))'
    BY <1>1, <2>6 DEF OperationInv, Lived, Placed, Current
  <2>9. (state = op \/ state = ResetPermissions(op))' /\ TypesInv' /\ HonestInterruption'
    BY <1>1, <2>1 DEF OperationInv, ResetPermissions, TypesInv, HonestInterruption, Has
  <2> QED BY <1>1, <1>5, <2>3, <2>5, <2>7, <2>8, <2>9 DEF OperationInv
<1>8. CASE w.w = "save"
  <2>1. op' = w.st /\ state' = w.st /\ UNCHANGED <<leaf, entries, notes>>
    BY <1>0, <1>8 DEF Write
  <2>2. Len(todo) = 1
    <3>1. ~(1 \in 1 .. Len(todo) - 1)
      BY <1>2, <1>8
    <3> QED BY <1>2, <3>1
  <2>3. todo' = <<>> /\ Target = w.st /\ Target' = w.st
    <3>1. todo' = <<>>
      BY <1>3, <2>2
    <3> QED BY <1>1, <1>2, <1>8, <2>1, <2>2, <3>1 DEF Target
  <2>4. Recorded(op)' /\ Recorded(Target)'
    BY <1>1, <2>1, <2>3 DEF OperationInv, Recorded, Executions
  <2>5. (proc \in Living => Lived(Target, proc, uncertain, granted) /\ Placed(Target, proc))'
    BY <1>1, <2>3 DEF OperationInv, Lived, Placed, Current
  <2>6. TypesInv' /\ HonestInterruption' /\ EntriesInv'
    BY <1>1, <2>1 DEF OperationInv, TypesInv, HonestInterruption, Has, EntriesInv,
                      EntryRecords, Owned
  <2>7. TodoInv'
    BY <2>3 DEF TodoInv
  <2> QED BY <1>1, <1>5, <2>1, <2>4, <2>5, <2>6, <2>7 DEF OperationInv
<1>9. w.w = "append" \/ w.w = "leaf" \/ w.w = "save"
  BY <1>4 DEF Writes, Appends, Moves
<1> QED BY <1>1, <1>6, <1>7, <1>8, <1>9

(* The process dies, and is started again to resume or to recover.            *)
LEMMA RestartStep ==
    ASSUME OperationInv, Crash \/ Restart
    PROVE  OperationInv'
<1>1. /\ Recorded(op) /\ TypesInv /\ EntriesInv /\ HonestInterruption
      /\ state = op \/ state = ResetPermissions(op)
  BY DEF OperationInv
<1>2. /\ todo' = <<>> /\ UNCHANGED <<op, leaf, entries, effects, notes>>
      /\ proc' \in {"down", "resumed", "recover"}
      /\ proc' = "down" => state' = op /\ uncertain' = {} /\ granted' = {}
      /\ proc' = "resumed" =>
           /\ state' = ResetPermissions(op) /\ granted' = granted
           /\ uncertain' = { op.calls[i].id : i \in { j \in DOMAIN op.calls :
                                                op.calls[j].status = "effect_pending" } }
      /\ proc' = "recover" => state' = state /\ uncertain' = uncertain /\ granted' = granted
  BY DEF OperationInv, Crash, Restart, Resume, StartRecovery
<1>3. \A i \in DOMAIN op.calls : op.calls[i].id \in CallIds
  <2>1. op \in States
    BY <1>1 DEF Recorded
  <2> QED BY <2>1, StateFields DEF ToolCallStates
<1>4. uncertain' \subseteq CallIds /\ granted' \subseteq CallIds
  BY <1>1, <1>2, <1>3 DEF TypesInv
<1>5. TypesInv' /\ EntriesInv' /\ HonestInterruption'
  BY <1>1, <1>2, <1>4 DEF TypesInv, EntriesInv, EntryRecords, Owned, Has,
                          HonestInterruption, Living
<1>6. (state = op \/ state = ResetPermissions(op))'
  BY <1>1, <1>2 DEF ResetPermissions
<1>7. TodoInv'
  BY <1>2 DEF TodoInv
<1>8. Target' = state'
  BY <1>2 DEF Target
<1>9. Recorded(op) /\ Recorded(ResetPermissions(op))
  BY <1>1, ResetRecorded
<1>10. Recorded(op)' /\ Recorded(Target)'
  <2>1. PICK r : r = state'
    OBVIOUS
  <2>2. Recorded(r)
    BY <1>1, <1>2, <1>9, <2>1
  <2>3. Recorded(r)'
    BY <1>2, <2>2 DEF Recorded, Executions
  <2>4. Recorded(op)'
    BY <1>1, <1>2 DEF Recorded, Executions
  <2>5. Recorded(Target)'
    BY <1>2, <1>8, <2>1, <2>3 DEF Recorded, Executions
  <2> QED BY <2>4, <2>5
<1>11. (proc \in Living => Lived(Target, proc, uncertain, granted) /\ Placed(Target, proc))'
  <2>1. CASE proc' = "resumed"
    <3>1. PICK r : r = ResetPermissions(op)
      OBVIOUS
    <3>2. /\ DOMAIN r.calls = DOMAIN op.calls
          /\ \A i \in DOMAIN op.calls :
               /\ r.calls[i].id = op.calls[i].id /\ r.calls[i].status = op.calls[i].status
               /\ r.calls[i].status = "planned" => r.calls[i].perm = "pending"
      BY <1>1, <3>1, ResetRecorded
    <3>3. \A i \in DOMAIN r.calls :
            r.calls[i].status = "effect_pending" => r.calls[i].id \in uncertain'
      BY <1>2, <2>1, <3>2
    <3>4. Target' = r
      BY <1>2, <1>8, <2>1, <3>1
    <3>5. Lived(Target, proc, uncertain, granted)'
      BY <3>2, <3>3, <3>4 DEF Lived
    <3>6. Placed(Target, proc)'
      BY <2>1 DEF Placed
    <3> QED BY <3>5, <3>6
  <2>2. CASE proc' # "resumed"
    BY <1>2, <2>2 DEF Living
  <2> QED BY <2>1, <2>2
<1> QED BY <1>2, <1>5, <1>6, <1>7, <1>10, <1>11 DEF OperationInv

(* What a recovery says of a call without a result.                           *)
LEMMA LeastMissing ==
    ASSUME Missing # {}, Missing \subseteq Nat
    PROVE  Next1 \in Missing
<1>1. \E m \in Missing : \A n \in Missing : m <= n
  BY LeastExists
<1> QED BY <1>1 DEF Next1

LEMMA RecoverAppendStep ==
    ASSUME OperationInv, RecoverAppend
    PROVE  OperationInv'
<1> DEFINE n == Next1
           c == RecoveredCalls[n - 1]
           e == Entry(ResId(c), <<>>, InterruptionCode(c))
<1>1. /\ proc = "recover" /\ todo = <<>> /\ ~Mismatch /\ Missing # {}
      /\ ~Has(Expected[n]) /\ ~Lost(n)
      /\ Begins(<<e>>, "recover") /\ Same
  BY DEF RecoverAppend, At, Do, Go, Begins
<1>2. Recorded(op) /\ op \in States /\ EntriesInv
  BY DEF OperationInv, Recorded
<1> DEFINE a    == AsstId(op.rsp)
           calls == entries[a].calls
<1>3. Assistants # {}
  <2>1. SUFFICES ASSUME Assistants = {} PROVE FALSE
    OBVIOUS
  <2>2. RecoveredCalls = <<>>
    BY <2>1 DEF RecoveredCalls
  <2>3. Expected = <<>> \o [i \in DOMAIN RecoveredCalls |-> ResId(RecoveredCalls[i])]
    BY <2>1 DEF Expected
  <2>4. [i \in DOMAIN RecoveredCalls |-> ResId(RecoveredCalls[i])] = <<>>
    BY <2>2
  <2>5. DOMAIN Expected = {}
    BY <2>3, <2>4
  <2> QED BY <1>1, <2>5 DEF Missing
<1>4. /\ op.phase \in {"tools", "model_pending"} /\ Has(a)
      /\ RecoveredCalls = calls
  BY <1>3 DEF Assistants, RecoveredCalls
<1>5. calls \in Seq(CallIds) /\ \A i \in DOMAIN calls : calls[i][1] = op.rsp
  <2>1. entries[a] \in EntryRecords /\ Owned(a, calls)
    BY <1>2, <1>4 DEF EntriesInv, Has
  <2>2. a[2] = op.rsp
    BY DEF AsstId
  <2>3. calls \in Seq(CallIds)
    BY <2>1 DEF EntryRecords
  <2> HIDE DEF calls, a
  <2> QED BY <2>1, <2>2, <2>3 DEF Owned
<1>6. \A m \in DOMAIN calls : ResId(calls[m]) \in EntryIds
  <2> HIDE DEF calls
  <2>1. \A m \in DOMAIN calls : calls[m] \in CallIds
    BY <1>5
  <2> QED BY <2>1 DEF ResId, EntryIds, CallIds
<1>7. /\ Len(calls) \in Nat /\ DOMAIN calls = 1 .. Len(calls)
      /\ Len(Expected) = Len(calls) + 1 /\ DOMAIN Expected = 1 .. Len(calls) + 1
      /\ Expected[1] = a
      /\ \A m \in 2 .. Len(calls) + 1 : Expected[m] = ResId(calls[m - 1])
  <2> DEFINE rs == [i \in DOMAIN calls |-> ResId(calls[i])]
  <2>1. Expected = <<a>> \o rs
    BY <1>3, <1>4 DEF Expected
  <2>2. Len(calls) \in Nat /\ DOMAIN calls = 1 .. Len(calls)
    BY <1>5
  <2>3. rs \in Seq(EntryIds) /\ Len(rs) = Len(calls)
        /\ \A m \in 1 .. Len(calls) : rs[m] = ResId(calls[m])
    <3> HIDE DEF calls
    <3> QED BY <1>6, <2>2
  <2>4. <<a>> \in Seq({a} \cup EntryIds) /\ rs \in Seq({a} \cup EntryIds)
    BY <2>3
  <2> HIDE DEF rs, a, calls
  <2> QED BY <2>1, <2>2, <2>3, <2>4
<1>8. n \in Missing
  <2>1. Missing \subseteq Nat
    BY <1>7 DEF Missing
  <2> QED BY <1>1, <2>1, LeastMissing
<1> HIDE DEF n, a, calls
<1>9. n \in 2 .. Len(calls) + 1 /\ n - 1 \in DOMAIN calls
  <2>1. n \in 1 .. Len(calls) + 1
    BY <1>7, <1>8 DEF Missing
  <2>2. n # 1
    BY <1>1, <1>4, <1>7
  <2> QED BY <1>7, <2>1, <2>2
<1>10. c \in CallIds /\ c[1] = op.rsp /\ c = calls[n - 1]
  BY <1>4, <1>5, <1>9
<1> DEFINE code == InterruptionCode(c)
<1>11. code \in EntryCodes
  BY DEF InterruptionCode, EntryCodes
<1>12. code = "before_execution" => c \notin DOMAIN effects
  <2>1. SUFFICES ASSUME code = "before_execution" PROVE c \notin DOMAIN effects
    OBVIOUS
  <2>2. CASE op.phase = "model_pending"
    <3>1. op.rsp \in Nat
      BY <1>2, StateFields
    <3> HIDE DEF c
    <3> QED BY <1>2, <1>10, <2>2, <3>1 DEF Recorded
  <2>3. CASE op.phase = "tools"
    <3>1. c \in { op.calls[i].id : i \in DOMAIN op.calls }
      <4>1. c \in Elements(RecoveredCalls)
        BY <1>4, <1>9, <1>10 DEF Elements
      <4> QED BY <1>1, <2>3, <4>1 DEF Mismatch
    <3>2. Execution(c) # {}
      BY <2>3, <3>1 DEF Execution
    <3>3. PICK i : i = CHOOSE j \in Execution(c) : TRUE
      OBVIOUS
    <3>4. i \in DOMAIN op.calls /\ op.calls[i].id = c /\ StatusOf(c) = op.calls[i].status
      BY <3>2, <3>3 DEF Execution, StatusOf
    <3>5. StatusOf(c) # "effect_pending"
      BY <2>1 DEF InterruptionCode
    <3>6. StatusOf(c) # "completed"
      BY <1>1 DEF Lost
    <3>7. op.calls[i].status = "planned"
      <4>1. op.calls[i] \in ToolCallStates
        BY <1>2, <3>4, StateFields
      <4> QED BY <3>4, <3>5, <3>6, <4>1 DEF ToolCallStates
    <3> QED BY <1>2, <3>4, <3>7 DEF Recorded
  <2> QED BY <1>4, <2>2, <2>3
<1> HIDE DEF code, c
<1>13. e \in Appends /\ e.w = "append" /\ e.id = ResId(c) /\ e.calls = <<>> /\ e.code = code
  <2>1. ResId(c) \in EntryIds /\ <<>> \in Seq(CallIds)
    BY <1>10 DEF ResId, EntryIds, CallIds
  <2> QED BY <1>11, <2>1 DEF Entry, Appends, code
<1>14. /\ todo' = <<e>> /\ proc' = "recover"
       /\ UNCHANGED <<op, leaf, entries, state, effects, notes>>
  BY <1>1 DEF Begins
<1>15. PICK r : r = e
  OBVIOUS
<1>16. PICK x : x = c
  OBVIOUS
<1> HIDE DEF e
<1>17. Truthful(r)'
  <2>1. Owned(r.id, r.calls)
    BY <1>13, <1>15 DEF Owned
  <2>2. r.code = "before_execution" => x \notin DOMAIN effects
    BY <1>12, <1>13, <1>15, <1>16
  <2>3. \A y \in DOMAIN effects : r.id = ResId(y) => y = x
    <3>1. DOMAIN effects \subseteq CallIds /\ x \in CallIds
      BY <1>10, <1>16 DEF OperationInv, TypesInv
    <3>2. r.id = ResId(x)
      BY <1>13, <1>15, <1>16
    <3> QED BY <3>1, <3>2 DEF ResId, CallIds
  <2> QED BY <1>14, <2>1, <2>2, <2>3 DEF Truthful
<1>18. TodoInv'
  <2>1. todo' = <<r>> /\ r \in Writes /\ r.w = "append"
    BY <1>13, <1>14, <1>15 DEF Writes
  <2>2. todo' \in Seq(Writes) /\ Len(todo') = 1 /\ DOMAIN todo' = {1} /\ todo'[1] = r
    BY <2>1
  <2>3. Connects(todo, 1)'
    BY <2>1, <2>2 DEF Connects
  <2>4. \A j \in 1 .. 1 - 1 : FALSE
    OBVIOUS
  <2>5. Truthful(todo[1])'
    BY <1>17, <2>2 DEF Truthful
  <2> QED BY <2>2, <2>3, <2>4, <2>5 DEF TodoInv
<1>19. Target' = state
  BY <1>13, <1>14 DEF Target
<1>20. Recorded(Target)'
  <2>1. Recorded(state)
    BY <1>1, Here
  <2> QED BY <1>14, <1>19, <2>1 DEF Recorded, Executions
<1>21. /\ TypesInv' /\ EntriesInv' /\ HonestInterruption'
       /\ (state = op \/ state = ResetPermissions(op))' /\ Recorded(op)'
  <2>1. Between
    BY <1>1, SameBetween
  <2>2. proc' \in Living \cup {"done", "down", "recover", "blocked"}
    BY <1>14
  <2> QED BY <1>14, <2>1, <2>2, Unchanged
<1>22. (proc \in Living => Lived(Target, proc, uncertain, granted) /\ Placed(Target, proc))'
       /\ (proc \in {"executed", "down"} => todo = <<>>)'
  BY <1>14 DEF Living
<1> QED BY <1>18, <1>20, <1>21, <1>22 DEF OperationInv

LEMMA RecoverStep ==
    ASSUME OperationInv, RecoverConnect \/ RecoverFinish \/ RecoverConflict
    PROVE  OperationInv'
<1>1. CASE RecoverConnect
  <2> DEFINE id == Expected[Next1]
             a  == <<Leaf(id)>>
             pc == "recover"
  <2>1. /\ todo = <<>> /\ Has(id) /\ Begins(a, pc) /\ Same /\ pc = "recover"
    BY <1>1 DEF RecoverConnect, At, Do, Go, Begins
  <2>2. id \in EntryIds
    BY <2>1 DEF OperationInv, EntriesInv, Has
  <2> HIDE DEF id
  <2>3. Plain(a)
    <3>1. Leaf(id) \in Moves /\ Leaf(id).id = id
      BY <2>2 DEF Leaf, Moves
    <3>2. a \in Seq(Appends \cup Moves) /\ DOMAIN a = {1} /\ a[1] = Leaf(id)
      BY <3>1
    <3>3. Connects(a, 1)
      BY <2>1, <3>1, <3>2 DEF Connects
    <3>4. a[1].w # "append"
      BY <3>2 DEF Leaf
    <3> QED BY <3>2, <3>3, <3>4 DEF Plain
  <2>4. Recorded(state) /\ Between
    BY <2>1, Here, SameBetween
  <2>5. pc \in Living \cup {"recover", "blocked"} /\ pc # "executed" /\ pc \notin Living
    BY DEF Living
  <2> HIDE DEF a, pc
  <2> QED BY <2>1, <2>3, <2>4, <2>5, Goes
<1>2. CASE RecoverFinish
  <2> DEFINE pc   == "done"
             code == "runtime_interrupted"
             r    == Failed(op, code)
  <2>1. Begins(<<Save(r)>>, pc) /\ Same /\ pc = "done"
    BY <1>2 DEF RecoverFinish, Do, Go, Begins
  <2>2. Recorded(op) /\ code \in ErrorCodes
    BY DEF OperationInv, ErrorCodes
  <2>3. pc \in {"top", "request", "model", "approval", "done"}
    OBVIOUS
  <2> HIDE DEF code
  <2>4. Recorded(r)
    BY <2>2, EndRecorded
  <2>5. Between
    BY <2>1, SameBetween
  <2> HIDE DEF pc, r
  <2> QED BY <2>1, <2>3, <2>4, <2>5, SavesOnly
<1>3. CASE RecoverConflict
  <2> DEFINE pc == "blocked"
  <2>1. todo = <<>> /\ proc \in Living \cup {"recover"} /\ proc # "executed"
        /\ Do(<<>>, pc) /\ Same /\ pc = "blocked"
    BY <1>3 DEF RecoverConflict, At, Living
  <2>2. pc \in {"request", "top", "blocked"}
    OBVIOUS
  <2> HIDE DEF pc
  <2> QED BY <2>1, <2>2, SameBetween, MoveStep
<1> QED BY <1>1, <1>2, <1>3

LEMMA StutterStep ==
    ASSUME OperationInv, UNCHANGED vars
    PROVE  OperationInv'
<1>1. /\ UNCHANGED <<op, leaf, entries, state, effects, notes>>
      /\ UNCHANGED <<proc, todo, uncertain, granted>>
  BY DEF vars
<1>2. /\ TypesInv' /\ EntriesInv' /\ HonestInterruption'
      /\ (state = op \/ state = ResetPermissions(op))' /\ Recorded(op)'
  <2>1. Between /\ proc' \in Living \cup {"done", "down", "recover", "blocked"}
    BY <1>1 DEF Between, OperationInv, TypesInv
  <2> QED BY <1>1, <2>1, Unchanged
<1>3. Target' = Target
  BY <1>1 DEF Target
<1>4. Recorded(Target)'
  BY <1>1, <1>3 DEF OperationInv, Recorded, Executions
<1>5. (proc \in Living => Lived(Target, proc, uncertain, granted) /\ Placed(Target, proc))'
  BY <1>1, <1>3 DEF OperationInv, Lived, Placed, Current
<1>6. TodoInv'
  <2>1. \A j \in DOMAIN todo : Connects(todo, j)' /\ Truthful(todo[j])'
    BY <1>1 DEF OperationInv, TodoInv, Connects, Truthful, Owned, Has
  <2> QED BY <1>1, <2>1 DEF OperationInv, TodoInv
<1> QED BY <1>1, <1>2, <1>4, <1>5, <1>6 DEF OperationInv

LEMMA NextStep == OperationInv /\ [Next]_vars => OperationInv'
<1> SUFFICES ASSUME OperationInv, [Next]_vars PROVE OperationInv'
  OBVIOUS
<1>1. CASE Write
  BY <1>1, WriteStep
<1>2. CASE Loop
  BY <1>2, LoopStep
<1>3. CASE ModelStep
  BY <1>3, ModelStepStep
<1>4. CASE ToolStep
  BY <1>4, GateStep, PrepareStep, SettleStep, OtherToolStep, ExecuteStep DEF ToolStep
<1>5. CASE ResumeContinue \/ ResumeFinalize \/ Cancel
  BY <1>5, OtherToolStep
<1>6. CASE Recovery
  BY <1>6, RecoverAppendStep, RecoverStep DEF Recovery
<1>7. CASE Restart \/ Crash
  BY <1>7, RestartStep
<1>8. CASE Approval
  BY <1>8, GateStep
<1>9. CASE UNCHANGED vars
  BY <1>9, StutterStep
<1> QED BY <1>1, <1>2, <1>3, <1>4, <1>5, <1>6, <1>7, <1>8, <1>9 DEF Next, Machine

----------------------------------------------------------------------------
(* The theorems                                                               *)

(* OperationInv is an invariant of every operation: the stored state, and the *)
(* state that the writes under way lead to, agree with what was executed.     *)
THEOREM OperationCorrect == Spec => []OperationInv
<1>1. Init => OperationInv
  BY InitOperation
<1>2. OperationInv /\ [Next]_vars => OperationInv'
  BY NextStep
<1> QED BY <1>1, <1>2, PTL DEF Spec

(* Types; the cursor of a tool round is at one of its calls, and the leaf of  *)
(* the lane is where its last entry says it is.                               *)
THEOREM OperationTypeCorrect == Spec => []TypeOK
<1>1. OperationInv => TypeOK
  <2> SUFFICES ASSUME OperationInv PROVE TypeOK
    OBVIOUS
  <2>2. Recorded(op)
    BY DEF OperationInv
  <2>3. op \in States /\ state \in States
    BY <2>2, ResetRecorded DEF OperationInv, Recorded
  <2> QED BY <2>3 DEF OperationInv, TypesInv, EntriesInv, TypeOK
<1> QED BY <1>1, OperationCorrect, PTL

(* A call whose tool may not be replayed has its effect at most once, however *)
(* often the process dies and is resumed.                                     *)
THEOREM NeverReplayedCorrect == Spec => []NeverReplayed
<1>1. OperationInv => NeverReplayed
  BY DEF OperationInv, Recorded, NeverReplayed
<1> QED BY <1>1, OperationCorrect, PTL

(* A recovery that tells the model "interrupted before execution" is right.   *)
THEOREM HonestInterruptionCorrect == Spec => []HonestInterruption
<1>1. OperationInv => HonestInterruption
  BY DEF OperationInv
<1> QED BY <1>1, OperationCorrect, PTL

(* Only the execution of a tool is an effect.                                 *)
LEMMA EffectOnly ==
    ASSUME OperationInv, [Next]_vars, ~(Write \/ ExecuteTool)
    PROVE  effects' = effects
<1>1. CASE UNCHANGED vars
  BY SMTT(30), <1>1 DEF vars
<1>2. CASE Next
  BY <1>2 DEF Next, Machine, Loop, ModelStep, ToolStep, Approval, Recovery, Restart,
       GuardContinue, GuardExtend, GuardFinalize, GuardStop, AskAgain, LimitExceeded,
       RequestModel, ModelText, ModelCutOff, ModelToolOutputLimit, ModelError,
       ModelCallsDropped, ModelCallsRefused, ModelCalls, GateRefuses, GateAllows, GateAsks,
       GateFails, PrepareTool, SynthesizeInterrupted, ReuseResult, ReplayRefused,
       ReplayAllowed, RecordResult, AdvanceToolStep, UserApproves, UserDenies,
       ApprovalFails, RecoverConnect, RecoverAppend, RecoverFinish, RecoverConflict,
       Resume, StartRecovery, ResumeContinue, ResumeFinalize, Cancel, Crash,
       Fail, AbortNow, Do, Go
<1> QED BY <1>1, <1>2

LEMMA EffectStep ==
    ASSUME OperationInv, [Next]_vars, NEW c \in DOMAIN effects',
           Executions(c)' # Executions(c)
    PROVE  /\ c \in granted /\ ~Has(ResId(c))
           /\ \E i \in DOMAIN op.calls : op.calls[i].id = c
                                         /\ op.calls[i].status = "effect_pending"
<1>1. effects' # effects
  BY DEF Executions
<1>2. ExecuteTool
  BY <1>1, EffectOnly, WriteStep
<1>3. c = Call.id
  <2>1. PICK x : x = Call.id
    OBVIOUS
  <2>2. c # x => Executions(c)' = Executions(c)
    <3>1. effects' = [y \in DOMAIN effects \cup {x} |->
                        Executions(y) + (IF y = x THEN 1 ELSE 0)]
      BY <1>2, <2>1 DEF ExecuteTool
    <3>2. c # x => c \in DOMAIN effects /\ effects'[c] = Executions(c) + 0
      BY <3>1
    <3>3. c \in DOMAIN effects => Executions(c) \in Nat
      BY DEF OperationInv, TypesInv, Executions
    <3> QED BY <3>2, <3>3 DEF Executions
  <2> QED BY <2>1, <2>2
<1> QED BY <1>2, <1>3, ExecuteStep

(* No effect without a stored intent, and none once a result is recorded.     *)
THEOREM EffectIntendedCorrect == Spec => EffectIntended
<1>1. OperationInv /\ [Next]_vars =>
        [\A c \in DOMAIN effects' : Executions(c)' # Executions(c) =>
           /\ ~Has(ResId(c))
           /\ \E i \in DOMAIN op.calls : op.calls[i].id = c
                                         /\ op.calls[i].status = "effect_pending"]_vars
  BY EffectStep
<1> QED BY <1>1, OperationCorrect, PTL DEF Spec, EffectIntended

(* A tool runs only with a permission given in this life of the process.      *)
THEOREM EffectPermittedCorrect == Spec => EffectPermitted
<1>1. OperationInv /\ [Next]_vars =>
        [\A c \in DOMAIN effects' : Executions(c)' # Executions(c) => c \in granted]_vars
  BY EffectStep
<1> QED BY <1>1, OperationCorrect, PTL DEF Spec, EffectPermitted

----------------------------------------------------------------------------
(* The transcript of an operation that was never resumed.  While the model    *)
(* answers and its calls are run, what counts is the answer and the results   *)
(* of its calls, of which the k-th is:                                        *)
Slot(s, k) == ResId(<<s.rsp, s.attempt, k>>)
Answering  == op.phase \in {"tools", "model_pending"}
Answer     == AsstId(op.rsp)
Mine       == {Answer} \cup {Slot(op, k) : k \in Nat \ {0}}
Numbered(calls) == \A i \in DOMAIN calls : calls[i] = <<op.rsp, op.attempt, i>>

(* What is stored: no entry is of a later answer; what was recorded is on the *)
(* path of the lane or can be connected to it, each result after the answer   *)
(* and after the results of the earlier calls; and a call stored as completed *)
(* has its result.                                                            *)
TranscriptInv ==
  /\ \A i \in DOMAIN leaf : Has(leaf[i])
  /\ \A id \in DOMAIN entries : IF id[1] = "note" THEN id[2] < notes ELSE id[2] <= op.rsp
  /\ Answering =>
       /\ Has(Answer) => Numbered(entries[Answer].calls)
       /\ \A id \in Mine : Has(id) => OnPath(id) \/ Connectable(id)
       /\ \A k \in Nat \ {0} : Has(Slot(op, k)) =>
            OnPath(Answer) /\ \A i \in 1 .. k - 1 : OnPath(Slot(op, i))
  /\ op.phase = "tools" =>
       /\ OnPath(Answer) /\ Len(entries[Answer].calls) = Len(op.calls)
       /\ \A i \in DOMAIN op.calls :
            op.calls[i].status = "completed" => OnPath(Slot(op, i))

(* An entry on its way is new and comes in its turn, and the leaf is moved to *)
(* it next; only a recovery looks again in between.                           *)
InTurn(ws, j) ==
  \/ ws[j].id = NoteId(notes)
  \/ ws[j].id = Answer /\ op.phase = "model_pending" /\ Numbered(ws[j].calls)
  \/ /\ Answering /\ OnPath(Answer)
     /\ \E k \in Nat \ {0} :
          /\ ws[j].id = Slot(op, k)
          /\ \A i \in 1 .. k - 1 : \/ OnPath(Slot(op, i))
                                   \/ \E l \in 1 .. j - 1 : ws[l] = Leaf(Slot(op, i))
New(ws, j) ==
  /\ ~Has(ws[j].id) /\ InTurn(ws, j)
  /\ \A k \in 1 .. j - 1 : ws[k].w = "append" => ws[k].id # ws[j].id

Comes(ws, id) == \E k \in DOMAIN ws : ws[k].w = "append" /\ ws[k].id = id

(* A state to be saved has what it says in the transcript by then.            *)
Follows(ws, s, pc) ==
  /\ s.rsp >= op.rsp
  /\ s.phase = "model_pending" => s.rsp > op.rsp
  /\ s.phase = "tools" =>
       /\ pc \in Living /\ Answering /\ s.rsp = op.rsp /\ s.attempt = op.attempt
       /\ \/ Has(Answer) /\ Len(entries[Answer].calls) = Len(s.calls)
          \/ \E k \in DOMAIN ws : /\ ws[k].w = "append" /\ ws[k].id = Answer
                                  /\ Len(ws[k].calls) = Len(s.calls)
       /\ \A i \in DOMAIN s.calls : s.calls[i].status = "completed" =>
            Has(Slot(op, i)) \/ Comes(ws, Slot(op, i))

Ordered(ws, pc) ==
  \A j \in DOMAIN ws :
    /\ ws[j].w = "append" =>
         New(ws, j) /\ (IF j = Len(ws) THEN pc = "recover" ELSE ws[j + 1] = Leaf(ws[j].id))
    /\ ws[j].w = "leaf" =>
         IF j = 1 THEN Has(ws[j].id) /\ Connectable(ws[j].id)
                  ELSE ws[j - 1].w = "append" /\ ws[j - 1].id = ws[j].id
    /\ ws[j].w = "save" => Follows(ws, ws[j].st, pc)

(* What is stored but not on the path is what the leaf is moved to next.      *)
Tidy(ws, pc) ==
  Answering /\ (pc \in Living \/ (ws # <<>> /\ ws[1].w # "save")) =>
    \A id \in Mine : Has(id) => OnPath(id) \/ (ws # <<>> /\ ws[1] = Leaf(id))

(* While the process lives: the calls before the cursor have their results,   *)
(* those that are not completed have none, and an answer waited for is new.   *)
Round(ws, s, pc) ==
  /\ pc = "model" <=> s.phase = "model_pending"
  /\ s.phase = "tools" =>
       \A i \in DOMAIN s.calls :
         /\ i < s.cur => s.calls[i].status = "completed"
         /\ i > s.cur => s.calls[i].status # "completed"
         /\ s.calls[i].status # "completed" => ~Has(Slot(s, i)) /\ ~Comes(ws, Slot(s, i))
  /\ s.phase = "model_pending" =>
       /\ \A id \in DOMAIN entries : id[1] # "note" => id[2] < s.rsp
       /\ \A j \in DOMAIN ws : ws[j].w = "append" => ws[j].id[1] = "note"

TraceInv ==
  ~resumed =>
    /\ proc \notin {"resumed", "blocked"} /\ uncertain = {} /\ state = op
    /\ TranscriptInv /\ Ordered(todo, proc) /\ Tidy(todo, proc)
    /\ proc \in Living => Round(todo, Target, proc)

LEMMA Names ==
    /\ \A n : NoteId(n)[1] = "note" /\ NoteId(n)[2] = n
    /\ \A r : AsstId(r)[1] = "asst" /\ AsstId(r)[2] = r
    /\ \A c : ResId(c)[1] = "res" /\ ResId(c)[2] = c[1]
    /\ \A s, i : Slot(s, i)[1] = "res" /\ Slot(s, i)[2] = s.rsp
    /\ \A s, i, j : Slot(s, i) = Slot(s, j) => i = j
    /\ Answer[1] = "asst" /\ Answer[2] = op.rsp
    /\ \A id \in Mine : id[1] # "note" /\ id[2] = op.rsp
BY DEF NoteId, AsstId, ResId, Slot, Answer, Mine

LEMMA SameOperation ==
    ASSUME op' = op
    PROVE  /\ Answering' <=> Answering
           /\ Answer' = Answer /\ Mine' = Mine
           /\ \A k : Slot(op', k) = Slot(op, k)
           /\ \A c : Numbered(c)' <=> Numbered(c)
BY DEF Answering, Answer, Mine, Slot, Numbered

LEMMA Extends ==
    ASSUME NEW S, NEW q \in Seq(S), NEW x \in S
    PROVE  Elements(Append(q, x)) = Elements(q) \cup {x}
<1>1. /\ Len(q) \in Nat /\ DOMAIN q = 1 .. Len(q)
      /\ DOMAIN Append(q, x) = 1 .. Len(q) + 1
      /\ \A i \in 1 .. Len(q) : Append(q, x)[i] = q[i]
      /\ Append(q, x)[Len(q) + 1] = x
  OBVIOUS
<1>2. Len(q) + 1 \in DOMAIN Append(q, x)
  BY <1>1
<1>3. \A i \in 1 .. Len(q) + 1 : i \in 1 .. Len(q) \/ i = Len(q) + 1
  BY <1>1
<1>4. \A i \in 1 .. Len(q) : i \in 1 .. Len(q) + 1
  BY <1>1
<1> QED BY <1>1, <1>2, <1>3, <1>4 DEF Elements

(* The rest of the writes, when the first one was an entry or a leaf move.    *)
LEMMA Rest ==
    ASSUME OperationInv, todo # <<>>, todo' = Tail(todo)
    PROVE  /\ todo \in Seq(Writes) /\ Len(todo) \in Nat \ {0}
           /\ DOMAIN todo = 1 .. Len(todo) /\ 1 \in DOMAIN todo
           /\ Head(todo) = todo[1] /\ todo[1] \in Writes
           /\ Len(todo') = Len(todo) - 1 /\ DOMAIN todo' = 1 .. Len(todo) - 1
           /\ todo' = <<>> <=> Len(todo) = 1
           /\ \A j \in 1 .. Len(todo) - 1 : todo'[j] = todo[j + 1] /\ j + 1 \in DOMAIN todo
           /\ \A j \in DOMAIN todo : j # 1 => j - 1 \in DOMAIN todo' /\ todo'[j - 1] = todo[j]
           /\ \A j \in 1 .. Len(todo) - 1 : todo[j].w # "save"
<1>1. todo \in Seq(Writes) /\ \A j \in 1 .. Len(todo) - 1 : todo[j].w # "save"
  BY DEF OperationInv, TodoInv
<1>2. /\ Len(todo) \in Nat \ {0} /\ DOMAIN todo = 1 .. Len(todo)
      /\ Head(todo) = todo[1] /\ Len(todo') = Len(todo) - 1
      /\ todo' \in Seq(Writes) /\ DOMAIN todo' = 1 .. Len(todo')
      /\ \A j \in 1 .. Len(todo) - 1 : todo'[j] = todo[j + 1]
  BY <1>1
<1>3. \A j \in 1 .. Len(todo) - 1 : j + 1 \in DOMAIN todo
  BY <1>2
<1>4. \A j \in DOMAIN todo : j # 1 => j - 1 \in 1 .. Len(todo) - 1 /\ (j - 1) + 1 = j
  BY <1>2
<1>5. todo' = <<>> <=> Len(todo) = 1
  <2>1. todo' = <<>> <=> Len(todo') = 0
    BY <1>2, EmptySeq
  <2> QED BY <1>2, <2>1
<1>6. 1 \in DOMAIN todo /\ todo[1] \in Writes
  BY <1>1, <1>2
<1> QED BY <1>1, <1>2, <1>3, <1>4, <1>5, <1>6

LEMMA AppendTrace ==
    ASSUME OperationInv, TraceInv, ~resumed, ~resumed', Write, Head(todo).w = "append"
    PROVE  TraceInv'
<1> DEFINE w == todo[1]
<1>1. /\ todo # <<>> /\ todo' = Tail(todo) /\ UNCHANGED <<proc, uncertain>>
  BY DEF Write
<1>2. /\ Len(todo) \in Nat \ {0} /\ DOMAIN todo = 1 .. Len(todo) /\ 1 \in DOMAIN todo
      /\ Head(todo) = w /\ w \in Writes /\ w.w = "append"
      /\ Len(todo') = Len(todo) - 1 /\ DOMAIN todo' = 1 .. Len(todo) - 1
      /\ todo' = <<>> <=> Len(todo) = 1
      /\ \A j \in 1 .. Len(todo) - 1 : todo'[j] = todo[j + 1] /\ j + 1 \in DOMAIN todo
      /\ \A j \in DOMAIN todo : j # 1 => j - 1 \in DOMAIN todo' /\ todo'[j - 1] = todo[j]
  BY <1>1, Rest
<1>3. /\ proc \notin {"resumed", "blocked"} /\ uncertain = {} /\ state = op
      /\ TranscriptInv /\ Ordered(todo, proc) /\ Tidy(todo, proc)
      /\ proc \in Living => Round(todo, Target, proc)
  BY DEF TraceInv
<1>4. /\ ~Has(w.id) /\ InTurn(todo, 1)
      /\ IF Len(todo) = 1 THEN proc = "recover" ELSE todo[2] = Leaf(w.id)
  BY <1>2, <1>3 DEF Ordered, New
<1>5. /\ UNCHANGED <<op, state, leaf>>
      /\ notes' = (IF w.id[1] = "note" THEN notes + 1 ELSE notes)
      /\ DOMAIN entries' = DOMAIN entries \cup {w.id}
      /\ \A id \in DOMAIN entries : entries'[id] = entries[id]
      /\ entries'[w.id] = [path |-> Append(leaf, w.id), calls |-> w.calls, code |-> w.code]
  <2>1. /\ entries' = [id \in DOMAIN entries \cup {w.id} |->
                         IF Has(id) THEN entries[id]
                         ELSE [path |-> Append(leaf, id), calls |-> w.calls, code |-> w.code]]
        /\ notes' = (IF w.id[1] = "note" THEN notes + 1 ELSE notes)
        /\ UNCHANGED <<op, state, leaf>>
    BY <1>2 DEF Write
  <2> QED BY <1>4, <2>1 DEF Has
<1> HIDE DEF w
<1>6. /\ Answering' <=> Answering
      /\ Answer' = Answer /\ Mine' = Mine
      /\ \A k : Slot(op', k) = Slot(op, k)
      /\ \A c : Numbered(c)' <=> Numbered(c)
  BY <1>5, SameOperation
<1>7. /\ \A x : x \in DOMAIN entries' <=> Has(x) \/ x = w.id
      /\ \A x : Has(x) => (entries'[x].path = Append(leaf, x) <=> Connectable(x))
      /\ entries'[w.id].path = Append(leaf, w.id)
  BY <1>5 DEF Has, Connectable
<1>8. notes \in Nat /\ op.rsp \in Nat
  BY StateFields DEF OperationInv, TypesInv, Recorded
<1>9. /\ w.id = NoteId(notes) \/ w.id[1] # "note"
      /\ w.id[1] # "note" => w.id[2] = op.rsp
      /\ Answering /\ w.id = Answer => op.phase = "model_pending" /\ Numbered(w.calls)
      /\ \A k \in Nat \ {0} : w.id = Slot(op, k) =>
           OnPath(Answer) /\ \A i \in 1 .. k - 1 : OnPath(Slot(op, i))
  <2>1. \A l \in 1 .. 1 - 1 : FALSE
    OBVIOUS
  <2> QED BY <1>4, <2>1, Names DEF InTurn, w, Answering
<1>10. TranscriptInv'
  <2>1. \A i \in DOMAIN leaf' : Has(leaf[i])'
    BY <1>3, <1>5, <1>7 DEF TranscriptInv, Has
  <2>2. \A id \in DOMAIN entries' : IF id[1] = "note" THEN id[2] < notes' ELSE id[2] <= op'.rsp
    <3>1. SUFFICES ASSUME NEW id \in DOMAIN entries'
                   PROVE  IF id[1] = "note" THEN id[2] < notes' ELSE id[2] <= op'.rsp
      OBVIOUS
    <3>2. CASE id \in DOMAIN entries
      <4>1. id \in EntryIds
        BY <3>2 DEF OperationInv, EntriesInv
      <4>2. id[2] \in Nat
        BY <4>1 DEF EntryIds
      <4>3. IF id[1] = "note" THEN id[2] < notes ELSE id[2] <= op.rsp
        BY <1>3, <3>2 DEF TranscriptInv
      <4> QED BY <1>5, <1>8, <4>2, <4>3
    <3>3. CASE id = w.id
      BY <1>5, <1>8, <1>9, <3>3, Names
    <3> QED BY <1>5, <3>2, <3>3
  <2>3. ASSUME Answering
        PROVE  /\ Answer \in DOMAIN entries' => Numbered(entries'[Answer].calls)
               /\ \A id \in Mine : id \in DOMAIN entries' =>
                    OnPath(id) \/ entries'[id].path = Append(leaf, id)
               /\ \A k \in Nat \ {0} : Slot(op, k) \in DOMAIN entries' =>
                    OnPath(Answer) /\ \A i \in 1 .. k - 1 : OnPath(Slot(op, i))
    <3>1. Answer \in DOMAIN entries' => Numbered(entries'[Answer].calls)
      <4>1. CASE Has(Answer)
        BY <1>3, <1>5, <2>3, <4>1 DEF TranscriptInv, Has
      <4>2. CASE w.id = Answer
        BY <1>5, <1>9, <2>3, <4>2
      <4> QED BY <1>7, <4>1, <4>2
    <3>2. \A id \in Mine : id \in DOMAIN entries' =>
            OnPath(id) \/ entries'[id].path = Append(leaf, id)
      <4>1. \A id \in Mine : Has(id) => OnPath(id) \/ Connectable(id)
        BY <1>3, <2>3 DEF TranscriptInv
      <4> QED BY <1>7, <4>1
    <3>3. \A k \in Nat \ {0} : Slot(op, k) \in DOMAIN entries' =>
            OnPath(Answer) /\ \A i \in 1 .. k - 1 : OnPath(Slot(op, i))
      <4>1. \A k \in Nat \ {0} : Has(Slot(op, k)) =>
              OnPath(Answer) /\ \A i \in 1 .. k - 1 : OnPath(Slot(op, i))
        BY <1>3, <2>3 DEF TranscriptInv
      <4> QED BY <1>7, <1>9, <4>1
    <3> QED BY <3>1, <3>2, <3>3
  <2>4. ASSUME op.phase = "tools"
        PROVE  OnPath(Answer) /\ Len(entries'[Answer].calls) = Len(op.calls)
    <3>1. OnPath(Answer) /\ Len(entries[Answer].calls) = Len(op.calls)
      BY <1>3, <2>4 DEF TranscriptInv
    <3>2. Has(Answer)
      BY <1>3, <3>1 DEF TranscriptInv, OnPath, Elements
    <3> QED BY <1>5, <3>1, <3>2 DEF Has
  <2>5. (Answering =>
          /\ Has(Answer) => Numbered(entries[Answer].calls)
          /\ \A id \in Mine : Has(id) => OnPath(id) \/ Connectable(id)
          /\ \A k \in Nat \ {0} : Has(Slot(op, k)) =>
               OnPath(Answer) /\ \A i \in 1 .. k - 1 : OnPath(Slot(op, i)))'
    <3>1. SUFFICES ASSUME Answering
                   PROVE  (/\ Has(Answer) => Numbered(entries[Answer].calls)
                           /\ \A id \in Mine : Has(id) => OnPath(id) \/ Connectable(id)
                           /\ \A k \in Nat \ {0} : Has(Slot(op, k)) =>
                                OnPath(Answer) /\ \A i \in 1 .. k - 1 : OnPath(Slot(op, i)))'
      BY <1>6
    <3>2. (Has(Answer) => Numbered(entries[Answer].calls))'
      BY <1>5, <1>6, <2>3, <3>1 DEF Has, Numbered
    <3>3. (\A id \in Mine : Has(id) => OnPath(id) \/ Connectable(id))'
      BY <1>5, <1>6, <2>3, <3>1 DEF Has, OnPath, Connectable
    <3>4. (\A k \in Nat \ {0} : Has(Slot(op, k)) =>
             OnPath(Answer) /\ \A i \in 1 .. k - 1 : OnPath(Slot(op, i)))'
      BY <1>5, <1>6, <2>3, <3>1 DEF Has, OnPath
    <3> QED BY <3>2, <3>3, <3>4
  <2>6. (op.phase = "tools" =>
          /\ OnPath(Answer) /\ Len(entries[Answer].calls) = Len(op.calls)
          /\ \A i \in DOMAIN op.calls :
               op.calls[i].status = "completed" => OnPath(Slot(op, i)))'
    BY <1>3, <1>5, <1>6, <2>4 DEF TranscriptInv, OnPath
  <2> QED BY <2>1, <2>2, <2>5, <2>6 DEF TranscriptInv
<1>11. \A x \in DOMAIN todo' : x + 1 \in DOMAIN todo /\ todo'[x] = todo[x + 1] /\ x + 1 # 1
  BY <1>2
<1>12. Ordered(todo, proc)'
  <2>1. SUFFICES ASSUME NEW j \in DOMAIN todo'
        PROVE  /\ todo'[j].w = "append" =>
                    /\ New(todo, j)'
                    /\ IF j = Len(todo') THEN proc = "recover" ELSE todo'[j + 1] = Leaf(todo'[j].id)
               /\ todo'[j].w = "leaf" =>
                    IF j = 1 THEN todo'[j].id \in DOMAIN entries'
                                  /\ entries'[todo'[j].id].path = Append(leaf, todo'[j].id)
                    ELSE todo'[j - 1].w = "append" /\ todo'[j - 1].id = todo'[j].id
               /\ todo'[j].w = "save" => Follows(todo, todo[j].st, proc)'
    BY <1>1, <1>5 DEF Ordered, Leaf, Has, Connectable
  <2> DEFINE i == j + 1
  <2>2. i \in DOMAIN todo /\ todo'[j] = todo[i] /\ i # 1 /\ j \in Nat \ {0} /\ i \in Nat
    BY <1>2, <1>11
  <2>3. CASE todo[i].w = "append"
    <3>1. New(todo, i)
      BY <1>3, <2>2, <2>3 DEF Ordered
    <3>2. todo[i].id # w.id /\ ~Has(todo[i].id)
      BY <1>2, <2>2, <3>1 DEF New, w
    <3>3. \A k \in 1 .. j - 1 : todo'[k].w = "append" => todo'[k].id # todo'[j].id
      <4>1. \A k \in 1 .. j - 1 : k \in DOMAIN todo' /\ k + 1 \in 1 .. i - 1
        BY <1>2, <2>2
      <4> QED BY <1>11, <2>2, <3>1, <4>1 DEF New
    <3>4. InTurn(todo, j)'
      <4>1. CASE todo[i].id = NoteId(notes)
        <5>1. w.id # NoteId(notes)
          BY <3>2, <4>1
        <5>2. w.id[1] # "note"
          BY <1>9, <5>1
        <5> QED BY <1>5, <2>2, <4>1, <5>2 DEF InTurn
      <4>2. CASE todo[i].id = Answer /\ op.phase = "model_pending" /\ Numbered(todo[i].calls)
        BY <1>5, <1>6, <2>2, <4>2 DEF InTurn, Numbered
      <4>3. CASE /\ Answering /\ OnPath(Answer)
                 /\ \E k \in Nat \ {0} :
                      /\ todo[i].id = Slot(op, k)
                      /\ \A m \in 1 .. k - 1 : \/ OnPath(Slot(op, m))
                                               \/ \E l \in 1 .. i - 1 : todo[l] = Leaf(Slot(op, m))
        <5>1. PICK k \in Nat \ {0} :
                /\ todo[i].id = Slot(op, k)
                /\ \A m \in 1 .. k - 1 : \/ OnPath(Slot(op, m))
                                         \/ \E l \in 1 .. i - 1 : todo[l] = Leaf(Slot(op, m))
          BY <4>3
        <5>2. \A m \in 1 .. k - 1 : \/ OnPath(Slot(op, m))
                                   \/ \E l \in 1 .. j - 1 : todo'[l] = Leaf(Slot(op, m))
          <6>1. SUFFICES ASSUME NEW m \in 1 .. k - 1, ~OnPath(Slot(op, m))
                         PROVE  \E l \in 1 .. j - 1 : todo'[l] = Leaf(Slot(op, m))
            OBVIOUS
          <6>2. PICK l \in 1 .. i - 1 : todo[l] = Leaf(Slot(op, m))
            BY <5>1, <6>1
          <6>3. l # 1
            BY <1>2, <6>2 DEF Leaf, w
          <6>4. l - 1 \in 1 .. j - 1 /\ l \in DOMAIN todo
            BY <1>2, <2>2, <6>3
          <6> QED BY <1>2, <6>2, <6>3, <6>4
        <5> QED BY <1>5, <1>6, <2>2, <4>3, <5>1, <5>2 DEF InTurn, OnPath
      <4> QED BY <3>1, <4>1, <4>2, <4>3 DEF New, InTurn
    <3>5. New(todo, j)'
      BY <1>7, <2>2, <3>2, <3>3, <3>4 DEF New, Has
    <3>6. IF j = Len(todo') THEN proc = "recover" ELSE todo'[j + 1] = Leaf(todo'[j].id)
      <4>1. j = Len(todo') <=> i = Len(todo)
        BY <1>2, <2>2
      <4>2. j # Len(todo') => j + 1 \in DOMAIN todo' /\ todo'[j + 1] = todo[i + 1]
        BY <1>2, <1>11, <2>2
      <4> QED BY <1>3, <2>2, <2>3, <4>1, <4>2 DEF Ordered
    <3> QED BY <2>2, <2>3, <3>5, <3>6
  <2>4. CASE todo[i].w = "leaf"
    <3>1. todo[i - 1].w = "append" /\ todo[i - 1].id = todo[i].id
      BY <1>3, <2>2, <2>4 DEF Ordered
    <3>2. CASE j = 1
      BY <1>7, <2>2, <2>4, <3>1, <3>2 DEF w
    <3>3. CASE j # 1
      <4>1. j - 1 \in DOMAIN todo' /\ todo'[j - 1] = todo[i - 1]
        BY <1>2, <2>2, <3>3
      <4> QED BY <2>2, <2>4, <3>1, <3>3, <4>1
    <3> QED BY <3>2, <3>3
  <2>5. CASE todo[i].w = "save"
    <3> DEFINE s == todo[i].st
    <3>1. Follows(todo, s, proc)
      BY <1>3, <2>2, <2>5 DEF Ordered
    <3>2. \A x : Comes(todo, x) => x = w.id \/ \E k \in DOMAIN todo' : todo'[k].w = "append" /\ todo'[k].id = x
      <4>1. SUFFICES ASSUME NEW x, NEW k \in DOMAIN todo, todo[k].w = "append", todo[k].id = x, x # w.id
                     PROVE  \E l \in DOMAIN todo' : todo'[l].w = "append" /\ todo'[l].id = x
        BY DEF Comes
      <4>2. k # 1
        BY <4>1 DEF w
      <4> QED BY <1>2, <4>1, <4>2
    <3> HIDE DEF s
    <3>3. ASSUME s.phase = "tools"
          PROVE  \/ Answer \in DOMAIN entries' /\ Len(entries'[Answer].calls) = Len(s.calls)
                 \/ \E k \in DOMAIN todo' : /\ todo'[k].w = "append" /\ todo'[k].id = Answer
                                            /\ Len(todo'[k].calls) = Len(s.calls)
      <4>1. CASE Has(Answer) /\ Len(entries[Answer].calls) = Len(s.calls)
        BY <1>5, <4>1 DEF Has
      <4>2. CASE \E k \in DOMAIN todo : /\ todo[k].w = "append" /\ todo[k].id = Answer
                                      /\ Len(todo[k].calls) = Len(s.calls)
        <5>1. PICK k \in DOMAIN todo : /\ todo[k].w = "append" /\ todo[k].id = Answer
                                      /\ Len(todo[k].calls) = Len(s.calls)
          BY <4>2
        <5>2. CASE k = 1
          BY <1>5, <5>1, <5>2 DEF w
        <5>3. CASE k # 1
          BY <1>2, <5>1, <5>3
        <5> QED BY <5>2, <5>3
      <4> QED BY <3>1, <3>3, <4>1, <4>2 DEF Follows
    <3>4. ASSUME s.phase = "tools", NEW m \in DOMAIN s.calls, s.calls[m].status = "completed"
          PROVE  \/ Slot(op, m) \in DOMAIN entries'
                 \/ \E k \in DOMAIN todo' : todo'[k].w = "append" /\ todo'[k].id = Slot(op, m)
      BY <1>7, <3>1, <3>2, <3>4 DEF Follows
    <3>5. todo'[j].st = s /\ todo'[j].w = "save"
      BY <2>2, <2>5 DEF s
    <3>6. Follows(todo, todo[j].st, proc)'
      BY <1>1, <1>5, <1>6, <3>1, <3>3, <3>4, <3>5 DEF Follows, Has, Comes
    <3> QED BY <3>5, <3>6
  <2>6. todo[i].w \in {"append", "leaf", "save"}
    <3>1. todo[i] \in Writes
      BY <1>1, <2>2, Rest
    <3> QED BY <3>1 DEF Writes, Appends, Moves
  <2> QED BY <2>2, <2>3, <2>4, <2>5, <2>6
<1>13. Tidy(todo, proc)'
  <2>1. SUFFICES ASSUME Answering, proc \in Living \/ (todo' # <<>> /\ todo'[1].w # "save"),
                        NEW id \in Mine, id \in DOMAIN entries'
                 PROVE  OnPath(id) \/ (todo' # <<>> /\ todo'[1] = Leaf(id))
    BY <1>1, <1>5, <1>6 DEF Tidy, OnPath, Has, Leaf
  <2>2. CASE Has(id)
    <3>1. OnPath(id) \/ w = Leaf(id)
      BY <1>1, <1>2, <1>3, <2>1, <2>2 DEF Tidy, w
    <3> QED BY <1>2, <3>1 DEF Leaf
  <2>3. CASE id = w.id
    <3>1. Len(todo) # 1
      BY <1>2, <1>4, <2>1 DEF Living
    <3>2. 1 \in 1 .. Len(todo) - 1
      BY <1>2, <3>1
    <3> QED BY <1>2, <1>4, <2>3, <3>1, <3>2
  <2> QED BY <1>7, <2>1, <2>2, <2>3
<1>14. Target' = Target
  <2>1. CASE Len(todo) = 1
    BY <1>1, <1>2, <1>5, <2>1 DEF Target, w
  <2>2. CASE Len(todo) # 1
    <3>1. Len(todo') \in 1 .. Len(todo) - 1 /\ Len(todo') + 1 = Len(todo)
      BY <1>2, <2>2
    <3>2. todo' # <<>> /\ todo'[Len(todo')] = todo[Len(todo)]
      BY <1>2, <2>2, <3>1
    <3> QED BY <1>1, <1>5, <3>2 DEF Target
  <2> QED BY <2>1, <2>2
<1>15. ASSUME proc \in Living PROVE Round(todo, Target, proc)'
  <2>1. PICK s : s = Target
    OBVIOUS
  <2>2. Round(todo, s, proc)
    BY <1>3, <1>15, <2>1
  <2>3. \A j \in DOMAIN todo' : todo'[j].w = "append" =>
           \E k \in DOMAIN todo : todo[k].w = "append" /\ todo[k].id = todo'[j].id
    BY <1>11
  <2>4. ASSUME s.phase = "tools", NEW i \in DOMAIN s.calls, s.calls[i].status # "completed"
        PROVE  Slot(s, i) \notin DOMAIN entries' /\ ~Comes(todo', Slot(s, i))
    <3>1. ~Has(Slot(s, i)) /\ ~Comes(todo, Slot(s, i))
      BY <2>2, <2>4 DEF Round
    <3>2. w.id # Slot(s, i)
      BY <1>2, <3>1 DEF Comes, w
    <3> QED BY <1>7, <2>3, <3>1, <3>2 DEF Comes
  <2>5. ASSUME s.phase = "model_pending"
        PROVE  /\ \A id \in DOMAIN entries' : id[1] # "note" => id[2] < s.rsp
               /\ \A j \in DOMAIN todo' : todo'[j].w = "append" => todo'[j].id[1] = "note"
    <3>1. w.id[1] = "note"
      BY <1>2, <2>2, <2>5 DEF Round, w
    <3> QED BY <1>5, <2>2, <2>3, <2>5, <3>1 DEF Round
  <2>6. Round(todo, s, proc)'
    BY <1>1, <2>2, <2>4, <2>5 DEF Round, Has, Comes, Slot
  <2>7. Target' = s
    BY <1>14, <2>1
  <2> QED BY <2>6, <2>7 DEF Round, Has, Comes, Slot
<1> QED BY <1>1, <1>3, <1>5, <1>10, <1>12, <1>13, <1>15 DEF TraceInv

LEMMA LeafTrace ==
    ASSUME OperationInv, TraceInv, ~resumed, ~resumed', Write, Head(todo).w = "leaf"
    PROVE  TraceInv'
<1> DEFINE w == todo[1]
<1>1. /\ todo # <<>> /\ todo' = Tail(todo) /\ UNCHANGED <<proc, uncertain>>
  BY DEF Write
<1>2. /\ Len(todo) \in Nat \ {0} /\ DOMAIN todo = 1 .. Len(todo) /\ 1 \in DOMAIN todo
      /\ Head(todo) = w /\ w \in Writes /\ w.w = "leaf"
      /\ Len(todo') = Len(todo) - 1 /\ DOMAIN todo' = 1 .. Len(todo) - 1
      /\ todo' = <<>> <=> Len(todo) = 1
      /\ \A j \in 1 .. Len(todo) - 1 : todo'[j] = todo[j + 1] /\ j + 1 \in DOMAIN todo
      /\ \A j \in DOMAIN todo : j # 1 => j - 1 \in DOMAIN todo' /\ todo'[j - 1] = todo[j]
  BY <1>1, Rest
<1>3. /\ proc \notin {"resumed", "blocked"} /\ uncertain = {} /\ state = op
      /\ TranscriptInv /\ Ordered(todo, proc) /\ Tidy(todo, proc)
      /\ proc \in Living => Round(todo, Target, proc)
  BY DEF TraceInv
<1>4. Has(w.id) /\ entries[w.id].path = Append(leaf, w.id)
  BY <1>2, <1>3 DEF Ordered, Connectable
<1>5. leaf' = Append(leaf, w.id) /\ UNCHANGED <<op, state, entries, notes>>
  BY <1>2, <1>4 DEF Write
<1> HIDE DEF w
<1>6. /\ Answering' <=> Answering
      /\ Answer' = Answer /\ Mine' = Mine
      /\ \A k : Slot(op', k) = Slot(op, k)
      /\ \A c : Numbered(c)' <=> Numbered(c)
  BY <1>5, SameOperation
<1>7. \A x : x \in Elements(leaf') <=> OnPath(x) \/ x = w.id
  <2>1. leaf \in Seq(EntryIds) /\ w.id \in EntryIds
    BY <1>4 DEF OperationInv, EntriesInv, Has
  <2> QED BY <1>5, <2>1, Extends DEF OnPath
<1>8. \A id \in Mine : Answering /\ Has(id) => id \in Elements(leaf')
  <2>1. SUFFICES ASSUME NEW id \in Mine, Answering, Has(id), id # w.id PROVE OnPath(id)
    BY <1>7
  <2>2. OnPath(id) \/ w = Leaf(id)
    BY <1>1, <1>2, <1>3, <2>1 DEF Tidy, w
  <2> QED BY <2>1, <2>2 DEF Leaf
<1>9. TranscriptInv'
  <2>1. (\A i \in DOMAIN leaf : Has(leaf[i]))'
    <3>1. \A x \in Elements(leaf) : x \in DOMAIN entries
      BY <1>3 DEF TranscriptInv, Elements, Has
    <3>2. \A x \in Elements(leaf') : x \in DOMAIN entries
      BY <1>4, <1>7, <3>1 DEF Has, OnPath
    <3> QED BY <1>5, <3>2 DEF Has, Elements
  <2>2. (\A id \in DOMAIN entries : IF id[1] = "note" THEN id[2] < notes ELSE id[2] <= op.rsp)'
    BY <1>3, <1>5 DEF TranscriptInv
  <2>3. (Answering =>
          /\ Has(Answer) => Numbered(entries[Answer].calls)
          /\ \A id \in Mine : Has(id) => OnPath(id) \/ Connectable(id)
          /\ \A k \in Nat \ {0} : Has(Slot(op, k)) =>
               OnPath(Answer) /\ \A i \in 1 .. k - 1 : OnPath(Slot(op, i)))'
    <3>1. SUFFICES ASSUME Answering
                   PROVE  (/\ Has(Answer) => Numbered(entries[Answer].calls)
                           /\ \A id \in Mine : Has(id) => OnPath(id) \/ Connectable(id)
                           /\ \A k \in Nat \ {0} : Has(Slot(op, k)) =>
                                OnPath(Answer) /\ \A i \in 1 .. k - 1 : OnPath(Slot(op, i)))'
      BY <1>6
    <3>2. (Has(Answer) => Numbered(entries[Answer].calls))'
      BY <1>3, <1>5, <1>6, <3>1 DEF TranscriptInv, Has, Numbered
    <3>3. (\A id \in Mine : Has(id) => OnPath(id) \/ Connectable(id))'
      BY <1>5, <1>6, <1>8, <3>1 DEF Has, OnPath, Connectable
    <3>4. (\A k \in Nat \ {0} : Has(Slot(op, k)) =>
             OnPath(Answer) /\ \A i \in 1 .. k - 1 : OnPath(Slot(op, i)))'
      <4>1. \A k \in Nat \ {0} : Has(Slot(op, k)) =>
              OnPath(Answer) /\ \A i \in 1 .. k - 1 : OnPath(Slot(op, i))
        BY <1>3, <3>1 DEF TranscriptInv
      <4>2. \A k \in Nat \ {0} : Slot(op, k) \in DOMAIN entries =>
              Answer \in Elements(leaf') /\ \A i \in 1 .. k - 1 : Slot(op, i) \in Elements(leaf')
        BY <1>7, <4>1 DEF Has
      <4> QED BY <1>5, <1>6, <4>2 DEF Has, OnPath
    <3> QED BY <3>2, <3>3, <3>4
  <2>4. (op.phase = "tools" =>
          /\ OnPath(Answer) /\ Len(entries[Answer].calls) = Len(op.calls)
          /\ \A i \in DOMAIN op.calls :
               op.calls[i].status = "completed" => OnPath(Slot(op, i)))'
    <3>1. op.phase = "tools" =>
            /\ Answer \in Elements(leaf') /\ Len(entries[Answer].calls) = Len(op.calls)
            /\ \A i \in DOMAIN op.calls :
                 op.calls[i].status = "completed" => Slot(op, i) \in Elements(leaf')
      BY <1>3, <1>7 DEF TranscriptInv
    <3> QED BY <1>5, <1>6, <3>1 DEF OnPath
  <2> QED BY <2>1, <2>2, <2>3, <2>4 DEF TranscriptInv
<1>10. \A x \in DOMAIN todo' : x + 1 \in DOMAIN todo /\ todo'[x] = todo[x + 1] /\ x + 1 # 1
  BY <1>2
<1>11. Ordered(todo, proc)'
  <2>1. SUFFICES ASSUME NEW j \in DOMAIN todo'
        PROVE  /\ todo'[j].w = "append" =>
                    /\ New(todo, j)'
                    /\ IF j = Len(todo') THEN proc = "recover" ELSE todo'[j + 1] = Leaf(todo'[j].id)
               /\ todo'[j].w = "leaf" =>
                    IF j = 1 THEN FALSE
                    ELSE todo'[j - 1].w = "append" /\ todo'[j - 1].id = todo'[j].id
               /\ todo'[j].w = "save" => Follows(todo, todo[j].st, proc)'
    BY <1>1, <1>5 DEF Ordered, Leaf, Has, Connectable
  <2> DEFINE i == j + 1
  <2>2. i \in DOMAIN todo /\ todo'[j] = todo[i] /\ i # 1 /\ j \in Nat \ {0} /\ i \in Nat
    BY <1>2, <1>10
  <2>3. CASE todo[i].w = "append"
    <3>1. New(todo, i)
      BY <1>3, <2>2, <2>3 DEF Ordered
    <3>2. \A k \in 1 .. j - 1 : todo'[k].w = "append" => todo'[k].id # todo'[j].id
      <4>1. \A k \in 1 .. j - 1 : k \in DOMAIN todo' /\ k + 1 \in 1 .. i - 1
        BY <1>2, <2>2
      <4> QED BY <1>10, <2>2, <3>1, <4>1 DEF New
    <3>3. InTurn(todo, j)'
      <4>1. CASE todo[i].id = NoteId(notes)
        BY <1>5, <2>2, <4>1 DEF InTurn
      <4>2. CASE todo[i].id = Answer /\ op.phase = "model_pending" /\ Numbered(todo[i].calls)
        BY <1>5, <1>6, <2>2, <4>2 DEF InTurn, Numbered
      <4>3. CASE /\ Answering /\ OnPath(Answer)
                 /\ \E k \in Nat \ {0} :
                      /\ todo[i].id = Slot(op, k)
                      /\ \A m \in 1 .. k - 1 : \/ OnPath(Slot(op, m))
                                               \/ \E l \in 1 .. i - 1 : todo[l] = Leaf(Slot(op, m))
        <5>1. PICK k \in Nat \ {0} :
                /\ todo[i].id = Slot(op, k)
                /\ \A m \in 1 .. k - 1 : \/ OnPath(Slot(op, m))
                                         \/ \E l \in 1 .. i - 1 : todo[l] = Leaf(Slot(op, m))
          BY <4>3
        <5>2. \A m \in 1 .. k - 1 : \/ Slot(op, m) \in Elements(leaf')
                                   \/ \E l \in 1 .. j - 1 : todo'[l] = Leaf(Slot(op, m))
          <6>1. SUFFICES ASSUME NEW m \in 1 .. k - 1, Slot(op, m) \notin Elements(leaf')
                         PROVE  \E l \in 1 .. j - 1 : todo'[l] = Leaf(Slot(op, m))
            OBVIOUS
          <6>2. PICK l \in 1 .. i - 1 : todo[l] = Leaf(Slot(op, m))
            BY <1>7, <5>1, <6>1
          <6>3. l # 1
            BY <1>7, <6>1, <6>2 DEF Leaf, w
          <6>4. l - 1 \in 1 .. j - 1 /\ l \in DOMAIN todo
            BY <1>2, <2>2, <6>3
          <6> QED BY <1>2, <6>2, <6>3, <6>4
        <5>3. Answer \in Elements(leaf')
          BY <1>7, <4>3
        <5> QED BY <1>5, <1>6, <2>2, <4>3, <5>1, <5>2, <5>3 DEF InTurn, OnPath
      <4> QED BY <3>1, <4>1, <4>2, <4>3 DEF New, InTurn
    <3>4. New(todo, j)'
      BY <1>5, <2>2, <3>1, <3>2, <3>3 DEF New, Has
    <3>5. IF j = Len(todo') THEN proc = "recover" ELSE todo'[j + 1] = Leaf(todo'[j].id)
      <4>1. j = Len(todo') <=> i = Len(todo)
        BY <1>2, <2>2
      <4>2. j # Len(todo') => j + 1 \in DOMAIN todo' /\ todo'[j + 1] = todo[i + 1]
        BY <1>2, <1>10, <2>2
      <4> QED BY <1>3, <2>2, <2>3, <4>1, <4>2 DEF Ordered
    <3> QED BY <2>2, <2>3, <3>4, <3>5
  <2>4. CASE todo[i].w = "leaf"
    <3>1. todo[i - 1].w = "append" /\ todo[i - 1].id = todo[i].id
      BY <1>3, <2>2, <2>4 DEF Ordered
    <3>2. j # 1
      <4>1. i - 1 = j /\ todo[1].w = "leaf"
        BY <1>2, <2>2 DEF w
      <4> QED BY <3>1, <4>1
    <3>3. j - 1 \in DOMAIN todo' /\ todo'[j - 1] = todo[i - 1]
      BY <1>2, <2>2, <3>2
    <3> QED BY <2>2, <2>4, <3>1, <3>2, <3>3
  <2>5. CASE todo[i].w = "save"
    <3> DEFINE s == todo[i].st
    <3>1. Follows(todo, s, proc)
      BY <1>3, <2>2, <2>5 DEF Ordered
    <3>2. \A k \in DOMAIN todo : todo[k].w = "append" => k - 1 \in DOMAIN todo' /\ todo'[k - 1] = todo[k]
      BY <1>2 DEF w
    <3>3. \A x : Comes(todo, x) => \E k \in DOMAIN todo' : todo'[k].w = "append" /\ todo'[k].id = x
      BY <3>2 DEF Comes
    <3>4. \A n : (\E k \in DOMAIN todo : /\ todo[k].w = "append" /\ todo[k].id = Answer
                                          /\ Len(todo[k].calls) = n)
              => \E k \in DOMAIN todo' : /\ todo'[k].w = "append" /\ todo'[k].id = Answer
                                          /\ Len(todo'[k].calls) = n
      BY <3>2
    <3>5. todo'[j].st = s /\ todo'[j].w = "save"
      BY <2>2, <2>5 DEF s
    <3> HIDE DEF s
    <3>6. ASSUME s.phase = "tools"
          PROVE  /\ \/ Has(Answer) /\ Len(entries[Answer].calls) = Len(s.calls)
                    \/ \E k \in DOMAIN todo' : /\ todo'[k].w = "append" /\ todo'[k].id = Answer
                                               /\ Len(todo'[k].calls) = Len(s.calls)
                 /\ \A m \in DOMAIN s.calls : s.calls[m].status = "completed" =>
                      \/ Has(Slot(op, m))
                      \/ \E k \in DOMAIN todo' : todo'[k].w = "append" /\ todo'[k].id = Slot(op, m)
      BY <3>1, <3>3, <3>4, <3>6 DEF Follows
    <3>7. Follows(todo, todo[j].st, proc)'
      BY <1>1, <1>5, <1>6, <3>1, <3>5, <3>6 DEF Follows, Has, Comes
    <3> QED BY <3>5, <3>7
  <2>6. todo[i].w \in {"append", "leaf", "save"}
    <3>1. todo[i] \in Writes
      BY <1>1, <2>2, Rest
    <3> QED BY <3>1 DEF Writes, Appends, Moves
  <2> QED BY <2>2, <2>3, <2>4, <2>5, <2>6
<1>12. Tidy(todo, proc)'
  BY <1>5, <1>6, <1>8 DEF Tidy, OnPath, Has
<1>13. Target' = Target
  <2>1. CASE Len(todo) = 1
    BY <1>1, <1>2, <1>5, <2>1 DEF Target, w
  <2>2. CASE Len(todo) # 1
    <3>1. Len(todo') \in 1 .. Len(todo) - 1 /\ Len(todo') + 1 = Len(todo)
      BY <1>2, <2>2
    <3>2. todo' # <<>> /\ todo'[Len(todo')] = todo[Len(todo)]
      BY <1>2, <2>2, <3>1
    <3> QED BY <1>1, <1>5, <3>2 DEF Target
  <2> QED BY <2>1, <2>2
<1>14. ASSUME proc \in Living PROVE Round(todo, Target, proc)'
  <2>1. PICK s : s = Target
    OBVIOUS
  <2>2. Round(todo, s, proc)
    BY <1>3, <1>14, <2>1
  <2>3. \A x : Comes(todo', x) => Comes(todo, x)
    BY <1>10 DEF Comes
  <2>4. \A j \in DOMAIN todo' : todo'[j].w = "append" =>
           \E k \in DOMAIN todo : todo[k].w = "append" /\ todo[k].id = todo'[j].id
    BY <1>10
  <2>5. s.phase = "model_pending" =>
          \A j \in DOMAIN todo' : todo'[j].w = "append" => todo'[j].id[1] = "note"
    BY <2>2, <2>4 DEF Round
  <2>6. Round(todo, s, proc)'
    BY <1>1, <1>5, <2>2, <2>3, <2>5 DEF Round, Has, Comes, Slot
  <2>7. Target' = s
    BY <1>13, <2>1
  <2> QED BY <2>6, <2>7 DEF Round, Has, Comes, Slot
<1> QED BY <1>1, <1>3, <1>5, <1>9, <1>11, <1>12, <1>14 DEF TraceInv

LEMMA SaveTrace ==
    ASSUME OperationInv, TraceInv, ~resumed, ~resumed', Write, Head(todo).w = "save"
    PROVE  TraceInv'
<1> DEFINE s == todo[1].st
<1>1. /\ todo # <<>> /\ todo' = Tail(todo) /\ UNCHANGED <<proc, uncertain>>
  BY DEF Write
<1>2. /\ Len(todo) \in Nat \ {0} /\ DOMAIN todo = 1 .. Len(todo) /\ 1 \in DOMAIN todo
      /\ Head(todo) = todo[1] /\ todo[1].w = "save"
      /\ todo' = <<>> <=> Len(todo) = 1
      /\ \A j \in 1 .. Len(todo) - 1 : todo[j].w # "save"
  BY <1>1, Rest
<1>3. Len(todo) = 1 /\ todo' = <<>> /\ \A k \in DOMAIN todo : todo[k].w # "append"
  <2>1. ~(1 \in 1 .. Len(todo) - 1)
    BY <1>2
  <2>2. Len(todo) = 1
    BY <1>2, <2>1
  <2> QED BY <1>2, <2>2
<1>4. op' = s /\ state' = s /\ UNCHANGED <<leaf, entries, notes>> /\ Target = s
  BY <1>2, <1>3 DEF Write, Target
<1>5. /\ proc \notin {"resumed", "blocked"} /\ uncertain = {}
      /\ TranscriptInv /\ Tidy(todo, proc)
      /\ proc \in Living => Round(todo, s, proc)
      /\ Follows(todo, s, proc)
  BY <1>2, <1>4 DEF TraceInv, Ordered
<1>6. Recorded(s) /\ Recorded(op)
  BY <1>4 DEF OperationInv
<1> HIDE DEF s
<1>7. s.rsp \in Nat /\ op.rsp \in Nat /\ s.rsp >= op.rsp
  BY <1>5, <1>6, StateFields DEF Recorded, Follows
<1>8. \A id \in DOMAIN entries : id[1] # "note" => id[2] \in Nat /\ id[2] <= op.rsp
  BY <1>5 DEF TranscriptInv, OperationInv, EntriesInv, EntryIds
<1>9. CASE s.phase \in {"tools", "model_pending"}
  <2>1. CASE s.phase = "model_pending"
    <3>1. s.rsp > op.rsp
      BY <1>5, <2>1 DEF Follows
    <3>2. \A id \in DOMAIN entries : id[1] # "note" => id[2] < s.rsp
      BY <1>7, <1>8, <3>1
    <3>3. AsstId(s.rsp) \notin DOMAIN entries /\ \A k : Slot(s, k) \notin DOMAIN entries
      <4>1. ~(s.rsp < s.rsp)
        BY <1>7
      <4> QED BY <3>2, <4>1, Names
    <3>4. Mine' = {AsstId(s.rsp)} \cup {Slot(s, k) : k \in Nat \ {0}}
      BY <1>4 DEF Mine, Answer, Slot
    <3>5. \A id \in Mine' : id \notin DOMAIN entries'
      BY <1>4, <3>3, <3>4
    <3>6. TranscriptInv'
      <4>1. (\A i \in DOMAIN leaf : Has(leaf[i]))'
        BY <1>4, <1>5 DEF TranscriptInv, Has
      <4>2. (\A id \in DOMAIN entries :
               IF id[1] = "note" THEN id[2] < notes ELSE id[2] <= op.rsp)'
        BY <1>4, <1>5, <1>7, <1>8 DEF TranscriptInv
      <4>3. ~Has(Answer)' /\ \A k \in Nat \ {0} : ~Has(Slot(op, k))'
        BY <1>4, <3>3 DEF Has, Answer, Slot
      <4>4. (\A id \in Mine : Has(id) => OnPath(id) \/ Connectable(id))'
        BY <3>5 DEF Has
      <4>5. op'.phase # "tools"
        BY <1>4, <2>1
      <4> QED BY <4>1, <4>2, <4>3, <4>4, <4>5 DEF TranscriptInv
    <3>7. Tidy(todo, proc)'
      BY <3>5 DEF Tidy, Has
    <3>8. ASSUME proc \in Living PROVE Round(todo, Target, proc)'
      <4>1. Target' = s
        BY <1>3, <1>4 DEF Target
      <4>2. proc' = "model"
        BY <1>1, <1>5, <2>1, <3>8 DEF Round
      <4> QED BY <1>3, <1>4, <2>1, <3>2, <4>1, <4>2 DEF Round
    <3>9. Ordered(todo, proc)'
      BY <1>3 DEF Ordered
    <3> QED BY <1>1, <1>4, <1>5, <3>6, <3>7, <3>8, <3>9 DEF TraceInv
  <2>2. CASE s.phase = "tools"
    <3>1. /\ proc \in Living /\ Answering /\ s.rsp = op.rsp /\ s.attempt = op.attempt
          /\ Has(Answer) /\ Len(entries[Answer].calls) = Len(s.calls)
          /\ \A i \in DOMAIN s.calls : s.calls[i].status = "completed" => Has(Slot(op, i))
      BY <1>3, <1>5, <2>2 DEF Follows, Comes
    <3>2. \A id \in Mine : Has(id) => OnPath(id)
      BY <1>2, <1>5, <3>1 DEF Tidy, Leaf
    <3>3. /\ Answer' = Answer /\ Mine' = Mine
          /\ \A k : Slot(op', k) = Slot(op, k) /\ Slot(s, k) = Slot(op, k)
          /\ \A c : Numbered(c)' <=> Numbered(c)
      BY <1>4, <3>1 DEF Answer, Mine, Slot, Numbered
    <3>4. Answer \in Mine
      BY DEF Mine
    <3>5. s \in States
      BY <1>6 DEF Recorded
    <3>6. \A i \in DOMAIN s.calls : Slot(op, i) \in Mine
      <4>1. DOMAIN s.calls \subseteq Nat \ {0}
        BY <3>5, StateFields
      <4> QED BY <4>1 DEF Mine
    <3>7. TranscriptInv'
      <4>1. (\A i \in DOMAIN leaf : Has(leaf[i]))'
        BY <1>4, <1>5 DEF TranscriptInv, Has
      <4>2. (\A id \in DOMAIN entries :
               IF id[1] = "note" THEN id[2] < notes ELSE id[2] <= op.rsp)'
        BY <1>4, <1>5, <3>1 DEF TranscriptInv
      <4>3. (Has(Answer) => Numbered(entries[Answer].calls))'
        BY <1>4, <1>5, <3>1, <3>3 DEF TranscriptInv, Has, Numbered
      <4>4. (\A id \in Mine : Has(id) => OnPath(id) \/ Connectable(id))'
        BY <1>4, <3>2, <3>3 DEF Has, OnPath
      <4>5. (\A k \in Nat \ {0} : Has(Slot(op, k)) =>
               OnPath(Answer) /\ \A i \in 1 .. k - 1 : OnPath(Slot(op, i)))'
        BY <1>4, <1>5, <3>1, <3>3 DEF TranscriptInv, Has, OnPath
      <4>6. (OnPath(Answer) /\ Len(entries[Answer].calls) = Len(op.calls))'
        BY <1>4, <3>1, <3>2, <3>3, <3>4 DEF OnPath
      <4>7. (\A i \in DOMAIN op.calls :
               op.calls[i].status = "completed" => OnPath(Slot(op, i)))'
        BY <1>4, <3>1, <3>2, <3>3, <3>6 DEF OnPath
      <4> QED BY <4>1, <4>2, <4>3, <4>4, <4>5, <4>6, <4>7 DEF TranscriptInv
    <3>8. Tidy(todo, proc)'
      BY <1>4, <3>2, <3>3 DEF Tidy, Has, OnPath
    <3>9. Round(todo, Target, proc)'
      <4>1. Target' = s
        BY <1>3, <1>4 DEF Target
      <4> QED BY <1>1, <1>3, <1>4, <1>5, <2>2, <3>1, <4>1 DEF Round, Has, Comes, Slot
    <3>10. Ordered(todo, proc)'
      BY <1>3 DEF Ordered
    <3> QED BY <1>1, <1>4, <1>5, <3>7, <3>8, <3>9, <3>10 DEF TraceInv
  <2> QED BY <1>9, <2>1, <2>2
<1>10. CASE s.phase \notin {"tools", "model_pending"}
  <2>1. ~Answering' /\ op'.phase # "tools"
    BY <1>4, <1>10 DEF Answering
  <2>2. (\A i \in DOMAIN leaf : Has(leaf[i]))'
    BY <1>4, <1>5 DEF TranscriptInv, Has
  <2>3. (\A id \in DOMAIN entries : IF id[1] = "note" THEN id[2] < notes ELSE id[2] <= op.rsp)'
    BY <1>4, <1>5, <1>7, <1>8 DEF TranscriptInv
  <2>4. TranscriptInv'
    BY <2>1, <2>2, <2>3 DEF TranscriptInv
  <2>5. Tidy(todo, proc)' /\ Ordered(todo, proc)'
    BY <1>3, <2>1 DEF Tidy, Ordered
  <2>6. Target' = s
    BY <1>3, <1>4 DEF Target
  <2>7. ASSUME proc \in Living PROVE Round(todo, Target, proc)'
    BY <1>1, <1>5, <1>10, <2>6, <2>7 DEF Round
  <2> QED BY <1>1, <1>4, <1>5, <2>4, <2>5, <2>7 DEF TraceInv
<1> QED BY <1>9, <1>10

LEMMA WriteTrace ==
    ASSUME OperationInv, TraceInv, ~resumed, ~resumed', Write
    PROVE  TraceInv'
<1>1. todo # <<>> /\ todo' = Tail(todo)
  BY DEF Write
<1>2. Head(todo) \in Writes
  BY <1>1, Rest
<1>3. Head(todo).w \in {"append", "leaf", "save"}
  BY <1>2 DEF Writes, Appends, Moves
<1> QED BY <1>3, AppendTrace, LeafTrace, SaveTrace

----------------------------------------------------------------------------
(* What a living process finds when it decides its next step.                 *)
LEMMA Found ==
    ASSUME OperationInv, TraceInv, ~resumed, todo = <<>>, proc \in Living
    PROVE  /\ state = op /\ uncertain = {} /\ TranscriptInv
           /\ op \in States /\ op.rsp \in Nat
           /\ \A i \in DOMAIN op.calls : ResId(op.calls[i].id) = Slot(op, i) /\ i \in Nat \ {0}
           /\ proc = "model" <=> op.phase = "model_pending"
           /\ op.phase = "tools" =>
                \A i \in DOMAIN op.calls :
                  /\ i < op.cur => op.calls[i].status = "completed"
                  /\ i > op.cur => op.calls[i].status # "completed"
                  /\ op.calls[i].status # "completed" => ~Has(Slot(op, i))
           /\ Answering => \A id \in Mine : Has(id) => OnPath(id)
           /\ op.phase = "model_pending" => ~Has(Answer)
           /\ ~Has(NoteId(notes))
           /\ \A id \in DOMAIN entries : id[1] # "note" => id[2] \in Nat /\ id[2] <= op.rsp
<1>1. /\ state = op /\ uncertain = {} /\ TranscriptInv /\ Tidy(todo, proc)
      /\ Round(todo, Target, proc) /\ Target = op
  BY DEF TraceInv, Target
<1>2. op \in States /\ op.rsp \in Nat /\ Recorded(op)
  BY StateFields DEF OperationInv, Recorded
<1>3. \A i \in DOMAIN op.calls : ResId(op.calls[i].id) = Slot(op, i) /\ i \in Nat \ {0}
  <2>1. DOMAIN op.calls = 1 .. Len(op.calls)
    BY <1>2, StateFields
  <2>2. \A i \in DOMAIN op.calls : op.calls[i].id = <<op.rsp, op.attempt, i>>
    BY <1>2 DEF Recorded
  <2>3. \A i \in DOMAIN op.calls : i \in Nat \ {0}
    BY <2>1
  <2> QED BY <2>2, <2>3 DEF Slot
<1>4. Answering => \A id \in Mine : Has(id) => OnPath(id)
  BY <1>1 DEF Tidy
<1>5. op.phase = "model_pending" => ~Has(Answer)
  <2>1. ~(op.rsp < op.rsp)
    BY <1>2
  <2> QED BY <1>1, <2>1, Names DEF Round, Has
<1>6. ~Has(NoteId(notes))
  <2>1. notes \in Nat /\ ~(notes < notes)
    BY DEF OperationInv, TypesInv
  <2> QED BY <1>1, <2>1, Names DEF TranscriptInv, Has
<1>7. \A id \in DOMAIN entries : id[1] # "note" => id[2] \in Nat /\ id[2] <= op.rsp
  BY <1>1 DEF TranscriptInv, OperationInv, EntriesInv, EntryIds
<1>8. /\ proc = "model" <=> op.phase = "model_pending"
      /\ op.phase = "tools" =>
           \A i \in DOMAIN op.calls :
             /\ i < op.cur => op.calls[i].status = "completed"
             /\ i > op.cur => op.calls[i].status # "completed"
             /\ op.calls[i].status # "completed" => ~Has(Slot(op, i))
  BY <1>1 DEF Round
<1> QED BY <1>1, <1>2, <1>3, <1>4, <1>5, <1>6, <1>7, <1>8

(* Entries and leaf moves that a living process may write.                    *)
Orderly(a) ==
  \A j \in DOMAIN a :
    /\ a[j].w = "append" => New(a, j) /\ j # Len(a) /\ a[j + 1] = Leaf(a[j].id)
    /\ a[j].w = "leaf" => j # 1 /\ a[j - 1].w = "append" /\ a[j - 1].id = a[j].id

LEMMA OrderlyEmpty == Orderly(<<>>)
BY DEF Orderly

(* An entry of its own comes in its turn.                                     *)
Due(id, calls) ==
  \/ id = NoteId(notes)
  \/ id = Answer /\ op.phase = "model_pending" /\ Numbered(calls)
  \/ /\ Answering /\ OnPath(Answer)
     /\ \E k \in Nat \ {0} : id = Slot(op, k) /\ \A i \in 1 .. k - 1 : OnPath(Slot(op, i))

LEMMA DueInTurn ==
    ASSUME NEW ws, NEW j, Due(ws[j].id, ws[j].calls)
    PROVE  InTurn(ws, j)
BY DEF Due, InTurn

(* Two pairs, one after the other.                                            *)
LEMMA TwoPairs ==
    ASSUME NEW S, NEW p \in Seq(S), NEW q \in Seq(S), Len(p) = 2, Len(q) = 2
    PROVE  /\ DOMAIN (p \o q) = 1 .. 4 /\ Len(p \o q) = 4
           /\ (p \o q)[1] = p[1] /\ (p \o q)[2] = p[2]
           /\ (p \o q)[3] = q[1] /\ (p \o q)[4] = q[2]
<1> DEFINE r == p \o q
<1>1. /\ r \in Seq(S) /\ Len(r) = 4
      /\ \A i \in 1 .. 4 : r[i] = IF i <= 2 THEN p[i] ELSE q[i - 2]
  BY ConcatProperties
<1> HIDE DEF r
<1>2. DOMAIN r = 1 .. 4
  BY <1>1
<1>3. r[1] = p[1] /\ r[2] = p[2]
  BY <1>1
<1>4. r[3] = q[1]
  <2>1. r[3] = IF 3 <= 2 THEN p[3] ELSE q[3 - 2]
    BY <1>1
  <2> QED BY <2>1
<1>5. r[4] = q[2]
  <2>1. r[4] = IF 4 <= 2 THEN p[4] ELSE q[4 - 2]
    BY <1>1
  <2> QED BY <2>1
<1> QED BY <1>1, <1>2, <1>3, <1>4, <1>5 DEF r

LEMMA OrderlyMessage ==
    ASSUME NEW id, NEW calls, NEW code, ~Has(id), Due(id, calls)
    PROVE  Orderly(Message(id, calls, code))
<1> DEFINE a == Message(id, calls, code)
<1>1. /\ DOMAIN a = 1 .. 2 /\ Len(a) = 2
      /\ a[1].w = "append" /\ a[1].id = id /\ a[1].calls = calls
      /\ a[2] = Leaf(id) /\ a[2].w = "leaf" /\ a[2].id = id
  BY DEF Message, Entry, Leaf
<1> HIDE DEF a
<1>2. New(a, 1)
  <2>1. \A k \in 1 .. 1 - 1 : FALSE
    OBVIOUS
  <2> QED BY <1>1, <2>1, DueInTurn DEF New
<1>3. \A j \in DOMAIN a : j = 1 \/ j = 2
  BY <1>1
<1>4. Orderly(a)
  BY <1>1, <1>2, <1>3 DEF Orderly
<1> QED BY <1>4 DEF a

LEMMA OrderlyTwo ==
    ASSUME NEW id, NEW calls, NEW code, ~Has(id), Due(id, calls), id # NoteId(notes),
           ~Has(NoteId(notes))
    PROVE  Orderly(Message(id, calls, code) \o Note)
<1> DEFINE a == Message(id, calls, code) \o Note
<1>1. /\ DOMAIN a = 1 .. 4 /\ Len(a) = 4
      /\ a[1] = Entry(id, calls, code) /\ a[2] = Leaf(id)
      /\ a[3] = Entry(NoteId(notes), <<>>, "none") /\ a[4] = Leaf(NoteId(notes))
  <2> DEFINE x == Entry(id, calls, code)
             y == Entry(NoteId(notes), <<>>, "none")
             u == Leaf(id)
             v == Leaf(NoteId(notes))
             p == <<x, u>>
             q == <<y, v>>
  <2>1. a = p \o q
    BY DEF Message, Note
  <2> HIDE DEF a, x, y, u, v
  <2>2. /\ p \in Seq({x, u, y, v}) /\ q \in Seq({x, u, y, v})
        /\ Len(p) = 2 /\ Len(q) = 2
        /\ p[1] = x /\ p[2] = u /\ q[1] = y /\ q[2] = v
    OBVIOUS
  <2> HIDE DEF p, q
  <2>3. /\ DOMAIN a = 1 .. 4 /\ Len(a) = 4
        /\ a[1] = p[1] /\ a[2] = p[2] /\ a[3] = q[1] /\ a[4] = q[2]
    <3> DEFINE S == {x, u, y, v}
    <3>1. p \in Seq(S) /\ q \in Seq(S)
      BY <2>2
    <3> HIDE DEF S
    <3> QED BY <2>1, <2>2, <3>1, TwoPairs
  <2> QED BY <2>2, <2>3 DEF x, y, u, v
<1> HIDE DEF a
<1>3. /\ a[1].w = "append" /\ a[1].id = id /\ a[1].calls = calls
      /\ a[2] = Leaf(id) /\ a[2].w = "leaf" /\ a[2].id = id
      /\ a[3].w = "append" /\ a[3].id = NoteId(notes)
      /\ a[4] = Leaf(NoteId(notes)) /\ a[4].w = "leaf" /\ a[4].id = NoteId(notes)
  BY <1>1 DEF Entry, Leaf
<1>4. New(a, 1)
  <2>1. \A k \in 1 .. 1 - 1 : FALSE
    OBVIOUS
  <2> QED BY <1>3, <2>1, DueInTurn DEF New
<1>5. New(a, 3)
  <2>1. \A k \in 1 .. 3 - 1 : k = 1 \/ k = 2
    OBVIOUS
  <2> QED BY <1>3, <2>1 DEF New, InTurn
<1>6. \A j \in DOMAIN a : j = 1 \/ j = 2 \/ j = 3 \/ j = 4
  BY <1>1
<1>7. Orderly(a)
  BY <1>1, <1>3, <1>4, <1>5, <1>6 DEF Orderly
<1> QED BY <1>7 DEF a

(* The writes of a step, and the state they lead to.                          *)
Aim(ws) == IF ws # <<>> /\ ws[Len(ws)].w = "save" THEN ws[Len(ws)].st ELSE state

LEMMA Decided ==
    ASSUME TraceInv, ~resumed, NEW ws, NEW pc, todo' = ws, proc' = pc,
           UNCHANGED <<op, leaf, entries, state, notes, uncertain>>,
           pc \notin {"resumed", "blocked"},
           Ordered(ws, pc), Tidy(ws, pc), pc \in Living => Round(ws, Aim(ws), pc)
    PROVE  TraceInv'
<1>1. todo' = ws /\ proc' = pc /\ UNCHANGED <<op, leaf, entries, state, notes>>
  OBVIOUS
<1>2. /\ uncertain = {} /\ state = op /\ TranscriptInv
  BY DEF TraceInv
<1>3. /\ Answering' <=> Answering
      /\ Answer' = Answer /\ Mine' = Mine
      /\ \A k : Slot(op', k) = Slot(op, k)
      /\ \A c : Numbered(c)' <=> Numbered(c)
  BY <1>1, SameOperation
<1>4. TranscriptInv'
  BY <1>1, <1>2, <1>3 DEF TranscriptInv, Has, OnPath, Connectable, Numbered
<1>5. Ordered(todo, proc)'
  <2>1. \A j \in DOMAIN ws : New(ws, j) => New(todo, j)'
    BY <1>1, <1>3 DEF New, InTurn, Has, OnPath, Numbered
  <2>2. \A s : Follows(ws, s, pc) => Follows(ws, s, pc)'
    BY <1>1, <1>3 DEF Follows, Has, Comes
  <2>3. ASSUME NEW j \in DOMAIN ws
        PROVE  /\ ws[j].w = "append" => New(todo, j)'
               /\ ws[j].w = "save" => Follows(ws, ws[j].st, pc)'
    BY <2>1, <2>2 DEF Ordered
  <2>4. \A j \in DOMAIN ws : ws[j].w = "save" => Follows(todo, todo[j].st, proc)'
    BY <1>1, <2>3 DEF Follows, Comes
  <2>5. \A j \in DOMAIN ws :
          /\ ws[j].w = "append" =>
               (IF j = Len(ws) THEN pc = "recover" ELSE ws[j + 1] = Leaf(ws[j].id))
          /\ ws[j].w = "leaf" =>
               IF j = 1 THEN ws[j].id \in DOMAIN entries
                             /\ entries[ws[j].id].path = Append(leaf, ws[j].id)
                        ELSE ws[j - 1].w = "append" /\ ws[j - 1].id = ws[j].id
    BY DEF Ordered, Has, Connectable
  <2> QED BY SMTT(30), <1>1, <2>3, <2>4, <2>5 DEF Ordered, Has, Connectable, Leaf
<1>6. Tidy(todo, proc)'
  BY <1>1, <1>3 DEF Tidy, Has, OnPath, Leaf
<1>7. Target' = Aim(ws)
  BY <1>1 DEF Target, Aim
<1>8. (proc \in Living => Round(todo, Target, proc))'
  BY <1>1, <1>7 DEF Round, Has, Comes, Slot
<1> QED BY <1>1, <1>2, <1>4, <1>5, <1>6, <1>8 DEF TraceInv

LEMMA SavesTrace ==
    ASSUME OperationInv, TraceInv, ~resumed, todo = <<>>, proc \in Living,
           NEW a, Plain(a), Orderly(a), NEW s,
           NEW pc, pc \in {"top", "request", "model", "approval", "done"},
           Begins(a \o <<Save(s)>>, pc), uncertain' = uncertain,
           Follows(a, s, pc), pc \in Living => Round(a, s, pc)
    PROVE  TraceInv'
<1> DEFINE ws == a \o <<Save(s)>>
<1>1. a \in Seq(Appends \cup Moves)
  BY DEF Plain
<1>2. /\ Len(a) \in Nat /\ DOMAIN a = 1 .. Len(a)
      /\ \A j \in DOMAIN a : a[j].w \in {"append", "leaf"}
  BY <1>1 DEF Appends, Moves
<1>3. /\ DOMAIN ws = 1 .. Len(a) + 1 /\ Len(ws) = Len(a) + 1 /\ ws # <<>>
      /\ \A j \in DOMAIN a : ws[j] = a[j]
      /\ ws[Len(a) + 1] = Save(s)
  <2>1. a \in Seq(Appends \cup Moves \cup {Save(s)})
    BY <1>1
  <2>2. <<Save(s)>> \in Seq(Appends \cup Moves \cup {Save(s)})
    OBVIOUS
  <2> QED BY <1>2, <2>1, <2>2
<1>4. Save(s).w = "save" /\ Save(s).st = s
  BY DEF Save
<1> HIDE DEF ws
<1>5. \A j \in DOMAIN ws : j \in DOMAIN a \/ j = Len(a) + 1
  BY <1>2, <1>3
<1>6. \A x : Comes(a, x) <=> Comes(ws, x)
  BY <1>2, <1>3, <1>4, <1>5 DEF Comes
<1>7. \A k \in DOMAIN a : k \in DOMAIN ws
  BY <1>2, <1>3
<1>8. Follows(ws, s, pc)
  BY <1>3, <1>6, <1>7 DEF Follows
<1>9. Ordered(ws, pc)
  <2>1. SUFFICES ASSUME NEW j \in DOMAIN ws
        PROVE  /\ ws[j].w = "append" =>
                    New(ws, j)
                    /\ (IF j = Len(ws) THEN pc = "recover" ELSE ws[j + 1] = Leaf(ws[j].id))
               /\ ws[j].w = "leaf" =>
                    IF j = 1 THEN Has(ws[j].id) /\ Connectable(ws[j].id)
                             ELSE ws[j - 1].w = "append" /\ ws[j - 1].id = ws[j].id
               /\ ws[j].w = "save" => Follows(ws, ws[j].st, pc)
    BY DEF Ordered
  <2>2. CASE j = Len(a) + 1
    BY <1>3, <1>4, <1>8, <2>2
  <2>3. CASE j \in DOMAIN a
    <3>1. ws[j] = a[j] /\ a[j].w \in {"append", "leaf"} /\ j # Len(ws) /\ j \in Nat
      BY <1>2, <1>3, <2>3
    <3>2. \A k \in 1 .. j - 1 : k \in DOMAIN a /\ ws[k] = a[k]
      BY <1>2, <1>3, <2>3
    <3>3. CASE a[j].w = "append"
      <4>1. New(a, j) /\ j # Len(a) /\ a[j + 1] = Leaf(a[j].id)
        BY <2>3, <3>3 DEF Orderly
      <4>2. j + 1 \in DOMAIN a /\ ws[j + 1] = a[j + 1]
        BY <1>2, <1>3, <2>3, <4>1
      <4>3. New(ws, j)
        BY <3>1, <3>2, <4>1 DEF New, InTurn
      <4> QED BY <3>1, <3>3, <4>1, <4>2, <4>3
    <3>4. CASE a[j].w = "leaf"
      <4>1. j # 1 /\ a[j - 1].w = "append" /\ a[j - 1].id = a[j].id
        BY <2>3, <3>4 DEF Orderly
      <4>2. j - 1 \in 1 .. j - 1
        BY <1>2, <2>3, <4>1
      <4> QED BY <3>1, <3>2, <3>4, <4>1, <4>2
    <3> QED BY <3>1, <3>3, <3>4
  <2> QED BY <1>5, <2>2, <2>3
<1>10. Tidy(ws, pc)
  BY Found DEF Tidy
<1>11. Aim(ws) = s
  BY <1>3, <1>4 DEF Aim
<1>12. pc \in Living => Round(ws, s, pc)
  <2>1. ASSUME Round(a, s, pc) PROVE Round(ws, s, pc)
    BY <1>3, <1>4, <1>5, <1>6, <2>1 DEF Round
  <2> QED BY <2>1
<1>13. /\ todo' = ws /\ proc' = pc /\ pc \notin {"resumed", "blocked"}
       /\ UNCHANGED <<op, leaf, entries, state, notes, uncertain>>
  BY DEF ws, Begins
<1> QED BY <1>9, <1>10, <1>11, <1>12, <1>13, Decided

LEMMA SavesOnlyTrace ==
    ASSUME OperationInv, TraceInv, ~resumed, todo = <<>>, proc \in Living, NEW s,
           NEW pc, pc \in {"top", "request", "model", "approval", "done"},
           Begins(<<Save(s)>>, pc), uncertain' = uncertain,
           Follows(<<>>, s, pc), pc \in Living => Round(<<>>, s, pc)
    PROVE  TraceInv'
<1> DEFINE a == <<>>
<1>1. <<Save(s)>> = a \o <<Save(s)>>
  <2>1. <<Save(s)>> \in Seq({Save(s)})
    OBVIOUS
  <2> QED BY <2>1
<1>2. Plain(a) /\ Orderly(a) /\ Follows(a, s, pc) /\ (pc \in Living => Round(a, s, pc))
  BY PlainEmpty, OrderlyEmpty
<1> HIDE DEF a
<1>3. Begins(a \o <<Save(s)>>, pc)
  BY <1>1
<1> QED BY <1>2, <1>3, SavesTrace

(* A state that no more waits for an answer or runs calls can always be saved. *)
LEMMA EndsTrace ==
    ASSUME OperationInv, TraceInv, ~resumed, todo = <<>>, proc \in Living,
           NEW a, Plain(a), Orderly(a), NEW s, s.rsp = op.rsp,
           s.phase \notin {"tools", "model_pending"},
           NEW pc, pc \in {"top", "request", "done"},
           Begins(a \o <<Save(s)>>, pc), uncertain' = uncertain
    PROVE  TraceInv'
<1>1. Follows(a, s, pc) /\ Round(a, s, pc)
  BY Found DEF Follows, Round
<1>2. pc \in {"top", "request", "model", "approval", "done"}
  OBVIOUS
<1> QED BY <1>1, <1>2, SavesTrace

LEMMA EndsOnlyTrace ==
    ASSUME OperationInv, TraceInv, ~resumed, todo = <<>>, proc \in Living,
           NEW s, s.rsp = op.rsp, s.phase \notin {"tools", "model_pending"},
           NEW pc, pc \in {"top", "request", "done"},
           Begins(<<Save(s)>>, pc), uncertain' = uncertain
    PROVE  TraceInv'
<1>1. Follows(<<>>, s, pc) /\ Round(<<>>, s, pc)
  BY Found DEF Follows, Round
<1>2. pc \in {"top", "request", "model", "approval", "done"}
  OBVIOUS
<1> QED BY <1>1, <1>2, SavesOnlyTrace

(* The n-th open call stands at a position of its own, and so has every call  *)
(* that is still open its number among them.                                  *)
OpenAt(s, k) ==
  CHOOSE i \in Unsettled(s) : Cardinality({j \in Unsettled(s) : j <= i}) = k

LEMMA OpenPlaces ==
    ASSUME NEW s \in States
    PROVE  /\ Cardinality(Unsettled(s)) \in Nat
           /\ \A k \in 1 .. Cardinality(Unsettled(s)) :
                /\ OpenAt(s, k) \in Unsettled(s) /\ NthOpen(s, k) = s.calls[OpenAt(s, k)].id
                /\ \A i \in Unsettled(s) : i < OpenAt(s, k) =>
                     \E m \in 1 .. k - 1 : OpenAt(s, m) = i
                /\ \A m \in 1 .. k - 1 : OpenAt(s, m) # OpenAt(s, k)
           /\ \A i \in Unsettled(s) : \E k \in 1 .. Cardinality(Unsettled(s)) : OpenAt(s, k) = i
<1> DEFINE S == Unsettled(s)
           Rank(i) == Cardinality({j \in S : j <= i})
<1>1. s.calls \in Seq(ToolCallStates) /\ Len(s.calls) \in Nat
      /\ DOMAIN s.calls = 1 .. Len(s.calls)
  BY StateFields
<1>2. S \in SUBSET (1 .. Len(s.calls)) /\ S \subseteq Nat
  BY <1>1 DEF Unsettled
<1>3. Cardinality(S) \in Nat
  BY OpenTyped
<1>4. \A k : OpenAt(s, k) = CHOOSE i \in S : Rank(i) = k
  BY DEF OpenAt
<1> HIDE DEF S
<1>5. \A k \in 1 .. Cardinality(S) : \E i \in S : Rank(i) = k
  BY <1>1, <1>2, RankExists
<1>6. \A i \in S : Rank(i) \in 1 .. Cardinality(S) /\ \A j \in S : j < i => Rank(j) < Rank(i)
  BY <1>1, <1>2, RankGrows
<1> HIDE DEF Rank
<1>7. \A k \in 1 .. Cardinality(S) : OpenAt(s, k) \in S /\ Rank(OpenAt(s, k)) = k
  BY <1>4, <1>5
<1>8. \A i \in S : OpenAt(s, Rank(i)) = i
  <2>1. SUFFICES ASSUME NEW i \in S PROVE OpenAt(s, Rank(i)) = i
    OBVIOUS
  <2>2. PICK j : j = OpenAt(s, Rank(i))
    OBVIOUS
  <2>3. j \in S /\ Rank(j) = Rank(i) /\ Rank(i) \in Nat
    BY <1>3, <1>6, <1>7, <2>2
  <2>4. ~(i < j) /\ ~(j < i)
    BY <1>6, <2>3
  <2> QED BY <1>2, <2>2, <2>3, <2>4
<1>9. ASSUME NEW k \in 1 .. Cardinality(S)
      PROVE  /\ OpenAt(s, k) \in S /\ NthOpen(s, k) = s.calls[OpenAt(s, k)].id
             /\ \A i \in S : i < OpenAt(s, k) => \E m \in 1 .. k - 1 : OpenAt(s, m) = i
             /\ \A m \in 1 .. k - 1 : OpenAt(s, m) # OpenAt(s, k)
  <2>1. OpenAt(s, k) \in S /\ Rank(OpenAt(s, k)) = k
    BY <1>7
  <2>2. \A i \in S : i < OpenAt(s, k) => \E m \in 1 .. k - 1 : OpenAt(s, m) = i
    <3>1. SUFFICES ASSUME NEW i \in S, i < OpenAt(s, k)
                   PROVE  \E m \in 1 .. k - 1 : OpenAt(s, m) = i
      OBVIOUS
    <3>2. Rank(i) < k /\ Rank(i) \in 1 .. Cardinality(S)
      BY <1>6, <2>1, <3>1
    <3>3. Rank(i) \in 1 .. k - 1
      BY <1>3, <3>2
    <3> QED BY <1>8, <3>3
  <2>3. \A m \in 1 .. k - 1 : OpenAt(s, m) # OpenAt(s, k)
    <3>1. SUFFICES ASSUME NEW m \in 1 .. k - 1 PROVE OpenAt(s, m) # OpenAt(s, k)
      OBVIOUS
    <3>2. m \in 1 .. Cardinality(S) /\ m # k
      BY <1>3
    <3> QED BY <1>7, <2>1, <3>2
  <2>4. NthOpen(s, k) = s.calls[OpenAt(s, k)].id
    BY DEF NthOpen, OpenAt
  <2> QED BY <2>1, <2>2, <2>3, <2>4
<1>10. \A i \in S : \E k \in 1 .. Cardinality(S) : OpenAt(s, k) = i
  BY <1>6, <1>8
<1> QED BY <1>3, <1>9, <1>10 DEF S

(* What settles the open calls of a tool round: for each, in their order, an  *)
(* entry and the leaf move to it.                                             *)
Nth(n) == OpenAt(op, (n + 1) \div 2)

LEMMA InterruptedIs ==
    ASSUME OperationInv, TraceInv, ~resumed, todo = <<>>, proc \in Living, op.phase = "tools",
           NEW N, N = Cardinality(Unsettled(op)), NEW ws, ws = Interrupted(op)
    PROVE  /\ N \in Nat /\ DOMAIN ws = 1 .. 2 * N /\ Len(ws) = 2 * N
           /\ \A n \in 1 .. 2 * N :
                /\ (n + 1) \div 2 \in 1 .. N
                /\ Nth(n) \in DOMAIN op.calls /\ op.calls[Nth(n)].status # "completed"
                /\ ws[n] = IF n % 2 = 1 THEN Entry(Slot(op, Nth(n)), <<>>, "cancelled")
                                        ELSE Leaf(Slot(op, Nth(n)))
<1>1. /\ op \in States
      /\ \A i \in DOMAIN op.calls : ResId(op.calls[i].id) = Slot(op, i)
  BY Found
<1>2. N \in Nat
  BY <1>1, OpenPlaces
<1>3. ASSUME NEW n \in 1 .. 2 * N
      PROVE  /\ (n + 1) \div 2 \in 1 .. N
             /\ Nth(n) \in DOMAIN op.calls /\ op.calls[Nth(n)].status # "completed"
             /\ ResId(NthOpen(op, (n + 1) \div 2)) = Slot(op, Nth(n))
  <2>1. (n + 1) \div 2 \in 1 .. N
    BY <1>2
  <2>2. Nth(n) \in Unsettled(op) /\ NthOpen(op, (n + 1) \div 2) = op.calls[Nth(n)].id
    BY <1>1, <2>1, OpenPlaces DEF Nth
  <2>3. Nth(n) \in DOMAIN op.calls /\ op.calls[Nth(n)].status # "completed"
    BY <2>2 DEF Unsettled
  <2> QED BY <1>1, <2>1, <2>2, <2>3
<1>4. ws = [n \in 1 .. 2 * N |->
              IF n % 2 = 1 THEN Entry(ResId(NthOpen(op, (n + 1) \div 2)), <<>>, "cancelled")
                           ELSE Leaf(ResId(NthOpen(op, (n + 1) \div 2)))]
  BY DEF Interrupted
<1>5. DOMAIN ws = 1 .. 2 * N
  BY <1>4
<1>6. Len(ws) = 2 * N
  BY <1>2, <1>5
<1> QED BY <1>2, <1>3, <1>4, <1>5, <1>6

(* The open calls are settled in their order.                                 *)
LEMMA OrderlyInterrupted ==
    ASSUME OperationInv, TraceInv, ~resumed, todo = <<>>, proc \in Living
    PROVE  Orderly(Interrupted(op))
<1>1. CASE op.phase # "tools"
  BY <1>1, OrderlyEmpty DEF Interrupted
<1>2. CASE op.phase = "tools"
  <2> DEFINE N  == Cardinality(Unsettled(op))
             ws == Interrupted(op)
             P(n) == Nth(n)
             Id(n) == Slot(op, P(n))
  <2>1. /\ op \in States /\ TranscriptInv
        /\ \A i \in DOMAIN op.calls : ResId(op.calls[i].id) = Slot(op, i) /\ i \in Nat \ {0}
        /\ \A i \in DOMAIN op.calls : op.calls[i].status # "completed" => ~Has(Slot(op, i))
    BY <1>2, Found
  <2>2. N \in Nat
    BY <2>1, OpenPlaces
  <2>3. \A n \in 1 .. 2 * N :
          /\ (n + 1) \div 2 \in 1 .. N
          /\ P(n) \in DOMAIN op.calls /\ op.calls[P(n)].status # "completed"
    BY <1>2, InterruptedIs
  <2>4. /\ DOMAIN ws = 1 .. 2 * N /\ Len(ws) = 2 * N
        /\ \A n \in 1 .. 2 * N : ws[n] = IF n % 2 = 1 THEN Entry(Id(n), <<>>, "cancelled")
                                                     ELSE Leaf(Id(n))
    BY <1>2, InterruptedIs
  <2>5. /\ \A n \in 1 .. 2 * N : n % 2 = 1 => /\ ws[n].w = "append" /\ ws[n].id = Id(n)
                                              /\ ws[n].calls = <<>>
        /\ \A n \in 1 .. 2 * N : n % 2 # 1 => ws[n].w = "leaf" /\ ws[n].id = Id(n)
    BY <2>4 DEF Entry, Leaf
  <2> HIDE DEF ws, Id
  <2>6. ASSUME NEW n \in 1 .. 2 * N, n % 2 = 1
        PROVE  New(ws, n) /\ n # Len(ws) /\ ws[n + 1] = Leaf(ws[n].id)
    <3>1. n + 1 \in 1 .. 2 * N /\ (n + 1) % 2 # 1 /\ (n + 2) \div 2 = (n + 1) \div 2
      BY <2>2, <2>6
    <3>2. P(n + 1) = P(n) /\ Id(n + 1) = Id(n)
      BY <3>1 DEF Id, Nth
    <3>3. n # Len(ws) /\ ws[n + 1] = Leaf(ws[n].id)
      <4>1. ws[n + 1] = Leaf(Id(n + 1))
        BY <2>4, <3>1
      <4>2. ws[n].id = Id(n)
        BY <2>5, <2>6
      <4>3. n # Len(ws)
        BY <2>2, <2>4, <3>1
      <4> QED BY <3>2, <4>1, <4>2, <4>3
    <3>4. ~Has(ws[n].id)
      BY <2>1, <2>3, <2>5, <2>6 DEF Id
    <3>5. InTurn(ws, n)
      <4>1. Answering /\ OnPath(Answer)
        BY <1>2, <2>1 DEF Answering, TranscriptInv
      <4>2. P(n) \in Nat \ {0} /\ ws[n].id = Slot(op, P(n))
        BY <2>1, <2>3, <2>5, <2>6 DEF Id
      <4>3. ASSUME NEW i \in 1 .. P(n) - 1
            PROVE  OnPath(Slot(op, i)) \/ \E l \in 1 .. n - 1 : ws[l] = Leaf(Slot(op, i))
        <5>1. i \in DOMAIN op.calls
          <6>1. DOMAIN op.calls = 1 .. Len(op.calls) /\ Len(op.calls) \in Nat
            BY <2>1, StateFields
          <6> QED BY <2>3, <6>1
        <5>2. CASE op.calls[i].status = "completed"
          BY <1>2, <2>1, <5>1, <5>2 DEF TranscriptInv
        <5>3. CASE op.calls[i].status # "completed"
          <6>1. i \in Unsettled(op) /\ i < P(n)
            BY <4>2, <5>1, <5>3 DEF Unsettled
          <6>2. PICK m \in 1 .. (n + 1) \div 2 - 1 : OpenAt(op, m) = i
            BY <2>1, <2>3, <6>1, OpenPlaces DEF Nth
          <6>3. 2 * m \in 1 .. n - 1 /\ 2 * m \in 1 .. 2 * N /\ (2 * m) % 2 # 1
                /\ (2 * m + 1) \div 2 = m
            BY <2>2, <6>2
          <6>4. ws[2 * m] = Leaf(Slot(op, i))
            BY <2>4, <6>2, <6>3 DEF Id, Nth
          <6> QED BY <6>3, <6>4
        <5> QED BY <5>2, <5>3
      <4> HIDE DEF P
      <4> QED BY <4>1, <4>2, <4>3 DEF InTurn
    <3>6. ASSUME NEW k \in 1 .. n - 1, ws[k].w = "append" PROVE ws[k].id # ws[n].id
      <4>1. k \in 1 .. 2 * N /\ k % 2 = 1
        <5>1. k \in 1 .. 2 * N
          BY <2>2
        <5> QED BY <2>5, <3>6, <5>1
      <4>2. (k + 1) \div 2 \in 1 .. (n + 1) \div 2 - 1
        BY <2>2, <2>6, <4>1
      <4>3. P(k) # P(n)
        BY <2>1, <2>3, <4>2, OpenPlaces DEF Nth
      <4>4. ws[k].id = Slot(op, P(k)) /\ ws[n].id = Slot(op, P(n))
        BY <2>5, <2>6, <4>1 DEF Id
      <4> HIDE DEF P
      <4> QED BY <4>3, <4>4, Names
    <3> QED BY <3>3, <3>4, <3>5, <3>6 DEF New
  <2>7. ASSUME NEW n \in 1 .. 2 * N, n % 2 # 1
        PROVE  n # 1 /\ ws[n - 1].w = "append" /\ ws[n - 1].id = ws[n].id
    <3>1. n # 1 /\ n - 1 \in 1 .. 2 * N /\ (n - 1) % 2 = 1 /\ n \div 2 = (n + 1) \div 2
          /\ n - 1 + 1 = n
      BY <2>2, <2>7
    <3>2. Id(n - 1) = Id(n)
      BY <3>1 DEF Id, Nth
    <3> QED BY <2>5, <2>7, <3>1, <3>2
  <2>8. Orderly(ws)
    BY <2>4, <2>5, <2>6, <2>7 DEF Orderly
  <2> QED BY <2>8 DEF ws
<1> QED BY <1>1, <1>2

(* It goes on with nothing to write.                                          *)
LEMMA MovesTrace ==
    ASSUME OperationInv, TraceInv, ~resumed, todo = <<>>, proc \in Living, proc # "model",
           NEW pc, pc \in {"top", "request"},
           Begins(<<>>, pc), uncertain' = uncertain
    PROVE  TraceInv'
<1> DEFINE ws == <<>>
<1>1. Ordered(ws, pc) /\ Tidy(ws, pc) /\ Aim(ws) = op
  BY Found DEF Ordered, Tidy, Aim
<1>2. Round(ws, op, pc)
  BY Found DEF Round, Comes, Slot
<1>3. /\ todo' = ws /\ proc' = pc /\ pc \notin {"resumed", "blocked"}
      /\ UNCHANGED <<op, leaf, entries, state, notes, uncertain>>
  BY DEF Begins
<1> HIDE DEF ws
<1> QED BY <1>1, <1>2, <1>3, Decided

(* What the reducer leaves as it was, for a state that has the fields.        *)
LEMMA Reduced ==
    ASSUME NEW s \in States
    PROVE  /\ ExtendLimit(s).phase = s.phase /\ ExtendLimit(s).rsp = s.rsp
           /\ EnterFinalResponse(s).phase = "final_response" /\ EnterFinalResponse(s).rsp = s.rsp
           /\ Completed(s).phase = "completed" /\ Completed(s).rsp = s.rsp
           /\ Aborted(s).phase = "aborted" /\ Aborted(s).rsp = s.rsp
           /\ \A code : Failed(s, code).phase = "failed" /\ Failed(s, code).rsp = s.rsp
           /\ EnterFinalResponseAfterModel(s).phase = "final_response"
           /\ EnterFinalResponseAfterModel(s).rsp = s.rsp
           /\ \A final : /\ ContinueOutput(s, final).phase \in {"ready", "final_response"}
                         /\ ContinueOutput(s, final).rsp = s.rsp
           /\ s.phase # "model_pending" =>
                /\ BeginModelRequest(s).phase = "model_pending"
                /\ BeginModelRequest(s).rsp = s.rsp + 1
BY DEF States, ExtendLimit, EnterFinalResponse, Completed, Aborted, Failed,
       EnterFinalResponseAfterModel, ContinueOutput, BeginModelRequest

LEMMA NoteOrderly ==
    ASSUME OperationInv, TraceInv, ~resumed, todo = <<>>, proc \in Living
    PROVE  /\ Orderly(Note) /\ Plain(Note)
           /\ \A j \in DOMAIN Note : Note[j].w = "append" => Note[j].id[1] = "note"
<1> DEFINE id == NoteId(notes)
           none == <<>>
           code == "none"
<1>1. ~Has(id) /\ Due(id, none) /\ Note = Message(id, none, code)
  BY Found DEF Due, Note
<1>2. \A j \in DOMAIN Note : j = 1 \/ j = 2
  BY DEF Note, Message
<1>3. Note[1].id = id /\ Note[2].w = "leaf"
  BY DEF Note, Message, Entry, Leaf
<1>4. id[1] = "note"
  BY Names
<1> HIDE DEF id, none, code
<1>5. Orderly(Note)
  BY <1>1, OrderlyMessage
<1> QED BY <1>2, <1>3, <1>4, <1>5, Deciding

LEMMA FailTrace ==
    ASSUME OperationInv, TraceInv, ~resumed, todo = <<>>, proc \in Living,
           NEW code, Fail(code)
    PROVE  TraceInv'
<1> DEFINE r  == Failed(state, code)
           pc == "done"
<1>1. r.rsp = op.rsp /\ r.phase \notin {"tools", "model_pending"}
  BY Found, Reduced
<1>2. Begins(<<Save(r)>>, pc) /\ uncertain' = uncertain /\ pc \in {"top", "request", "done"}
  BY DEF Fail, Do, Go, Begins, Same
<1> HIDE DEF r, pc
<1> QED BY <1>1, <1>2, EndsOnlyTrace

LEMMA AbortTrace ==
    ASSUME OperationInv, TraceInv, ~resumed, todo = <<>>, proc \in Living, AbortNow
    PROVE  TraceInv'
<1> DEFINE r  == Aborted(state)
           a  == Interrupted(state)
           pc == "done"
<1>1. r.rsp = op.rsp /\ r.phase \notin {"tools", "model_pending"} /\ state = op
  BY Found, Reduced
<1>2. Begins(a \o <<Save(r)>>, pc) /\ uncertain' = uncertain /\ pc \in {"top", "request", "done"}
  BY DEF AbortNow, Do, Go, Begins, Same
<1>3. Plain(a) /\ Orderly(a)
  BY <1>1, Deciding, OrderlyInterrupted
<1> HIDE DEF r, a, pc
<1> QED BY <1>1, <1>2, <1>3, EndsTrace

LEMMA LoopTrace ==
    ASSUME OperationInv, TraceInv, ~resumed, Loop
    PROVE  TraceInv'
<1>1. /\ todo = <<>> /\ proc \in Living /\ proc # "model"
  BY DEF Loop, GuardContinue, GuardExtend, GuardFinalize, GuardStop, AskAgain, LimitExceeded,
         RequestModel, At, Living
<1>2. /\ state = op /\ op \in States /\ op.rsp \in Nat /\ op.phase # "model_pending"
      /\ \A id \in DOMAIN entries : id[1] # "note" => id[2] \in Nat /\ id[2] <= op.rsp
  BY <1>1, Found
<1>3. CASE GuardContinue \/ AskAgain
  <2> DEFINE pc == "request"
  <2>1. Begins(<<>>, pc) /\ uncertain' = uncertain /\ pc \in {"top", "request"}
    BY <1>3 DEF GuardContinue, AskAgain, Do, Go, Begins, Same
  <2> HIDE DEF pc
  <2> QED BY <1>1, <2>1, MovesTrace
<1>4. CASE GuardExtend
  <2> DEFINE r  == ExtendLimit(state)
             pc == "request"
  <2>1. /\ Begins(<<Save(r)>>, pc) /\ uncertain' = uncertain /\ pc \in {"top", "request", "done"}
        /\ state.phase \in {"ready", "checkpoint"}
    BY <1>4 DEF GuardExtend, Go, Begins, Same
  <2>2. r.rsp = op.rsp /\ r.phase \notin {"tools", "model_pending"}
    BY <1>2, <2>1, Reduced
  <2> HIDE DEF r, pc
  <2> QED BY <1>1, <2>1, <2>2, EndsOnlyTrace
<1>5. CASE GuardFinalize
  <2> DEFINE r  == EnterFinalResponse(state)
             pc == "request"
  <2>1. /\ Begins(Note \o <<Save(r)>>, pc) /\ uncertain' = uncertain
        /\ pc \in {"top", "request", "done"}
    BY <1>5 DEF GuardFinalize, Do, Go, Begins, Same
  <2>2. r.rsp = op.rsp /\ r.phase \notin {"tools", "model_pending"}
    BY <1>2, Reduced
  <2>3. Plain(Note) /\ Orderly(Note)
    BY <1>1, NoteOrderly
  <2> HIDE DEF r, pc
  <2> QED BY <1>1, <2>1, <2>2, <2>3, EndsTrace
<1>6. CASE GuardStop \/ LimitExceeded
  <2>1. CASE Fail("exceeded")
    <3> DEFINE code == "exceeded"
    <3>1. Fail(code)
      BY <2>1
    <3> HIDE DEF code
    <3> QED BY <1>1, <3>1, FailTrace
  <2>2. CASE Do(<<Save(Completed(state))>>, "done") /\ Same
    <3> DEFINE r  == Completed(state)
               pc == "done"
    <3>1. /\ Begins(<<Save(r)>>, pc) /\ uncertain' = uncertain
          /\ pc \in {"top", "request", "done"}
      BY <2>2 DEF Do, Go, Begins, Same
    <3>2. r.rsp = op.rsp /\ r.phase \notin {"tools", "model_pending"}
      BY <1>2, Reduced
    <3> HIDE DEF r, pc
    <3> QED BY <1>1, <3>1, <3>2, EndsOnlyTrace
  <2> QED BY <1>6, <2>1, <2>2 DEF GuardStop, LimitExceeded
<1>7. CASE RequestModel
  <2> DEFINE r  == BeginModelRequest(state)
             pc == "model"
  <2>1. /\ Begins(<<Save(r)>>, pc) \/ Begins(Note \o <<Save(r)>>, pc)
        /\ uncertain' = uncertain /\ pc = "model"
        /\ pc \in {"top", "request", "model", "approval", "done"}
    BY <1>7 DEF RequestModel, Do, Go, Begins, Same, Context
  <2>2. r.rsp = op.rsp + 1 /\ r.phase = "model_pending"
    BY <1>2, Reduced
  <2>3. /\ Plain(Note) /\ Orderly(Note)
        /\ \A j \in DOMAIN Note : Note[j].w = "append" => Note[j].id[1] = "note"
    BY <1>1, NoteOrderly
  <2> HIDE DEF r, pc
  <2>4. \A id \in DOMAIN entries : id[1] # "note" => id[2] < r.rsp
    BY <1>2, <2>2
  <2>5. r.rsp > op.rsp /\ r.rsp >= op.rsp
    BY <1>2, <2>2
  <2>6. Follows(Note, r, pc) /\ Follows(<<>>, r, pc)
    BY <2>2, <2>5 DEF Follows
  <2>7. Round(Note, r, pc) /\ Round(<<>>, r, pc)
    BY <2>1, <2>2, <2>3, <2>4 DEF Round
  <2> QED BY <1>1, <2>1, <2>3, <2>6, <2>7, SavesTrace, SavesOnlyTrace
<1> QED BY <1>3, <1>4, <1>5, <1>6, <1>7 DEF Loop

LEMMA ModelTrace ==
    ASSUME OperationInv, TraceInv, ~resumed, ModelStep
    PROVE  TraceInv'
<1>1. /\ todo = <<>> /\ proc \in Living /\ proc = "model"
  BY DEF ModelStep, ModelText, ModelCutOff, ModelToolOutputLimit, ModelError,
         ModelCallsDropped, ModelCallsRefused, ModelCalls, At, Living
<1>2. /\ state = op /\ op \in States /\ op.phase = "model_pending" /\ ~Has(Answer)
      /\ ~Has(NoteId(notes)) /\ TranscriptInv /\ op.rsp \in Nat /\ op.attempt \in Nat
  BY <1>1, Found, StateFields
<1>3. Plain(Note) /\ Orderly(Note) /\ Plain(Assistant(<<>>))
      /\ \A n \in Nat : Plain(Assistant(NewCalls(n)))
  <2>1. 0 \in Nat
    OBVIOUS
  <2> QED BY <1>1, <1>2, <2>1, NoteOrderly, PlainAssistant
<1>4. \A calls : Numbered(calls) => Orderly(Assistant(calls)) /\ Orderly(Assistant(calls) \o Note)
  <2>1. SUFFICES ASSUME NEW calls, Numbered(calls)
                 PROVE  Orderly(Assistant(calls)) /\ Orderly(Assistant(calls) \o Note)
    OBVIOUS
  <2> DEFINE code == "none"
             id   == Answer
  <2>2. Assistant(calls) = Message(id, calls, code)
    BY <1>2 DEF Assistant, Answer
  <2>3. ~Has(id) /\ Due(id, calls) /\ id # NoteId(notes)
    BY <1>2, <2>1, Names DEF Due
  <2> HIDE DEF code, id
  <2> QED BY <1>2, <2>2, <2>3, OrderlyMessage, OrderlyTwo
<1>5. Numbered(<<>>) /\ \A n \in Nat : Numbered(NewCalls(n))
  BY <1>2 DEF Numbered, NewCalls
<1>6. CASE ModelText
  <2> DEFINE r  == Completed(state)
             a  == Assistant(<<>>)
             pc == "done"
  <2>1. /\ Begins(a \o <<Save(r)>>, pc) /\ uncertain' = uncertain
        /\ pc \in {"top", "request", "done"}
    BY <1>6 DEF ModelText, Do, Go, Begins, Same
  <2>2. r.rsp = op.rsp /\ r.phase \notin {"tools", "model_pending"}
    BY <1>2, Reduced
  <2>3. Plain(a) /\ Orderly(a)
    BY <1>3, <1>4, <1>5
  <2> HIDE DEF r, a, pc
  <2> QED BY <1>1, <2>1, <2>2, <2>3, EndsTrace
<1>7. CASE ModelCutOff
  <2> DEFINE r  == ContinueOutput(state, state.final)
             a  == Assistant(<<>>) \o Note
             pc == "top"
  <2>1. /\ Begins(a \o <<Save(r)>>, pc) /\ uncertain' = uncertain
        /\ pc \in {"top", "request", "done"}
    BY <1>7 DEF ModelCutOff, Do, Go, Begins, Same
  <2>2. r.rsp = op.rsp /\ r.phase \notin {"tools", "model_pending"}
    BY <1>2, Reduced
  <2>3. Plain(a) /\ Orderly(a)
    BY <1>3, <1>4, <1>5, PlainConcat
  <2> HIDE DEF r, a, pc
  <2> QED BY <1>1, <2>1, <2>2, <2>3, EndsTrace
<1>8. CASE ModelToolOutputLimit
  <2> DEFINE final == FALSE
             r  == ContinueOutput(state, final)
             pc == "top"
  <2>1. /\ Begins(Note \o <<Save(r)>>, pc) /\ uncertain' = uncertain
        /\ pc \in {"top", "request", "done"}
    BY <1>8 DEF ModelToolOutputLimit, Go, Begins, Same
  <2> HIDE DEF final
  <2>2. r.rsp = op.rsp /\ r.phase \notin {"tools", "model_pending"}
    BY <1>2, Reduced
  <2> HIDE DEF r, pc
  <2> QED BY <1>1, <1>3, <2>1, <2>2, EndsTrace
<1>9. CASE ModelError
  <2> DEFINE code == "provider_error"
  <2>1. Fail(code)
    BY <1>9 DEF ModelError
  <2> HIDE DEF code
  <2> QED BY <1>1, <2>1, FailTrace
<1>10. CASE ModelCallsDropped
  <2> DEFINE r  == EnterFinalResponseAfterModel(state)
             a  == Assistant(<<>>) \o Note
             pc == "top"
  <2>1. /\ Begins(a \o <<Save(r)>>, pc) /\ uncertain' = uncertain
        /\ pc \in {"top", "request", "done"}
    BY <1>10 DEF ModelCallsDropped, Assistant, Go, Begins, Same
  <2>2. r.rsp = op.rsp /\ r.phase \notin {"tools", "model_pending"}
    BY <1>2, Reduced
  <2>3. Plain(a) /\ Orderly(a)
    BY <1>3, <1>4, <1>5, PlainConcat
  <2> HIDE DEF r, a, pc
  <2> QED BY <1>1, <2>1, <2>2, <2>3, EndsTrace
<1>11. CASE ModelCallsRefused
  <2>1. PICK n \in Batches :
          Do(Assistant(NewCalls(n)) \o <<Save(Failed(state, "no_progress"))>>, "done")
    BY <1>11 DEF ModelCallsRefused
  <2> DEFINE r  == Failed(state, "no_progress")
             a  == Assistant(NewCalls(n))
             pc == "done"
  <2>2. /\ Begins(a \o <<Save(r)>>, pc) /\ uncertain' = uncertain
        /\ pc \in {"top", "request", "done"}
    BY <1>11, <2>1 DEF ModelCallsRefused, Do, Go, Begins, Same
  <2>3. r.rsp = op.rsp /\ r.phase \notin {"tools", "model_pending"}
    BY <1>2, Reduced
  <2>4. n \in Nat
    BY DEF Batches
  <2>5. Plain(a) /\ Orderly(a)
    BY <1>3, <1>4, <1>5, <2>4
  <2> HIDE DEF r, a, pc
  <2> QED BY <1>1, <2>2, <2>3, <2>5, EndsTrace
<1>12. CASE ModelCalls
  <2>1. PICK n \in Batches : \E replay \in [1 .. n -> {"safe", "never"}] :
          Do(Assistant(NewCalls(n))
               \o <<Save(PlanToolCalls(state, NewCalls(n), replay))>>, "top")
    BY <1>12 DEF ModelCalls
  <2>2. PICK replay \in [1 .. n -> {"safe", "never"}] :
          Do(Assistant(NewCalls(n))
               \o <<Save(PlanToolCalls(state, NewCalls(n), replay))>>, "top")
    BY <2>1
  <2> DEFINE ids == NewCalls(n)
             r   == PlanToolCalls(state, ids, replay)
             a   == Assistant(ids)
             pc  == "top"
  <2>3. /\ Begins(a \o <<Save(r)>>, pc) /\ uncertain' = uncertain /\ pc = "top"
        /\ pc \in {"top", "request", "model", "approval", "done"}
    BY <1>12, <2>2 DEF ModelCalls, Do, Go, Begins, Same
  <2>4. n \in Nat
    BY DEF Batches
  <2>5. Plain(a) /\ Orderly(a)
    BY <1>3, <1>4, <1>5, <2>4
  <2>6. DOMAIN ids = 1 .. n /\ Len(ids) = n
    BY <2>4 DEF NewCalls
  <2> HIDE DEF ids
  <2>7. /\ r.phase = "tools" /\ r.rsp = op.rsp /\ r.attempt = op.attempt /\ r.cur = 1
        /\ DOMAIN r.calls = 1 .. n /\ Len(r.calls) = n
        /\ \A i \in 1 .. n : r.calls[i].status = "planned"
    BY <1>2, <2>4, <2>6 DEF PlanToolCalls, States
  <2>8. /\ DOMAIN a = 1 .. 2 /\ a[1].w = "append" /\ a[1].id = Answer /\ a[1].calls = ids
        /\ a[2].w = "leaf"
    BY <1>2 DEF Assistant, Message, Entry, Leaf, Answer
  <2> HIDE DEF r, a
  <2>9. \A k \in DOMAIN a : a[k].w = "append" => a[k].id = Answer
    <3>1. \A k \in DOMAIN a : k = 1 \/ k = 2
      BY <2>8
    <3> QED BY <2>8, <3>1
  <2>10. \A i \in 1 .. n : ~Has(Slot(r, i)) /\ ~Comes(a, Slot(r, i))
    <3>1. SUFFICES ASSUME NEW i \in 1 .. n PROVE ~Has(Slot(r, i)) /\ ~Comes(a, Slot(r, i))
      OBVIOUS
    <3>2. Slot(r, i) = Slot(op, i) /\ i \in Nat \ {0}
      BY <2>7 DEF Slot
    <3>3. ~Has(Slot(op, i))
      <4>1. Has(Slot(op, i)) => OnPath(Answer)
        BY <1>2, <3>2 DEF TranscriptInv, Answering
      <4>2. OnPath(Answer) => Has(Answer)
        BY <1>2 DEF TranscriptInv, OnPath, Elements
      <4> QED BY <1>2, <4>1, <4>2
    <3>4. Slot(r, i) # Answer
      <4>1. Slot(r, i)[1] = "res" /\ Answer[1] = "asst"
        BY Names
      <4> QED BY <4>1
    <3> QED BY <2>9, <3>2, <3>3, <3>4 DEF Comes
  <2>11. Follows(a, r, pc)
    <3>1. \E k \in DOMAIN a : /\ a[k].w = "append" /\ a[k].id = Answer
                              /\ Len(a[k].calls) = Len(r.calls)
      BY <2>6, <2>7, <2>8
    <3>2. pc \in Living /\ Answering
      BY <1>2 DEF Living, Answering
    <3> QED BY <1>2, <2>7, <3>1, <3>2 DEF Follows
  <2>12. Round(a, r, pc)
    <3>1. \A i \in 1 .. n : ~(i < 1)
      OBVIOUS
    <3> QED BY <2>3, <2>7, <2>10, <3>1 DEF Round
  <2> HIDE DEF pc
  <2> QED BY <1>1, <2>3, <2>5, <2>11, <2>12, SavesTrace
<1> QED BY <1>6, <1>7, <1>8, <1>9, <1>10, <1>11, <1>12 DEF ModelStep

(* The current call is decided on, or settled together with its result.       *)
LEMMA CallTrace ==
    ASSUME OperationInv, TraceInv, ~resumed, todo = <<>>, proc \in Living,
           op.phase = "tools", op.calls[op.cur].status # "completed",
           NEW perm \in {"pending", "allowed", "denied"},
           NEW status \in {"planned", "effect_pending", "completed"},
           NEW a, Plain(a), Orderly(a),
           \A x : Comes(a, x) => (status = "completed" /\ x = Slot(op, op.cur)) \/ x[1] = "note",
           status = "completed" => Comes(a, Slot(op, op.cur)),
           NEW pc, pc \in {"top", "approval"},
           Begins(a \o <<Save(SetCurrent(state, perm, status))>>, pc), uncertain' = uncertain
    PROVE  TraceInv'
<1> DEFINE r == SetCurrent(op, perm, status)
<1>1. /\ state = op /\ op \in States /\ TranscriptInv
      /\ \A i \in DOMAIN op.calls :
           /\ i < op.cur => op.calls[i].status = "completed"
           /\ i > op.cur => op.calls[i].status # "completed"
           /\ op.calls[i].status # "completed" => ~Has(Slot(op, i))
  BY Found
<1>2. /\ op.cur \in DOMAIN op.calls /\ op.cur \in Nat
      /\ \A i \in DOMAIN op.calls : i \in Nat
  BY <1>1, StateFields
<1>3. Others(op, r) /\ Current(r).status = status
  BY <1>1, SetFields
<1> HIDE DEF r
<1>4. /\ r.rsp = op.rsp /\ r.attempt = op.attempt /\ r.cur = op.cur /\ r.phase = "tools"
      /\ DOMAIN r.calls = DOMAIN op.calls /\ Len(r.calls) = Len(op.calls)
      /\ r.calls[op.cur].status = status
      /\ \A i \in DOMAIN op.calls : i # op.cur => r.calls[i] = op.calls[i]
  BY <1>3 DEF Others, Current
<1>5. \A i : Slot(r, i) = Slot(op, i)
  BY <1>4 DEF Slot
<1>6. Has(Answer) /\ Len(entries[Answer].calls) = Len(r.calls)
  BY <1>1, <1>4 DEF TranscriptInv, OnPath, Elements
<1>7. \A i \in DOMAIN op.calls : op.calls[i].status = "completed" => Has(Slot(op, i))
  BY <1>1 DEF TranscriptInv, OnPath, Elements
<1>8. pc \in Living /\ Answering /\ pc # "model"
  BY DEF Living, Answering
<1>9. Follows(a, r, pc)
  <2>1. \A i \in DOMAIN r.calls : r.calls[i].status = "completed" =>
          Has(Slot(op, i)) \/ Comes(a, Slot(op, i))
    <3>1. SUFFICES ASSUME NEW i \in DOMAIN r.calls, r.calls[i].status = "completed"
                   PROVE  Has(Slot(op, i)) \/ Comes(a, Slot(op, i))
      OBVIOUS
    <3>2. CASE i = op.cur
      BY <1>4, <3>1, <3>2
    <3>3. CASE i # op.cur
      BY <1>4, <1>7, <3>1, <3>3
    <3> QED BY <3>2, <3>3
  <2>2. r.rsp >= op.rsp
    BY <1>1, <1>4, StateFields
  <2> QED BY <1>4, <1>6, <1>8, <2>1, <2>2 DEF Follows
<1>10. Round(a, r, pc)
  <2>1. SUFFICES ASSUME NEW i \in DOMAIN r.calls
                 PROVE  /\ i < r.cur => r.calls[i].status = "completed"
                        /\ i > r.cur => r.calls[i].status # "completed"
                        /\ r.calls[i].status # "completed" =>
                             ~Has(Slot(r, i)) /\ ~Comes(a, Slot(r, i))
    BY <1>4, <1>8 DEF Round
  <2>2. i \in DOMAIN op.calls
    BY <1>4
  <2>3. Slot(op, i)[1] # "note" /\ (i # op.cur => Slot(op, i) # Slot(op, op.cur))
    BY Names
  <2>4. CASE i = op.cur
    <3>1. ~(i < i) /\ ~(i > i)
      BY <1>2, <2>2
    <3>2. r.calls[i].status = status
      BY <1>4, <2>4
    <3>3. status # "completed" => ~Comes(a, Slot(op, i))
      BY <2>3
    <3>4. ~Has(Slot(op, i))
      BY <1>1, <2>2, <2>4
    <3> QED BY <1>4, <1>5, <2>4, <3>1, <3>2, <3>3, <3>4
  <2>5. CASE i # op.cur
    <3>1. ~Comes(a, Slot(op, i))
      BY <2>3, <2>5
    <3> QED BY <1>1, <1>4, <1>5, <2>2, <2>5, <3>1
  <2> QED BY <2>4, <2>5
<1>11. Begins(a \o <<Save(r)>>, pc) /\ pc \in {"top", "request", "model", "approval", "done"}
  BY <1>1 DEF r
<1> QED BY <1>9, <1>10, <1>11, SavesTrace

LEMMA CallOnlyTrace ==
    ASSUME OperationInv, TraceInv, ~resumed, todo = <<>>, proc \in Living,
           op.phase = "tools", op.calls[op.cur].status # "completed",
           NEW perm \in {"pending", "allowed", "denied"},
           NEW status \in {"planned", "effect_pending"},
           NEW pc, pc \in {"top", "approval"},
           Begins(<<Save(SetCurrent(state, perm, status))>>, pc), uncertain' = uncertain
    PROVE  TraceInv'
<1> DEFINE a == <<>>
           r == SetCurrent(state, perm, status)
<1>1. <<Save(r)>> = a \o <<Save(r)>>
  <2> HIDE DEF r
  <2>1. <<Save(r)>> \in Seq({Save(r)})
    OBVIOUS
  <2> QED BY <2>1
<1>2. Plain(a) /\ Orderly(a) /\ \A x : ~Comes(a, x)
  BY PlainEmpty, OrderlyEmpty DEF Comes
<1> HIDE DEF a
<1>3. Begins(a \o <<Save(r)>>, pc)
  BY <1>1
<1>4. status \in {"planned", "effect_pending", "completed"} /\ status # "completed"
  OBVIOUS
<1> QED BY <1>2, <1>3, <1>4, CallTrace

(* The result of the current call comes in its turn.                          *)
LEMMA ResultOrderly ==
    ASSUME OperationInv, TraceInv, ~resumed, todo = <<>>, proc \in Living,
           op.phase = "tools", op.calls[op.cur].status # "completed",
           NEW code \in EntryCodes, code # "before_execution",
           NEW a, a = Result(Call.id, code) \/ a = Result(Call.id, code) \o Note
    PROVE  /\ Plain(a) /\ Orderly(a) /\ Comes(a, Slot(op, op.cur))
           /\ \A x : Comes(a, x) => x = Slot(op, op.cur) \/ x[1] = "note"
<1> DEFINE id   == Slot(op, op.cur)
           none == <<>>
           m    == Message(id, none, code)
<1>1. /\ state = op /\ op \in States /\ TranscriptInv
      /\ \A i \in DOMAIN op.calls : ResId(op.calls[i].id) = Slot(op, i) /\ i \in Nat \ {0}
      /\ \A i \in DOMAIN op.calls :
           /\ i < op.cur => op.calls[i].status = "completed"
           /\ op.calls[i].status # "completed" => ~Has(Slot(op, i))
      /\ ~Has(NoteId(notes))
  BY Found
<1>2. /\ op.cur \in DOMAIN op.calls /\ op.cur \in Nat \ {0}
      /\ \A i \in 1 .. op.cur - 1 : i \in DOMAIN op.calls /\ i < op.cur
  BY <1>1, StateFields
<1>3. ResId(Call.id) = id /\ Result(Call.id, code) = m
  BY <1>1, <1>2 DEF Call, Current, Result
<1>4. ~Has(id)
  BY <1>1, <1>2
<1>5. Due(id, none)
  <2>1. Answering /\ OnPath(Answer)
    BY <1>1 DEF TranscriptInv, Answering
  <2>2. \A i \in 1 .. op.cur - 1 : OnPath(Slot(op, i))
    BY <1>1, <1>2 DEF TranscriptInv
  <2> QED BY <1>2, <2>1, <2>2 DEF Due
<1>6. id # NoteId(notes)
  BY Names
<1>7. /\ DOMAIN m = 1 .. 2 /\ m[1].w = "append" /\ m[1].id = id /\ m[2].w = "leaf"
  BY DEF Message, Entry, Leaf
<1>8. /\ DOMAIN Note = 1 .. 2 /\ Note[1].w = "append" /\ Note[1].id[1] = "note"
      /\ Note[2].w = "leaf"
  BY Names DEF Note, Message, Entry, Leaf
<1>9. Plain(m) /\ Plain(Note)
  <2>1. state.phase = "tools"
    BY <1>1
  <2> QED BY <1>3, <2>1, AtCall, Deciding
<1>10. Orderly(m) /\ Orderly(m \o Note)
  <2> HIDE DEF id, none
  <2> QED BY <1>1, <1>4, <1>5, <1>6, OrderlyMessage, OrderlyTwo
<1> HIDE DEF m, id
<1>11. CASE a = m
  <2>1. 1 \in DOMAIN m /\ \A k \in DOMAIN m : k = 1 \/ k = 2
    BY <1>7
  <2>2. Comes(m, id) /\ \A x : Comes(m, x) => x = id
    BY <1>7, <2>1 DEF Comes
  <2> QED BY <1>9, <1>10, <1>11, <2>2 DEF id
<1>12. CASE a = m \o Note
  <2>1. Plain(a) /\ Orderly(a)
    BY <1>9, <1>10, <1>12, PlainConcat
  <2>2. /\ DOMAIN a = 1 .. 4 /\ a[1] = m[1] /\ a[2] = m[2] /\ a[3] = Note[1] /\ a[4] = Note[2]
    <3> DEFINE S == Appends \cup Moves
    <3>1. m \in Seq(S) /\ Note \in Seq(S)
      BY <1>9 DEF Plain
    <3> HIDE DEF S
    <3>2. Len(m) = 2 /\ Len(Note) = 2
      BY <1>7, <1>8, <3>1
    <3> QED BY <1>12, <3>1, <3>2, TwoPairs
  <2>3. 1 \in DOMAIN a /\ \A k \in DOMAIN a : k = 1 \/ k = 2 \/ k = 3 \/ k = 4
    BY <2>2
  <2>4. Comes(a, id)
    BY <1>7, <2>2, <2>3 DEF Comes
  <2>5. \A x : Comes(a, x) => x = id \/ x[1] = "note"
    BY <1>7, <1>8, <2>2, <2>3 DEF Comes
  <2> QED BY <2>1, <2>4, <2>5 DEF id
<1> QED BY <1>3, <1>11, <1>12

LEMMA ToolTrace ==
    ASSUME OperationInv, TraceInv, ~resumed, ToolStep \/ Approval
    PROVE  TraceInv'
<1>1. /\ todo = <<>> /\ proc \in Living
      /\ proc \in {"approval", "executed"} \/ state.phase = "tools"
  BY DEF ToolStep, Approval, GateRefuses, GateAllows, GateAsks, GateFails, PrepareTool,
         SynthesizeInterrupted, ReuseResult, ReplayRefused, ReplayAllowed, ExecuteTool,
         RecordResult, AdvanceToolStep, UserApproves, UserDenies, ApprovalFails,
         ToolTop, Executes, At, Living
<1>2. /\ state = op /\ op \in States /\ uncertain = {} /\ TranscriptInv /\ op.phase = "tools"
      /\ op.cur \in DOMAIN op.calls /\ Placed(op, proc)
      /\ \A i \in DOMAIN op.calls : ResId(op.calls[i].id) = Slot(op, i) /\ i \in Nat \ {0}
      /\ \A i \in DOMAIN op.calls :
           /\ i < op.cur => op.calls[i].status = "completed"
           /\ i > op.cur => op.calls[i].status # "completed"
           /\ op.calls[i].status # "completed" => ~Has(Slot(op, i))
  <2>1. /\ state = op /\ op \in States /\ uncertain = {} /\ TranscriptInv
        /\ \A i \in DOMAIN op.calls : ResId(op.calls[i].id) = Slot(op, i) /\ i \in Nat \ {0}
        /\ op.phase = "tools" =>
             \A i \in DOMAIN op.calls :
               /\ i < op.cur => op.calls[i].status = "completed"
               /\ i > op.cur => op.calls[i].status # "completed"
               /\ op.calls[i].status # "completed" => ~Has(Slot(op, i))
    BY <1>1, Found
  <2>2. Placed(op, proc)
    BY <1>1, <2>1, Deciding
  <2>3. op.phase = "tools"
    BY <1>1, <2>1, <2>2 DEF Placed
  <2> QED BY <2>1, <2>2, <2>3, StateFields
<1>3. Current(state) = op.calls[op.cur] /\ Current(state) \in ToolCallStates /\ Call = Current(state)
  BY <1>2, StateFields DEF Current, Call
<1>4. /\ Settled => uncertain' = uncertain
      /\ Grant => uncertain' = uncertain
      /\ Same => uncertain' = uncertain
  BY <1>2 DEF Settled, Grant, Same
<1>5. CASE GateRefuses \/ UserDenies
  <2> DEFINE pc     == "top"
             perm   == "denied"
             status == "completed"
             code   == "denied"
             a      == Result(Call.id, code)
  <2>1. /\ Begins(a \o <<Save(SetCurrent(state, perm, status))>>, pc) /\ Same
        /\ proc = "approval" \/ Call.status = "planned"
    BY <1>5 DEF GateRefuses, UserDenies, Refused, Do, Go, Begins, SettleToolWithoutEffect,
                At, ToolTop, Call
  <2>2. code \in EntryCodes /\ code # "before_execution" /\ status = "completed"
        /\ perm \in {"pending", "allowed", "denied"}
        /\ status \in {"planned", "effect_pending", "completed"} /\ pc \in {"top", "approval"}
    BY DEF EntryCodes
  <2>3. op.calls[op.cur].status # "completed"
    BY <1>2, <1>3, <2>1 DEF Placed
  <2> HIDE DEF code
  <2>4. /\ Plain(a) /\ Orderly(a) /\ Comes(a, Slot(op, op.cur))
        /\ \A x : Comes(a, x) => x = Slot(op, op.cur) \/ x[1] = "note"
    BY <1>1, <1>2, <2>2, <2>3, ResultOrderly
  <2> HIDE DEF pc, perm, status, a
  <2> QED BY <1>1, <1>2, <1>4, <2>1, <2>2, <2>3, <2>4, CallTrace
<1>6. CASE GateAllows \/ UserApproves
  <2> DEFINE pc     == "top"
             perm   == "allowed"
             status == "planned"
  <2>1. /\ Begins(<<Save(SetCurrent(state, perm, status))>>, pc) /\ Grant
        /\ proc = "approval" \/ Call.status = "planned"
    BY <1>6 DEF GateAllows, UserApproves, Do, Go, Begins, ResolveToolPermission, At, ToolTop, Call
  <2>2. /\ perm \in {"pending", "allowed", "denied"} /\ status \in {"planned", "effect_pending"}
        /\ pc \in {"top", "approval"}
    OBVIOUS
  <2>3. op.calls[op.cur].status # "completed"
    BY <1>2, <1>3, <2>1 DEF Placed
  <2> HIDE DEF pc, perm, status
  <2> QED BY <1>1, <1>2, <1>4, <2>1, <2>2, <2>3, CallOnlyTrace
<1>7. CASE GateAsks
  <2> DEFINE pc     == "approval"
             perm   == "pending"
             status == "planned"
  <2>1. Begins(<<Save(SetCurrent(state, perm, status))>>, pc) /\ Same /\ Call.status = "planned"
    BY <1>7 DEF GateAsks, Do, Go, Begins, ResolveToolPermission, ToolTop, Call
  <2>2. /\ perm \in {"pending", "allowed", "denied"} /\ status \in {"planned", "effect_pending"}
        /\ pc \in {"top", "approval"}
    OBVIOUS
  <2>3. op.calls[op.cur].status # "completed"
    BY <1>3, <2>1
  <2> HIDE DEF pc, perm, status
  <2> QED BY <1>1, <1>2, <1>4, <2>1, <2>2, <2>3, CallOnlyTrace
<1>8. CASE GateFails \/ ApprovalFails
  <2>1. PICK code : Fail(code)
    BY <1>8 DEF GateFails, ApprovalFails
  <2> QED BY <1>1, <2>1, FailTrace
<1>9. CASE PrepareTool
  <2> DEFINE pc     == "top"
             perm   == Current(state).perm
             status == "effect_pending"
  <2>1. Begins(<<Save(SetCurrent(state, perm, status))>>, pc) /\ Same /\ Call.status = "planned"
    BY <1>9 DEF PrepareTool, Do, Go, Begins, PrepareToolEffect, ToolTop, Call
  <2>2. /\ perm \in {"pending", "allowed", "denied"} /\ status \in {"planned", "effect_pending"}
        /\ pc \in {"top", "approval"}
    BY <1>3 DEF ToolCallStates
  <2>3. op.calls[op.cur].status # "completed"
    BY <1>3, <2>1
  <2> HIDE DEF pc, perm, status
  <2> QED BY <1>1, <1>2, <1>4, <2>1, <2>2, <2>3, CallOnlyTrace
(* No effect is in doubt and no result is found before it was recorded: that  *)
(* is for an operation that was resumed.                                      *)
<1>10. CASE SynthesizeInterrupted \/ ReplayRefused \/ ReplayAllowed
  BY <1>2, <1>10 DEF SynthesizeInterrupted, ReplayRefused, ReplayAllowed, Recovering
<1>11. CASE ReuseResult
  <2>1. Call.status = "effect_pending" /\ Has(ResId(Call.id))
    BY <1>11 DEF ReuseResult, Executes, ToolTop, Call
  <2> QED BY <1>2, <1>3, <2>1
<1>12. CASE ExecuteTool
  <2> DEFINE ws == <<>>
             pc == "executed"
  <2>1. /\ todo' = ws /\ proc' = pc /\ pc \notin {"resumed", "blocked"}
        /\ UNCHANGED <<op, leaf, entries, state, notes, uncertain>>
    BY <1>1, <1>12 DEF ExecuteTool
  <2>2. Ordered(ws, pc) /\ Tidy(ws, pc) /\ Aim(ws) = op
    BY <1>1, Found DEF Ordered, Tidy, Aim
  <2>3. Round(ws, op, pc)
    BY <1>2 DEF Round, Comes, Slot
  <2> HIDE DEF ws, pc
  <2> QED BY <2>1, <2>2, <2>3, Decided
<1>13. CASE RecordResult
  <2> DEFINE pc     == "top"
             perm   == Current(state).perm
             status == "completed"
             code   == "done"
  <2>1. PICK a : /\ a = Result(Call.id, code) \/ a = Result(Call.id, code) \o Note
                 /\ Begins(a \o <<Save(SetCurrent(state, perm, status))>>, pc)
    <3>1. CASE Do(Result(Call.id, "done") \o <<Save(SettleToolEffect(state))>>, "top")
      <4> WITNESS Result(Call.id, code)
      <4> QED BY <3>1 DEF Do, Go, Begins, SettleToolEffect
    <3>2. CASE Go(Result(Call.id, "done") \o Note \o <<Save(SettleToolEffect(state))>>, "top", 1)
      <4> WITNESS Result(Call.id, code) \o Note
      <4> QED BY <3>2 DEF Go, Begins, SettleToolEffect
    <3> QED BY <1>13, <3>1, <3>2 DEF RecordResult
  <2>2. code \in EntryCodes /\ code # "before_execution" /\ status = "completed"
        /\ perm \in {"pending", "allowed", "denied"}
        /\ status \in {"planned", "effect_pending", "completed"} /\ pc \in {"top", "approval"}
    BY <1>3 DEF EntryCodes, ToolCallStates
  <2>3. op.calls[op.cur].status # "completed" /\ Settled
    BY <1>2, <1>3, <1>13 DEF RecordResult, At, Placed
  <2> HIDE DEF code
  <2>4. /\ Plain(a) /\ Orderly(a) /\ Comes(a, Slot(op, op.cur))
        /\ \A x : Comes(a, x) => x = Slot(op, op.cur) \/ x[1] = "note"
    BY <1>1, <1>2, <2>1, <2>2, <2>3, ResultOrderly
  <2> HIDE DEF pc, perm, status
  <2> QED BY <1>1, <1>2, <1>4, <2>1, <2>2, <2>3, <2>4, CallTrace
<1>14. CASE AdvanceToolStep
  <2> DEFINE r  == AdvanceTool(state)
             pc == "top"
  <2>1. /\ Begins(<<Save(r)>>, pc) /\ Same /\ Call.status = "completed"
        /\ pc = "top" /\ pc \in {"top", "request", "done"}
        /\ pc \in {"top", "request", "model", "approval", "done"}
    BY <1>14 DEF AdvanceToolStep, Do, Go, Begins, ToolTop, Call
  <2>2. \/ r = [op EXCEPT !.cur = op.cur + 1]
        \/ r.phase = "checkpoint" /\ r.rsp = op.rsp
    BY <1>2 DEF AdvanceTool, States
  <2>3. CASE r = [op EXCEPT !.cur = op.cur + 1]
    <3>1. /\ r.rsp = op.rsp /\ r.attempt = op.attempt /\ r.phase = "tools"
          /\ r.calls = op.calls /\ r.cur = op.cur + 1
      BY <1>2, <2>3 DEF States
    <3> HIDE DEF r
    <3>2. /\ Has(Answer) /\ Len(entries[Answer].calls) = Len(op.calls)
          /\ \A i \in DOMAIN op.calls : op.calls[i].status = "completed" => Has(Slot(op, i))
      BY <1>2 DEF TranscriptInv, OnPath, Elements
    <3>3. op.rsp >= op.rsp
      BY <1>2, StateFields
    <3>4. Follows(<<>>, r, pc)
      BY <1>2, <2>1, <3>1, <3>2, <3>3 DEF Follows, Living, Answering
    <3>5. ASSUME NEW i \in DOMAIN op.calls
          PROVE  /\ i < op.cur + 1 => op.calls[i].status = "completed"
                 /\ i > op.cur + 1 => op.calls[i].status # "completed"
      <4>1. i < op.cur + 1 => i < op.cur \/ i = op.cur
        BY <1>2
      <4>2. i > op.cur + 1 => i > op.cur
        BY <1>2
      <4> QED BY <1>2, <1>3, <2>1, <4>1, <4>2
    <3>6. Round(<<>>, r, pc)
      <4>1. \A x : ~Comes(<<>>, x)
        BY DEF Comes
      <4>2. \A i : Slot(r, i) = Slot(op, i)
        BY <3>1 DEF Slot
      <4>3. pc # "model"
        BY <2>1
      <4> QED BY <1>2, <3>1, <3>5, <4>1, <4>2, <4>3 DEF Round
    <3> HIDE DEF pc
    <3> QED BY <1>1, <1>4, <2>1, <3>4, <3>6, SavesOnlyTrace
  <2>4. CASE r.phase = "checkpoint" /\ r.rsp = op.rsp
    <3> HIDE DEF r, pc
    <3> QED BY <1>1, <1>4, <2>1, <2>4, EndsOnlyTrace
  <2> QED BY <2>2, <2>3, <2>4
<1> QED BY <1>5, <1>6, <1>7, <1>8, <1>9, <1>10, <1>11, <1>12, <1>13, <1>14
        DEF ToolStep, Approval

LEMMA RestartTrace ==
    ASSUME OperationInv, TraceInv, ~resumed, ~resumed', Crash \/ StartRecovery \/ Resume
    PROVE  TraceInv'
<1> DEFINE ws == <<>>
<1>1. /\ state = op /\ uncertain = {}
  BY DEF TraceInv
<1>2. PICK pc : pc \in {"down", "recover"} /\ todo' = ws /\ proc' = pc
                /\ UNCHANGED <<op, leaf, entries, state, notes, uncertain>>
  BY <1>1 DEF Crash, StartRecovery, Resume, OperationInv
<1>3. Ordered(ws, pc) /\ Tidy(ws, pc) /\ pc \notin Living /\ pc \notin {"resumed", "blocked"}
  BY <1>2 DEF Ordered, Tidy, Living
<1> HIDE DEF ws
<1> QED BY <1>2, <1>3, Decided

(* What a recovery looks at: the answer, then the results of its calls.       *)
LEMMA Looks ==
    ASSUME OperationInv, TraceInv, ~resumed
    PROVE  /\ Assistants = {} => DOMAIN Expected = {} /\ op.phase # "tools"
           /\ Assistants # {} =>
                /\ Answering /\ Has(Answer) /\ RecoveredCalls = entries[Answer].calls
                /\ Len(RecoveredCalls) \in Nat
                /\ DOMAIN RecoveredCalls = 1 .. Len(RecoveredCalls)
                /\ Numbered(RecoveredCalls)
                /\ DOMAIN Expected = 1 .. Len(RecoveredCalls) + 1
                /\ Expected[1] = Answer
                /\ \A m \in 2 .. Len(RecoveredCalls) + 1 :
                     Expected[m] = Slot(op, m - 1) /\ m - 1 \in Nat \ {0}
                                   /\ m - 1 \in DOMAIN RecoveredCalls
           /\ Missing # {} => Next1 \in Missing /\ \A m \in Missing : Next1 <= m
           /\ ~Mismatch
<1>1. TranscriptInv /\ Recorded(op) /\ op \in States /\ EntriesInv
  BY DEF TraceInv, OperationInv, Recorded
<1>2. op.phase = "tools" => Has(Answer) /\ Len(entries[Answer].calls) = Len(op.calls)
  BY <1>1 DEF TranscriptInv, OnPath, Elements
<1>3. ASSUME Assistants = {} PROVE DOMAIN Expected = {} /\ op.phase # "tools"
  <2>1. RecoveredCalls = <<>>
    BY <1>3 DEF RecoveredCalls
  <2>2. Expected = <<>> \o [i \in DOMAIN RecoveredCalls |-> ResId(RecoveredCalls[i])]
    BY <1>3 DEF Expected
  <2>3. [i \in DOMAIN RecoveredCalls |-> ResId(RecoveredCalls[i])] = <<>>
    BY <2>1
  <2>4. DOMAIN Expected = {}
    BY <2>2, <2>3
  <2>5. op.phase # "tools"
    BY <1>2, <1>3 DEF Assistants, Answer
  <2> QED BY <2>4, <2>5
<1>4. ASSUME Assistants # {}
      PROVE  /\ Answering /\ Has(Answer) /\ RecoveredCalls = entries[Answer].calls
             /\ Len(RecoveredCalls) \in Nat /\ RecoveredCalls \in Seq(CallIds)
             /\ DOMAIN RecoveredCalls = 1 .. Len(RecoveredCalls)
             /\ Numbered(RecoveredCalls)
  <2>1. Answering /\ Has(Answer) /\ RecoveredCalls = entries[Answer].calls
    BY <1>4 DEF Assistants, RecoveredCalls, Answering, Answer
  <2>2. entries[Answer].calls \in Seq(CallIds)
    BY <1>1, <2>1 DEF EntriesInv, EntryRecords, Has
  <2>3. Numbered(RecoveredCalls)
    BY <1>1, <2>1 DEF TranscriptInv
  <2> QED BY <2>1, <2>2, <2>3
<1>5. ASSUME Assistants # {}
      PROVE  /\ DOMAIN Expected = 1 .. Len(RecoveredCalls) + 1
             /\ Expected[1] = Answer
             /\ \A m \in 2 .. Len(RecoveredCalls) + 1 :
                  Expected[m] = Slot(op, m - 1) /\ m - 1 \in Nat \ {0}
                                /\ m - 1 \in DOMAIN RecoveredCalls
  <2> DEFINE calls == RecoveredCalls
             rs == [i \in DOMAIN calls |-> ResId(calls[i])]
  <2>1. Expected = <<Answer>> \o rs
    BY <1>5 DEF Expected, Answer
  <2>2. Len(calls) \in Nat /\ DOMAIN calls = 1 .. Len(calls)
        /\ \A i \in DOMAIN calls : ResId(calls[i]) = Slot(op, i)
    BY <1>4, <1>5 DEF Numbered, Slot
  <2> HIDE DEF calls
  <2>3. \A i \in DOMAIN calls : rs[i] = Slot(op, i)
    BY <2>2
  <2> DEFINE S == {Answer} \cup {Slot(op, i) : i \in DOMAIN calls}
  <2>4. rs \in Seq(S) /\ <<Answer>> \in Seq(S) /\ Len(rs) = Len(calls)
        /\ Len(<<Answer>>) = 1 /\ <<Answer>>[1] = Answer
    <3>1. \A i \in DOMAIN calls : rs[i] \in S
      BY <2>3
    <3>2. Answer \in S
      OBVIOUS
    <3> HIDE DEF S
    <3> QED BY <2>2, <3>1, <3>2
  <2> HIDE DEF S, rs
  <2>5. /\ Expected \in Seq(S) /\ Len(Expected) = Len(calls) + 1
        /\ \A m \in 1 .. Len(calls) + 1 :
             Expected[m] = IF m <= 1 THEN <<Answer>>[m] ELSE rs[m - 1]
    BY <2>1, <2>2, <2>4, ConcatProperties
  <2>6. DOMAIN Expected = 1 .. Len(calls) + 1 /\ 1 \in 1 .. Len(calls) + 1
    BY <2>2, <2>5
  <2>7. \A m \in 2 .. Len(calls) + 1 :
          m \in 1 .. Len(calls) + 1 /\ ~(m <= 1) /\ m - 1 \in DOMAIN calls /\ m - 1 \in Nat \ {0}
    BY <2>2
  <2>8. Expected[1] = Answer
    <3>1. Expected[1] = IF 1 <= 1 THEN <<Answer>>[1] ELSE rs[1 - 1]
      BY <2>5, <2>6
    <3> QED BY <2>4, <3>1
  <2>9. ASSUME NEW m \in 2 .. Len(calls) + 1
        PROVE  Expected[m] = Slot(op, m - 1)
    <3>1. m \in 1 .. Len(calls) + 1 /\ ~(m <= 1) /\ m - 1 \in DOMAIN calls
      BY <2>7, <2>9
    <3>2. Expected[m] = rs[m - 1]
      <4>1. Expected[m] = IF m <= 1 THEN <<Answer>>[m] ELSE rs[m - 1]
        BY <2>5, <3>1
      <4> QED BY <3>1, <4>1
    <3> QED BY <2>3, <3>1, <3>2
  <2>10. /\ DOMAIN Expected = 1 .. Len(calls) + 1
         /\ Expected[1] = Answer
         /\ \A m \in 2 .. Len(calls) + 1 :
              Expected[m] = Slot(op, m - 1) /\ m - 1 \in Nat \ {0}
                            /\ m - 1 \in DOMAIN calls
    <3>1. \A m \in 2 .. Len(calls) + 1 : Expected[m] = Slot(op, m - 1)
      BY <2>9
    <3> QED BY <2>6, <2>7, <2>8, <3>1
  <2> QED BY <2>10 DEF calls
<1>6. Missing # {} => Next1 \in Missing /\ \A m \in Missing : Next1 <= m
  <2>1. Missing \subseteq Nat
    BY <1>3, <1>4, <1>5 DEF Missing
  <2>2. Missing # {} => \E m \in Missing : \A n \in Missing : m <= n
    BY <2>1, LeastExists
  <2> QED BY <2>2 DEF Next1
<1>7. ~Mismatch
  <2>1. SUFFICES ASSUME op.phase = "tools"
                 PROVE  /\ Assistants # {}
                        /\ { op.calls[i].id : i \in DOMAIN op.calls } = Elements(RecoveredCalls)
    BY DEF Mismatch
  <2>2. Assistants # {}
    BY <1>3, <2>1
  <2>3. DOMAIN op.calls = DOMAIN RecoveredCalls
    BY <1>1, <1>2, <1>4, <2>1, <2>2, StateFields
  <2>4. \A i \in DOMAIN op.calls : op.calls[i].id = RecoveredCalls[i]
    BY <1>1, <1>4, <2>2, <2>3 DEF Recorded, Numbered
  <2> QED BY <2>2, <2>3, <2>4 DEF Elements
<1> QED BY <1>3, <1>4, <1>5, <1>6, <1>7

LEMMA RecoveryTrace ==
    ASSUME OperationInv, TraceInv, ~resumed, Recovery
    PROVE  TraceInv'
<1> DEFINE n == Next1
<1>1. /\ proc = "recover" /\ todo = <<>>
  BY DEF Recovery, RecoverConnect, RecoverAppend, RecoverFinish, RecoverConflict, At
<1>2. /\ state = op /\ uncertain = {} /\ TranscriptInv /\ op \in States /\ Recorded(op)
  BY DEF TraceInv, OperationInv, Recorded
<1>3. CASE RecoverFinish
  <2> DEFINE s  == Failed(op, "runtime_interrupted")
             ws == <<Save(s)>>
             pc == "done"
  <2>1. /\ todo' = ws /\ proc' = pc /\ pc \notin {"resumed", "blocked"} /\ pc \notin Living
        /\ UNCHANGED <<op, leaf, entries, state, notes, uncertain>>
    BY <1>3 DEF RecoverFinish, Do, Go, Same, Living
  <2>2. s.rsp = op.rsp /\ s.phase = "failed" /\ op.rsp \in Nat
    BY <1>2, Reduced, StateFields
  <2>3. Follows(ws, s, pc)
    BY <2>2 DEF Follows
  <2> HIDE DEF s
  <2>4. DOMAIN ws = {1} /\ ws[1].w = "save" /\ ws[1].st = s
    BY DEF Save
  <2> HIDE DEF ws
  <2>5. Ordered(ws, pc) /\ Tidy(ws, pc)
    BY <2>1, <2>3, <2>4 DEF Ordered, Tidy
  <2> HIDE DEF pc
  <2> QED BY <2>1, <2>5, Decided
<1>4. CASE ~RecoverFinish
  <2>1. Missing # {} /\ Assistants # {}
    <3>1. Missing # {}
      BY <1>4, Looks DEF Recovery, RecoverConnect, RecoverAppend, RecoverConflict
    <3> QED BY <3>1, Looks DEF Missing
  <2>2. /\ n \in Missing /\ \A m \in Missing : n <= m
        /\ Answering /\ Has(Answer) /\ RecoveredCalls = entries[Answer].calls
        /\ Len(RecoveredCalls) \in Nat /\ Numbered(RecoveredCalls)
        /\ DOMAIN Expected = 1 .. Len(RecoveredCalls) + 1
        /\ Expected[1] = Answer
        /\ \A m \in 2 .. Len(RecoveredCalls) + 1 :
             Expected[m] = Slot(op, m - 1) /\ m - 1 \in Nat \ {0} /\ m - 1 \in DOMAIN RecoveredCalls
    BY <2>1, Looks
  <2> HIDE DEF n
  <2>3. /\ n \in 1 .. Len(RecoveredCalls) + 1 /\ n \in Nat \ {0} /\ ~OnPath(Expected[n])
        /\ n = 1 \/ n \in 2 .. Len(RecoveredCalls) + 1
        /\ \A m \in 1 .. n - 1 : OnPath(Expected[m])
    <3>1. /\ n \in DOMAIN Expected /\ ~OnPath(Expected[n])
          /\ \A m \in DOMAIN Expected : ~OnPath(Expected[m]) => n <= m
      BY <2>2 DEF Missing
    <3>2. n \in 1 .. Len(RecoveredCalls) + 1
      BY <2>2, <3>1
    <3>3. \A m \in 1 .. n - 1 : m \in DOMAIN Expected /\ ~(n <= m)
      BY <2>2, <3>2
    <3>4. n \in Nat \ {0} /\ (n = 1 \/ n \in 2 .. Len(RecoveredCalls) + 1)
      BY <2>2, <3>2
    <3> QED BY <3>1, <3>2, <3>3, <3>4
  <2>4. Expected[n] \in Mine
    BY <2>2, <2>3 DEF Mine
  <2>5. n # 1 => OnPath(Answer) /\ \A i \in 1 .. n - 2 : OnPath(Slot(op, i))
    <3>1. SUFFICES ASSUME n # 1 PROVE OnPath(Answer) /\ \A i \in 1 .. n - 2 : OnPath(Slot(op, i))
      OBVIOUS
    <3>2. 1 \in 1 .. n - 1
      BY <2>3, <3>1
    <3>3. \A i \in 1 .. n - 2 : /\ i + 1 \in 1 .. n - 1 /\ i + 1 \in 2 .. Len(RecoveredCalls) + 1
                                /\ (i + 1) - 1 = i
      BY <2>2, <2>3
    <3>4. \A i \in 1 .. n - 2 : Expected[i + 1] = Slot(op, i)
      BY <2>2, <3>3
    <3>5. OnPath(Answer)
      BY <2>2, <2>3, <3>2
    <3>6. \A i \in 1 .. n - 2 : OnPath(Slot(op, i))
      <4>1. SUFFICES ASSUME NEW i \in 1 .. n - 2 PROVE OnPath(Slot(op, i))
        OBVIOUS
      <4>2. OnPath(Expected[i + 1])
        BY <2>3, <3>3
      <4> QED BY <3>4, <4>2
    <3> QED BY <3>5, <3>6
(* What dangles is the entry looked at next.                                  *)
  <2>6. ASSUME NEW id \in Mine, Has(id), ~OnPath(id)
        PROVE  id = Expected[n]
    <3>1. CASE id = Answer
      <4>1. n = 1
        BY <2>5, <2>6, <3>1
      <4> QED BY <2>2, <3>1, <4>1
    <3>2. CASE \E k \in Nat \ {0} : id = Slot(op, k)
      <4>1. PICK k \in Nat \ {0} : id = Slot(op, k)
        BY <3>2
      <4>2. OnPath(Answer) /\ \A i \in 1 .. k - 1 : OnPath(Slot(op, i))
        BY <1>2, <2>2, <2>6, <4>1 DEF TranscriptInv
      <4>3. n # 1
        BY <2>2, <2>3, <4>2
      <4>4. Expected[n] = Slot(op, n - 1) /\ n - 1 \in Nat \ {0}
        BY <2>2, <2>3, <4>3
      <4>5. ~(k < n - 1)
        <5>1. k < n - 1 => k \in 1 .. n - 2
          BY <2>3
        <5> QED BY <2>5, <2>6, <4>1, <4>3, <5>1
      <4>6. ~(n - 1 < k)
        <5>1. n - 1 < k => n - 1 \in 1 .. k - 1
          <6>1. k \in Nat /\ n - 1 \in Nat \ {0} /\ n \in Nat
            BY <2>3, <4>4
          <6> HIDE DEF n
          <6> QED BY <6>1
        <5>2. ~OnPath(Slot(op, n - 1))
          BY <2>3, <4>4
        <5> QED BY <4>2, <5>1, <5>2
      <4>7. k = n - 1
        BY <4>4, <4>5, <4>6
      <4> QED BY <4>1, <4>4, <4>7
    <3> QED BY <2>6, <3>1, <3>2 DEF Mine
  <2>7. Has(Expected[n]) => Connectable(Expected[n])
    BY <1>2, <2>2, <2>3, <2>4 DEF TranscriptInv
  <2>8. ~Lost(n)
    <3>1. SUFFICES ASSUME Lost(n) PROVE FALSE
      OBVIOUS
    <3> DEFINE c == RecoveredCalls[n - 1]
    <3>2. ~Has(Expected[n]) /\ StatusOf(c) = "completed"
      BY <3>1 DEF Lost
    <3>3. n # 1
      BY <2>2, <3>2
    <3>4. Expected[n] = Slot(op, n - 1) /\ n - 1 \in DOMAIN RecoveredCalls
      BY <2>2, <2>3, <3>3
    <3>5. c = <<op.rsp, op.attempt, n - 1>>
      BY <2>2, <3>4 DEF Numbered
    <3>6. Execution(c) # {} /\ op.phase = "tools"
      BY <3>2 DEF StatusOf, Execution
    <3>7. PICK i : i = CHOOSE j \in Execution(c) : TRUE
      OBVIOUS
    <3>8. i \in DOMAIN op.calls /\ op.calls[i].id = c /\ op.calls[i].status = "completed"
      BY <3>2, <3>6, <3>7 DEF Execution, StatusOf
    <3>9. i = n - 1
      BY <1>2, <3>5, <3>8 DEF Recorded
    <3>10. OnPath(Slot(op, i))
      BY <1>2, <3>6, <3>8 DEF TranscriptInv
    <3> QED BY <2>3, <3>4, <3>9, <3>10
  <2>9. CASE RecoverConflict
    BY <2>7, <2>8, <2>9, Looks DEF RecoverConflict, n
  <2>10. CASE RecoverConnect
    <3> DEFINE id == Expected[n]
               ws == <<Leaf(id)>>
               pc == "recover"
    <3>1. /\ todo' = ws /\ proc' = pc /\ pc \notin {"resumed", "blocked"} /\ pc \notin Living
          /\ UNCHANGED <<op, leaf, entries, state, notes, uncertain>>
          /\ Has(id) /\ Connectable(id)
      BY <2>10 DEF RecoverConnect, Do, Go, Same, Living, n
    <3> HIDE DEF id
    <3>2. DOMAIN ws = {1} /\ ws[1] = Leaf(id) /\ ws[1].w = "leaf" /\ ws[1].id = id /\ ws # <<>>
      BY DEF Leaf
    <3> HIDE DEF ws, pc
    <3>3. Ordered(ws, pc)
      BY <3>1, <3>2 DEF Ordered
    <3>4. Tidy(ws, pc)
      BY <2>6, <3>2 DEF Tidy, id
    <3> QED BY <3>1, <3>3, <3>4, Decided
  <2>11. CASE RecoverAppend
    <3> DEFINE c  == RecoveredCalls[n - 1]
               id == ResId(c)
               code == InterruptionCode(c)
               ws == <<Entry(id, <<>>, code)>>
               pc == "recover"
    <3>1. /\ todo' = ws /\ proc' = pc /\ pc \notin {"resumed", "blocked"} /\ pc \notin Living
          /\ UNCHANGED <<op, leaf, entries, state, notes, uncertain>>
          /\ ~Has(Expected[n]) /\ pc = "recover"
      BY <2>11 DEF RecoverAppend, Do, Go, Same, Living, n
    <3>2. n # 1
      BY <2>2, <3>1
    <3>3. Expected[n] = Slot(op, n - 1) /\ n - 1 \in DOMAIN RecoveredCalls /\ n - 1 \in Nat \ {0}
      BY <2>2, <2>3, <3>2
    <3>4. id = Slot(op, n - 1)
      BY <2>2, <3>3 DEF Numbered, Slot
    <3> HIDE DEF id, c, code
    <3>5. DOMAIN ws = {1} /\ Len(ws) = 1 /\ ws[1].w = "append" /\ ws[1].id = id /\ ws # <<>>
      BY DEF Entry
    <3> HIDE DEF ws, pc
    <3>6. InTurn(ws, 1)
      <4>1. \A i \in 1 .. (n - 1) - 1 : i \in 1 .. n - 2
        BY <2>3
      <4> QED BY <2>2, <2>5, <3>2, <3>3, <3>4, <3>5, <4>1 DEF InTurn
    <3>7. New(ws, 1)
      <4>1. \A k \in 1 .. 1 - 1 : FALSE
        OBVIOUS
      <4> QED BY <3>1, <3>3, <3>4, <3>5, <3>6, <4>1 DEF New
    <3>8. Ordered(ws, pc)
      BY <3>1, <3>5, <3>7 DEF Ordered
    <3>9. Tidy(ws, pc)
      BY <2>6, <3>1 DEF Tidy
    <3> QED BY <3>1, <3>8, <3>9, Decided
  <2> QED BY <1>4, <2>9, <2>10, <2>11 DEF Recovery
<1> QED BY <1>3, <1>4

LEMMA InitTrace == Init => TraceInv
<1> SUFFICES ASSUME Init PROVE TraceInv
  OBVIOUS
<1> DEFINE id   == NoteId(0)
           none == <<>>
           code == "none"
           a    == Message(id, none, code)
<1>1. /\ op = ReadyState /\ state = ReadyState /\ leaf = <<>> /\ entries = <<>>
      /\ proc = "top" /\ notes = 0 /\ todo = a /\ uncertain = {}
  BY DEF Init
<1>2. op.phase = "ready" /\ op.rsp = 0 /\ ~Answering
  BY <1>1 DEF ReadyState, Answering
<1>3. DOMAIN entries = {} /\ DOMAIN leaf = {}
  BY <1>1
<1>4. ~Has(id) /\ Due(id, none)
  BY <1>1, <1>3 DEF Has, Due
<1>5. Orderly(a)
  <2> HIDE DEF id, none, code
  <2> QED BY <1>4, OrderlyMessage
<1>6. /\ DOMAIN a = 1 .. 2 /\ Len(a) = 2 /\ a[1].w = "append" /\ a[2].w = "leaf"
  BY DEF Message, Entry, Leaf
<1> HIDE DEF a
<1>7. \A j \in DOMAIN a : j = 1 \/ j = 2
  BY <1>6
<1>8. Ordered(todo, proc)
  BY <1>1, <1>5, <1>6, <1>7 DEF Orderly, Ordered
<1>9. Target = op
  BY <1>1, <1>6 DEF Target
<1>10. Round(todo, Target, proc)
  BY <1>1, <1>2, <1>9 DEF Round
<1>11. TranscriptInv /\ Tidy(todo, proc)
  BY <1>2, <1>3 DEF TranscriptInv, Tidy
<1> QED BY <1>1, <1>8, <1>10, <1>11 DEF TraceInv

LEMMA StutterTrace ==
    ASSUME TraceInv, UNCHANGED vars
    PROVE  TraceInv'
<1>1. ASSUME ~resumed' PROVE TraceInv'
  <2> DEFINE ws == todo
             pc == proc
  <2>1. /\ ~resumed /\ todo' = ws /\ proc' = pc
        /\ UNCHANGED <<op, leaf, entries, state, notes, uncertain>>
    BY <1>1 DEF vars
  <2>2. /\ pc \notin {"resumed", "blocked"} /\ Ordered(ws, pc) /\ Tidy(ws, pc)
        /\ pc \in Living => Round(ws, Aim(ws), pc)
    BY SMTT(30), <2>1 DEF TraceInv, Aim, Target
  <2> HIDE DEF ws, pc
  <2> QED BY <2>1, <2>2, Decided
<1> QED BY <1>1 DEF TraceInv

LEMMA ResumedStays ==
    ASSUME [Next]_vars, ~resumed'
    PROVE  ~resumed
BY DEF Next, Machine, vars, Write, Loop, GuardContinue, GuardExtend, GuardFinalize, GuardStop,
       AskAgain, LimitExceeded, RequestModel, ModelStep, ModelText, ModelCutOff,
       ModelToolOutputLimit, ModelError, ModelCallsDropped, ModelCallsRefused, ModelCalls,
       ToolStep, GateRefuses, GateAllows, GateAsks, GateFails, PrepareTool,
       SynthesizeInterrupted, ReuseResult, ReplayRefused, ReplayAllowed, ExecuteTool,
       RecordResult, AdvanceToolStep, Approval, UserApproves, UserDenies, ApprovalFails,
       Recovery, RecoverConnect, RecoverAppend, RecoverFinish, RecoverConflict, Restart,
       Resume, StartRecovery, ResumeContinue, ResumeFinalize, Cancel, Crash, AbortNow, Fail,
       Do, Go

LEMMA NextTrace == OperationInv /\ TraceInv /\ [Next]_vars => TraceInv'
<1> SUFFICES ASSUME OperationInv, TraceInv, [Next]_vars, ~resumed' PROVE TraceInv'
  BY DEF TraceInv
<1>1. ~resumed /\ proc # "resumed"
  BY ResumedStays DEF TraceInv
<1>2. CASE Write
  BY <1>1, <1>2, WriteTrace
<1>3. CASE Loop \/ ModelStep
  BY <1>1, <1>3, LoopTrace, ModelTrace
<1>4. CASE ToolStep \/ Approval
  BY <1>1, <1>4, ToolTrace
<1>5. CASE ResumeContinue \/ ResumeFinalize
  BY <1>1, <1>5 DEF ResumeContinue, ResumeFinalize, At
<1>6. CASE Cancel
  <2>1. todo = <<>> /\ proc \in Living /\ AbortNow
    BY <1>6 DEF Cancel, Living
  <2> QED BY <1>1, <2>1, AbortTrace
<1>7. CASE Recovery
  BY <1>1, <1>7, RecoveryTrace
<1>8. CASE Restart \/ Crash
  BY <1>1, <1>8, RestartTrace DEF Restart
<1>9. CASE UNCHANGED vars
  BY <1>9, StutterTrace
<1> QED BY <1>2, <1>3, <1>4, <1>5, <1>6, <1>7, <1>8, <1>9 DEF Next, Machine

(* Whatever the moment of death, the recovery of an operation that was never  *)
(* resumed finds nothing that contradicts itself (the conflicts thrown in     *)
(* interrupted-operation.ts): it goes on until the operation is ended.        *)
THEOREM RecoveryConvergesCorrect == Spec => []RecoveryConverges
<1>1. Init => OperationInv /\ TraceInv
  BY InitOperation, InitTrace
<1>2. OperationInv /\ TraceInv /\ [Next]_vars => (OperationInv /\ TraceInv)'
  BY NextStep, NextTrace
<1>3. OperationInv /\ TraceInv => RecoveryConverges
  BY DEF TraceInv, RecoveryConverges
<1> QED BY <1>1, <1>2, <1>3, PTL DEF Spec

----------------------------------------------------------------------------
(* The sequence of all elements of a sequence of sequences, which grows at    *)
(* its end.                                                                   *)
Flattened(q, n, f) == f = [i \in 1 .. n |-> IF i = 1 THEN q[i] ELSE f[i - 1] \o q[i]]

LEMMA FlattenedOn ==
    ASSUME NEW q, NEW n \in Nat, NEW f, Flattened(q, n, f)
    PROVE  \E g : Flattened(q, n + 1, g)
<1> DEFINE g == [i \in 1 .. n + 1 |-> IF i <= n THEN f[i]
                                      ELSE IF i = 1 THEN q[i] ELSE f[n] \o q[i]]
<1>1. \A i \in 1 .. n : f[i] = IF i = 1 THEN q[i] ELSE f[i - 1] \o q[i]
  BY DEF Flattened
<1>2. \A i \in 1 .. n + 1 : g[i] = IF i = 1 THEN q[i] ELSE g[i - 1] \o q[i]
  <2>1. SUFFICES ASSUME NEW i \in 1 .. n + 1
                 PROVE  g[i] = IF i = 1 THEN q[i] ELSE g[i - 1] \o q[i]
    OBVIOUS
  <2>2. CASE i = 1
    <3>1. g[i] = q[i]
      <4>1. CASE i <= n
        BY <1>1, <2>2, <4>1
      <4>2. CASE ~(i <= n)
        BY <2>2, <4>2
      <4> QED BY <4>1, <4>2
    <3> QED BY <2>2, <3>1
  <2>3. CASE i # 1
    <3>1. i - 1 \in 1 .. n + 1 /\ i - 1 <= n /\ i - 1 \in 1 .. n
      BY <2>3
    <3>2. g[i - 1] = f[i - 1]
      BY <3>1
    <3>3. CASE i <= n
      <4>1. i \in 1 .. n /\ g[i] = f[i]
        BY <3>3
      <4> QED BY <1>1, <2>3, <3>2, <4>1
    <3>4. CASE ~(i <= n)
      <4>1. i = n + 1 /\ i - 1 = n
        BY <3>4
      <4>2. g[i] = f[n] \o q[i]
        BY <2>3, <3>4
      <4> QED BY <2>3, <3>2, <4>1, <4>2
    <3> QED BY <3>3, <3>4
  <2> QED BY <2>2, <2>3
<1>3. g = [i \in 1 .. n + 1 |-> g[i]]
  OBVIOUS
<1> HIDE DEF g
<1>4. Flattened(q, n + 1, g)
  BY <1>2, <1>3 DEF Flattened
<1> QED BY <1>4

LEMMA FlattenedExists ==
    ASSUME NEW q, NEW n \in Nat
    PROVE  \E f : Flattened(q, n, f)
<1> DEFINE Bad == {k \in Nat : ~\E f : Flattened(q, k, f)}
<1>1. CASE Bad = {}
  BY <1>1
<1>2. CASE Bad # {}
  <2>1. Bad \subseteq Nat
    OBVIOUS
  <2>2. PICK m \in Bad : \A k \in Bad : m <= k
    <3> HIDE DEF Bad
    <3> QED BY <1>2, <2>1, LeastExists
  <2>3. m \in Nat /\ ~\E f : Flattened(q, m, f)
    OBVIOUS
  <2>4. m # 0
    <3>1. Flattened(q, 0, [i \in 1 .. 0 |-> q])
      BY DEF Flattened
    <3> QED BY <2>3, <3>1
  <2>5. m - 1 \in Nat /\ m - 1 \notin Bad
    <3> HIDE DEF Bad
    <3> QED BY <2>2, <2>3, <2>4
  <2>6. PICK f : Flattened(q, m - 1, f)
    BY <2>5
  <2>7. \E g : Flattened(q, (m - 1) + 1, g)
    BY <2>5, <2>6, FlattenedOn
  <2> QED BY <2>3, <2>7
<1> QED BY <1>1, <1>2

(* Two readings agree as far as what they read does.                          *)
LEMMA FlattenedAgree ==
    ASSUME NEW q, NEW r, NEW n \in Nat, NEW m \in Nat, n <= m,
           \A i \in 1 .. n : r[i] = q[i],
           NEW f, Flattened(q, n, f), NEW g, Flattened(r, m, g)
    PROVE  \A i \in 1 .. n : g[i] = f[i]
<1> DEFINE Bad == {i \in 1 .. n : g[i] # f[i]}
<1>1. /\ \A i \in 1 .. n : f[i] = IF i = 1 THEN q[i] ELSE f[i - 1] \o q[i]
      /\ \A i \in 1 .. m : g[i] = IF i = 1 THEN r[i] ELSE g[i - 1] \o r[i]
  BY DEF Flattened
<1>2. CASE Bad = {}
  BY <1>2
<1>3. CASE Bad # {}
  <2>1. Bad \subseteq Nat
    OBVIOUS
  <2>2. PICK k \in Bad : \A i \in Bad : k <= i
    <3> HIDE DEF Bad
    <3> QED BY <1>3, <2>1, LeastExists
  <2>3. k \in 1 .. n /\ k \in 1 .. m /\ g[k] # f[k] /\ r[k] = q[k]
    OBVIOUS
  <2>4. CASE k = 1
    BY <1>1, <2>3, <2>4
  <2>5. CASE k # 1
    <3>1. k - 1 \in 1 .. n
      BY <2>3, <2>5
    <3>2. k - 1 \notin Bad
      <4> HIDE DEF Bad
      <4> QED BY <2>2, <2>3
    <3>3. g[k - 1] = f[k - 1]
      BY <3>1, <3>2
    <3> QED BY <1>1, <2>3, <2>5, <3>3
  <2> QED BY <2>4, <2>5
<1> QED BY <1>2, <1>3

LEMMA FlattenIs ==
    ASSUME NEW q
    PROVE  /\ Len(q) = 0 => FlattenSeq(q) = q
           /\ Len(q) \in Nat \ {0} => \E f : Flattened(q, Len(q), f) /\ FlattenSeq(q) = f[Len(q)]
<1> DEFINE n == Len(q)
           f == CHOOSE g : g = [i \in 1 .. n |-> IF i = 1 THEN q[i] ELSE g[i - 1] \o q[i]]
<1>1. FlattenSeq(q) = IF n = 0 THEN q ELSE f[n]
  BY DEF FlattenSeq
<1> HIDE DEF n
<1>2. ASSUME n \in Nat \ {0} PROVE Flattened(q, n, f)
  <2>1. \E g : g = [i \in 1 .. n |-> IF i = 1 THEN q[i] ELSE g[i - 1] \o q[i]]
    BY <1>2, FlattenedExists DEF Flattened
  <2>2. f = [i \in 1 .. n |-> IF i = 1 THEN q[i] ELSE f[i - 1] \o q[i]]
    BY <2>1
  <2> HIDE DEF f
  <2> QED BY <2>2 DEF Flattened
<1> HIDE DEF f
<1>3. n = Len(q)
  BY DEF n
<1> QED BY <1>1, <1>2, <1>3

LEMMA FlattenTyped ==
    ASSUME NEW S, NEW q \in Seq(Seq(S))
    PROVE  FlattenSeq(q) \in Seq(S)
<1> DEFINE n == Len(q)
<1>1. n \in Nat /\ \A i \in 1 .. n : q[i] \in Seq(S)
  OBVIOUS
<1>2. CASE n = 0
  <2>1. q = <<>>
    BY <1>2, EmptySeq
  <2>2. FlattenSeq(q) = <<>>
    BY <1>2, <2>1, FlattenIs
  <2>3. <<>> \in Seq(S)
    OBVIOUS
  <2> QED BY <2>2, <2>3
<1>3. CASE n # 0
  <2>1. PICK f : Flattened(q, n, f) /\ FlattenSeq(q) = f[n]
    BY <1>1, <1>3, FlattenIs
  <2>2. \A i \in 1 .. n : f[i] = IF i = 1 THEN q[i] ELSE f[i - 1] \o q[i]
    BY <2>1 DEF Flattened
  <2> DEFINE Bad == {i \in 1 .. n : f[i] \notin Seq(S)}
  <2>3. CASE Bad = {}
    BY <1>1, <1>3, <2>1, <2>3
  <2>4. CASE Bad # {}
    <3> HIDE DEF n
    <3>1. Bad \subseteq Nat
      BY <1>1
    <3>2. PICK k \in Bad : \A i \in Bad : k <= i
      <4> HIDE DEF Bad
      <4> QED BY <2>4, <3>1, LeastExists
    <3>3. k \in 1 .. n /\ f[k] \notin Seq(S)
      OBVIOUS
    <3>4. CASE k = 1
      BY <1>1, <2>2, <3>3, <3>4
    <3>5. CASE k # 1
      <4>1. k - 1 \in 1 .. n
        BY <1>1, <3>3, <3>5
      <4>2. k - 1 \notin Bad
        <5> HIDE DEF Bad
        <5> QED BY <1>1, <3>2, <3>3
      <4>3. f[k - 1] \in Seq(S) /\ q[k] \in Seq(S)
        BY <1>1, <3>3, <4>1, <4>2
      <4>4. f[k] = f[k - 1] \o q[k]
        BY <2>2, <3>3, <3>5
      <4>5. f[k] \in Seq(S)
        BY <4>3, <4>4
      <4> QED BY <3>3, <4>5
    <3> QED BY <3>4, <3>5
  <2> QED BY <2>3, <2>4
<1> QED BY <1>2, <1>3

LEMMA FlattenAppend ==
    ASSUME NEW S, NEW q \in Seq(Seq(S)), NEW s \in Seq(S)
    PROVE  FlattenSeq(Append(q, s)) = FlattenSeq(q) \o s
<1> DEFINE n == Len(q)
           r == Append(q, s)
<1>1. /\ n \in Nat /\ Len(r) = n + 1 /\ r[n + 1] = s
      /\ \A i \in 1 .. n : r[i] = q[i]
  OBVIOUS
<1> HIDE DEF r
<1>2. PICK g : Flattened(r, n + 1, g) /\ FlattenSeq(r) = g[n + 1]
  <2>1. Len(r) \in Nat \ {0}
    BY <1>1
  <2> QED BY <1>1, <2>1, FlattenIs
<1>3. \A i \in 1 .. n + 1 : g[i] = IF i = 1 THEN r[i] ELSE g[i - 1] \o r[i]
  BY <1>2 DEF Flattened
<1>4. CASE n = 0
  <2>1. q = <<>> /\ FlattenSeq(q) = q
    BY <1>4, EmptySeq, FlattenIs
  <2>2. FlattenSeq(r) = s
    BY <1>1, <1>2, <1>3, <1>4
  <2> QED BY <2>1, <2>2 DEF r
<1>5. CASE n # 0
  <2>1. PICK f : Flattened(q, n, f) /\ FlattenSeq(q) = f[n]
    BY <1>1, <1>5, FlattenIs
  <2>2. \A i \in 1 .. n : g[i] = f[i]
    <3> HIDE DEF n
    <3>1. n + 1 \in Nat /\ n <= n + 1
      BY <1>1
    <3> QED BY <1>1, <1>2, <2>1, <3>1, FlattenedAgree
  <2>3. g[n] = f[n]
    BY <1>1, <1>5, <2>2
  <2>4. g[n + 1] = g[n] \o r[n + 1]
    <3>1. n + 1 \in 1 .. n + 1 /\ n + 1 # 1 /\ (n + 1) - 1 = n
      BY <1>1, <1>5
    <3> QED BY <1>3, <3>1
  <2> QED BY <1>1, <1>2, <2>1, <2>3, <2>4 DEF r
<1> QED BY <1>4, <1>5

----------------------------------------------------------------------------
(* What the path of the lane holds of calls and of results.                   *)
CallsAt(es, path)   == [i \in DOMAIN path |-> es[path[i]].calls]
ResultsAt(path) == [i \in DOMAIN path |-> IF path[i][1] = "res" THEN <<path[i]>> ELSE <<>>]

LEMMA PathTyped ==
    ASSUME OperationInv, TranscriptInv
    PROVE  /\ leaf \in Seq(EntryIds) /\ DOMAIN leaf = 1 .. Len(leaf) /\ Len(leaf) \in Nat
           /\ CallsAt(entries, leaf) \in Seq(Seq(CallIds))
           /\ ResultsAt(leaf) \in Seq(Seq(EntryIds))
           /\ CallsOnPath = FlattenSeq(CallsAt(entries, leaf))
           /\ ResultsOnPath = FlattenSeq(ResultsAt(leaf))
           /\ CallsOnPath \in Seq(CallIds) /\ ResultsOnPath \in Seq(EntryIds)
<1>1. leaf \in Seq(EntryIds) /\ \A i \in DOMAIN leaf : Has(leaf[i])
  BY DEF OperationInv, EntriesInv, TranscriptInv
<1>2. DOMAIN leaf = 1 .. Len(leaf) /\ Len(leaf) \in Nat
  BY <1>1
<1>3. \A id \in DOMAIN entries : entries[id].calls \in Seq(CallIds)
  BY DEF OperationInv, EntriesInv, EntryRecords
<1>4. CallsAt(entries, leaf) \in Seq(Seq(CallIds))
  <2>1. \A i \in DOMAIN leaf : entries[leaf[i]].calls \in Seq(CallIds)
    BY <1>1, <1>3 DEF Has
  <2> QED BY <1>2, <2>1 DEF CallsAt
<1>5. ResultsAt(leaf) \in Seq(Seq(EntryIds))
  <2>1. \A i \in DOMAIN leaf : (IF leaf[i][1] = "res" THEN <<leaf[i]>> ELSE <<>>) \in Seq(EntryIds)
    BY <1>1, <1>2
  <2> QED BY <1>2, <2>1 DEF ResultsAt
<1>6. /\ CallsOnPath = FlattenSeq(CallsAt(entries, leaf))
      /\ ResultsOnPath = FlattenSeq(ResultsAt(leaf))
  BY DEF CallsOnPath, ResultsOnPath, CallsAt, ResultsAt
<1> QED BY <1>1, <1>2, <1>4, <1>5, <1>6, FlattenTyped

LEMMA PathGrows ==
    ASSUME OperationInv, TranscriptInv, NEW id \in EntryIds, Has(id),
           leaf' = Append(leaf, id), entries' = entries
    PROVE  /\ CallsOnPath' = CallsOnPath \o entries[id].calls
           /\ ResultsOnPath' = IF id[1] = "res" THEN Append(ResultsOnPath, id) ELSE ResultsOnPath
<1>1. /\ leaf \in Seq(EntryIds) /\ DOMAIN leaf = 1 .. Len(leaf) /\ Len(leaf) \in Nat
      /\ CallsAt(entries, leaf) \in Seq(Seq(CallIds))
      /\ ResultsAt(leaf) \in Seq(Seq(EntryIds))
      /\ CallsOnPath = FlattenSeq(CallsAt(entries, leaf))
      /\ ResultsOnPath = FlattenSeq(ResultsAt(leaf))
      /\ ResultsOnPath \in Seq(EntryIds)
  BY PathTyped
<1>2. entries[id].calls \in Seq(CallIds)
  BY DEF OperationInv, EntriesInv, EntryRecords, Has
<1> DEFINE one == IF id[1] = "res" THEN <<id>> ELSE <<>>
<1>3. one \in Seq(EntryIds)
  OBVIOUS
<1>4. /\ DOMAIN leaf' = 1 .. Len(leaf) + 1
      /\ \A i \in 1 .. Len(leaf) : leaf'[i] = leaf[i]
      /\ leaf'[Len(leaf) + 1] = id
  BY <1>1
<1>5. CallsAt(entries', leaf') = Append(CallsAt(entries, leaf), entries[id].calls)
  BY <1>1, <1>4 DEF CallsAt
<1>6. ResultsAt(leaf') = Append(ResultsAt(leaf), one)
  BY <1>1, <1>4 DEF ResultsAt
<1>7. /\ CallsOnPath' = FlattenSeq(CallsAt(entries', leaf'))
      /\ ResultsOnPath' = FlattenSeq(ResultsAt(leaf'))
  BY DEF CallsOnPath, ResultsOnPath, CallsAt, ResultsAt
<1>8. CallsOnPath' = CallsOnPath \o entries[id].calls
  BY <1>1, <1>2, <1>5, <1>7, FlattenAppend
<1>9. ResultsOnPath' = ResultsOnPath \o one
  BY <1>1, <1>3, <1>6, <1>7, FlattenAppend
<1>10. ResultsOnPath \o one = IF id[1] = "res" THEN Append(ResultsOnPath, id) ELSE ResultsOnPath
  BY <1>1
<1> QED BY <1>8, <1>9, <1>10

LEMMA PathStays ==
    ASSUME leaf' = leaf, \A i \in DOMAIN leaf : entries'[leaf[i]] = entries[leaf[i]]
    PROVE  CallsOnPath' = CallsOnPath /\ ResultsOnPath' = ResultsOnPath
<1>1. CallsAt(entries', leaf') = CallsAt(entries, leaf)
  BY DEF CallsAt
<1>2. /\ CallsOnPath = FlattenSeq(CallsAt(entries, leaf))
      /\ CallsOnPath' = FlattenSeq(CallsAt(entries', leaf'))
      /\ ResultsOnPath = FlattenSeq(ResultsAt(leaf))
      /\ ResultsOnPath' = FlattenSeq(ResultsAt(leaf'))
  BY DEF CallsOnPath, ResultsOnPath, CallsAt, ResultsAt
<1> QED BY <1>1, <1>2

----------------------------------------------------------------------------
(* Calls and results along the path of an operation that was never resumed:   *)
(* they pair, but for the last calls of the answer that is on the path.       *)

\* The n calls of the answer end the calls of the path; the results end at the first
\* of them that has none.
Half(n) ==
  \E b \in Nat :
    /\ Len(CallsOnPath) = b + n /\ Len(ResultsOnPath) \in b .. b + n
    /\ \A i \in DOMAIN ResultsOnPath : ResultsOnPath[i] = ResId(CallsOnPath[i])
    /\ \A k \in 1 .. n : /\ ResId(CallsOnPath[b + k]) = Slot(op, k)
                         /\ OnPath(Slot(op, k)) <=> b + k <= Len(ResultsOnPath)

\* An error ends an operation as it stands.
Excused(s) == s.phase = "failed" /\ s.code # "runtime_interrupted"

Balance ==
  ~Excused(op) => IF Answering /\ OnPath(Answer) THEN Half(Len(entries[Answer].calls)) ELSE Paired

\* A result is that of one of the answer's calls.
Asked(k) == k <= Len(entries[Answer].calls)
Within   == Answering => \A k \in Nat \ {0} : Has(Slot(op, k)) => Asked(k)
Admits(ws) ==
  Answering => \A j \in DOMAIN ws, k \in Nat \ {0} :
                 ws[j].w = "append" /\ ws[j].id = Slot(op, k) => Asked(k)

\* A leaf move that comes first takes a new entry onto the path.
Heads(ws) ==
  ws # <<>> /\ ws[1].w = "leaf" =>
    /\ ~OnPath(ws[1].id)
    /\ ws[1].id[1] = "note" \/ (Answering /\ ws[1].id \in Mine)

\* When s is saved after ws, every call of the answer has its result, unless the
\* calls go on or an error ended them.
Closes(ws, s) ==
  s.phase # "tools" /\ ~Excused(s) /\ Answering =>
    /\ Has(Answer) => \A k \in DOMAIN entries[Answer].calls :
         OnPath(Slot(op, k)) \/ \E l \in DOMAIN ws : ws[l] = Leaf(Slot(op, k))
    /\ \A l \in DOMAIN ws : ws[l].w = "append" /\ ws[l].id = Answer => ws[l].calls = <<>>

Fits(ws, s, pc) ==
  /\ Admits(ws) /\ Heads(ws)
  /\ \A j \in DOMAIN ws : ws[j].w = "save" =>
       Closes(ws, ws[j].st) /\ (Excused(ws[j].st) => pc = "done")
  /\ pc = "request" => s.phase \notin {"tools", "model_pending"}

PairInv ==
  ~resumed => /\ Balance /\ Within /\ Fits(todo, Target, proc)
              /\ Excused(op) => proc = "done" /\ todo = <<>>

----------------------------------------------------------------------------
(* Steps that decide what is written next.                                    *)

LEMMA DecidedPairs ==
    ASSUME PairInv, ~resumed, ~Excused(op), NEW ws, NEW pc, todo' = ws, proc' = pc,
           UNCHANGED <<op, leaf, entries, state>>,
           Fits(ws, Aim(ws), pc)
    PROVE  PairInv'
<1>1. todo' = ws /\ proc' = pc /\ UNCHANGED <<op, leaf, entries, state>>
  OBVIOUS
<1>2. /\ Answering' <=> Answering
      /\ Answer' = Answer /\ Mine' = Mine
      /\ \A k : Slot(op', k) = Slot(op, k)
  BY <1>1, SameOperation
<1>3. CallsOnPath' = CallsOnPath /\ ResultsOnPath' = ResultsOnPath
  BY <1>1, PathStays
<1>4. Balance /\ Within
  BY DEF PairInv
<1>5. Balance'
  BY <1>1, <1>2, <1>3, <1>4 DEF Balance, Half, Paired, OnPath
<1>6. Within'
  BY <1>1, <1>2, <1>4 DEF Within, Has, Asked
<1>7. Target' = Aim(ws)
  BY <1>1 DEF Target, Aim
<1>8. Admits(todo)'
  BY <1>1, <1>2 DEF Fits, Admits, Asked
<1>9. Heads(todo)'
  BY <1>1, <1>2 DEF Fits, Heads, OnPath
<1>10. \A s : Closes(ws, s) => Closes(todo, s)'
  BY <1>1, <1>2 DEF Closes, Has, OnPath, Leaf
<1>11. Fits(todo, Target, proc)'
  BY <1>1, <1>7, <1>8, <1>9, <1>10 DEF Fits
<1> QED BY <1>1, <1>5, <1>6, <1>11 DEF PairInv

LEMMA FitsNone ==
    ASSUME NEW s, NEW pc, pc = "request" => s.phase \notin {"tools", "model_pending"}
    PROVE  Fits(<<>>, s, pc)
BY DEF Fits, Admits, Heads

(* Entries with their leaf moves, and then a state.                           *)
LEMMA SavesPairs ==
    ASSUME PairInv, ~resumed, ~Excused(op),
           NEW a, Plain(a), Orderly(a), Admits(a), NEW s, Closes(a, s),
           NEW pc, Excused(s) => pc = "done",
           pc = "request" => s.phase \notin {"tools", "model_pending"},
           Begins(a \o <<Save(s)>>, pc)
    PROVE  PairInv'
<1> DEFINE ws == a \o <<Save(s)>>
<1>1. a \in Seq(Appends \cup Moves)
  BY DEF Plain
<1>2. /\ Len(a) \in Nat /\ DOMAIN a = 1 .. Len(a)
      /\ \A j \in DOMAIN a : a[j].w \in {"append", "leaf"}
  BY <1>1 DEF Appends, Moves
<1>3. /\ DOMAIN ws = 1 .. Len(a) + 1 /\ Len(ws) = Len(a) + 1 /\ ws # <<>>
      /\ \A j \in DOMAIN a : ws[j] = a[j]
      /\ ws[Len(a) + 1] = Save(s)
  <2>1. a \in Seq(Appends \cup Moves \cup {Save(s)})
    BY <1>1
  <2>2. <<Save(s)>> \in Seq(Appends \cup Moves \cup {Save(s)})
    OBVIOUS
  <2> QED BY <1>2, <2>1, <2>2
<1>4. Save(s).w = "save" /\ Save(s).st = s
  BY DEF Save
<1>5. todo' = ws /\ proc' = pc /\ UNCHANGED <<op, leaf, entries, state>>
  BY DEF Begins
<1> HIDE DEF ws
<1>6. \A j \in DOMAIN ws : j \in DOMAIN a \/ j = Len(a) + 1
  BY <1>2, <1>3
<1>7. \A k \in DOMAIN a : k \in DOMAIN ws
  BY <1>2, <1>3
<1>8. Aim(ws) = s
  BY <1>3, <1>4 DEF Aim
<1>9. Admits(ws)
  BY <1>3, <1>4, <1>6 DEF Admits
<1>10. Heads(ws)
  <2>1. 1 \in DOMAIN a => ws[1].w # "leaf"
    BY <1>3 DEF Orderly
  <2>2. 1 \notin DOMAIN a => ws[1].w # "leaf"
    <3>1. 1 \in DOMAIN ws
      BY <1>2, <1>3
    <3> QED BY <1>3, <1>4, <1>6, <3>1
  <2> QED BY <2>1, <2>2 DEF Heads
<1>11. Closes(ws, s)
  BY <1>3, <1>4, <1>6, <1>7 DEF Closes
<1>12. \A j \in DOMAIN ws : ws[j].w = "save" => ws[j].st = s
  BY <1>2, <1>3, <1>4, <1>6
<1>13. Fits(ws, Aim(ws), pc)
  BY <1>8, <1>9, <1>10, <1>11, <1>12 DEF Fits
<1> QED BY <1>5, <1>13, DecidedPairs

LEMMA SavesOnlyPairs ==
    ASSUME PairInv, ~resumed, ~Excused(op), NEW s, Closes(<<>>, s),
           NEW pc, Excused(s) => pc = "done",
           pc = "request" => s.phase \notin {"tools", "model_pending"},
           Begins(<<Save(s)>>, pc)
    PROVE  PairInv'
<1> DEFINE a == <<>>
<1>1. <<Save(s)>> = a \o <<Save(s)>>
  <2>1. <<Save(s)>> \in Seq({Save(s)})
    OBVIOUS
  <2> QED BY <2>1
<1>2. Plain(a) /\ Orderly(a) /\ Admits(a) /\ Closes(a, s)
  BY PlainEmpty, OrderlyEmpty DEF Admits
<1> HIDE DEF a
<1>3. Begins(a \o <<Save(s)>>, pc)
  BY <1>1
<1> QED BY <1>2, <1>3, SavesPairs

(* When every call has its result, the two sequences pair.                    *)
LEMMA HalfPaired ==
    ASSUME OperationInv, TranscriptInv, NEW n \in Nat, Half(n),
           \A k \in 1 .. n : OnPath(Slot(op, k))
    PROVE  Paired
<1>1. /\ CallsOnPath \in Seq(CallIds) /\ ResultsOnPath \in Seq(EntryIds)
  BY PathTyped
<1> DEFINE C == CallsOnPath
           R == ResultsOnPath
<1>2. PICK b \in Nat :
        /\ Len(C) = b + n /\ Len(R) \in b .. b + n
        /\ \A i \in DOMAIN R : R[i] = ResId(C[i])
        /\ \A k \in 1 .. n : OnPath(Slot(op, k)) <=> b + k <= Len(R)
  BY DEF Half
<1>3. DOMAIN C = 1 .. Len(C) /\ DOMAIN R = 1 .. Len(R) /\ Len(R) \in Nat
      /\ R = [i \in DOMAIN R |-> R[i]]
  BY <1>1
<1>4. Len(R) = Len(C)
  <2>1. CASE n = 0
    BY <1>2, <2>1
  <2>2. CASE n # 0
    <3>1. n \in 1 .. n
      BY <2>2
    <3>2. b + n <= Len(R)
      BY <1>2, <3>1
    <3> QED BY <1>2, <3>2
  <2> QED BY <2>1, <2>2
<1>5. DOMAIN R = DOMAIN C
  BY <1>3, <1>4
<1>6. R = [i \in DOMAIN C |-> ResId(C[i])]
  BY <1>2, <1>3, <1>5
<1> QED BY <1>6 DEF Paired

\* What a state saved after nothing more may find.
LEMMA ClosedPaired ==
    ASSUME OperationInv, TranscriptInv, Balance, ~Excused(op),
           Answering /\ OnPath(Answer) =>
             \A k \in DOMAIN entries[Answer].calls : OnPath(Slot(op, k))
    PROVE  Paired
<1>1. CASE ~(Answering /\ OnPath(Answer))
  BY <1>1 DEF Balance
<1>2. CASE Answering /\ OnPath(Answer)
  <2> DEFINE n == Len(entries[Answer].calls)
  <2>1. Half(n)
    BY <1>2 DEF Balance
  <2>2. entries[Answer].calls \in Seq(CallIds)
    BY <1>2 DEF TranscriptInv, OnPath, Elements, Has, OperationInv, EntriesInv, EntryRecords
  <2>3. n \in Nat /\ DOMAIN entries[Answer].calls = 1 .. n
    BY <2>2
  <2>4. \A k \in 1 .. n : OnPath(Slot(op, k))
    BY <1>2, <2>3
  <2> HIDE DEF n
  <2> QED BY <2>1, <2>3, <2>4, HalfPaired
<1> QED BY <1>1, <1>2

(* The entry of the answer is there when anything of it is.                   *)
LEMMA OnPathHas ==
    ASSUME TranscriptInv
    PROVE  \A id : OnPath(id) => Has(id)
BY DEF TranscriptInv, OnPath, Elements

LEMMA SlotNames ==
    /\ \A s, k : Slot(s, k) # Answer
    /\ \A s, k, n : Slot(s, k) # NoteId(n)
    /\ \A n : Answer # NoteId(n)
<1>1. "res" # "asst" /\ "res" # "note" /\ "asst" # "note"
  OBVIOUS
<1> QED BY <1>1, Names

LEMMA AppendPairs ==
    ASSUME OperationInv, TraceInv, PairInv, ~resumed, Write, Head(todo).w = "append"
    PROVE  PairInv'
<1> DEFINE w == todo[1]
<1>1. /\ todo # <<>> /\ todo' = Tail(todo) /\ UNCHANGED proc
  BY DEF Write
<1>2. /\ Len(todo) \in Nat \ {0} /\ DOMAIN todo = 1 .. Len(todo) /\ 1 \in DOMAIN todo
      /\ Head(todo) = w /\ w \in Writes /\ w.w = "append"
      /\ Len(todo') = Len(todo) - 1 /\ DOMAIN todo' = 1 .. Len(todo) - 1
      /\ todo' = <<>> <=> Len(todo) = 1
      /\ \A j \in 1 .. Len(todo) - 1 : todo'[j] = todo[j + 1] /\ j + 1 \in DOMAIN todo
      /\ \A j \in DOMAIN todo : j # 1 => j - 1 \in DOMAIN todo' /\ todo'[j - 1] = todo[j]
  BY <1>1, Rest
<1>3. TranscriptInv /\ Ordered(todo, proc)
  BY DEF TraceInv
<1>4. Balance /\ Within /\ Fits(todo, Target, proc) /\ ~Excused(op)
  BY <1>1 DEF PairInv
<1>5. ~Has(w.id) /\ InTurn(todo, 1)
  BY <1>2, <1>3 DEF Ordered, New
<1>6. /\ UNCHANGED <<op, state, leaf>>
      /\ DOMAIN entries' = DOMAIN entries \cup {w.id}
      /\ \A id \in DOMAIN entries : entries'[id] = entries[id]
      /\ entries'[w.id].calls = w.calls
  BY <1>2, <1>5 DEF Write, Has
<1> HIDE DEF w
<1>7. /\ Answering' <=> Answering
      /\ Answer' = Answer /\ Mine' = Mine
      /\ \A k : Slot(op', k) = Slot(op, k)
  BY <1>6, SameOperation
<1>8. CallsOnPath' = CallsOnPath /\ ResultsOnPath' = ResultsOnPath
  <2>1. \A i \in DOMAIN leaf : entries'[leaf[i]] = entries[leaf[i]]
    BY <1>3, <1>6 DEF TranscriptInv, Has
  <2> QED BY <1>6, <2>1, PathStays
<1>9. Has(Answer) => entries'[Answer] = entries[Answer]
  BY <1>6 DEF Has
<1>10. Balance'
  <2>1. OnPath(Answer) => Has(Answer)
    BY <1>3, OnPathHas
  <2> QED BY <1>4, <1>6, <1>7, <1>8, <1>9, <2>1 DEF Balance, Half, Paired, OnPath
(* A result is only on its way when its answer is on the path.                *)
<1>11. ASSUME NEW j \in DOMAIN todo, todo[j].w = "append",
              NEW k \in Nat \ {0}, todo[j].id = Slot(op, k), Answering
       PROVE  Has(Answer) /\ Asked(k)
  <2>1. InTurn(todo, j)
    BY <1>3, <1>11 DEF Ordered, New
  <2>2. OnPath(Answer)
    BY <1>11, <2>1, SlotNames DEF InTurn
  <2>3. Asked(k)
    BY <1>4, <1>11 DEF Fits, Admits
  <2> QED BY <1>3, <2>2, <2>3, OnPathHas
<1>12. Within'
  <2>1. SUFFICES ASSUME Answering, NEW k \in Nat \ {0}, Slot(op, k) \in DOMAIN entries'
                 PROVE  k <= Len(entries'[Answer].calls)
    BY <1>7 DEF Within, Has, Asked
  <2>2. CASE Has(Slot(op, k))
    <3>1. Has(Answer) /\ Asked(k)
      BY <1>3, <1>4, <2>1, <2>2, OnPathHas DEF Within, TranscriptInv
    <3> QED BY <1>9, <3>1 DEF Asked
  <2>3. CASE Slot(op, k) = w.id
    <3>1. Has(Answer) /\ Asked(k)
      BY <1>2, <1>11, <2>1, <2>3 DEF w
    <3> QED BY <1>9, <3>1 DEF Asked
  <2> QED BY <1>6, <2>1, <2>2, <2>3 DEF Has
<1>13. \A x \in DOMAIN todo' : x + 1 \in DOMAIN todo /\ todo'[x] = todo[x + 1]
  BY <1>2
<1>14. Admits(todo)'
  <2>1. SUFFICES ASSUME Answering, NEW j \in DOMAIN todo', NEW k \in Nat \ {0},
                        todo'[j].w = "append", todo'[j].id = Slot(op, k)
                 PROVE  k <= Len(entries'[Answer].calls)
    BY <1>7 DEF Admits, Asked
  <2>2. Has(Answer) /\ Asked(k)
    BY <1>11, <1>13, <2>1
  <2> QED BY <1>9, <2>2 DEF Asked
<1>15. Heads(todo)'
  <2>1. SUFFICES ASSUME todo' # <<>>, todo'[1].w = "leaf"
                 PROVE  /\ ~OnPath(todo'[1].id)
                        /\ todo'[1].id[1] = "note" \/ (Answering /\ todo'[1].id \in Mine)
    BY <1>6, <1>7 DEF Heads, OnPath
  <2>2. 2 \in DOMAIN todo /\ todo'[1] = todo[2]
    <3>1. 1 \in 1 .. Len(todo) - 1
      BY <1>2, <2>1
    <3> QED BY <1>2, <3>1
  <2>3. todo'[1].id = w.id
    BY <1>3, <2>1, <2>2 DEF Ordered, w
  <2>4. ~OnPath(w.id)
    BY <1>3, <1>5, OnPathHas
  <2>5. w.id[1] = "note" \/ (Answering /\ w.id \in Mine)
    BY <1>5, Names DEF InTurn, w, Answering, Mine
  <2> QED BY <2>3, <2>4, <2>5
<1>16. ASSUME NEW s, Closes(todo, s) PROVE Closes(todo, s)'
  <2>1. SUFFICES ASSUME s.phase # "tools", ~Excused(s), Answering
                 PROVE  /\ Answer \in DOMAIN entries' => \A k \in DOMAIN entries'[Answer].calls :
                             \/ OnPath(Slot(op, k))
                             \/ \E l \in DOMAIN todo' : todo'[l] = Leaf(Slot(op, k))
                        /\ \A l \in DOMAIN todo' :
                             todo'[l].w = "append" /\ todo'[l].id = Answer => todo'[l].calls = <<>>
    BY <1>6, <1>7 DEF Closes, Has, OnPath
  <2>2. /\ Has(Answer) => \A k \in DOMAIN entries[Answer].calls :
             OnPath(Slot(op, k)) \/ \E l \in DOMAIN todo : todo[l] = Leaf(Slot(op, k))
        /\ \A l \in DOMAIN todo : todo[l].w = "append" /\ todo[l].id = Answer
                                    => todo[l].calls = <<>>
    BY <1>16, <2>1 DEF Closes
  <2>3. \A k : \A l \in DOMAIN todo : todo[l] = Leaf(Slot(op, k)) =>
          \E m \in DOMAIN todo' : todo'[m] = Leaf(Slot(op, k))
    <3>1. SUFFICES ASSUME NEW l \in DOMAIN todo, NEW k, todo[l] = Leaf(Slot(op, k))
                   PROVE  \E m \in DOMAIN todo' : todo'[m] = Leaf(Slot(op, k))
      OBVIOUS
    <3>2. l # 1
      BY <1>2, <3>1 DEF Leaf, w
    <3> QED BY <1>2, <3>1, <3>2
  <2>4. CASE Has(Answer)
    BY <1>9, <1>13, <2>2, <2>3, <2>4
  <2>5. CASE ~Has(Answer) /\ Answer \in DOMAIN entries'
    <3>1. w.id = Answer
      BY <1>6, <2>5 DEF Has
    <3>2. entries'[Answer].calls = <<>>
      BY <1>2, <1>6, <2>2, <3>1 DEF w
    <3> QED BY <1>13, <2>2, <3>2
  <2> QED BY <1>13, <2>2, <2>4, <2>5
<1>17. Target' = Target
  <2>1. CASE Len(todo) = 1
    BY <1>1, <1>2, <1>6, <2>1 DEF Target, w
  <2>2. CASE Len(todo) # 1
    <3>1. Len(todo') \in 1 .. Len(todo) - 1 /\ Len(todo') + 1 = Len(todo)
      BY <1>2, <2>2
    <3>2. todo' # <<>> /\ todo'[Len(todo')] = todo[Len(todo)]
      BY <1>2, <2>2, <3>1
    <3> QED BY <1>1, <1>6, <3>2 DEF Target
  <2> QED BY <2>1, <2>2
<1>18. Fits(todo, Target, proc)'
  <2>1. \A j \in DOMAIN todo' : todo'[j].w = "save" =>
          Closes(todo, todo'[j].st) /\ (Excused(todo'[j].st) => proc = "done")
    BY <1>4, <1>13 DEF Fits
  <2>2. \A j \in DOMAIN todo' : todo'[j].w = "save" => Closes(todo, todo[j].st)'
    <3>1. SUFFICES ASSUME NEW j \in DOMAIN todo', todo'[j].w = "save"
                   PROVE  Closes(todo, todo[j].st)'
      OBVIOUS
    <3>2. PICK s : s = todo'[j].st
      OBVIOUS
    <3>3. Closes(todo, s)
      BY <2>1, <3>1, <3>2
    <3>4. Closes(todo, s)'
      BY <1>16, <3>3
    <3> QED BY <3>2, <3>4 DEF Closes, Excused
  <2>3. proc' = "request" => Target'.phase \notin {"tools", "model_pending"}
    BY <1>1, <1>4, <1>17 DEF Fits
  <2> QED BY <1>1, <1>14, <1>15, <2>1, <2>2, <2>3 DEF Fits, Excused
<1> QED BY <1>4, <1>6, <1>10, <1>12, <1>18 DEF PairInv

LEMMA LeafPairs ==
    ASSUME OperationInv, TraceInv, PairInv, ~resumed, Write, Head(todo).w = "leaf"
    PROVE  PairInv'
<1> DEFINE w == todo[1]
           id == w.id
<1>1. /\ todo # <<>> /\ todo' = Tail(todo) /\ UNCHANGED proc
  BY DEF Write
<1>2. /\ Len(todo) \in Nat \ {0} /\ DOMAIN todo = 1 .. Len(todo) /\ 1 \in DOMAIN todo
      /\ Head(todo) = w /\ w \in Writes /\ w.w = "leaf"
      /\ Len(todo') = Len(todo) - 1 /\ DOMAIN todo' = 1 .. Len(todo) - 1
      /\ todo' = <<>> <=> Len(todo) = 1
      /\ \A j \in 1 .. Len(todo) - 1 : todo'[j] = todo[j + 1] /\ j + 1 \in DOMAIN todo
      /\ \A j \in DOMAIN todo : j # 1 => j - 1 \in DOMAIN todo' /\ todo'[j - 1] = todo[j]
  BY <1>1, Rest
<1>3. TranscriptInv /\ Ordered(todo, proc) /\ EntriesInv
  BY DEF TraceInv, OperationInv
<1>4. Balance /\ Within /\ Fits(todo, Target, proc) /\ ~Excused(op)
  BY <1>1 DEF PairInv
<1>5. Has(id) /\ entries[id].path = Append(leaf, id)
  BY <1>2, <1>3 DEF Ordered, Connectable
<1>6. leaf' = Append(leaf, id) /\ UNCHANGED <<op, state, entries>>
  BY <1>2, <1>5 DEF Write
<1>7. ~OnPath(id) /\ (id[1] = "note" \/ (Answering /\ id \in Mine))
  BY <1>1, <1>2, <1>4 DEF Fits, Heads
<1>8. id \in EntryIds /\ Owned(id, entries[id].calls) /\ entries[id].calls \in Seq(CallIds)
  BY <1>3, <1>5 DEF EntriesInv, EntryRecords, Has
<1> HIDE DEF id, w
<1>9. /\ Answering' <=> Answering
      /\ Answer' = Answer /\ Mine' = Mine
      /\ \A k : Slot(op', k) = Slot(op, k)
  BY <1>6, SameOperation
<1>10. \A x : x \in Elements(leaf') <=> OnPath(x) \/ x = id
  <2>1. leaf \in Seq(EntryIds)
    BY <1>3 DEF EntriesInv
  <2> QED BY <1>6, <1>8, <2>1, Extends DEF OnPath
<1>11. /\ CallsOnPath' = CallsOnPath \o entries[id].calls
       /\ ResultsOnPath' = IF id[1] = "res" THEN Append(ResultsOnPath, id) ELSE ResultsOnPath
  BY <1>3, <1>5, <1>6, <1>8, PathGrows
<1>12. CallsOnPath \in Seq(CallIds) /\ ResultsOnPath \in Seq(EntryIds)
  BY <1>3, PathTyped
<1> DEFINE C == CallsOnPath
           R == ResultsOnPath
           n == Len(entries[Answer].calls)
<1>13. id[1] # "asst" => CallsOnPath' = C
  <2>1. id[1] # "asst" => entries[id].calls = <<>>
    BY <1>8, EmptySeq DEF Owned
  <2> QED BY <1>11, <1>12, <2>1
<1>14. Balance'
  <2>1. CASE id[1] = "note"
    <3>1. /\ Answer # id /\ \A k : Slot(op, k) # id
      BY <2>1, Names
    <3>2. CallsOnPath' = C /\ ResultsOnPath' = R
      BY <1>11, <1>13, <2>1
    <3>3. OnPath(Answer)' <=> OnPath(Answer)
      BY <1>9, <1>10, <3>1 DEF OnPath
    <3>4. \A k : OnPath(Slot(op, k))' <=> OnPath(Slot(op, k))
      BY <1>9, <1>10, <3>1 DEF OnPath
    <3>5. n' = n
      BY <1>6, <1>9
    <3> HIDE DEF n
    <3>6. Half(n) => Half(n)'
      BY <1>9, <3>2, <3>4, <3>5 DEF Half
    <3>7. Paired => Paired'
      BY <3>2 DEF Paired
    <3> QED BY <1>4, <1>9, <3>3, <3>6, <3>7 DEF Balance, n
  <2>2. CASE id[1] # "note"
    <3>1. Answering /\ id \in Mine
      BY <1>7, <2>2
    <3>2. CASE id = Answer
      <4>1. ~OnPath(Answer) /\ Paired
        BY <1>4, <1>7, <3>2 DEF Balance
      <4>2. id[1] # "res"
        BY <3>2, Names
      <4>3. Numbered(entries[Answer].calls)
        BY <1>3, <1>5, <3>1, <3>2 DEF TranscriptInv
      <4> DEFINE calls == entries[Answer].calls
                 b == Len(C)
                 D == C \o calls
      <4>4. /\ b \in Nat /\ n \in Nat /\ calls \in Seq(CallIds)
            /\ Len(D) = b + n
            /\ \A i \in 1 .. b : D[i] = C[i]
            /\ \A k \in 1 .. n : D[b + k] = calls[k]
        <5>1. calls \in Seq(CallIds) /\ n = Len(calls)
          BY <1>8, <3>2
        <5> HIDE DEF n, C, calls
        <5>2. b \in Nat /\ n \in Nat /\ Len(D) = b + n
          BY <1>12, <5>1 DEF C
        <5>3. \A i \in 1 .. b + n : D[i] = IF i <= b THEN C[i] ELSE calls[i - b]
          BY <1>12, <5>1, ConcatProperties DEF C
        <5>4. ASSUME NEW k \in 1 .. n PROVE D[b + k] = calls[k]
          <6>1. b + k \in 1 .. b + n /\ ~(b + k <= b) /\ (b + k) - b = k
            BY <5>2
          <6>2. D[b + k] = IF b + k <= b THEN C[b + k] ELSE calls[(b + k) - b]
            BY <5>3, <6>1
          <6> QED BY <6>1, <6>2
        <5>5. ASSUME NEW i \in 1 .. b PROVE D[i] = C[i]
          <6>1. i \in 1 .. b + n /\ i <= b
            BY <5>2
          <6> QED BY <5>3, <6>1
        <5> QED BY <5>1, <5>2, <5>4, <5>5
      <4>5. Len(R) = b /\ DOMAIN R = 1 .. b /\ \A i \in 1 .. b : R[i] = ResId(C[i])
        <5>1. R = [i \in DOMAIN C |-> ResId(C[i])] /\ DOMAIN C = 1 .. Len(C)
          BY <1>12, <4>1 DEF Paired
        <5> HIDE DEF R, C
        <5>2. DOMAIN R = 1 .. Len(C) /\ \A i \in 1 .. Len(C) : R[i] = ResId(C[i])
          BY <5>1
        <5>3. Len(R) = Len(C)
          BY <4>4, <5>2
        <5> QED BY <5>2, <5>3
      <4>6. CallsOnPath' = D /\ ResultsOnPath' = R
        BY <1>11, <3>2, <4>2
      <4>7. \A k \in 1 .. n : ResId(D[b + k]) = Slot(op, k)
        <5>1. DOMAIN calls = 1 .. n
          BY <4>4
        <5>2. \A k \in 1 .. n : calls[k] = <<op.rsp, op.attempt, k>>
          BY <4>3, <5>1 DEF Numbered
        <5> HIDE DEF D, b, n, calls
        <5> QED BY <4>4, <5>2 DEF Slot
      <4>8. \A k \in 1 .. n : Slot(op, k) \notin Elements(leaf')
        <5>1. \A k \in Nat \ {0} : ~Has(Slot(op, k))
          BY <1>3, <3>1, <4>1 DEF TranscriptInv
        <5>2. \A k \in 1 .. n : k \in Nat \ {0}
          BY <4>4
        <5>3. \A k : Slot(op, k) # id
          BY <3>2, SlotNames
        <5> QED BY <1>3, <1>10, <5>1, <5>2, <5>3, OnPathHas
      <4>9. n' = n
        BY <1>6, <1>9
      <4> HIDE DEF n, C, R, D, b
      <4>10. /\ Len(CallsOnPath') = b + n
             /\ Len(ResultsOnPath') \in b .. b + n
             /\ \A i \in DOMAIN ResultsOnPath' : ResultsOnPath'[i] = ResId(CallsOnPath'[i])
        BY <4>4, <4>5, <4>6
      <4>11. \A k \in 1 .. n :
               /\ ResId(CallsOnPath'[b + k]) = Slot(op', k)
               /\ Slot(op', k) \in Elements(leaf') <=> b + k <= Len(ResultsOnPath')
        <5>1. \A k \in 1 .. n : ~(b + k <= b)
          BY <4>4
        <5> QED BY <1>9, <4>5, <4>6, <4>7, <4>8, <5>1
      <4>12. Half(n)'
        BY <4>4, <4>9, <4>10, <4>11 DEF Half, OnPath
      <4>13. OnPath(Answer)'
        BY <1>9, <1>10, <3>2 DEF OnPath
      <4> QED BY <1>9, <3>1, <4>12, <4>13 DEF Balance, n
    <3>3. CASE \E k \in Nat \ {0} : id = Slot(op, k)
      <4>1. PICK h \in Nat \ {0} : id = Slot(op, h)
        BY <3>3
      <4>2. /\ Has(Answer) /\ OnPath(Answer) /\ h <= n
            /\ \A i \in 1 .. h - 1 : OnPath(Slot(op, i))
        <5>1. OnPath(Answer) /\ \A i \in 1 .. h - 1 : OnPath(Slot(op, i))
          BY <1>3, <1>5, <3>1, <4>1 DEF TranscriptInv
        <5>2. Asked(h)
          BY <1>4, <1>5, <3>1, <4>1 DEF Within
        <5> QED BY <1>3, <5>1, <5>2, OnPathHas DEF Asked
      <4>3. n \in Nat
        <5>1. entries[Answer].calls \in Seq(CallIds)
          BY <1>3, <4>2 DEF EntriesInv, EntryRecords, Has
        <5> QED BY <5>1
      <4>4. PICK b \in Nat :
              /\ Len(C) = b + n /\ Len(R) \in b .. b + n
              /\ \A i \in DOMAIN R : R[i] = ResId(C[i])
              /\ \A k \in 1 .. n : /\ ResId(C[b + k]) = Slot(op, k)
                                   /\ OnPath(Slot(op, k)) <=> b + k <= Len(R)
        BY <1>4, <3>1, <4>2 DEF Balance, Half
      <4>5. id[1] = "res"
        BY <4>1, Names
      <4>6. CallsOnPath' = C /\ ResultsOnPath' = Append(R, id)
        BY <1>11, <1>13, <4>5
      <4>7. n' = n
        BY <1>6, <1>9
      <4> HIDE DEF n
      <4>8. Len(R) = b + h - 1 /\ Len(R) \in Nat
        <5>1. h \in 1 .. n /\ ~(b + h <= Len(R))
          BY <1>7, <4>1, <4>2, <4>3, <4>4
        <5>2. Len(R) \in Nat /\ Len(R) < b + h
          BY <1>12, <4>4, <5>1
        <5>3. CASE h = 1
          BY <4>4, <5>2, <5>3
        <5>4. CASE h # 1
          <6>1. h - 1 \in 1 .. h - 1 /\ h - 1 \in 1 .. n
            BY <4>3, <5>1, <5>4
          <6>2. b + (h - 1) <= Len(R)
            BY <4>2, <4>4, <6>1
          <6> QED BY <5>2, <6>2
        <5> QED BY <5>3, <5>4
      <4> DEFINE Q == Append(R, id)
      <4>9. /\ DOMAIN R = 1 .. Len(R)
            /\ Len(Q) = b + h /\ DOMAIN Q = 1 .. b + h
            /\ \A i \in 1 .. Len(R) : Q[i] = R[i]
            /\ Q[b + h] = id
        <5> HIDE DEF R
        <5>1. /\ Len(Q) = Len(R) + 1 /\ DOMAIN Q = 1 .. Len(R) + 1
              /\ \A i \in 1 .. Len(R) : Q[i] = R[i]
              /\ Q[Len(R) + 1] = id /\ DOMAIN R = 1 .. Len(R)
          BY <1>8, <1>12 DEF R
        <5>2. Len(R) + 1 = b + h
          BY <4>8
        <5> QED BY <5>1, <5>2
      <4>10. \A i \in 1 .. b + h : Q[i] = ResId(C[i])
        <5>1. SUFFICES ASSUME NEW i \in 1 .. b + h PROVE Q[i] = ResId(C[i])
          OBVIOUS
        <5>2. CASE i = b + h
          <6>1. h \in 1 .. n
            BY <4>2, <4>3
          <6> HIDE DEF Q, C, R
          <6> QED BY <4>1, <4>4, <4>9, <5>2, <6>1
        <5>3. CASE i # b + h
          <6>1. i \in 1 .. Len(R)
            BY <4>8, <5>3
          <6> HIDE DEF Q, C, R
          <6> QED BY <4>4, <4>9, <6>1
        <5> QED BY <5>2, <5>3
      <4>11. \A k \in 1 .. n : Slot(op, k) \in Elements(leaf') <=> b + k <= b + h
        <5>1. SUFFICES ASSUME NEW k \in 1 .. n
                       PROVE  Slot(op, k) \in Elements(leaf') <=> b + k <= b + h
          OBVIOUS
        <5>2. Slot(op, k) \in Elements(leaf') <=> OnPath(Slot(op, k)) \/ k = h
          BY <1>10, <4>1, Names
        <5>3. OnPath(Slot(op, k)) <=> b + k <= b + h - 1
          BY <4>4, <4>8
        <5>4. (b + k <= b + h - 1 \/ k = h) <=> b + k <= b + h
          OBVIOUS
        <5> QED BY <5>2, <5>3, <5>4
      <4> HIDE DEF Q
      <4>12. /\ Len(CallsOnPath') = b + n
             /\ Len(ResultsOnPath') \in b .. b + n
             /\ \A i \in DOMAIN ResultsOnPath' : ResultsOnPath'[i] = ResId(CallsOnPath'[i])
             /\ \A k \in 1 .. n :
                  /\ ResId(CallsOnPath'[b + k]) = Slot(op', k)
                  /\ Slot(op', k) \in Elements(leaf') <=> b + k <= Len(ResultsOnPath')
        <5>1. ResultsOnPath' = Q
          BY <4>6 DEF Q
        <5>2. b + h \in b .. b + n
          BY <4>2, <4>3
        <5> HIDE DEF C, R
        <5> QED BY <1>9, <4>4, <4>6, <4>9, <4>10, <4>11, <5>1, <5>2
      <4>13. Half(n)'
        BY <4>7, <4>12 DEF Half, OnPath
      <4>14. OnPath(Answer)'
        BY <1>9, <1>10, <4>2 DEF OnPath
      <4> QED BY <1>9, <3>1, <4>13, <4>14 DEF Balance, n
    <3> QED BY <3>1, <3>2, <3>3 DEF Mine
  <2> QED BY <2>1, <2>2
<1>15. Within'
  BY <1>4, <1>6, <1>9 DEF Within, Has, Asked
<1>16. \A x \in DOMAIN todo' : x + 1 \in DOMAIN todo /\ todo'[x] = todo[x + 1] /\ x + 1 # 1
  BY <1>2
<1>17. Admits(todo)'
  BY <1>4, <1>6, <1>9, <1>16 DEF Fits, Admits, Asked
<1>18. Heads(todo)'
  <2>1. todo' # <<>> => 1 \in 1 .. Len(todo) - 1
    BY <1>2
  <2>2. todo' # <<>> => 2 \in DOMAIN todo /\ todo'[1] = todo[2]
    BY <1>2, <2>1
  <2>3. todo' # <<>> => todo'[1].w # "leaf"
    BY <1>2, <1>3, <2>2 DEF Ordered, w
  <2> QED BY <2>3 DEF Heads
<1>19. ASSUME NEW s, Closes(todo, s) PROVE Closes(todo, s)'
  <2>1. SUFFICES ASSUME s.phase # "tools", ~Excused(s), Answering
                 PROVE  /\ Has(Answer) => \A k \in DOMAIN entries[Answer].calls :
                             \/ Slot(op, k) \in Elements(leaf')
                             \/ \E l \in DOMAIN todo' : todo'[l] = Leaf(Slot(op, k))
                        /\ \A l \in DOMAIN todo' :
                             todo'[l].w = "append" /\ todo'[l].id = Answer => todo'[l].calls = <<>>
    BY <1>6, <1>9 DEF Closes, Has, OnPath
  <2>2. /\ Has(Answer) => \A k \in DOMAIN entries[Answer].calls :
             OnPath(Slot(op, k)) \/ \E l \in DOMAIN todo : todo[l] = Leaf(Slot(op, k))
        /\ \A l \in DOMAIN todo : todo[l].w = "append" /\ todo[l].id = Answer
                                    => todo[l].calls = <<>>
    BY <1>19, <2>1 DEF Closes
  <2>3. ASSUME NEW l \in DOMAIN todo, NEW k, todo[l] = Leaf(Slot(op, k))
        PROVE  \/ Slot(op, k) \in Elements(leaf')
               \/ \E m \in DOMAIN todo' : todo'[m] = Leaf(Slot(op, k))
    <3>1. CASE l = 1
      BY <1>10, <2>3, <3>1 DEF Leaf, w, id
    <3>2. CASE l # 1
      BY <1>2, <2>3, <3>2
    <3> QED BY <3>1, <3>2
  <2> QED BY <1>10, <1>16, <2>2, <2>3
<1>20. Target' = Target
  <2>1. CASE Len(todo) = 1
    BY <1>1, <1>2, <1>6, <2>1 DEF Target, w
  <2>2. CASE Len(todo) # 1
    <3>1. Len(todo') \in 1 .. Len(todo) - 1 /\ Len(todo') + 1 = Len(todo)
      BY <1>2, <2>2
    <3>2. todo' # <<>> /\ todo'[Len(todo')] = todo[Len(todo)]
      BY <1>2, <2>2, <3>1
    <3> QED BY <1>1, <1>6, <3>2 DEF Target
  <2> QED BY <2>1, <2>2
<1>21. Fits(todo, Target, proc)'
  <2>1. \A j \in DOMAIN todo' : todo'[j].w = "save" =>
          Closes(todo, todo'[j].st) /\ (Excused(todo'[j].st) => proc = "done")
    BY <1>4, <1>16 DEF Fits
  <2>2. \A j \in DOMAIN todo' : todo'[j].w = "save" => Closes(todo, todo[j].st)'
    <3>1. SUFFICES ASSUME NEW j \in DOMAIN todo', todo'[j].w = "save"
                   PROVE  Closes(todo, todo[j].st)'
      OBVIOUS
    <3>2. PICK s : s = todo'[j].st
      OBVIOUS
    <3>3. Closes(todo, s)
      BY <2>1, <3>1, <3>2
    <3>4. Closes(todo, s)'
      BY <1>19, <3>3
    <3> QED BY <3>2, <3>4 DEF Closes, Excused
  <2>3. proc' = "request" => Target'.phase \notin {"tools", "model_pending"}
    BY <1>1, <1>4, <1>20 DEF Fits
  <2> QED BY <1>1, <1>17, <1>18, <2>1, <2>2, <2>3 DEF Fits, Excused
<1> QED BY <1>4, <1>6, <1>14, <1>15, <1>21 DEF PairInv

LEMMA SavePairs ==
    ASSUME OperationInv, TraceInv, PairInv, ~resumed, Write, Head(todo).w = "save",
           TranscriptInv'
    PROVE  PairInv'
<1>1. /\ todo # <<>> /\ todo' = Tail(todo) /\ UNCHANGED proc
  BY DEF Write
<1>2. /\ Len(todo) \in Nat \ {0} /\ DOMAIN todo = 1 .. Len(todo) /\ 1 \in DOMAIN todo
      /\ Head(todo) = todo[1] /\ todo[1].w = "save"
      /\ todo' = <<>> <=> Len(todo) = 1
      /\ \A j \in 1 .. Len(todo) - 1 : todo[j].w # "save"
  BY <1>1, Rest
<1>3. Len(todo) = 1 /\ todo' = <<>> /\ \A k \in DOMAIN todo : todo[k].w = "save"
  <2>1. ~(1 \in 1 .. Len(todo) - 1)
    BY <1>2
  <2>2. Len(todo) = 1
    BY <1>2, <2>1
  <2> QED BY <1>2, <2>2
<1>4. PICK s : s = todo[1].st
  OBVIOUS
<1>5. op' = s /\ state' = s /\ UNCHANGED <<leaf, entries>> /\ Target = s
  BY <1>2, <1>3, <1>4 DEF Write, Target
<1>6. TranscriptInv /\ Follows(todo, s, proc)
  BY <1>2, <1>4 DEF TraceInv, Ordered
<1>7. Balance /\ Within /\ Fits(todo, s, proc) /\ ~Excused(op)
  BY <1>1, <1>5 DEF PairInv
<1>8. Closes(todo, s) /\ (Excused(s) => proc = "done")
  BY <1>2, <1>4, <1>7 DEF Fits
<1>9. Recorded(s) /\ Recorded(op)
  BY <1>5 DEF OperationInv
<1>10. s.rsp \in Nat /\ op.rsp \in Nat
  BY <1>9, StateFields DEF Recorded
<1>11. CallsOnPath' = CallsOnPath /\ ResultsOnPath' = ResultsOnPath
  <2>1. leaf' = leaf /\ \A i \in DOMAIN leaf : entries'[leaf[i]] = entries[leaf[i]]
    BY <1>5
  <2> QED BY <2>1, PathStays
<1>12. Fits(todo, Target, proc)'
  <2>1. Target' = s
    BY <1>3, <1>5 DEF Target
  <2>2. proc' = "request" => s.phase \notin {"tools", "model_pending"}
    BY <1>1, <1>7 DEF Fits
  <2>3. (\A j \in DOMAIN todo : FALSE)'
    BY <1>3
  <2> QED BY <1>3, <2>1, <2>2, <2>3 DEF Fits, Admits, Heads
<1>13. Excused(op)' => (proc = "done" /\ todo = <<>>)'
  BY <1>1, <1>3, <1>5, <1>8 DEF Excused
<1>14. CASE s.phase = "tools"
  <2>1. Answering /\ s.rsp = op.rsp /\ s.attempt = op.attempt
    BY <1>6, <1>14 DEF Follows
  <2>2. /\ Answer' = Answer
        /\ \A k : Slot(op', k) = Slot(op, k)
    BY <1>5, <2>1 DEF Answer, Slot
  <2>3. OnPath(Answer)
    BY <1>5, <1>14, <2>2 DEF TranscriptInv, OnPath
  <2>4. Half(Len(entries[Answer].calls))
    BY <1>7, <2>1, <2>3 DEF Balance
  <2>5. Half(Len(entries[Answer].calls))'
    BY <1>5, <1>11, <2>2, <2>4 DEF Half, OnPath
  <2>6. Answering' /\ OnPath(Answer)'
    BY <1>5, <1>14, <2>2, <2>3 DEF Answering, OnPath
  <2>7. Balance'
    BY <2>5, <2>6 DEF Balance
  <2>8. Within'
    BY <1>5, <1>7, <2>1, <2>2 DEF Within, Has, Asked
  <2> QED BY <1>12, <1>13, <2>7, <2>8 DEF PairInv
<1>15. CASE s.phase # "tools"
  <2>1. ~Excused(s) => Paired
    <3>1. SUFFICES ASSUME ~Excused(s) PROVE Paired
      OBVIOUS
    <3>2. ASSUME Answering, OnPath(Answer), NEW k \in DOMAIN entries[Answer].calls
          PROVE  OnPath(Slot(op, k))
      <4>1. Has(Answer)
        BY <1>6, <3>2, OnPathHas
      <4>2. OnPath(Slot(op, k)) \/ \E l \in DOMAIN todo : todo[l] = Leaf(Slot(op, k))
        BY <1>8, <1>15, <3>1, <3>2, <4>1 DEF Closes
      <4> QED BY <1>3, <4>2 DEF Leaf
    <3> QED BY <1>6, <1>7, <3>2, ClosedPaired
  <2>2. Answering' => op'.phase = "model_pending" /\ s.rsp > op.rsp
    BY <1>5, <1>6, <1>15 DEF Answering, Follows
  <2>3. Answering' => /\ Answer' \notin DOMAIN entries
                      /\ \A k : Slot(op', k) \notin DOMAIN entries
    <3>1. SUFFICES ASSUME s.rsp > op.rsp
                   PROVE  /\ AsstId(s.rsp) \notin DOMAIN entries
                          /\ \A k : Slot(s, k) \notin DOMAIN entries
      BY <1>5, <2>2 DEF Answer
    <3>2. \A id \in DOMAIN entries : id[1] # "note" => id[2] <= op.rsp
      BY <1>6 DEF TranscriptInv
    <3>3. ~(s.rsp <= op.rsp)
      BY <1>10, <3>1
    <3>4. \A k : Slot(s, k)[1] # "note" /\ Slot(s, k)[2] = s.rsp
      BY Names
    <3>5. AsstId(s.rsp)[1] # "note" /\ AsstId(s.rsp)[2] = s.rsp
      BY Names
    <3> QED BY <3>2, <3>3, <3>4, <3>5
  <2>4. Answering' => ~OnPath(Answer)'
    <3>1. \A id : OnPath(id) => Has(id)
      BY <1>6, OnPathHas
    <3> QED BY <1>5, <2>3, <3>1 DEF OnPath, Has
  <2>5. Balance'
    BY <1>5, <1>11, <2>1, <2>4 DEF Balance, Paired, Excused
  <2>6. Within'
    BY <1>5, <2>3 DEF Within, Has
  <2> QED BY <1>12, <1>13, <2>5, <2>6 DEF PairInv
<1> QED BY <1>14, <1>15

LEMMA WritePairs ==
    ASSUME OperationInv, TraceInv, PairInv, ~resumed, Write, TranscriptInv'
    PROVE  PairInv'
<1>1. todo # <<>> /\ todo' = Tail(todo)
  BY DEF Write
<1>2. Head(todo) \in Writes
  BY <1>1, Rest
<1>3. Head(todo).w \in {"append", "leaf", "save"}
  BY <1>2 DEF Writes, Appends, Moves
<1> QED BY <1>3, AppendPairs, LeafPairs, SavePairs

----------------------------------------------------------------------------
(* What a process that is not ended by an error does.                         *)
LEMMA Unexcused ==
    ASSUME PairInv, ~resumed, proc # "done"
    PROVE  ~Excused(op)
BY DEF PairInv

\* Steps outside an answer and its calls.
LEMMA IdlePairs ==
    ASSUME PairInv, ~resumed, ~Excused(op), ~Answering,
           NEW a, Plain(a), Orderly(a), NEW s, NEW pc, Excused(s) => pc = "done",
           pc = "request" => s.phase \notin {"tools", "model_pending"},
           Begins(a \o <<Save(s)>>, pc)
    PROVE  PairInv'
<1>1. Admits(a) /\ Closes(a, s)
  BY DEF Admits, Closes
<1> QED BY <1>1, SavesPairs

LEMMA IdleOnlyPairs ==
    ASSUME PairInv, ~resumed, ~Excused(op), ~Answering,
           NEW s, NEW pc, Excused(s) => pc = "done",
           pc = "request" => s.phase \notin {"tools", "model_pending"},
           Begins(<<Save(s)>>, pc)
    PROVE  PairInv'
<1>1. Closes(<<>>, s)
  BY DEF Closes
<1> QED BY <1>1, SavesOnlyPairs

LEMMA MovesPairs ==
    ASSUME PairInv, ~resumed, ~Excused(op), NEW pc, Begins(<<>>, pc),
           pc = "request" => state.phase \notin {"tools", "model_pending"}
    PROVE  PairInv'
<1> DEFINE ws == <<>>
<1>1. Aim(ws) = state
  BY DEF Aim
<1>2. Fits(ws, Aim(ws), pc)
  BY <1>1, FitsNone
<1>3. todo' = ws /\ proc' = pc /\ UNCHANGED <<op, leaf, entries, state>>
  BY DEF Begins
<1> HIDE DEF ws
<1> QED BY <1>2, <1>3, DecidedPairs

LEMMA FailPairs ==
    ASSUME OperationInv, TraceInv, PairInv, ~resumed, todo = <<>>, proc \in Living,
           NEW code, code # "runtime_interrupted", Fail(code)
    PROVE  PairInv'
<1> DEFINE r  == Failed(state, code)
           pc == "done"
<1>1. state = op /\ op \in States /\ ~Excused(op)
  BY Found, Unexcused DEF Living
<1>2. r.phase = "failed" /\ r.code = code
  BY <1>1 DEF Failed, States
<1>3. Begins(<<Save(r)>>, pc) /\ pc = "done"
  BY DEF Fail, Do, Go, Begins
<1> HIDE DEF r, pc
<1>4. Excused(r) /\ Closes(<<>>, r)
  BY <1>2 DEF Excused, Closes
<1> QED BY <1>1, <1>3, <1>4, SavesOnlyPairs

LEMMA LoopPairs ==
    ASSUME OperationInv, TraceInv, PairInv, ~resumed, Loop
    PROVE  PairInv'
<1>1. todo = <<>> /\ proc \in Living /\ proc # "model" /\ proc # "done"
  BY DEF Loop, GuardContinue, GuardExtend, GuardFinalize, GuardStop, AskAgain, LimitExceeded,
         RequestModel, At, Living
<1>2. state = op /\ op \in States /\ op.phase # "model_pending" /\ ~Excused(op)
  BY <1>1, Found, Unexcused
<1>3. op.phase # "tools"
  <2>1. CASE RequestModel
    <3>1. Target = state /\ proc = "request"
      BY <1>1, <2>1 DEF RequestModel, At, Target
    <3> QED BY <1>2, <3>1 DEF PairInv, Fits
  <2>2. CASE ~RequestModel
    BY <1>2, <2>2 DEF Loop, GuardContinue, GuardExtend, GuardFinalize, GuardStop, AskAgain,
                      LimitExceeded
  <2> QED BY <2>1, <2>2
<1>4. ~Answering /\ state.phase \notin {"tools", "model_pending"}
  BY <1>2, <1>3 DEF Answering
<1>5. Plain(Note) /\ Orderly(Note)
  BY <1>1, NoteOrderly
<1>6. CASE GuardContinue \/ AskAgain
  <2> DEFINE pc == "request"
  <2>1. Begins(<<>>, pc)
    BY <1>6 DEF GuardContinue, AskAgain, Do, Go, Begins
  <2> HIDE DEF pc
  <2> QED BY <1>2, <1>4, <2>1, MovesPairs
<1>7. CASE GuardExtend
  <2> DEFINE r  == ExtendLimit(state)
             pc == "request"
  <2>1. Begins(<<Save(r)>>, pc)
    BY <1>7 DEF GuardExtend, Go, Begins
  <2>2. r.phase = op.phase /\ op.phase # "failed"
    BY <1>2, <1>7, Reduced DEF GuardExtend
  <2>3. ~Excused(r) /\ r.phase \notin {"tools", "model_pending"}
    BY <1>2, <1>4, <2>2 DEF Excused
  <2> HIDE DEF r, pc
  <2> QED BY <1>2, <1>4, <2>1, <2>3, IdleOnlyPairs
<1>8. CASE GuardFinalize
  <2> DEFINE r  == EnterFinalResponse(state)
             pc == "request"
  <2>1. Begins(Note \o <<Save(r)>>, pc)
    BY <1>8 DEF GuardFinalize, Do, Go, Begins
  <2>2. r.phase = "final_response"
    BY <1>2, Reduced
  <2>3. ~Excused(r) /\ r.phase \notin {"tools", "model_pending"}
    BY <2>2 DEF Excused
  <2> HIDE DEF r, pc
  <2> QED BY <1>2, <1>4, <1>5, <2>1, <2>3, IdlePairs
<1>9. CASE GuardStop \/ LimitExceeded
  <2>1. CASE Fail("exceeded")
    <3> DEFINE code == "exceeded"
    <3>1. Fail(code) /\ code # "runtime_interrupted"
      BY <2>1
    <3> HIDE DEF code
    <3> QED BY <1>1, <3>1, FailPairs
  <2>2. CASE Do(<<Save(Completed(state))>>, "done")
    <3> DEFINE r  == Completed(state)
               pc == "done"
    <3>1. Begins(<<Save(r)>>, pc) /\ pc # "request"
      BY <2>2 DEF Do, Go, Begins
    <3>2. r.phase = "completed"
      BY <1>2, Reduced
    <3>3. ~Excused(r)
      BY <3>2 DEF Excused
    <3> HIDE DEF r, pc
    <3> QED BY <1>2, <1>4, <3>1, <3>3, IdleOnlyPairs
  <2> QED BY <1>9, <2>1, <2>2 DEF GuardStop, LimitExceeded
<1>10. CASE RequestModel
  <2> DEFINE r  == BeginModelRequest(state)
             pc == "model"
  <2>1. (Begins(<<Save(r)>>, pc) \/ Begins(Note \o <<Save(r)>>, pc)) /\ pc # "request"
    BY <1>10 DEF RequestModel, Do, Go, Begins, Context
  <2>2. r.phase = "model_pending"
    BY <1>2, Reduced
  <2>3. ~Excused(r)
    BY <2>2 DEF Excused
  <2> HIDE DEF r, pc
  <2> QED BY <1>2, <1>4, <1>5, <2>1, <2>3, IdlePairs, IdleOnlyPairs
<1> QED BY <1>6, <1>7, <1>8, <1>9, <1>10 DEF Loop

(* What a message, alone or with a note, appends.                             *)
LEMMA MessageAppends ==
    ASSUME NEW id, NEW calls, NEW code,
           NEW a, a = Message(id, calls, code) \/ a = Message(id, calls, code) \o Note,
           Plain(a), Plain(Message(id, calls, code)), Plain(Note)
    PROVE  \A j \in DOMAIN a : a[j].w = "append" =>
             a[j].id[1] = "note" \/ (a[j].id = id /\ a[j].calls = calls)
<1> DEFINE m == Message(id, calls, code)
<1>1. /\ DOMAIN m = 1 .. 2 /\ Len(m) = 2
      /\ m[1].id = id /\ m[1].calls = calls /\ m[2].w = "leaf"
  BY DEF Message, Entry, Leaf
<1>2. /\ DOMAIN Note = 1 .. 2 /\ Len(Note) = 2
      /\ Note[1].id[1] = "note" /\ Note[2].w = "leaf"
  BY Names DEF Note, Message, Entry, Leaf
<1>3. m \in Seq(Appends \cup Moves) /\ Note \in Seq(Appends \cup Moves)
  BY DEF Plain
<1> HIDE DEF m
<1>4. CASE a = m
  <2>1. \A j \in DOMAIN m : j = 1 \/ j = 2
    BY <1>1
  <2> QED BY <1>1, <1>4, <2>1
<1>5. CASE a = m \o Note
  <2> DEFINE S == Appends \cup Moves
  <2>1. m \in Seq(S) /\ Note \in Seq(S)
    BY <1>3
  <2> HIDE DEF S
  <2>2. /\ DOMAIN a = 1 .. 4 /\ a[1] = m[1] /\ a[2] = m[2] /\ a[3] = Note[1] /\ a[4] = Note[2]
    BY <1>1, <1>2, <1>5, <2>1, TwoPairs
  <2>3. \A j \in DOMAIN a : j = 1 \/ j = 2 \/ j = 3 \/ j = 4
    BY <2>2
  <2> QED BY <1>1, <1>2, <2>2, <2>3
<1> QED BY <1>4, <1>5 DEF m

LEMMA ModelPairs ==
    ASSUME OperationInv, TraceInv, PairInv, ~resumed, ModelStep
    PROVE  PairInv'
<1>1. todo = <<>> /\ proc \in Living /\ proc = "model" /\ proc # "done"
  BY DEF ModelStep, ModelText, ModelCutOff, ModelToolOutputLimit, ModelError,
         ModelCallsDropped, ModelCallsRefused, ModelCalls, At, Living
<1>2. /\ state = op /\ op \in States /\ op.phase = "model_pending" /\ ~Has(Answer)
      /\ ~Has(NoteId(notes)) /\ ~Excused(op) /\ op.rsp \in Nat /\ op.attempt \in Nat
  BY <1>1, Found, StateFields, Unexcused
<1>3. Plain(Note) /\ Orderly(Note) /\ Plain(Assistant(<<>>))
      /\ \A n \in Nat : Plain(Assistant(NewCalls(n)))
  <2>1. 0 \in Nat
    OBVIOUS
  <2> QED BY <1>1, <1>2, <2>1, NoteOrderly, PlainAssistant
<1>4. ASSUME NEW calls, Numbered(calls), Plain(Assistant(calls)),
             NEW a, a = Assistant(calls) \/ a = Assistant(calls) \o Note,
             NEW s, NEW pc, Begins(a \o <<Save(s)>>, pc), pc # "request",
             Excused(s) => pc = "done",
             calls = <<>> \/ s.phase = "tools" \/ Excused(s)
      PROVE  PairInv'
  <2> DEFINE code == "none"
             id   == Answer
  <2>1. Assistant(calls) = Message(id, calls, code)
    BY <1>2 DEF Assistant, Answer
  <2>2. ~Has(id) /\ Due(id, calls) /\ id # NoteId(notes)
    BY <1>2, <1>4, Names DEF Due
  <2> HIDE DEF code, id
  <2>3. Plain(a) /\ Orderly(a)
    BY <1>2, <1>3, <1>4, <2>1, <2>2, PlainConcat, OrderlyMessage, OrderlyTwo
  <2>4. \A j \in DOMAIN a : a[j].w = "append" =>
          a[j].id[1] = "note" \/ (a[j].id = Answer /\ a[j].calls = calls)
    <3>1. /\ a = Message(id, calls, code) \/ a = Message(id, calls, code) \o Note
          /\ Plain(a) /\ Plain(Message(id, calls, code)) /\ Plain(Note)
      BY <1>3, <1>4, <2>1, <2>3
    <3>2. \A j \in DOMAIN a : a[j].w = "append" =>
            a[j].id[1] = "note" \/ (a[j].id = id /\ a[j].calls = calls)
      BY <3>1, MessageAppends
    <3> QED BY <3>2 DEF id
  <2>5. Admits(a)
    <3>1. \A k : Slot(op, k)[1] # "note" /\ Slot(op, k) # Answer
      BY Names, SlotNames
    <3> QED BY <2>4, <3>1 DEF Admits
  <2>6. Closes(a, s)
    <3>1. Answer[1] # "note"
      BY Names
    <3> QED BY <1>2, <1>4, <2>4, <3>1 DEF Closes
  <2> QED BY <1>2, <1>4, <2>3, <2>5, <2>6, SavesPairs
<1> DEFINE none == <<>>
<1>5. Numbered(none) /\ Plain(Assistant(none)) /\ none = <<>>
      /\ \A n \in Nat : Numbered(NewCalls(n))
  BY <1>2, <1>3 DEF Numbered, NewCalls
<1> HIDE DEF none
<1>6. CASE ModelText \/ ModelCutOff \/ ModelCallsDropped
  <2>1. PICK a, s, pc :
          /\ a = Assistant(none) \/ a = Assistant(none) \o Note
          /\ s.phase # "failed" /\ pc # "request" /\ Begins(a \o <<Save(s)>>, pc)
    <3>1. CASE ModelText
      <4> WITNESS Assistant(none), Completed(state), "done"
      <4> QED BY <1>2, <1>5, <3>1, Reduced DEF ModelText, Do, Go, Begins
    <3>2. CASE ModelCutOff
      <4> WITNESS Assistant(none) \o Note, ContinueOutput(state, state.final), "top"
      <4>1. ContinueOutput(state, state.final).phase # "failed"
        BY <1>2, Reduced
      <4>2. Begins(Assistant(none) \o Note \o <<Save(ContinueOutput(state, state.final))>>, "top")
        BY <1>5, <3>2 DEF ModelCutOff, Do, Go, Begins
      <4> QED BY <4>1, <4>2
    <3>3. CASE ModelCallsDropped
      <4> WITNESS Assistant(none) \o Note, EnterFinalResponseAfterModel(state), "top"
      <4> QED BY <1>2, <1>5, <3>3, Reduced DEF ModelCallsDropped, Assistant, Go, Begins
    <3> QED BY <1>6, <3>1, <3>2, <3>3
  <2>2. ~Excused(s)
    BY <2>1 DEF Excused
  <2> QED BY <1>4, <1>5, <2>1, <2>2
<1>7. CASE ModelToolOutputLimit
  <2> DEFINE final == FALSE
             s  == ContinueOutput(state, final)
             pc == "top"
  <2>1. Begins(Note \o <<Save(s)>>, pc) /\ pc # "request"
    BY <1>7 DEF ModelToolOutputLimit, Go, Begins
  <2> HIDE DEF final
  <2>2. s.phase # "failed"
    BY <1>2, Reduced
  <2> HIDE DEF s, pc
  <2>3. \A j \in DOMAIN Note : Note[j].w = "append" => Note[j].id[1] = "note"
    BY <1>1, NoteOrderly
  <2>4. Answer[1] # "note" /\ \A k : Slot(op, k)[1] # "note"
    BY Names
  <2>5. Admits(Note) /\ Closes(Note, s)
    BY <1>2, <2>3, <2>4 DEF Admits, Closes
  <2>6. ~Excused(s)
    BY <2>2 DEF Excused
  <2> QED BY <1>2, <1>3, <2>1, <2>5, <2>6, SavesPairs
<1>8. CASE ModelError
  <2> DEFINE code == "provider_error"
  <2>1. Fail(code) /\ code # "runtime_interrupted"
    BY <1>8 DEF ModelError
  <2> HIDE DEF code
  <2> QED BY <1>1, <2>1, FailPairs
<1>9. CASE ModelCallsRefused
  <2>1. PICK n \in Batches :
          Do(Assistant(NewCalls(n)) \o <<Save(Failed(state, "no_progress"))>>, "done")
    BY <1>9 DEF ModelCallsRefused
  <2> DEFINE s  == Failed(state, "no_progress")
             pc == "done"
             calls == NewCalls(n)
  <2>2. Begins(Assistant(calls) \o <<Save(s)>>, pc) /\ pc = "done" /\ pc # "request"
    BY <2>1 DEF Do, Go, Begins
  <2>3. s.phase = "failed" /\ s.code = "no_progress"
    BY <1>2 DEF Failed, States
  <2>4. n \in Nat
    BY DEF Batches
  <2>5. Numbered(calls) /\ Plain(Assistant(calls))
    BY <1>3, <1>5, <2>4
  <2> HIDE DEF s, pc, calls
  <2>6. Excused(s)
    BY <2>3 DEF Excused
  <2> QED BY <1>4, <2>2, <2>5, <2>6
<1>10. CASE ModelCalls
  <2>1. PICK n \in Batches : \E replay \in [1 .. n -> {"safe", "never"}] :
          Do(Assistant(NewCalls(n))
               \o <<Save(PlanToolCalls(state, NewCalls(n), replay))>>, "top")
    BY <1>10 DEF ModelCalls
  <2>2. PICK replay \in [1 .. n -> {"safe", "never"}] :
          Do(Assistant(NewCalls(n))
               \o <<Save(PlanToolCalls(state, NewCalls(n), replay))>>, "top")
    BY <2>1
  <2> DEFINE calls == NewCalls(n)
             s  == PlanToolCalls(state, calls, replay)
             pc == "top"
  <2>3. Begins(Assistant(calls) \o <<Save(s)>>, pc) /\ pc # "request"
    BY <2>2 DEF Do, Go, Begins
  <2>4. n \in Nat
    BY DEF Batches
  <2>5. Numbered(calls) /\ Plain(Assistant(calls))
    BY <1>3, <1>5, <2>4
  <2> HIDE DEF calls
  <2>6. s.phase = "tools"
    BY <1>2 DEF PlanToolCalls, States
  <2> HIDE DEF s, pc
  <2>7. ~Excused(s)
    BY <2>6 DEF Excused
  <2> QED BY <1>4, <2>3, <2>5, <2>6, <2>7
<1> QED BY <1>6, <1>7, <1>8, <1>9, <1>10 DEF ModelStep

(* While the calls of an answer go on, only results of these calls are added. *)
LEMMA CallPairs ==
    ASSUME OperationInv, TraceInv, PairInv, ~resumed, todo = <<>>, proc \in Living,
           op.phase = "tools", NEW perm, NEW status,
           NEW a, Plain(a), Orderly(a),
           \A x : Comes(a, x) => x = Slot(op, op.cur) \/ x[1] = "note",
           NEW pc, pc # "request",
           Begins(a \o <<Save(SetCurrent(state, perm, status))>>, pc)
    PROVE  PairInv'
<1> DEFINE r == SetCurrent(state, perm, status)
<1>1. state = op /\ op \in States /\ TranscriptInv /\ ~Excused(op)
  BY Found, Unexcused DEF Living
<1>2. r.phase = "tools"
  BY <1>1 DEF SetCurrent, States
<1> HIDE DEF r
<1>3. Closes(a, r) /\ ~Excused(r)
  BY <1>2 DEF Closes, Excused
<1>4. op.cur \in DOMAIN op.calls /\ DOMAIN op.calls = 1 .. Len(op.calls)
      /\ Len(entries[Answer].calls) = Len(op.calls)
  BY <1>1, StateFields DEF TranscriptInv
<1>5. Admits(a)
  <2>1. SUFFICES ASSUME NEW j \in DOMAIN a, NEW k \in Nat \ {0},
                        a[j].w = "append", a[j].id = Slot(op, k)
                 PROVE  Asked(k)
    BY DEF Admits
  <2>2. Comes(a, Slot(op, k))
    BY <2>1 DEF Comes
  <2>3. k = op.cur
    BY <2>2, Names
  <2> QED BY <1>4, <2>3 DEF Asked
<1> QED BY <1>1, <1>3, <1>5, SavesPairs DEF r

LEMMA CallOnlyPairs ==
    ASSUME OperationInv, TraceInv, PairInv, ~resumed, todo = <<>>, proc \in Living,
           op.phase = "tools", NEW perm, NEW status, NEW pc, pc # "request",
           Begins(<<Save(SetCurrent(state, perm, status))>>, pc)
    PROVE  PairInv'
<1> DEFINE r == SetCurrent(state, perm, status)
<1>1. state = op /\ op \in States /\ ~Excused(op)
  BY Found, Unexcused DEF Living
<1>2. r.phase = "tools"
  BY <1>1 DEF SetCurrent, States
<1> HIDE DEF r
<1>3. Closes(<<>>, r) /\ ~Excused(r)
  BY <1>2 DEF Closes, Excused
<1> QED BY <1>1, <1>3, SavesOnlyPairs DEF r

LEMMA ToolPairs ==
    ASSUME OperationInv, TraceInv, PairInv, ~resumed, ToolStep \/ Approval
    PROVE  PairInv'
<1>1. /\ todo = <<>> /\ proc \in Living /\ proc # "done"
      /\ proc \in {"approval", "executed"} \/ state.phase = "tools"
  BY DEF ToolStep, Approval, GateRefuses, GateAllows, GateAsks, GateFails, PrepareTool,
         SynthesizeInterrupted, ReuseResult, ReplayRefused, ReplayAllowed, ExecuteTool,
         RecordResult, AdvanceToolStep, UserApproves, UserDenies, ApprovalFails,
         ToolTop, Executes, At, Living
<1>2. /\ state = op /\ op \in States /\ uncertain = {} /\ TranscriptInv /\ op.phase = "tools"
      /\ op.cur \in DOMAIN op.calls /\ Placed(op, proc) /\ ~Excused(op)
      /\ \A i \in DOMAIN op.calls : ResId(op.calls[i].id) = Slot(op, i) /\ i \in Nat \ {0}
      /\ \A i \in DOMAIN op.calls :
           /\ i < op.cur => op.calls[i].status = "completed"
           /\ op.calls[i].status # "completed" => ~Has(Slot(op, i))
  <2>1. /\ state = op /\ op \in States /\ uncertain = {} /\ TranscriptInv
        /\ \A i \in DOMAIN op.calls : ResId(op.calls[i].id) = Slot(op, i) /\ i \in Nat \ {0}
        /\ op.phase = "tools" =>
             \A i \in DOMAIN op.calls :
               /\ i < op.cur => op.calls[i].status = "completed"
               /\ op.calls[i].status # "completed" => ~Has(Slot(op, i))
    BY <1>1, Found
  <2>2. Placed(op, proc)
    BY <1>1, <2>1, Deciding
  <2>3. op.phase = "tools"
    BY <1>1, <2>1, <2>2 DEF Placed
  <2> QED BY <1>1, <2>1, <2>2, <2>3, StateFields, Unexcused
<1>3. Current(state) = op.calls[op.cur] /\ Call = Current(state)
  BY <1>2 DEF Current, Call
<1>4. CASE GateRefuses \/ UserDenies
  <2> DEFINE pc     == "top"
             perm   == "denied"
             status == "completed"
             code   == "denied"
             a      == Result(Call.id, code)
  <2>1. /\ Begins(a \o <<Save(SetCurrent(state, perm, status))>>, pc)
        /\ proc = "approval" \/ Call.status = "planned"
        /\ pc # "request" /\ code \in EntryCodes /\ code # "before_execution"
    BY <1>4 DEF GateRefuses, UserDenies, Refused, Do, Go, Begins, SettleToolWithoutEffect,
                At, ToolTop, Call, EntryCodes
  <2>2. op.calls[op.cur].status # "completed"
    BY <1>2, <1>3, <2>1 DEF Placed
  <2> HIDE DEF code
  <2>3. /\ Plain(a) /\ Orderly(a)
        /\ \A x : Comes(a, x) => x = Slot(op, op.cur) \/ x[1] = "note"
    BY <1>1, <1>2, <2>1, <2>2, ResultOrderly
  <2> HIDE DEF pc, perm, status, a
  <2> QED BY <1>1, <1>2, <2>1, <2>3, CallPairs
<1>5. CASE GateAllows \/ UserApproves
  <2> DEFINE pc     == "top"
             perm   == "allowed"
             status == "planned"
  <2>1. Begins(<<Save(SetCurrent(state, perm, status))>>, pc)
    BY <1>5 DEF GateAllows, UserApproves, Do, Go, Begins, ResolveToolPermission
  <2>2. pc # "request"
    OBVIOUS
  <2> HIDE DEF pc, perm, status
  <2> QED BY <1>1, <1>2, <2>1, <2>2, CallOnlyPairs
<1>6. CASE GateAsks
  <2> DEFINE pc     == "approval"
             perm   == "pending"
             status == "planned"
  <2>1. Begins(<<Save(SetCurrent(state, perm, status))>>, pc)
    BY <1>6 DEF GateAsks, Do, Go, Begins, ResolveToolPermission
  <2>2. pc # "request"
    OBVIOUS
  <2> HIDE DEF pc, perm, status
  <2> QED BY <1>1, <1>2, <2>1, <2>2, CallOnlyPairs
<1>7. CASE PrepareTool
  <2> DEFINE pc     == "top"
             perm   == Current(state).perm
             status == "effect_pending"
  <2>1. Begins(<<Save(SetCurrent(state, perm, status))>>, pc)
    BY <1>7 DEF PrepareTool, Do, Go, Begins, PrepareToolEffect
  <2>2. pc # "request"
    OBVIOUS
  <2> HIDE DEF pc, perm, status
  <2> QED BY <1>1, <1>2, <2>1, <2>2, CallOnlyPairs
<1>8. CASE GateFails \/ ApprovalFails
  <2>1. PICK code : Fail(code) /\ code # "runtime_interrupted"
    BY <1>8 DEF GateFails, ApprovalFails
  <2> QED BY <1>1, <2>1, FailPairs
<1>9. CASE SynthesizeInterrupted \/ ReplayRefused \/ ReplayAllowed
  BY <1>2, <1>9 DEF SynthesizeInterrupted, ReplayRefused, ReplayAllowed, Recovering
<1>10. CASE ReuseResult
  <2>1. Call.status = "effect_pending" /\ Has(ResId(Call.id))
    BY <1>10 DEF ReuseResult, Executes, ToolTop, Call
  <2> QED BY <1>2, <1>3, <2>1
<1>11. CASE ExecuteTool
  <2> DEFINE ws == <<>>
             pc == "executed"
  <2>1. todo' = ws /\ proc' = pc /\ UNCHANGED <<op, leaf, entries, state>>
    BY <1>1, <1>11 DEF ExecuteTool
  <2>2. Fits(ws, Aim(ws), pc)
    BY FitsNone
  <2> HIDE DEF ws, pc
  <2> QED BY <1>2, <2>1, <2>2, DecidedPairs
<1>12. CASE RecordResult
  <2> DEFINE pc     == "top"
             perm   == Current(state).perm
             status == "completed"
             code   == "done"
  <2>1. PICK a : /\ a = Result(Call.id, code) \/ a = Result(Call.id, code) \o Note
                 /\ Begins(a \o <<Save(SetCurrent(state, perm, status))>>, pc)
    <3>1. CASE Do(Result(Call.id, "done") \o <<Save(SettleToolEffect(state))>>, "top")
      <4> WITNESS Result(Call.id, code)
      <4> QED BY <3>1 DEF Do, Go, Begins, SettleToolEffect
    <3>2. CASE Go(Result(Call.id, "done") \o Note \o <<Save(SettleToolEffect(state))>>, "top", 1)
      <4> WITNESS Result(Call.id, code) \o Note
      <4> QED BY <3>2 DEF Go, Begins, SettleToolEffect
    <3> QED BY <1>12, <3>1, <3>2 DEF RecordResult
  <2>2. code \in EntryCodes /\ code # "before_execution" /\ pc # "request"
    BY DEF EntryCodes
  <2>3. op.calls[op.cur].status # "completed"
    BY <1>2, <1>3, <1>12 DEF RecordResult, At, Placed
  <2> HIDE DEF code
  <2>4. /\ Plain(a) /\ Orderly(a)
        /\ \A x : Comes(a, x) => x = Slot(op, op.cur) \/ x[1] = "note"
    BY <1>1, <1>2, <2>1, <2>2, <2>3, ResultOrderly
  <2> HIDE DEF pc, perm, status
  <2> QED BY <1>1, <1>2, <2>1, <2>2, <2>4, CallPairs
<1>13. CASE AdvanceToolStep
  <2> DEFINE r  == AdvanceTool(state)
             pc == "top"
  <2>1. Begins(<<Save(r)>>, pc) /\ pc # "request" /\ Call.status = "completed"
    BY <1>13 DEF AdvanceToolStep, Do, Go, Begins, ToolTop, Call
  <2>2. \/ r.phase = "tools"
        \/ r.phase = "checkpoint" /\ ~(op.cur < Len(op.calls))
    BY <1>2 DEF AdvanceTool, States
  <2> HIDE DEF r, pc
  <2>3. ~Excused(r)
    BY <2>2 DEF Excused
  <2>4. Closes(<<>>, r)
    <3>1. CASE r.phase = "tools"
      BY <3>1 DEF Closes
    <3>2. CASE ~(op.cur < Len(op.calls))
      <4>1. /\ entries[Answer].calls \in Seq(CallIds)
            /\ Len(entries[Answer].calls) = Len(op.calls)
            /\ DOMAIN op.calls = 1 .. Len(op.calls)
        <5>1. Has(Answer)
          BY <1>2, OnPathHas DEF TranscriptInv
        <5> QED BY <1>2, <5>1, StateFields
                DEF TranscriptInv, OperationInv, EntriesInv, EntryRecords, Has
      <4>2. DOMAIN entries[Answer].calls = DOMAIN op.calls
        BY <4>1
      <4>3. \A k \in DOMAIN op.calls : k < op.cur \/ k = op.cur
        BY <1>2, <3>2, <4>1, StateFields
      <4>4. \A k \in DOMAIN op.calls : op.calls[k].status = "completed"
        BY <1>2, <1>3, <2>1, <4>3
      <4>5. \A k \in DOMAIN op.calls : OnPath(Slot(op, k))
        BY <1>2, <4>4 DEF TranscriptInv
      <4> QED BY <4>2, <4>5 DEF Closes
    <3> QED BY <2>2, <3>1, <3>2
  <2> QED BY <1>2, <2>1, <2>3, <2>4, SavesOnlyPairs
<1> QED BY <1>4, <1>5, <1>6, <1>7, <1>8, <1>9, <1>10, <1>11, <1>12, <1>13
        DEF ToolStep, Approval

(* A cancel settles every open call.                                          *)
LEMMA AbortPairs ==
    ASSUME OperationInv, TraceInv, PairInv, ~resumed, todo = <<>>, proc \in Living, AbortNow
    PROVE  PairInv'
<1> DEFINE r  == Aborted(state)
           a  == Interrupted(op)
           pc == "done"
<1>1. state = op /\ op \in States /\ TranscriptInv /\ ~Excused(op)
      /\ (op.phase = "model_pending" => ~Has(Answer))
  BY Found, Unexcused DEF Living
<1>2. Begins(a \o <<Save(r)>>, pc) /\ pc # "request" /\ r.phase = "aborted"
  BY <1>1, Reduced DEF AbortNow, Do, Go, Begins
<1>3. Plain(a) /\ Orderly(a)
  BY <1>1, Deciding, OrderlyInterrupted
<1> HIDE DEF r, a, pc
<1>4. ~Excused(r)
  BY <1>2 DEF Excused
<1>5. Admits(a) /\ Closes(a, r)
  <2>1. CASE op.phase # "tools"
    <3>1. a = <<>>
      BY <2>1 DEF a, Interrupted
    <3> QED BY <1>1, <2>1, <3>1 DEF Admits, Closes, Answering
  <2>2. CASE op.phase = "tools"
    <3>1. PICK N : N = Cardinality(Unsettled(op))
      OBVIOUS
    <3>2. /\ N \in Nat /\ DOMAIN a = 1 .. 2 * N
          /\ \A n \in 1 .. 2 * N :
               /\ Nth(n) \in DOMAIN op.calls
               /\ a[n] = IF n % 2 = 1 THEN Entry(Slot(op, Nth(n)), <<>>, "cancelled")
                                      ELSE Leaf(Slot(op, Nth(n)))
      BY <2>2, <3>1, InterruptedIs DEF a
    <3>3. /\ DOMAIN entries[Answer].calls = DOMAIN op.calls
          /\ \A k \in DOMAIN op.calls : Asked(k)
      <4>1. Has(Answer)
        BY <1>1, <2>2, OnPathHas DEF TranscriptInv
      <4>2. entries[Answer].calls \in Seq(CallIds)
        BY <4>1 DEF OperationInv, EntriesInv, EntryRecords, Has
      <4>3. Len(entries[Answer].calls) = Len(op.calls) /\ DOMAIN op.calls = 1 .. Len(op.calls)
        BY <1>1, <2>2, StateFields DEF TranscriptInv
      <4> QED BY <4>2, <4>3 DEF Asked
    <3>4. ASSUME NEW j \in DOMAIN a, a[j].w = "append"
          PROVE  a[j].id = Slot(op, Nth(j)) /\ Nth(j) \in DOMAIN op.calls
      BY <3>2, <3>4 DEF Entry, Leaf
    <3>5. Admits(a)
      <4>1. SUFFICES ASSUME NEW j \in DOMAIN a, NEW k \in Nat \ {0},
                            a[j].w = "append", a[j].id = Slot(op, k)
                     PROVE  Asked(k)
        BY DEF Admits
      <4>2. k = Nth(j)
        BY <3>4, <4>1, Names
      <4> QED BY <3>3, <3>4, <4>1, <4>2
    <3>6. ASSUME NEW k \in DOMAIN op.calls
          PROVE  OnPath(Slot(op, k)) \/ \E l \in DOMAIN a : a[l] = Leaf(Slot(op, k))
      <4>1. CASE op.calls[k].status = "completed"
        BY <1>1, <2>2, <4>1 DEF TranscriptInv
      <4>2. CASE op.calls[k].status # "completed"
        <5>1. k \in Unsettled(op)
          BY <4>2 DEF Unsettled
        <5>2. PICK m \in 1 .. N : OpenAt(op, m) = k
          BY <1>1, <3>1, <5>1, OpenPlaces
        <5>3. 2 * m \in 1 .. 2 * N /\ (2 * m) % 2 # 1 /\ (2 * m + 1) \div 2 = m
          BY <3>2
        <5>4. Nth(2 * m) = k
          BY <5>2, <5>3 DEF Nth
        <5>5. a[2 * m] = Leaf(Slot(op, k))
          BY <3>2, <5>3, <5>4
        <5> QED BY <3>2, <5>3, <5>5
      <4> QED BY <4>1, <4>2
    <3>7. Closes(a, r)
      BY <3>3, <3>4, <3>6, SlotNames DEF Closes
    <3> QED BY <3>5, <3>7
  <2> QED BY <2>1, <2>2
<1> QED BY <1>1, <1>2, <1>3, <1>4, <1>5, SavesPairs

LEMMA RestartPairs ==
    ASSUME OperationInv, TraceInv, PairInv, ~resumed, ~resumed', Crash \/ StartRecovery \/ Resume
    PROVE  PairInv'
<1> DEFINE ws == <<>>
<1>1. state = op /\ ~Excused(op)
  BY DEF TraceInv, PairInv, Excused, Terminal, Crash, StartRecovery, Resume
<1>2. PICK pc : pc \in {"down", "recover"} /\ todo' = ws /\ proc' = pc
                /\ UNCHANGED <<op, leaf, entries, state>>
  BY <1>1 DEF Crash, StartRecovery, Resume, OperationInv
<1>3. Fits(ws, Aim(ws), pc)
  BY <1>2, FitsNone
<1> HIDE DEF ws
<1> QED BY <1>1, <1>2, <1>3, DecidedPairs

(* A recovery ends the operation when every call has its result.              *)
LEMMA RecoveryPairs ==
    ASSUME OperationInv, TraceInv, PairInv, ~resumed, Recovery
    PROVE  PairInv'
<1> DEFINE n == Next1
<1>1. proc = "recover" /\ todo = <<>> /\ ~Excused(op)
  BY Unexcused DEF Recovery, RecoverConnect, RecoverAppend, RecoverFinish, RecoverConflict, At
<1>2. op \in States
  BY DEF OperationInv, Recorded
<1>3. CASE RecoverFinish
  <2> DEFINE s  == Failed(op, "runtime_interrupted")
             pc == "done"
  <2>1. Begins(<<Save(s)>>, pc) /\ pc # "request" /\ Missing = {}
    BY <1>3 DEF RecoverFinish, Do, Go, Begins
  <2>2. s.code = "runtime_interrupted"
    BY <1>2 DEF Failed, States
  <2> HIDE DEF s, pc
  <2>3. ~Excused(s)
    BY <2>2 DEF Excused
  <2>4. ASSUME Answering, Has(Answer), NEW k \in DOMAIN entries[Answer].calls
        PROVE  OnPath(Slot(op, k))
    <3>1. Assistants # {}
      BY <2>4 DEF Assistants, Answering, Answer
    <3>2. /\ RecoveredCalls = entries[Answer].calls
          /\ Len(RecoveredCalls) \in Nat
          /\ DOMAIN RecoveredCalls = 1 .. Len(RecoveredCalls)
          /\ DOMAIN Expected = 1 .. Len(RecoveredCalls) + 1
          /\ \A m \in 2 .. Len(RecoveredCalls) + 1 : Expected[m] = Slot(op, m - 1)
      BY <3>1, Looks
    <3>3. k + 1 \in 2 .. Len(RecoveredCalls) + 1 /\ k + 1 \in DOMAIN Expected /\ (k + 1) - 1 = k
      BY <2>4, <3>2
    <3>4. Expected[k + 1] = Slot(op, k)
      BY <3>2, <3>3
    <3>5. OnPath(Expected[k + 1])
      BY <2>1, <3>3 DEF Missing
    <3> QED BY <3>4, <3>5
  <2>5. Closes(<<>>, s)
    BY <2>4 DEF Closes
  <2> QED BY <1>1, <2>1, <2>3, <2>5, SavesOnlyPairs
<1>4. CASE RecoverConflict
  <2> DEFINE pc == "blocked"
  <2>1. Begins(<<>>, pc) /\ pc # "request"
    BY <1>4 DEF RecoverConflict, Do, Go, Begins
  <2> HIDE DEF pc
  <2> QED BY <1>1, <2>1, MovesPairs
<1>5. CASE RecoverConnect \/ RecoverAppend
  <2>1. Missing # {} /\ Assistants # {}
    <3>1. Missing # {}
      BY <1>5 DEF RecoverConnect, RecoverAppend
    <3> QED BY <3>1, Looks DEF Missing
  <2>2. /\ n \in Missing
        /\ Answering /\ Has(Answer) /\ RecoveredCalls = entries[Answer].calls
        /\ Len(RecoveredCalls) \in Nat /\ DOMAIN RecoveredCalls = 1 .. Len(RecoveredCalls)
        /\ Numbered(RecoveredCalls)
        /\ DOMAIN Expected = 1 .. Len(RecoveredCalls) + 1
        /\ Expected[1] = Answer
        /\ \A m \in 2 .. Len(RecoveredCalls) + 1 :
             Expected[m] = Slot(op, m - 1) /\ m - 1 \in Nat \ {0} /\ m - 1 \in DOMAIN RecoveredCalls
    BY <2>1, Looks
  <2>3. ~OnPath(Expected[n]) /\ (n = 1 \/ n \in 2 .. Len(RecoveredCalls) + 1)
    BY <2>2 DEF Missing
  <2>4. CASE RecoverConnect
    <3> DEFINE id == Expected[n]
               ws == <<Leaf(id)>>
               pc == "recover"
    <3>1. todo' = ws /\ proc' = pc /\ UNCHANGED <<op, leaf, entries, state>> /\ pc # "request"
      BY <2>4 DEF RecoverConnect, Do, Go
    <3>2. ~OnPath(id) /\ id \in Mine
      BY <2>2, <2>3 DEF Mine
    <3> HIDE DEF id, n
    <3>3. DOMAIN ws = {1} /\ ws[1].w = "leaf" /\ ws[1].id = id
      BY DEF Leaf
    <3> HIDE DEF ws, pc
    <3>4. Fits(ws, Aim(ws), pc)
      BY <2>2, <3>1, <3>2, <3>3 DEF Fits, Admits, Heads
    <3> QED BY <1>1, <3>1, <3>4, DecidedPairs
  <2>5. CASE RecoverAppend
    <3> DEFINE c  == RecoveredCalls[n - 1]
               id == ResId(c)
               code == InterruptionCode(c)
               ws == <<Entry(id, <<>>, code)>>
               pc == "recover"
    <3>1. /\ todo' = ws /\ proc' = pc /\ UNCHANGED <<op, leaf, entries, state>> /\ pc # "request"
          /\ ~Has(Expected[n])
      BY <2>5 DEF RecoverAppend, Do, Go
    <3>2. n # 1
      BY <2>2, <3>1
    <3>3. n - 1 \in DOMAIN RecoveredCalls
      BY <2>2, <2>3, <3>2
    <3>4. id = Slot(op, n - 1)
      BY <2>2, <3>3 DEF Numbered, Slot
    <3> HIDE DEF id, c, code
    <3>5. DOMAIN ws = {1} /\ ws[1].w = "append" /\ ws[1].id = id
      BY DEF Entry
    <3> HIDE DEF ws, pc
    <3>6. Admits(ws)
      <4>1. SUFFICES ASSUME NEW k \in Nat \ {0}, id = Slot(op, k)
                     PROVE  Asked(k)
        BY <3>5 DEF Admits
      <4>2. k = n - 1
        BY <3>4, <4>1, Names
      <4> HIDE DEF n
      <4> QED BY <2>2, <3>3, <4>2 DEF Asked
    <3>7. Fits(ws, Aim(ws), pc)
      BY <3>1, <3>5, <3>6 DEF Fits, Heads
    <3> QED BY <1>1, <3>1, <3>7, DecidedPairs
  <2> QED BY <1>5, <2>4, <2>5
<1> QED BY <1>3, <1>4, <1>5 DEF Recovery

LEMMA InitPairs == Init => PairInv
<1> SUFFICES ASSUME Init PROVE PairInv
  OBVIOUS
<1> DEFINE id == NoteId(0)
           a  == Message(id, <<>>, "none")
<1>1. /\ op = ReadyState /\ state = ReadyState /\ leaf = <<>> /\ proc = "top" /\ todo = a
  BY DEF Init
<1>2. op.phase = "ready" /\ ~Answering /\ ~Excused(op)
  BY <1>1 DEF ReadyState, Answering, Excused
<1>3. /\ DOMAIN a = 1 .. 2 /\ Len(a) = 2 /\ a[1].w = "append" /\ a[2].w = "leaf"
  BY DEF Message, Entry, Leaf
<1> HIDE DEF a
<1>4. \A j \in DOMAIN a : j = 1 \/ j = 2
  BY <1>3
<1>5. Fits(todo, Target, proc)
  BY <1>1, <1>2, <1>3, <1>4 DEF Fits, Admits, Heads
<1>6. CallsOnPath = <<>> /\ ResultsOnPath = <<>>
  <2>1. /\ CallsOnPath = FlattenSeq(CallsAt(entries, leaf))
        /\ ResultsOnPath = FlattenSeq(ResultsAt(leaf))
    BY DEF CallsOnPath, ResultsOnPath, CallsAt, ResultsAt
  <2>2. CallsAt(entries, leaf) = <<>> /\ ResultsAt(leaf) = <<>>
    BY <1>1 DEF CallsAt, ResultsAt
  <2>3. FlattenSeq(<<>>) = <<>>
    BY FlattenIs
  <2> QED BY <2>1, <2>2, <2>3
<1>7. Paired
  BY <1>6 DEF Paired
<1> QED BY <1>2, <1>5, <1>7 DEF PairInv, Balance, Within

LEMMA StutterPairs ==
    ASSUME TraceInv, PairInv, ~resumed, UNCHANGED vars
    PROVE  PairInv'
<1>1. CallsOnPath' = CallsOnPath /\ ResultsOnPath' = ResultsOnPath
  <2>1. leaf' = leaf /\ \A i \in DOMAIN leaf : entries'[leaf[i]] = entries[leaf[i]]
    BY DEF vars
  <2> QED BY <2>1, PathStays
<1>2. CASE Excused(op)
  <2>1. op' = op /\ proc' = proc /\ todo' = todo /\ entries' = entries /\ leaf' = leaf
        /\ state' = state
    BY DEF vars
  <2>2. todo = <<>> /\ proc = "done" /\ ~Answering
    BY <1>2 DEF PairInv, Excused, Answering
  <2>3. (\A j \in DOMAIN todo : FALSE)'
    BY <2>1, <2>2
  <2>4. Fits(todo, Target, proc)'
    BY <2>1, <2>2, <2>3 DEF Fits, Admits, Heads
  <2>5. Excused(op)' /\ ~Answering'
    BY <1>2, <2>1, <2>2 DEF Excused, Answering
  <2> QED BY <2>1, <2>2, <2>4, <2>5 DEF PairInv, Balance, Within
<1>3. CASE ~Excused(op)
  <2> DEFINE ws == todo
             pc == proc
  <2>1. todo' = ws /\ proc' = pc /\ UNCHANGED <<op, leaf, entries, state>>
    BY DEF vars
  <2>2. Fits(ws, Aim(ws), pc)
    BY DEF PairInv, Target, Aim
  <2> HIDE DEF ws, pc
  <2> QED BY <1>3, <2>1, <2>2, DecidedPairs
<1> QED BY <1>2, <1>3

LEMMA NextPairs == OperationInv /\ TraceInv /\ PairInv /\ [Next]_vars => PairInv'
<1> SUFFICES ASSUME OperationInv, TraceInv, PairInv, [Next]_vars, ~resumed' PROVE PairInv'
  BY DEF PairInv
<1>1. ~resumed /\ proc # "resumed"
  BY ResumedStays DEF TraceInv
<1>2. CASE Write
  <2>1. TranscriptInv'
    BY NextTrace DEF TraceInv
  <2> QED BY <1>1, <1>2, <2>1, WritePairs
<1>3. CASE Loop \/ ModelStep
  BY <1>1, <1>3, LoopPairs, ModelPairs
<1>4. CASE ToolStep \/ Approval
  BY <1>1, <1>4, ToolPairs
<1>5. CASE ResumeContinue \/ ResumeFinalize
  BY <1>1, <1>5 DEF ResumeContinue, ResumeFinalize, At
<1>6. CASE Cancel
  <2>1. todo = <<>> /\ proc \in Living /\ AbortNow
    BY <1>6 DEF Cancel, Living
  <2> QED BY <1>1, <2>1, AbortPairs
<1>7. CASE Recovery
  BY <1>1, <1>7, RecoveryPairs
<1>8. CASE Restart \/ Crash
  BY <1>1, <1>8, RestartPairs DEF Restart
<1>9. CASE UNCHANGED vars
  BY <1>1, <1>9, StutterPairs
<1> QED BY <1>2, <1>3, <1>4, <1>5, <1>6, <1>7, <1>8, <1>9 DEF Next, Machine

(* Whatever the moment of death or of a cancel, an operation that was never   *)
(* resumed and completed, was cancelled or was interrupted by a recovery      *)
(* leaves on the path of the lane, for every tool call of every answer, its   *)
(* result, once and in the order of the calls (appendInterruptedResults, and  *)
(* the loop over the recovered calls of interrupted-operation.ts).            *)
THEOREM InterruptionPairsCorrect == Spec => []InterruptionPairs
<1>1. Init => OperationInv /\ TraceInv /\ PairInv
  BY InitOperation, InitTrace, InitPairs
<1>2. OperationInv /\ TraceInv /\ PairInv /\ [Next]_vars => (OperationInv /\ TraceInv /\ PairInv)'
  BY NextStep, NextTrace, NextPairs
<1>3. PairInv => InterruptionPairs
  <2>1. SUFFICES ASSUME PairInv, ~resumed, Accounted PROVE Paired
    BY DEF InterruptionPairs
  <2>2. ~Answering /\ ~Excused(op)
    BY <2>1 DEF Accounted, Answering, Excused
  <2> QED BY <2>1, <2>2 DEF PairInv, Balance
<1> QED BY <1>1, <1>2, <1>3, PTL DEF Spec
=============================================================================
