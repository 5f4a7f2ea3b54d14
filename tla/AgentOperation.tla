--------------------------- MODULE AgentOperation ---------------------------
(***************************************************************************)
(* One operation (one turn of the agent on one lane) of                    *)
(* packages/agent-runtime: the interpreter-driven runner                   *)
(* (harness/runner.ts), the reducer and interpreter of operation/, and the *)
(* two ways a restarted host deals with an operation it finds unfinished:  *)
(* resume it (the desktop) or interrupt it (the server, and a desktop that *)
(* may not resume).                                                        *)
(*                                                                         *)
(* The runner keeps a copy of the operation state and a list of store      *)
(* writes it is in the middle of; each write is a step of its own, and the *)
(* process may die between any two.  The transcript is a tree of immutable *)
(* entries; an entry is stored with its path from the root, so that moving *)
(* the leaf of the lane is taking the path of an entry.                    *)
(***************************************************************************)
EXTENDS Naturals, Sequences, FiniteSets, SequencesExt

CONSTANTS MaxCalls,         \* bound: tool calls of the whole operation
          IterationLimit,   \* the soft limit an operation starts with
          RunLimit,         \* the hard limit the soft one may be extended to
          MaxDisturbances   \* bound: deaths of the process, extensions of the limit,
                            \* exceptional answers and optional context entries, together

ASSUME LimitsAssumption ==
  /\ MaxCalls \in Nat \ {0} /\ MaxDisturbances \in Nat
  /\ IterationLimit \in Nat \ {0} /\ RunLimit \in Nat
  /\ IterationLimit <= RunLimit

\* runner.ts:127, how often a response cut off by the output limit is continued.
MAX_OUTPUT_CONTINUATIONS == 2

VARIABLES resumed,     \* some restarted process went on with the operation
          op,          \* the stored operation state
          leaf,        \* the path of the lane's leaf entry
          entries,     \* the stored transcript: id -> [path, calls, code]
          proc,        \* what the process does
          state,       \* the runner's copy of the operation state
          todo,        \* store writes the current step still has to do
          uncertain,   \* calls found with a pending effect when resuming
          effects,     \* the calls that were really executed, and how often
          granted,     \* calls permitted during this life of the process
          notes, spent

durable == <<op, leaf, entries>>
vars == <<resumed, op, leaf, entries, proc, state, todo, uncertain,
          effects, granted, notes, spent>>

-----------------------------------------------------------------------------
(* Identities.  responseEntryId and the calls' ids are fresh; rsp numbers   *)
(* the responses and a call is known by response, attempt and position.     *)

CallIds  == Nat \X Nat \X Nat
EntryIds == {"asst", "res", "note"} \X Nat \X Nat \X Nat
AsstId(rsp) == <<"asst", rsp, 0, 0>>
ResId(c)    == <<"res", c[1], c[2], c[3]>>
NoteId(n)   == <<"note", n, 0, 0>>

Elements(seq) == { seq[i] : i \in DOMAIN seq }
Has(id)  == id \in DOMAIN entries
OnPath(id) == id \in Elements(leaf)

\* How often a call was really executed.
Executions(c) == IF c \in DOMAIN effects THEN effects[c] ELSE 0

Terminal(s) == s.phase \in {"completed", "failed", "aborted"}
Permitted(c) == c.perm = "allowed"   \* not_required, approved or hook_approved
Current(s) == s.calls[s.cur]
\* Mutant: only calls that were never begun are settled.
UnsettledPlanned(s) == { i \in DOMAIN s.calls : s.calls[i].status = "planned" }
Unsettled(s) == { i \in DOMAIN s.calls : s.calls[i].status # "completed" }

ReadyState == [phase |-> "ready", iter |-> 0, conts |-> 0, limit |-> IterationLimit,
               rsp |-> 0, attempt |-> 0, final |-> FALSE, calls |-> <<>>, cur |-> 1,
               code |-> "none"]

-----------------------------------------------------------------------------
(* The reducer (operation/reducer.ts) *)

BeginModelRequest(s) ==
  [s EXCEPT !.phase = "model_pending",
            !.final = IF s.phase = "model_pending" THEN s.final
                                                   ELSE s.phase = "final_response",
            !.rsp = IF s.phase = "model_pending" THEN @ ELSE @ + 1,
            !.attempt = IF s.phase = "model_pending" THEN @ + 1 ELSE 1,
            !.calls = <<>>, !.cur = 1]

PlanToolCalls(s, ids, replay) ==
  [s EXCEPT !.phase = "tools", !.cur = 1,
            !.calls = [i \in DOMAIN ids |->
                         [id |-> ids[i], replay |-> replay[i],
                          perm |-> "pending", status |-> "planned"]]]

SetCurrent(s, perm, status) ==
  [s EXCEPT !.calls[s.cur].perm = perm, !.calls[s.cur].status = status]

ResolveToolPermission(s, perm) == SetCurrent(s, perm, "planned")
PrepareToolEffect(s)       == SetCurrent(s, Current(s).perm, "effect_pending")
\* Mutant: a refused call keeps its place.
SettleToolWithoutEffectOpen(s) == SetCurrent(s, "denied", "planned")
SettleToolWithoutEffect(s) == SetCurrent(s, "denied", "completed")
SettleToolEffect(s)        == SetCurrent(s, Current(s).perm, "completed")

\* Mutant: the cursor runs past the last call.
AdvanceToolPast(s) ==
  IF s.cur <= Len(s.calls) THEN [s EXCEPT !.cur = @ + 1]
  ELSE [s EXCEPT !.phase = "checkpoint", !.iter = @ + 1, !.conts = 0,
                 !.calls = <<>>, !.cur = 1]

AdvanceTool(s) ==
  IF s.cur < Len(s.calls)
  THEN [s EXCEPT !.cur = @ + 1]
  ELSE [s EXCEPT !.phase = "checkpoint", !.iter = @ + 1, !.conts = 0,
                 !.calls = <<>>, !.cur = 1]

ContinueOutput(s, final) ==
  [s EXCEPT !.phase = IF final THEN "final_response" ELSE "ready",
            !.iter = @ + 1, !.conts = @ + 1]

EnterFinalResponse(s) == [s EXCEPT !.phase = "final_response", !.calls = <<>>, !.cur = 1]

EnterFinalResponseAfterModel(s) ==
  [s EXCEPT !.phase = "final_response", !.iter = @ + 1, !.conts = 0]

ExtendLimit(s) == [s EXCEPT !.limit = @ + 1]

Completed(s)     == [s EXCEPT !.phase = "completed"]
Aborted(s)       == [s EXCEPT !.phase = "aborted"]
Failed(s, code)  == [s EXCEPT !.phase = "failed", !.code = code]

(* runner.ts 808-815: a resumed runner trusts no permission of an earlier life. *)
\* Mutant: they are kept.
ResetPermissionsKept(s) == s

ResetPermissions(s) ==
  [s EXCEPT !.calls = [i \in DOMAIN s.calls |->
      IF s.calls[i].status = "planned" THEN [s.calls[i] EXCEPT !.perm = "pending"]
                                       ELSE s.calls[i]]]

-----------------------------------------------------------------------------
(* The store's writes *)

Entry(id, calls, code) == [w |-> "append", id |-> id, calls |-> calls, code |-> code]
Leaf(id)  == [w |-> "leaf", id |-> id]
Save(s)   == [w |-> "save", st |-> s]

(* appendDurableMessage: append the entry unless it is there, then move the leaf. *)
Message(id, calls, code) == <<Entry(id, calls, code), Leaf(id)>>
Note == Message(NoteId(notes), <<>>, "none")
Result(c, code) == Message(ResId(c), <<>>, code)

(* appendInterruptedResults: in their order, the results of the open calls. *)
NthOpen(s, k) ==
  s.calls[CHOOSE i \in Unsettled(s) : Cardinality({j \in Unsettled(s) : j <= i}) = k].id
Interrupted(s) ==
  IF s.phase # "tools" THEN <<>>
  ELSE [n \in 1 .. 2 * Cardinality(Unsettled(s)) |->
          LET id == ResId(NthOpen(s, (n + 1) \div 2))
          IN  IF n % 2 = 1 THEN Entry(id, <<>>, "cancelled") ELSE Leaf(id)]

(* One write reaches the store.  Saving a terminal state frees the lane in  *)
(* the same transaction, so the lane is held exactly while op is not        *)
(* terminal; an append never replaces an entry.                             *)
Write ==
  /\ todo # <<>>
  /\ todo' = Tail(todo)
  /\ LET w == Head(todo) IN
     \/ /\ w.w = "append"
        /\ entries' = [id \in DOMAIN entries \cup {w.id} |->
                         IF Has(id) THEN entries[id]
                         ELSE [path |-> Append(leaf, id), calls |-> w.calls, code |-> w.code]]
        /\ notes' = IF w.id[1] = "note" THEN notes + 1 ELSE notes
        /\ UNCHANGED <<op, state, leaf>>
     \/ /\ w.w = "leaf"
        /\ leaf' = entries[w.id].path
        /\ UNCHANGED <<op, state, entries, notes>>
     \/ /\ w.w = "save"
        /\ op' = w.st /\ state' = w.st
        /\ UNCHANGED <<leaf, entries, notes>>
  /\ UNCHANGED <<resumed, proc, uncertain, effects, granted, spent>>

At(pc) == proc = pc /\ todo = <<>>

(* The runner does the writes ws and goes on at pc; what is optional or      *)
(* exceptional costs one of the disturbances explored.                       *)
Go(ws, pc, cost) ==
  /\ spent + cost <= MaxDisturbances /\ spent' = spent + cost
  /\ todo' = ws /\ proc' = pc
  /\ UNCHANGED <<resumed, op, leaf, entries, state, effects, notes>>
Do(ws, pc) == Go(ws, pc, 0)
Same == UNCHANGED <<uncertain, granted>>
Grant == /\ granted' = granted \cup {Current(state).id}
         /\ UNCHANGED uncertain
Settled == /\ uncertain' = uncertain \ {Current(state).id}
           /\ UNCHANGED granted

(* The catch block (1642-1660): an error fails the operation; after an abort *)
(* the open calls are settled first.                                          *)
Fail(code) == Do(<<Save(Failed(state, code))>>, "done") /\ Same
AbortNow   == Do(Interrupted(state) \o <<Save(Aborted(state))>>, "done") /\ Same

-----------------------------------------------------------------------------
(* The loop of the runner *)

(* A ready or checkpoint state is first put to the loop guards (895-926).   *)
(* A resource, no-progress or cycle guard may end the tool rounds at any    *)
(* time; the iteration guard extends the limit or ends them.                *)
GuardContinue ==
  /\ At("top") /\ state.phase \in {"ready", "checkpoint"}
  /\ state.iter < state.limit
  /\ Do(<<>>, "request") /\ Same

GuardExtend ==
  /\ At("top") /\ state.phase \in {"ready", "checkpoint"}
  /\ state.iter >= state.limit /\ state.limit < RunLimit
  /\ Go(<<Save(ExtendLimit(state))>>, "request", 1) /\ Same

GuardFinalize ==
  /\ At("top") /\ state.phase \in {"ready", "checkpoint"}
  /\ Do(Note \o <<Save(EnterFinalResponse(state))>>, "request") /\ Same

(* With allowPartialOnMaxIterations the turn simply ends at its limit.      *)
GuardStop ==
  /\ At("top") /\ state.phase \in {"ready", "checkpoint"}
  /\ state.iter >= state.limit
  /\ Do(<<Save(Completed(state))>>, "done") /\ Same

(* A state found in model_pending or final_response asks the model again;   *)
(* the interpreter allows a final response MAX_OUTPUT_CONTINUATIONS more    *)
(* iterations than the limit; beyond them the runner fails, or ends the turn *)
(* as it is when partial turns are allowed.                                  *)
FinalLimit == state.limit + MAX_OUTPUT_CONTINUATIONS

AskAgain ==
  /\ At("top")
  /\ \/ state.phase = "model_pending"
     \/ state.phase = "final_response" /\ state.iter <= FinalLimit
  /\ Do(<<>>, "request") /\ Same

LimitExceeded ==
  /\ At("top") /\ state.phase = "final_response" /\ state.iter > FinalLimit
  /\ Fail("exceeded") \/ (Do(<<Save(Completed(state))>>, "done") /\ Same)

(* Memory snapshots, recalled memories and verification revisions may be    *)
(* added to the lane, or a handoff and a compaction of what it holds; then  *)
(* the intent to ask is saved.                                              *)
Context == Note

RequestModel ==
  /\ At("request")
  /\ \/ Do(<<Save(BeginModelRequest(state))>>, "model")
     \/ Go(Context \o <<Save(BeginModelRequest(state))>>, "model", 1)
  /\ Same

-----------------------------------------------------------------------------
(* The model's answer (1351-1466) *)

Assistant(ids) == Message(AsstId(state.rsp), ids, "none")
NewCalls(n) == [i \in 1 .. n |-> <<state.rsp, state.attempt, i>>]
MayContinue == state.conts < MAX_OUTPUT_CONTINUATIONS
CallsSoFar == Cardinality(UNION { Elements(entries[id].calls) : id \in DOMAIN entries })
Batches == { n \in 1 .. MaxCalls : CallsSoFar + n <= MaxCalls }

ModelText ==
  /\ At("model")
  /\ Do(Assistant(<<>>) \o <<Save(Completed(state))>>, "done") /\ Same

ModelCutOff ==
  /\ At("model") /\ MayContinue
  /\ Do(Assistant(<<>>) \o Note \o <<Save(ContinueOutput(state, state.final))>>, "top")
  /\ Same

(* The provider's tool-output limit: nothing of the response is recorded.   *)
ModelToolOutputLimit ==
  /\ At("model") /\ MayContinue /\ ~state.final
  /\ Go(Note \o <<Save(ContinueOutput(state, FALSE))>>, "top", 1) /\ Same

ModelError == At("model") /\ Fail("provider_error")

(* Tool calls: a repeated cycle or an exhausted budget drops them and asks  *)
(* for the final answer, once more if this was one; otherwise a final       *)
(* response with calls fails the turn.                                      *)
ModelCallsDropped ==
  /\ At("model")
  /\ Go(Message(AsstId(state.rsp), <<>>, "none")
          \o Note \o <<Save(EnterFinalResponseAfterModel(state))>>, "top", 1)
  /\ Same

ModelCallsRefused ==
  /\ At("model") /\ state.final
  /\ \E n \in Batches :
       Do(Assistant(NewCalls(n)) \o <<Save(Failed(state, "no_progress"))>>, "done")
  /\ Same

ModelCalls ==
  /\ At("model") /\ ~state.final
  /\ \E n \in Batches : \E replay \in [1 .. n -> {"safe", "never"}] :
       Do(Assistant(NewCalls(n)) \o <<Save(PlanToolCalls(state, NewCalls(n), replay))>>, "top")
  /\ Same

-----------------------------------------------------------------------------
(* One tool call (interpreter.ts toolAction, runner.ts 1468-1635) *)

ToolTop(status) ==
  /\ At("top") /\ state.phase = "tools"
  /\ Current(state).status = status

Call == Current(state)
Refused == Result(Call.id, "denied") \o <<Save(SettleToolWithoutEffect(state))>>

(* PreToolUse hook and permission gate: block or deny, allow, or ask.       *)
GateRefuses ==
  /\ ToolTop("planned") /\ Call.perm = "pending"
  /\ Do(Refused, "top") /\ Same

GateAllows ==
  /\ ToolTop("planned") /\ Call.perm = "pending"
  /\ Do(<<Save(ResolveToolPermission(state, "allowed"))>>, "top") /\ Grant

GateAsks ==
  /\ ToolTop("planned") /\ Call.perm = "pending"
  /\ Do(<<Save(ResolveToolPermission(state, "pending"))>>, "approval") /\ Same

GateFails == ToolTop("planned") /\ Call.perm = "pending" /\ Fail("tool_error")

UserApproves ==
  /\ At("approval")
  /\ Do(<<Save(ResolveToolPermission(state, "allowed"))>>, "top") /\ Grant

UserDenies ==
  /\ At("approval")
  /\ Do(Refused, "top") /\ Same

ApprovalFails == At("approval") /\ Fail("approval_interrupted")

(* The intent is saved before the effect.                                   *)
PrepareTool ==
  /\ ToolTop("planned") /\ Permitted(Call)
  /\ Do(<<Save(PrepareToolEffect(state))>>, "top") /\ Same

(* An effect found pending is not repeated unless its tool is safe to replay. *)
Recovering == Call.id \in uncertain
SynthesizeInterrupted ==
  /\ ToolTop("effect_pending") /\ Recovering /\ Call.replay = "never"
  /\ Do(Result(Call.id, "uncertain") \o <<Save(SettleToolEffect(state))>>, "top")
  /\ Settled

\* Mutant: the doubt is forgotten.
ExecutesBlindly == ToolTop("effect_pending")
Executes == ToolTop("effect_pending") /\ ~(Recovering /\ Call.replay = "never")

(* A result already recorded is used instead of executing again.            *)
ReuseResult ==
  /\ Executes /\ Has(ResId(Call.id))
  /\ Do((IF OnPath(ResId(Call.id)) THEN <<>> ELSE Result(Call.id, "done"))
          \o <<Save(SettleToolEffect(state))>>, "top")
  /\ Settled

(* A replay asks the permission gate of this life again.                    *)
ReplayRefused ==
  /\ Executes /\ ~Has(ResId(Call.id)) /\ Recovering
  /\ Do(Result(Call.id, "denied") \o <<Save(SettleToolEffect(state))>>, "top")
  /\ Settled

ReplayAllowed ==
  /\ Executes /\ ~Has(ResId(Call.id)) /\ Recovering /\ Call.id \notin granted
  /\ Do(<<>>, "top") /\ Grant

ExecuteTool ==
  /\ Executes /\ ~Has(ResId(Call.id))
  /\ Recovering => Call.id \in granted
  /\ effects' = [c \in DOMAIN effects \cup {Call.id} |->
                   Executions(c) + (IF c = Call.id THEN 1 ELSE 0)]
  /\ proc' = "executed"
  /\ UNCHANGED <<resumed, op, leaf, entries, state, todo, uncertain,
                 granted, notes, spent>>

(* The result, then possibly what a PostToolUse hook adds, then the state.  *)
RecordResult ==
  /\ At("executed")
  /\ \/ Do(Result(Call.id, "done") \o <<Save(SettleToolEffect(state))>>, "top")
     \/ Go(Result(Call.id, "done") \o Note \o <<Save(SettleToolEffect(state))>>, "top", 1)
  /\ Settled

AdvanceToolStep ==
  /\ ToolTop("completed")
  /\ Do(<<Save(AdvanceTool(state))>>, "top") /\ Same

(* The user cancels: every await of the runner notices, and the head of   *)
(* its loop; a cancel that arrives during a write is noticed at the next.   *)
Cancel ==
  /\ proc \in {"top", "request", "model", "approval", "executed", "resumed"}
  /\ todo = <<>>
  /\ AbortNow

-----------------------------------------------------------------------------
(* Death and restart of the process *)

Crash ==
  /\ proc \notin {"down", "blocked"} /\ ~Terminal(op) /\ spent < MaxDisturbances
  /\ spent' = spent + 1
  /\ proc' = "down" /\ todo' = <<>> /\ uncertain' = {} /\ granted' = {}
  /\ state' = op
  /\ UNCHANGED <<resumed, op, leaf, entries, effects, notes>>

(* resumeOperation: the runner goes on from the stored state.               *)
Resume ==
  /\ proc = "down" /\ resumed' = TRUE
  /\ proc' = "resumed" /\ state' = ResetPermissions(op)
  /\ uncertain' = { op.calls[i].id : i \in { j \in DOMAIN op.calls :
                                              op.calls[j].status = "effect_pending" } }
  /\ UNCHANGED <<op, leaf, entries, todo, effects, granted,
                 notes, spent>>

(* A resumed tool round or request is put to the guards first (882-891).    *)
ResumeContinue == /\ At("resumed")
                  /\ Do(<<>>, "top") /\ Same

ResumeFinalize ==
  /\ At("resumed")
  /\ \/ /\ state.phase = "tools"
        /\ Do(Interrupted(state) \o Note \o <<Save(EnterFinalResponse(state))>>, "top")
     \/ /\ state.phase = "model_pending" /\ ~state.final
        /\ Do(Note \o <<Save(EnterFinalResponseAfterModel(state))>>, "top")
  /\ Same

(* recoverInterruptedOperations at a server's start, interruptOperation when *)
(* a desktop may not resume (recovery/interrupted-operation.ts).             *)
StartRecovery ==
  /\ proc = "down" /\ proc' = "recover"
  /\ UNCHANGED <<resumed, op, leaf, entries, state, todo, uncertain,
                 effects, granted, notes, spent>>

(* What the recovery looks at, in order: the assistant entry, then the      *)
(* result of each of its calls.                                             *)
Assistants == { a \in {AsstId(op.rsp)} : op.phase \in {"tools", "model_pending"} /\ Has(a) }
RecoveredCalls == IF Assistants = {} THEN <<>> ELSE entries[AsstId(op.rsp)].calls
Execution(c) == { i \in DOMAIN op.calls : op.phase = "tools" /\ op.calls[i].id = c }
StatusOf(c) == IF Execution(c) = {} THEN "none"
               ELSE op.calls[CHOOSE i \in Execution(c) : TRUE].status
Expected == (IF Assistants = {} THEN <<>> ELSE <<AsstId(op.rsp)>>)
              \o [i \in DOMAIN RecoveredCalls |-> ResId(RecoveredCalls[i])]
Missing == { i \in DOMAIN Expected : ~OnPath(Expected[i]) }
Next1 == CHOOSE i \in Missing : \A j \in Missing : i <= j

Mismatch ==
  /\ op.phase = "tools"
  /\ \/ Assistants = {}
     \/ { op.calls[i].id : i \in DOMAIN op.calls } # Elements(RecoveredCalls)
Connectable(id) == entries[id].path = Append(leaf, id)
\* Mutant: a call that began must have a result.
LostBegun(i) == /\ ~Has(Expected[i])
                /\ StatusOf(RecoveredCalls[i - 1]) # "planned"
Lost(i) == /\ ~Has(Expected[i])
           /\ StatusOf(RecoveredCalls[i - 1]) = "completed"

RecoverConnect ==
  /\ At("recover") /\ ~Mismatch /\ Missing # {}
  /\ LET id == Expected[Next1]
     IN  /\ Has(id) /\ Connectable(id)
         /\ Do(<<Leaf(id)>>, "recover")
  /\ Same

\* Mutant: a tool that may be replayed is said not to have run.
InterruptionCodeSafe(c) ==
  IF StatusOf(c) = "effect_pending"
     /\ op.calls[CHOOSE i \in Execution(c) : TRUE].replay = "never"
  THEN "uncertain" ELSE "before_execution"

InterruptionCode(c) == IF StatusOf(c) = "effect_pending" THEN "uncertain"
                                                         ELSE "before_execution"

RecoverAppend ==
  /\ At("recover") /\ ~Mismatch /\ Missing # {}
  /\ ~Has(Expected[Next1]) /\ ~Lost(Next1)
  /\ LET c == RecoveredCalls[Next1 - 1]
     IN  Do(<<Entry(ResId(c), <<>>, InterruptionCode(c))>>, "recover")
  /\ Same

RecoverFinish ==
  /\ At("recover") /\ ~Mismatch /\ Missing = {}
  /\ Do(<<Save(Failed(op, "runtime_interrupted"))>>, "done") /\ Same

RecoverConflict ==
  /\ At("recover")
  /\ \/ Mismatch
     \/ /\ Missing # {}
        /\ IF Has(Expected[Next1]) THEN ~Connectable(Expected[Next1]) ELSE Lost(Next1)
  /\ Do(<<>>, "blocked") /\ Same

-----------------------------------------------------------------------------
Init ==
  /\ op = ReadyState /\ state = ReadyState
  /\ leaf = <<>> /\ entries = << >>
  /\ proc = "top" /\ notes = 0
  /\ todo = Message(NoteId(0), <<>>, "none")     \* the user's message
  /\ uncertain = {} /\ granted = {}
  /\ effects = << >> /\ spent = 0 /\ resumed = FALSE

Loop == \/ GuardContinue \/ GuardExtend \/ GuardFinalize \/ GuardStop
        \/ AskAgain \/ LimitExceeded \/ RequestModel
ModelStep == \/ ModelText \/ ModelCutOff \/ ModelToolOutputLimit \/ ModelError
             \/ ModelCallsDropped \/ ModelCallsRefused \/ ModelCalls
ToolStep == \/ GateRefuses \/ GateAllows \/ GateAsks \/ GateFails
            \/ PrepareTool \/ SynthesizeInterrupted \/ ReuseResult
            \/ ReplayRefused \/ ReplayAllowed \/ ExecuteTool \/ RecordResult
            \/ AdvanceToolStep
Approval == UserApproves \/ UserDenies \/ ApprovalFails
Recovery == RecoverConnect \/ RecoverAppend \/ RecoverFinish \/ RecoverConflict
Restart  == Resume \/ StartRecovery

Machine == \/ Write \/ Loop \/ ModelStep \/ ToolStep
           \/ ResumeContinue \/ ResumeFinalize \/ Recovery \/ Restart

Next == Machine \/ Approval \/ Cancel \/ Crash

Spec == Init /\ [][Next]_vars

(* The process keeps going and is started again after a death; the model    *)
(* and the tools answer.  Nothing makes a person decide an approval or      *)
(* cancel.                                                                  *)
FairSpec == Spec /\ WF_vars(Machine)

-----------------------------------------------------------------------------
(* Properties *)

Phases == {"ready", "model_pending", "tools", "checkpoint", "final_response",
           "completed", "failed", "aborted"}
ToolCallStates == [id : CallIds, replay : {"safe", "never"},
                   perm : {"pending", "allowed", "denied"},
                   status : {"planned", "effect_pending", "completed"}]
EntryCodes == {"none", "done", "denied", "uncertain", "cancelled", "before_execution"}
ErrorCodes == {"none", "provider_error", "no_progress", "tool_error", "exceeded",
               "approval_interrupted", "runtime_interrupted"}
States == { s \in [phase : Phases, iter : Nat, conts : 0 .. MAX_OUTPUT_CONTINUATIONS,
                   limit : IterationLimit .. RunLimit, rsp : Nat, attempt : Nat,
                   final : BOOLEAN, calls : Seq(ToolCallStates), cur : Nat \ {0},
                   code : ErrorCodes] : s.phase = "tools" => s.cur \in DOMAIN s.calls }

(* Types; the cursor of a tools state is at a planned call and the leaf is  *)
(* where the last entry connected to the lane says it is.                   *)
TypeOK ==
  /\ op \in States /\ state \in States
  /\ uncertain \subseteq CallIds /\ granted \subseteq CallIds
  /\ DOMAIN effects \subseteq CallIds /\ effects \in [DOMAIN effects -> Nat \ {0}]
  /\ leaf = <<>> \/ (Has(leaf[Len(leaf)]) /\ entries[leaf[Len(leaf)]].path = leaf)

(* A call whose tool may not be replayed has its effect at most once,       *)
(* however often the process dies and is resumed.                           *)
NeverReplayed ==
  \A i \in DOMAIN op.calls :
    op.calls[i].replay = "never" => Executions(op.calls[i].id) <= 1

(* No effect without a durable intent, and none once a result is recorded:  *)
(* that is what lets a restart tell what may have happened.                 *)
EffectIntended ==
  [][\A c \in DOMAIN effects' : Executions(c)' # Executions(c) =>
       /\ ~Has(ResId(c))
       /\ \E i \in DOMAIN op.calls : op.calls[i].id = c
                                     /\ op.calls[i].status = "effect_pending"]_vars

(* A tool runs only with a permission given in this life of the process,    *)
(* never with one found in the stored state.                                *)
EffectPermitted ==
  [][\A c \in DOMAIN effects' : Executions(c)' # Executions(c) => c \in granted]_vars

(* A recovery that tells the model "interrupted before execution" is right. *)
HonestInterruption ==
  \A c \in DOMAIN effects : Has(ResId(c)) => entries[ResId(c)].code # "before_execution"

(* In the lane's transcript the results are those of the calls, each once   *)
(* and in their order, when the operation completed, was cancelled or was   *)
(* interrupted by a recovery.                                               *)
Accounted ==
  \/ op.phase \in {"completed", "aborted"}
  \/ op.phase = "failed" /\ op.code = "runtime_interrupted"
CallsOnPath   == FlattenSeq([i \in DOMAIN leaf |-> entries[leaf[i]].calls])
ResultsOnPath == FlattenSeq([i \in DOMAIN leaf |-> IF leaf[i][1] = "res" THEN <<leaf[i]>>
                                                                     ELSE <<>>])
Paired == ResultsOnPath = [i \in DOMAIN CallsOnPath |-> ResId(CallsOnPath[i])]

InterruptionPairs == ~resumed /\ Accounted => Paired

(* The same, for every operation that completed, resumed or not.  The code  *)
(* does not keep it, and no run claims it: with this as the invariant TLC   *)
(* finds a crash between an assistant entry and the saved tool round, after *)
(* which the model is asked again and the calls of its first answer stay    *)
(* without results.                                                         *)
ResultsMatchCalls == op.phase = "completed" => Paired

(* Whatever the moment of death, the recovery of an operation that was never *)
(* resumed ends it; a conflict would keep a server from starting for ever.   *)
RecoveryConverges == ~resumed => proc # "blocked"

(* Every operation ends, unless a person never decides an approval or the   *)
(* recovery reports a conflict.                                             *)
Settles == <>(Terminal(op) \/ proc = "blocked") \/ <>[](proc = "approval")
=============================================================================
