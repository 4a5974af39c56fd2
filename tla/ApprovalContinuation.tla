----------------------- MODULE ApprovalContinuation -----------------------
(***************************************************************************)
(* One conversation of the Agent, from the tool calls of a turn to the     *)
(* approvals they wait for, the checkpoint that parks the turn, the        *)
(* operator who decides or stops, and the restart that picks the turn up   *)
(* again.  Six kinds of process interleave at the granularity of the       *)
(* store's transactions:                                                   *)
(*   - the conversation driver (httpapi runChatTurnLoop around             *)
(*     agent queryWithAttachments and its deferred cleanup);               *)
(*   - one goroutine per tool call (agent normalizeToolCallErrors, service *)
(*     submit and ResumeAgentApproval);                                    *)
(*   - one HTTP handler per decision (httpapi approve and reject);         *)
(*   - the stop handler (httpapi cancelChatSession);                       *)
(*   - the start of the process (service RecoverInterruptedTasks, httpapi  *)
(*     recoverAgentApprovals);                                             *)
(*   - crashes.                                                            *)
(* A call, its run and its approval share one identity (a member of        *)
(* Calls), a turn, its user message and its checkpoint another (a member   *)
(* of Turns): the code creates them one to one.                            *)
(***************************************************************************)
EXTENDS Naturals, FiniteSets

CONSTANTS
  Calls,       \* tool calls, with the run and the approval each one creates
  Turns,       \* user messages, with the checkpoint each turn writes
  NoTurn,      \* the driver is idle; a call no turn has made yet
  MaxCrashes,  \* bound: process crashes
  MaxStops,    \* bound: stop requests
  MaxFaults    \* bound: failures of the store or of the model

ASSUME NoTurnAssumption == NoTurn \notin Turns

VARIABLES
  run,        \* runs.status, per call ("none": no row)
  approval,   \* approvals.status, per call ("none": no row)
  bound,      \* calls whose approval has an interrupt_id
  turnOf,     \* the turn of a call: its user message and its checkpoint_id
  call,       \* chat_tool_calls.status, every terminal status being "settled"
  linked,     \* calls whose chat_tool_calls row carries the run_id
  msg,        \* chat_messages.status of the user message of each turn
  saved,      \* the interrupted calls in the checkpoint of each turn; {} without a row
  execs,      \* history: how often execute was entered for a run
  server,     \* "up", or the step of the startup recovery that comes next
  pc,         \* where the conversation driver is
  turn,       \* the turn it drives
  group,      \* the calls of the interrupt group it handles
  outcome,    \* queryErr, as the deferred cleanup tells values apart
  resumable,  \* approvalContinuation of queryWithAttachments
  cancelled,  \* the context of the turn is cancelled
  queue,      \* the chatQueueSession: "none", "open" or "cleared"
  paused,     \* its pausedFor
  woken,      \* its changed channel was closed for the pause
  tool,       \* where the goroutine of each tool call is
  killed,     \* calls whose tool execution scope is cancelled
  op,         \* where the handler that decides an approval is
  opGroup,    \* the decided group each such handler read, to start a driver with
  stop,       \* where the stop handler is
  crashes, stops, faults

store   == <<run, approval, bound, turnOf, call, linked, msg, saved, execs>>
driver  == <<pc, turn, group, outcome, resumable, cancelled>>
queued  == <<queue, paused, woken>>
tools   == <<tool, killed>>
handler == <<op, opGroup, stop>>
budget  == <<crashes, stops, faults>>
vars    == <<store, server, driver, queued, tools, handler, budget>>

---------------------------------------------------------------------------
(* Terms the actions share *)

TerminalRun == {"completed", "failed", "interrupted", "rejected"}
Decided     == {"approved", "rejected"}

\* terminalExecutionStatus
Terminal(c) == run[c] \in TerminalRun

TurnCalls(t) == {c \in Calls : turnOf[c] = t}
Bound(t)     == TurnCalls(t) \cap bound
HasCheckpoint(t) == saved[t] # {}

\* A tool goroutine that still runs inside its execution scope.
Live(c)     == tool[c] \notin {"idle", "paused", "done"}
AtRest(t)   == \A c \in TurnCalls(t) : ~Live(c)
Paused(t)   == {c \in TurnCalls(t) : tool[c] = "paused"}

\* CountRunningChatToolCalls > 0: the chat handler answers ErrSessionBusy.
SessionBusy == \E c \in Calls : call[c] \in {"running", "approval_required"}

\* runtime.active: beginSession was called and endSession was not.
SessionActive == pc \notin {"idle", "begun", "exit"}

\* chatSessionActive
ChatSessionActive == queue # "none" \/ SessionActive

Fault == /\ faults < MaxFaults
         /\ faults' = faults + 1

Settle(S) == call' = [c \in Calls |-> IF c \in S /\ call[c] # "none" THEN "settled" ELSE call[c]]
MoveTool(c, where) == tool' = [tool EXCEPT ![c] = where]

\* ResumeWithParams replays the interrupted calls of the checkpoint: those among
\* the targets go on, the others report their pause again.
Replayed(t, targets) ==
  [c \in Calls |-> IF c \notin saved[t] THEN tool[c]
                   ELSE IF c \in targets THEN "resume" ELSE "requested"]

---------------------------------------------------------------------------
(* The conversation driver *)

\* chat: no tool call of the session is running or waiting, the queue accepts a
\* driver, and the turn runs in its goroutine.
StartTurn(t) ==
  /\ server = "up" /\ queue = "none" /\ pc = "idle" /\ ~SessionBusy
  /\ msg[t] = "none" /\ turn = NoTurn
  /\ queue' = "open" /\ pc' = "begun" /\ turn' = t /\ group' = {}
  /\ cancelled' = FALSE /\ stop' = IF stop = "done" THEN "idle" ELSE stop
  /\ UNCHANGED <<store, server, outcome, resumable, paused, woken, tools, op, opGroup, budget>>

\* resumeAgentApprovals: a driver for the persisted group S of turn t.
BeginDriver(t, S) ==
  /\ queue = "none" /\ pc = "idle"
  /\ queue' = "open" /\ pc' = "begun" /\ turn' = t /\ group' = S /\ cancelled' = FALSE

\* queryWithAttachments up to runner.Run: beginSession, then the user message.
BeginTurn ==
  /\ pc = "begun" /\ group = {}
  /\ IF cancelled
     THEN pc' = "exit" /\ UNCHANGED <<msg, resumable>>
     ELSE /\ pc' = "model" /\ resumable' = FALSE
          /\ msg' = [msg EXCEPT ![turn] = "pending"]
  /\ outcome' = IF cancelled THEN "cancelled" ELSE "none"
  /\ UNCHANGED <<run, approval, bound, turnOf, call, linked, saved, execs, server, turn, group,
                 cancelled, queued, tools, handler, budget>>

\* ResumeAgentApprovals, then queryWithAttachments up to ResumeWithParams.  The
\* message check and every store call of the preamble come before the deferred
\* cleanup is installed, so they leave the store as it was.
BeginResume ==
  /\ pc = "begun" /\ group # {}
  /\ IF cancelled \/ msg[turn] \notin {"waiting_for_approval", "pending"}
     THEN /\ pc' = "exit" /\ outcome' = "error"
          /\ UNCHANGED <<msg, resumable, tool, killed>>
     ELSE /\ resumable' = TRUE
          /\ msg' = [msg EXCEPT ![turn] = "pending"]
          /\ IF HasCheckpoint(turn)
             THEN /\ pc' = "model" /\ outcome' = "none"
                  /\ tool' = Replayed(turn, group)
                  /\ killed' = killed \ saved[turn]
             ELSE pc' = "settle" /\ outcome' = "error" /\ UNCHANGED tools
  /\ UNCHANGED <<run, approval, bound, turnOf, call, linked, saved, execs, server, turn, group,
                 cancelled, queued, handler, budget>>

\* The model answers with the tool calls S: Eino starts one goroutine each, and
\* only after every call of the previous answer has returned.
ModelCalls(S) ==
  /\ pc = "model" /\ ~cancelled /\ S # {}
  /\ AtRest(turn) /\ Paused(turn) = {}
  /\ \A c \in S : turnOf[c] = NoTurn
  /\ turnOf' = [c \in Calls |-> IF c \in S THEN turn ELSE turnOf[c]]
  /\ call' = [c \in Calls |-> IF c \in S THEN "running" ELSE call[c]]
  /\ tool' = [c \in Calls |-> IF c \in S THEN "started" ELSE tool[c]]
  /\ UNCHANGED <<run, approval, bound, linked, msg, saved, execs, server, driver, queued,
                 killed, handler, budget>>

\* Every tool returned and some asked for approval: Eino stores the checkpoint
\* and then reports the interrupt with all of its root causes.
Interrupt ==
  /\ pc = "model" /\ ~cancelled /\ AtRest(turn) /\ Paused(turn) # {}
  /\ saved' = [saved EXCEPT ![turn] = Paused(turn)]
  /\ group' = Paused(turn) /\ pc' = "interrupted"
  /\ UNCHANGED <<run, approval, bound, turnOf, call, linked, msg, execs, server, turn, outcome,
                 resumable, cancelled, queued, tools, handler, budget>>

\* registerApprovalPause: chatMessageQueue.pause for the whole group, before
\* any approval of it can be seen.
RegisterPause ==
  /\ pc = "interrupted"
  /\ IF queue = "open"
     THEN /\ paused' = group /\ woken' = FALSE
          /\ resumable' = TRUE /\ pc' = "registered" /\ UNCHANGED outcome
     ELSE pc' = "settle" /\ outcome' = "error" /\ UNCHANGED <<paused, woken, resumable>>
  /\ UNCHANGED <<store, server, turn, group, cancelled, queue, tools, handler, budget>>

\* ActivateAgentApprovals: one transaction binds the interrupts of the group,
\* drops those of an earlier group, and shows the group to the operator.
ExposedFirst(S) ==  \* mutant: the interrupts of the group are activated one by one
  LET first == CHOOSE c \in S : TRUE IN [approval EXCEPT ![first] = "pending"]
Exposed(S) == [c \in Calls |-> IF c \in S /\ approval[c] = "preparing" THEN "pending" ELSE approval[c]]
Rebound(t, S) == (bound \ TurnCalls(t)) \cup S

Activate ==
  /\ pc = "registered"
  /\ \/ /\ ~cancelled
        /\ approval' = Exposed(group) /\ bound' = Rebound(turn, group)
        /\ pc' = "activated" /\ UNCHANGED <<outcome, faults>>
     \/ /\ cancelled /\ pc' = "settle" /\ outcome' = "cancelled"
        /\ UNCHANGED <<approval, bound, faults>>
     \/ Fault /\ pc' = "settle" /\ outcome' = "error" /\ UNCHANGED <<approval, bound>>
  /\ UNCHANGED <<run, turnOf, call, linked, msg, saved, execs, server, turn, group, resumable,
                 cancelled, queued, tools, handler, crashes, stops>>

MarkWaiting ==
  /\ pc = "activated"
  /\ \/ /\ ~cancelled
        /\ msg' = [msg EXCEPT ![turn] = "waiting_for_approval"]
        /\ pc' = "waiting" /\ UNCHANGED <<outcome, faults>>
     \/ cancelled /\ pc' = "settle" /\ outcome' = "cancelled" /\ UNCHANGED <<msg, faults>>
     \/ Fault /\ pc' = "settle" /\ outcome' = "error" /\ UNCHANGED msg
  /\ UNCHANGED <<run, approval, bound, turnOf, call, linked, saved, execs, server, turn, group,
                 resumable, cancelled, queued, tools, handler, crashes, stops>>

\* waitForResume: the pause ends with the last decision, or when the queue is
\* cleared.  It does not watch the context of the turn.
AwakeOnDecision == woken  \* mutant: clearing the queue leaves the waiter alone
Awake == woken \/ queue = "cleared"

Wake ==
  /\ pc = "waiting" /\ Awake
  /\ IF queue = "cleared" THEN pc' = "settle" /\ outcome' = "cancelled"
                          ELSE pc' = "woken" /\ UNCHANGED outcome
  /\ UNCHANGED <<store, server, turn, group, resumable, cancelled, queued, tools, handler, budget>>

\* The driver re-reads the group, and resumes every interrupt of it at once.
AllDecided(S) == \A c \in S : approval[c] \in Decided

ResumeGroup ==
  /\ pc = "woken"
  /\ \/ /\ IF cancelled \/ ~AllDecided(group)
           THEN /\ pc' = "settle" /\ outcome' = (IF cancelled THEN "cancelled" ELSE "error")
                /\ UNCHANGED <<msg, tool>>
           ELSE /\ pc' = "model" /\ UNCHANGED outcome
                /\ msg' = [msg EXCEPT ![turn] = "pending"]
                /\ tool' = Replayed(turn, group)
        /\ UNCHANGED faults
     \/ Fault /\ pc' = "settle" /\ outcome' = "error" /\ UNCHANGED <<msg, tool>>
  /\ UNCHANGED <<run, approval, bound, turnOf, call, linked, saved, execs, server, turn, group,
                 resumable, cancelled, queued, killed, handler, crashes, stops>>

\* The turn ends at a boundary of the model: with an answer, for a steering
\* message, or because the model or the store failed.
ModelEnd ==
  /\ pc = "model" /\ ~cancelled /\ AtRest(turn) /\ Paused(turn) = {}
  /\ \/ outcome' = "ok" /\ pc' = "message" /\ UNCHANGED faults
     \/ outcome' = "steered" /\ pc' = "settle" /\ UNCHANGED faults
     \/ outcome' = "error" /\ pc' = "settle" /\ Fault
  /\ UNCHANGED <<store, server, turn, group, resumable, cancelled, queued, tools, handler,
                 crashes, stops>>

\* Cancelling the turn does not wait for its tools.
ModelCancelled ==
  /\ pc = "model" /\ cancelled
  /\ outcome' = "cancelled" /\ pc' = "settle"
  /\ UNCHANGED <<store, server, turn, group, resumable, cancelled, queued, tools, handler, budget>>

\* The deferred cleanup of queryWithAttachments, innermost first: unfinished
\* tool calls, the status of the message, the checkpoint.
Unfinished == {c \in TurnCalls(turn) : call[c] = "running" /\ (outcome = "cancelled" \/ ~Live(c))}

SettleCalls ==
  /\ pc = "settle" /\ Settle(Unfinished) /\ pc' = "message"
  /\ UNCHANGED <<run, approval, bound, turnOf, linked, msg, saved, execs, server, turn, group, outcome,
                 resumable, cancelled, queued, tools, handler, budget>>

MarkMessage ==
  /\ pc = "message"
  /\ msg' = [msg EXCEPT ![turn] = IF outcome \in {"ok", "steered"} THEN "completed" ELSE "failed"]
  /\ pc' = "checkpoint"
  /\ UNCHANGED <<run, approval, bound, turnOf, call, linked, saved, execs, server, turn, group, outcome,
                 resumable, cancelled, queued, tools, handler, budget>>

\* approvalCheckpointRecoverable
Replayable(c) == \/ approval[c] = "pending"  /\ run[c] = "approval_required"
                 \/ approval[c] = "approved" /\ (run[c] = "approval_required" \/ Terminal(c))
                 \/ approval[c] = "rejected" /\ run[c] = "rejected"
Recoverable(t) == HasCheckpoint(t) /\ Bound(t) # {} /\ \A c \in Bound(t) : Replayable(c)
RetainedIfWaiting ==  \* mutant: asks the message, which the cleanup has just failed
  outcome = "error" /\ resumable /\ msg[turn] = "waiting_for_approval"
Retained == outcome = "error" /\ resumable /\ Recoverable(turn)

CheckpointCleanup ==
  /\ pc = "checkpoint"
  /\ pc' = "exit"
  /\ \/ /\ Retained
        /\ msg' = [msg EXCEPT ![turn] = "waiting_for_approval"] /\ UNCHANGED <<saved, faults>>
     \/ /\ ~Retained
        /\ saved' = [saved EXCEPT ![turn] = {}] /\ UNCHANGED <<msg, faults>>
     \/ HasCheckpoint(turn) /\ Fault /\ UNCHANGED <<msg, saved>>
  /\ UNCHANGED <<run, approval, bound, turnOf, call, linked, execs, server, turn, group, outcome,
                 resumable, cancelled, queued, tools, handler, crashes, stops>>

\* After an answer or a steering boundary the next queued message becomes a turn
\* of the same driver.
QueueAdvance(t) ==
  /\ pc = "exit" /\ outcome \in {"ok", "steered"} /\ queue = "open" /\ msg[t] = "none"
  /\ pc' = "begun" /\ turn' = t /\ group' = {}
  /\ UNCHANGED <<store, server, outcome, resumable, cancelled, queued, tools, handler, budget>>

Exit ==
  /\ pc = "exit"
  /\ pc' = "idle" /\ turn' = NoTurn /\ group' = {} /\ cancelled' = FALSE
  /\ outcome' = "none" /\ resumable' = FALSE
  /\ queue' = "none" /\ paused' = {} /\ woken' = FALSE
  /\ UNCHANGED <<store, server, tools, handler, budget>>

---------------------------------------------------------------------------
(* The goroutine of one tool call *)

Execute(c) == execs' = [execs EXCEPT ![c] = @ + 1]
EndCall(c) == call' = [call EXCEPT ![c] = "settled"]

\* submit: the approval mode runs the operation, refuses it, or asks first.
ToolSubmit(c) ==
  /\ tool[c] = "started" /\ c \notin killed
  /\ \/ /\ run' = [run EXCEPT ![c] = "running"] /\ Execute(c)
        /\ linked' = linked \cup {c}
        /\ MoveTool(c, "executing") /\ UNCHANGED call
     \/ /\ run' = [run EXCEPT ![c] = "rejected"]
        /\ MoveTool(c, "done") /\ EndCall(c) /\ UNCHANGED <<execs, linked>>
     \/ /\ run' = [run EXCEPT ![c] = "approval_required"]
        /\ MoveTool(c, "created") /\ UNCHANGED <<execs, linked, call>>
  /\ UNCHANGED <<approval, bound, turnOf, msg, saved, server, driver, queued, killed, handler, budget>>

\* bindExecutionOwner: BindChatToolCallRun, whose failure is only logged.
ToolBind(c) ==
  /\ tool[c] = "created"
  /\ linked' = IF c \in killed THEN linked ELSE linked \cup {c}
  /\ MoveTool(c, "bound")
  /\ UNCHANGED <<run, approval, bound, turnOf, call, msg, saved, execs, server, driver, queued,
                 killed, handler, budget>>

\* CreateApproval, not yet visible to an operator.
ToolRequest(c) ==
  /\ tool[c] = "bound" /\ c \notin killed
  /\ approval' = [approval EXCEPT ![c] = "preparing"]
  /\ MoveTool(c, "requested")
  /\ UNCHANGED <<run, bound, turnOf, call, linked, msg, saved, execs, server, driver, queued,
                 killed, handler, budget>>

\* The tool reports its pause and returns an interrupt to Eino.
ToolPause(c) ==
  /\ tool[c] = "requested"
  /\ call' = [call EXCEPT ![c] = IF @ = "settled" THEN @ ELSE "approval_required"]
  /\ MoveTool(c, "paused")
  /\ UNCHANGED <<run, approval, bound, turnOf, linked, msg, saved, execs, server, driver, queued,
                 killed, handler, budget>>

\* The scope is cancelled or the store fails before the operation was accepted:
\* the tool returns an error, and the run keeps the status it was created with.
ToolAbandon(c) ==
  /\ \/ tool[c] \in {"started", "bound"} /\ c \in killed /\ UNCHANGED faults
     \/ tool[c] \in {"started", "bound"} /\ c \notin killed /\ Fault
  /\ MoveTool(c, "done") /\ EndCall(c)
  /\ UNCHANGED <<run, approval, bound, turnOf, linked, msg, saved, execs, server, driver, queued,
                 killed, handler, crashes, stops>>

\* A resumed tool: StartChatToolCall and SetChatToolCallActiveStatus, then the
\* reads of ResumeAgentApproval.  A decided run that is terminal is reported
\* again, not run again.
ToolResume(c) ==
  /\ tool[c] = "resume"
  /\ IF c \in killed \/ approval[c] # "approved" \/ Terminal(c)
     THEN MoveTool(c, "done") /\ EndCall(c)
     ELSE /\ \E where \in {"claim", "refused"} : MoveTool(c, where)
          /\ call' = [call EXCEPT ![c] = IF @ = "approval_required" THEN "running" ELSE @]
  /\ UNCHANGED <<run, approval, bound, turnOf, linked, msg, saved, execs, server, driver, queued,
                 killed, handler, budget>>

\* ClaimAgentApprovalRun: the statement that hands the run to this tool.
ClaimableOnRead(c) == TRUE  \* mutant: the claim trusts the read before it
Claimable(c) == run[c] = "approval_required" /\ approval[c] = "approved"
ClaimedStatusKept  == "approval_required"  \* mutant: the claim is not written
ClaimedStatusOther == "approved"           \* mutant: the status of the approval
ClaimedStatus      == "running"

ToolClaim(c) ==
  /\ tool[c] = "claim"
  /\ IF c \notin killed /\ Claimable(c)
     THEN /\ run' = [run EXCEPT ![c] = ClaimedStatus] /\ Execute(c)
          /\ MoveTool(c, "executing") /\ UNCHANGED call
     ELSE MoveTool(c, "done") /\ EndCall(c) /\ UNCHANGED <<run, execs>>
  /\ UNCHANGED <<approval, bound, turnOf, linked, msg, saved, server, driver, queued, killed,
                 handler, budget>>

\* The host no longer admits the Agent: finishApprovedExecutionError reads the
\* run again, and finishExecution then overwrites it whatever it has become.
ToolRefused(c) ==
  /\ tool[c] = "refused"
  /\ IF Terminal(c) THEN MoveTool(c, "done") /\ EndCall(c)
                    ELSE MoveTool(c, "failing") /\ UNCHANGED call
  /\ UNCHANGED <<run, approval, bound, turnOf, linked, msg, saved, execs, server, driver, queued,
                 killed, handler, budget>>

\* finishExecution, on a context that outlives the turn.
ToolFinish(c) ==
  /\ tool[c] \in {"executing", "failing"}
  /\ \/ /\ \E status \in {"completed", "failed", "interrupted"} :
             /\ tool[c] = "failing" => status # "completed"
             /\ status = "interrupted" => c \in killed
             /\ run' = [run EXCEPT ![c] = status]
        /\ UNCHANGED faults
     \/ Fault /\ UNCHANGED run
  /\ MoveTool(c, "done") /\ EndCall(c)
  /\ UNCHANGED <<approval, bound, turnOf, linked, msg, saved, execs, server, driver, queued, killed,
                 handler, crashes, stops>>

---------------------------------------------------------------------------
(* The handler of one decision: approve and reject *)

\* DecideAgentApproval: one transaction over the approval and its run.
Decidable(c) == approval[c] = "pending" /\ c \in bound

Decide(c, decision) ==
  /\ server = "up" /\ op[c] = "idle" /\ Decidable(c)
  /\ decision = "rejected" => run[c] = "approval_required"
  /\ approval' = [approval EXCEPT ![c] = decision]
  /\ run' = IF decision = "rejected" THEN [run EXCEPT ![c] = "rejected"] ELSE run
  /\ op' = [op EXCEPT ![c] = "decided"]
  /\ UNCHANGED <<bound, turnOf, call, linked, msg, saved, execs, server, driver, queued, tools,
                 opGroup, stop, budget>>

\* publishExecutionEvent settles the call of a rejected run, and then
\* chatMessageQueue.resume wakes the waiting driver on the last decision.
RemainingAll(c) == paused  \* mutant: the decision is not taken off the pause
Remaining(c) == paused \ {c}

OpResumeQueue(c) ==
  /\ op[c] = "decided"
  /\ IF run[c] = "rejected" /\ c \in linked THEN Settle({c}) ELSE UNCHANGED call
  /\ IF queue # "none" /\ c \in paused
     THEN /\ paused' = Remaining(c)
          /\ woken' = (woken \/ Remaining(c) = {})
          /\ op' = [op EXCEPT ![c] = "idle"]
     ELSE /\ op' = [op EXCEPT ![c] = "missed"] /\ UNCHANGED <<paused, woken>>
  /\ UNCHANGED <<run, approval, bound, turnOf, linked, msg, saved, execs, server, driver, queue,
                 tools, opGroup, stop, budget>>

OpCheckActive(c) ==
  /\ op[c] = "missed"
  /\ op' = [op EXCEPT ![c] = IF ChatSessionActive THEN "idle" ELSE "inactive"]
  /\ UNCHANGED <<store, server, driver, queued, tools, opGroup, stop, budget>>

\* decidedAgentApprovalGroup
DecidedGroup(t) == IF AllDecided(Bound(t)) THEN Bound(t) ELSE {}

OpReadGroup(c) ==
  /\ op[c] = "inactive"
  /\ LET S == DecidedGroup(turnOf[c])
     IN /\ op' = [op EXCEPT ![c] = IF S = {} THEN "idle" ELSE "begin"]
        /\ opGroup' = [opGroup EXCEPT ![c] = S]
  /\ UNCHANGED <<store, server, driver, queued, tools, stop, budget>>

OpBegin(c) ==
  /\ op[c] = "begin"
  /\ op' = [op EXCEPT ![c] = "idle"] /\ opGroup' = [opGroup EXCEPT ![c] = {}]
  /\ \/ BeginDriver(turnOf[c], opGroup[c])
     \/ queue # "none" /\ UNCHANGED <<queue, pc, turn, group, cancelled>>
  /\ UNCHANGED <<store, server, outcome, resumable, paused, woken, tools, stop, budget>>

---------------------------------------------------------------------------
(* The stop handler: cancelChatSession *)

LiveTools == {c \in Calls : Live(c)}

\* CancelSession cancels the turn, if one is active, and every tool scope.
StopSession ==
  /\ server = "up" /\ stop \in {"idle", "done"} /\ stops < MaxStops
  /\ stops' = stops + 1
  /\ cancelled' = (cancelled \/ SessionActive)
  /\ killed' = killed \cup LiveTools
  /\ stop' = "cancelled"
  /\ UNCHANGED <<store, server, pc, turn, group, outcome, resumable, queued, tool, op, opGroup,
                 crashes, faults>>

\* chatMessageQueue.clear
StopQueue ==
  /\ stop = "cancelled"
  /\ stop' = "cleared"
  /\ IF queue = "none" THEN UNCHANGED <<queue, cancelled>>
                       ELSE queue' = "cleared" /\ cancelled' = TRUE
  /\ UNCHANGED <<store, server, pc, turn, group, outcome, resumable, paused, woken, tools, op,
                 opGroup, budget>>

\* AbortAgentApprovalsForSession: one transaction; the calls are settled after.
AbortableAny ==  \* mutant: executed operations are swept as well
  {c \in Calls : approval[c] \in {"pending", "approved"}}
Abortable == {c \in Calls : approval[c] \in {"pending", "approved"} /\ run[c] = "approval_required"}

StopAbort ==
  /\ stop = "cleared"
  /\ stop' = "aborted"
  /\ approval' = [c \in Calls |-> IF c \in Abortable THEN "rejected" ELSE approval[c]]
  /\ run' = [c \in Calls |-> IF c \in Abortable THEN "rejected" ELSE run[c]]
  /\ Settle(Abortable \cap linked)
  /\ UNCHANGED <<bound, turnOf, linked, msg, saved, execs, server, driver, queued, tools, op, opGroup,
                 budget>>

\* Every approval that became pending meanwhile is rejected, without the resume
\* of the queue that the handler of a rejection does.
StopReject(c) ==
  /\ stop = "aborted" /\ Decidable(c) /\ run[c] = "approval_required"
  /\ approval' = [approval EXCEPT ![c] = "rejected"]
  /\ run' = [run EXCEPT ![c] = "rejected"]
  /\ Settle({c} \cap linked)
  /\ UNCHANGED <<bound, turnOf, linked, msg, saved, execs, server, driver, queued, tools, handler,
                 budget>>

StopDone ==
  /\ stop = "aborted" /\ \A c \in Calls : approval[c] # "pending"
  /\ stop' = "done"
  /\ UNCHANGED <<store, server, driver, queued, tools, op, opGroup, budget>>

---------------------------------------------------------------------------
(* Crash and restart *)

Crash ==
  /\ crashes < MaxCrashes /\ crashes' = crashes + 1
  /\ server' = "runs"
  /\ pc' = "idle" /\ turn' = NoTurn /\ group' = {} /\ outcome' = "none"
  /\ resumable' = FALSE /\ cancelled' = FALSE
  /\ queue' = "none" /\ paused' = {} /\ woken' = FALSE
  /\ tool' = [c \in Calls |-> "idle"] /\ killed' = {}
  /\ op' = [c \in Calls |-> "idle"] /\ opGroup' = [c \in Calls |-> {}] /\ stop' = "idle"
  /\ UNCHANGED <<store, stops, faults>>

\* InterruptActiveRuns
RecoverRuns ==
  /\ server = "runs" /\ server' = "approvals"
  /\ run' = [c \in Calls |-> IF run[c] = "running" THEN "interrupted" ELSE run[c]]
  /\ UNCHANGED <<approval, bound, turnOf, call, linked, msg, saved, execs, driver, queued, tools,
                 handler, budget>>

\* AbortUnactivatedAgentApprovals: one transaction.
Unactivated == {c \in Calls : approval[c] = "preparing"}

RecoverApprovals ==
  /\ server = "approvals" /\ server' = "messages"
  /\ saved' = [t \in Turns |-> IF TurnCalls(t) \cap Unactivated = {} THEN saved[t] ELSE {}]
  /\ run' = [c \in Calls |-> IF c \in Unactivated /\ run[c] = "approval_required"
                             THEN "interrupted" ELSE run[c]]
  /\ approval' = [c \in Calls |-> IF c \in Unactivated THEN "rejected" ELSE approval[c]]
  /\ UNCHANGED <<bound, turnOf, call, linked, msg, execs, driver, queued, tools, handler, budget>>

\* FailPendingChatMessages keeps a turn some interrupted call can resume.
ParkedNever(t) == FALSE  \* mutant: every pending turn is failed
Parked(t) == HasCheckpoint(t) /\ Bound(t) \cap linked # {}

RecoverMessages ==
  /\ server = "messages" /\ server' = "calls"
  /\ msg' = [t \in Turns |-> IF msg[t] = "pending" /\ ~Parked(t) THEN "failed" ELSE msg[t]]
  /\ UNCHANGED <<run, approval, bound, turnOf, call, linked, saved, execs, driver, queued, tools,
                 handler, budget>>

\* recoverChatToolCalls leaves the calls that wait for a decision.
WaitingIfLinked(c) == c \in linked  \* mutant: the status of the run is not read
Waiting(c) == c \in linked /\ run[c] = "approval_required"

RecoverCalls ==
  /\ server = "calls" /\ server' = "resume"
  /\ Settle({c \in Calls : ~Waiting(c)})
  /\ UNCHANGED <<run, approval, bound, turnOf, linked, msg, saved, execs, driver, queued, tools,
                 handler, budget>>

\* ListDecidedAgentApprovals
ResumableInPart(t) ==  \* mutant: no look at the undecided siblings
  HasCheckpoint(t) /\ \E c \in Bound(t) : approval[c] \in Decided
Resumable(t) == HasCheckpoint(t) /\ Bound(t) # {} /\ AllDecided(Bound(t))

\* recoverAgentApprovals: a driver for a decided group, if the conversation has
\* none.
ResumeDecided(t) ==
  /\ Resumable(t) /\ ~ChatSessionActive /\ BeginDriver(t, Bound(t))
  /\ UNCHANGED <<store, outcome, resumable, paused, woken, tools, handler, budget>>

RecoverResume ==
  /\ server = "resume" /\ server' = "up"
  /\ \/ \E t \in Turns : ResumeDecided(t)
     \/ /\ \A t \in Turns : ~Resumable(t)
        /\ UNCHANGED <<store, driver, queued, tools, handler, budget>>

\* reloadAgent, after any change of the model or of the tools, does the same.
ReloadAgent(t) == server = "up" /\ ResumeDecided(t) /\ UNCHANGED server

---------------------------------------------------------------------------

Init ==
  /\ run = [c \in Calls |-> "none"] /\ approval = [c \in Calls |-> "none"] /\ bound = {}
  /\ turnOf = [c \in Calls |-> NoTurn] /\ call = [c \in Calls |-> "none"] /\ linked = {}
  /\ msg = [t \in Turns |-> "none"] /\ saved = [t \in Turns |-> {}] /\ execs = [c \in Calls |-> 0]
  /\ server = "up"
  /\ pc = "idle" /\ turn = NoTurn /\ group = {} /\ outcome = "none"
  /\ resumable = FALSE /\ cancelled = FALSE
  /\ queue = "none" /\ paused = {} /\ woken = FALSE
  /\ tool = [c \in Calls |-> "idle"] /\ killed = {}
  /\ op = [c \in Calls |-> "idle"] /\ opGroup = [c \in Calls |-> {}] /\ stop = "idle"
  /\ crashes = 0 /\ stops = 0 /\ faults = 0

\* What the driver does on its own once a turn has begun.
DriverStep ==
  \/ BeginTurn \/ BeginResume \/ Interrupt \/ RegisterPause \/ Activate \/ MarkWaiting \/ Wake
  \/ ResumeGroup \/ ModelEnd \/ ModelCancelled \/ SettleCalls \/ MarkMessage \/ CheckpointCleanup
  \/ Exit

ToolStep(c) ==
  \/ ToolSubmit(c) \/ ToolBind(c) \/ ToolRequest(c) \/ ToolPause(c) \/ ToolAbandon(c)
  \/ ToolResume(c) \/ ToolClaim(c) \/ ToolRefused(c) \/ ToolFinish(c)

OpStep(c) == OpResumeQueue(c) \/ OpCheckActive(c) \/ OpReadGroup(c) \/ OpBegin(c)

StopStep == StopQueue \/ StopAbort \/ (\E c \in Calls : StopReject(c)) \/ StopDone

RecoveryStep ==
  RecoverRuns \/ RecoverApprovals \/ RecoverMessages \/ RecoverCalls \/ RecoverResume

Next ==
  \/ \E t \in Turns : StartTurn(t) \/ QueueAdvance(t) \/ ReloadAgent(t)
  \/ \E S \in SUBSET Calls : ModelCalls(S)
  \/ DriverStep
  \/ \E c \in Calls : ToolStep(c) \/ OpStep(c)
  \/ \E c \in Calls, d \in Decided : Decide(c, d)
  \/ StopSession \/ StopStep
  \/ Crash \/ RecoveryStep

Spec == Init /\ [][Next]_vars

\* Goroutines are scheduled: a driver, a tool and a handler that can move do.
\* Nothing obliges the user to write, the operator to decide or the process to
\* crash.
Fairness ==
  /\ WF_vars(DriverStep) /\ WF_vars(StopStep) /\ WF_vars(RecoveryStep)
  /\ \A c \in Calls : WF_vars(ToolStep(c)) /\ WF_vars(OpStep(c))

FairSpec == Spec /\ Fairness

---------------------------------------------------------------------------
(* Properties *)

RunStatus      == {"none", "approval_required", "running"} \cup TerminalRun
ApprovalStatus == {"none", "preparing", "pending"} \cup Decided
CallStatus     == {"none", "running", "approval_required", "settled"}
MessageStatus  == {"none", "pending", "waiting_for_approval", "completed", "failed"}
ServerStep     == {"up", "runs", "approvals", "messages", "calls", "resume"}
DriverPlace    == {"idle", "begun", "model", "interrupted", "registered", "activated", "waiting",
                   "woken", "settle", "message", "checkpoint", "exit"}
ToolPlace      == {"idle", "started", "created", "bound", "requested", "paused", "resume", "claim",
                   "refused", "failing", "executing", "done"}
Outcome        == {"none", "ok", "error", "cancelled", "steered"}
HandlerPlace   == {"idle", "decided", "missed", "inactive", "begin"}

StoreTypes ==
  /\ run \in [Calls -> RunStatus] /\ approval \in [Calls -> ApprovalStatus] /\ bound \subseteq Calls
  /\ turnOf \in [Calls -> Turns \cup {NoTurn}] /\ call \in [Calls -> CallStatus]
  /\ linked \subseteq Calls /\ msg \in [Turns -> MessageStatus] /\ saved \in [Turns -> SUBSET Calls]
  /\ execs \in [Calls -> Nat]

ProcessTypes ==
  /\ server \in ServerStep /\ pc \in DriverPlace /\ turn \in Turns \cup {NoTurn}
  /\ group \subseteq Calls /\ outcome \in Outcome
  /\ queue \in {"none", "open", "cleared"} /\ paused \subseteq Calls
  /\ tool \in [Calls -> ToolPlace] /\ killed \subseteq Calls
  /\ op \in [Calls -> HandlerPlace] /\ opGroup \in [Calls -> SUBSET Calls]
  /\ stop \in {"idle", "cancelled", "cleared", "aborted", "done"}
  /\ crashes \in Nat /\ stops \in Nat /\ faults \in Nat

FlagTypes == resumable \in BOOLEAN /\ cancelled \in BOOLEAN /\ woken \in BOOLEAN

\* The type of every variable: the statuses the schema and the code write.
TypeOK == StoreTypes /\ ProcessTypes /\ FlagTypes

\* An operation is executed at most once, whatever is resumed, stopped or
\* restarted around it (docs/architecture.md: the atomic claim of the approved
\* payload guarantees a single execution).
AtMostOnce == \A c \in Calls : execs[c] <= 1

\* What was executed was approved, or never needed an approval: in particular a
\* rejected operation is not executed, even if the rejection comes from a stop
\* that meets the resumed tool between its read and its claim.
ExecutedAsDecided == \A c \in Calls : execs[c] > 0 => approval[c] \in {"none", "approved"}

\* A partial group never becomes visible: an approval an operator can decide has
\* no sibling of its turn that is still being prepared (ActivateAgentApprovals).
GroupExposedTogether ==
  \A c, d \in Calls : approval[c] = "pending" /\ approval[d] = "preparing" => turnOf[c] # turnOf[d]

\* The tools of a group are resumed together, once the whole group is decided
\* (the pausedFor set of the queue, or the group a handler or a restart read).
ResumedWhenDecided ==
  \A c \in Calls : tool[c] \in {"resume", "claim", "refused", "failing"} =>
    AllDecided(Bound(turnOf[c]))

\* The operations of a turn that pauses are one group: a decision can be made of one
\* only when it can be made of all, and none is resumed before all are decided.
GroupActsTogether == GroupExposedTogether /\ ResumedWhenDecided

\* The driver sleeps only while a decision is missing or on its way: when every
\* approval of its group is decided, it is woken or a handler will wake it.  (Not
\* after a failure: a handler that then starts the turn anew with the group it read
\* before makes the driver ask again for decisions that do not reach the new pause.)
WaiterIsWoken ==
  stops = 0 /\ faults = 0 /\ pc = "waiting" /\ AllDecided(group) =>
    woken \/ cancelled \/ (\E c \in group : op[c] = "decided")

\* A decision that is shown can be carried out: the checkpoint of its turn holds
\* the call it is about, unless a stop handler is about to reject the approval, or
\* the process died before it could.
PendingIsResumable ==
  stop \in {"idle", "done"} /\ (stops = 0 \/ crashes = 0) =>
    \A c \in Calls : approval[c] = "pending" => c \in saved[turnOf[c]]

\* Nobody works on the conversation.
Quiet == /\ server = "up" /\ queue = "none" /\ LiveTools = {} /\ stop \in {"idle", "done"}
         /\ \A c \in Calls : op[c] = "idle"

\* A conversation at rest is busy only because an operation awaits a decision:
\* no finished, failed or interrupted operation keeps it from going on.
BusyIsAwaiting == Quiet /\ SessionBusy => \E c \in Calls : run[c] = "approval_required"

VerdictsKept ==
  \A c \in Calls : /\ Terminal(c) => run'[c] \in TerminalRun
                   /\ approval[c] = "rejected" => approval'[c] = "rejected"
                   /\ execs[c] > 0 => approval'[c] = approval[c]

\* Verdicts are final: a run that ended is never reopened, a rejection is never
\* taken back, and the approval of an executed operation is never changed.
VerdictsFinal == [][VerdictsKept]_vars

\* The operations of the conversation, as the promise of OperationGate sees them.
GateOf(c) ==
  IF execs[c] > 0 THEN "started"
  ELSE IF approval[c] = "rejected" \/ Terminal(c) THEN "refused"
  ELSE IF approval[c] = "approved" THEN "granted"
  ELSE IF run[c] = "approval_required" THEN "asked"
  ELSE "idle"

gateOf == [c \in Calls |-> GateOf(c)]

Gate == INSTANCE OperationGate WITH Operations <- Calls, gate <- gateOf

\* The machinery keeps the promise of OperationGate.
KeepsGate == Gate!GateSpec

\* An approved operation that its turn has yet to carry out.
Unresumed(t) == /\ Resumable(t)
                /\ \E c \in Bound(t) : approval[c] = "approved" /\ run[c] = "approval_required"

\* A group that is decided completely is fed back to its turn, in the same
\* process or after a restart (docs/architecture.md, restart rules).
DecidedGroupContinues == \A t \in Turns : Unresumed(t) ~> ~Unresumed(t)

\* A stop request ends the turn it cancels.
CancelledTurnEnds == cancelled ~> pc = "idle"

---------------------------------------------------------------------------
(* What the repository says and the code does not do; see README. *)

\* "AbortApprovalsForSession stops every approval that still belongs to a live
\* execution path for the session": when the stop is over and everything it
\* cancelled has returned, no approval of the conversation is left undecided.
StopLeavesNoApproval ==
  stop = "done" /\ Quiet => \A c \in Calls : approval[c] \notin {"preparing", "pending"}

\* AbortUnactivatedAgentApprovals "reconciles the only unsafe crash window": once
\* the restart is over, every run that awaits an approval has one.
NoOrphanedRun ==
  Quiet => \A c \in Calls : run[c] = "approval_required" => approval[c] # "none"
=============================================================================
