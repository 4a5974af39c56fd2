------------------------------ MODULE ChatTurns ------------------------------
(***************************************************************************)
(* The turns of one conversation and what may reach them while they run:   *)
(*   - the conversation driver (httpapi runChatTurnLoop), which runs one   *)
(*     turn of the Agent after the other and owns the message queue;       *)
(*   - one handler per message sent meanwhile (httpapi queueChatMessage),  *)
(*     which enqueues it and, for a steering message, then asks the active *)
(*     turn to end at its next safe point (agent SteerSession);            *)
(*   - the stop handler (httpapi cancelChatSession);                       *)
(*   - the compression of the context (httpapi compressChatContext), which *)
(*     competes with the driver for the session of the runtime.            *)
(* What a turn does to tool calls and approvals is the subject of          *)
(* ApprovalContinuation; here it is one step, or a pause.                  *)
(***************************************************************************)
EXTENDS Naturals, Sequences

CONSTANTS
  Messages,         \* what the user sends, each message once
  Steering,         \* those sent in steering mode
  MaxQueued,        \* maxQueuedChatMessages
  MaxTroubles       \* bound: stop requests, failures and compressions together

ASSUME SteeringAssumption == Steering \subseteq Messages
ASSUME BoundAssumption == MaxQueued \in Nat

VARIABLES
  box,           \* the chatQueueSession: "absent", or what it does with a message
  items,         \* its items
  queueCtx,      \* its context is cancelled
  runCtx,        \* the context of the driver is cancelled too
  pc,            \* where the driver is
  outcome,       \* how its last turn ended
  active,        \* the runtime has an activeAgentSession for the conversation
  turnCancelled, \* its modelCancel was called
  steerPending,  \* its steerPending
  asked,         \* the running Eino turn was asked to end at a safe point
  send,          \* where the handler of each message is
  holding,       \* handlers that hold the cancel function of the running Eino turn
  compress,      \* where the compression handler is
  stop,          \* where the stop handler is
  arrival,       \* history: when the queue accepted each message
  clock,         \* history: how many it accepted
  troubles       \* how many stops, failures and compressions there were

queue   == <<box, items, queueCtx>>
driver  == <<runCtx, pc, outcome>>
session == <<active, turnCancelled, steerPending>>
steer   == <<asked, send, holding>>
history == <<arrival, clock>>
vars    == <<queue, driver, session, steer, compress, stop, history, troubles>>

---------------------------------------------------------------------------
(* The message queue *)

Waiting == {items[i] : i \in DOMAIN items}

ClosingNot == "accepting"  \* mutant: the emptied queue still takes messages
ClosingOther == "cleared"  \* mutant: a state the queue does not know
Closing == "closing"

\* chatMessageQueue.clear and its context; a no-op without a session.
Clear ==
  IF box = "absent" THEN UNCHANGED queue
                    ELSE box' = "closing" /\ items' = <<>> /\ queueCtx' = TRUE

\* A steering message goes behind those that wait already and before the
\* follow-ups, a follow-up to the end.
Place(m, p) ==
  IF m \in Steering
  THEN /\ \A i \in 1..(p - 1) : items[i] \in Steering
       /\ p <= Len(items) => items[p] \notin Steering
  ELSE p = Len(items) + 1

InsertedAt(p, m) ==
  [i \in 1..(Len(items) + 1) |-> IF i < p THEN items[i] ELSE IF i = p THEN m ELSE items[i - 1]]

Full == Len(items) >= MaxQueued

RestAll(s) == s  \* mutant: the message that is started stays in the queue
Rest(s) == Tail(s)

---------------------------------------------------------------------------
(* The session of the runtime *)

Cancelled == turnCancelled \/ runCtx

VacantAlways == TRUE  \* mutant: beginSession does not look
Vacant == ~active

\* beginSession
BeginSession == active' = TRUE /\ turnCancelled' = FALSE /\ steerPending' = FALSE

\* endSession
EndSession == active' = FALSE /\ turnCancelled' = FALSE /\ steerPending' = FALSE

---------------------------------------------------------------------------
(* The driver *)

Trouble == troubles < MaxTroubles /\ troubles' = troubles + 1

InTurn == pc \in {"preamble", "model", "paused"}

\* chat: the queue accepts a driver for the message.
StartDriver(m) ==
  /\ box = "absent" /\ pc = "idle" /\ send[m] = "new"
  /\ box' = "accepting" /\ items' = <<>> /\ queueCtx' = FALSE /\ runCtx' = FALSE
  /\ pc' = "begin" /\ outcome' = "none"
  /\ send' = [send EXCEPT ![m] = "sent"]
  /\ UNCHANGED <<session, asked, holding, compress, stop, history, troubles>>

\* queryWithAttachments: ErrSessionBusy if somebody else has the session.
BeginTurn ==
  /\ pc = "begin"
  /\ IF Vacant
     THEN pc' = "preamble" /\ BeginSession /\ UNCHANGED outcome
     ELSE pc' = "between" /\ outcome' = "error" /\ UNCHANGED session
  /\ UNCHANGED <<queue, runCtx, steer, compress, stop, history, troubles>>

\* A turn ends: endSession, and the Eino turn is gone.
EndTurn(result) ==
  /\ pc' = "between" /\ outcome' = result /\ EndSession
  /\ asked' = FALSE /\ holding' = {}
  /\ UNCHANGED <<queue, runCtx, send, compress, stop, history>>

PreambleFails ==
  /\ pc = "preamble"
  /\ \/ Cancelled /\ EndTurn("cancelled") /\ UNCHANGED troubles
     \/ Trouble /\ EndTurn("error")

\* registerSteerCancel, then runner.Run or ResumeWithParams: a request that came
\* before the Eino turn existed is passed on to it.
AskedNever == FALSE  \* mutant: an earlier request is not passed on
AskedAtStart == steerPending

RunModel ==
  /\ pc = "preamble"
  /\ pc' = "model" /\ asked' = AskedAtStart
  /\ UNCHANGED <<queue, runCtx, outcome, session, send, holding, compress, stop, history, troubles>>

TurnEnds ==
  /\ pc = "model"
  /\ \/ ~Cancelled /\ EndTurn("ok") /\ UNCHANGED troubles
     \/ asked /\ EndTurn("steered") /\ UNCHANGED troubles
     \/ Cancelled /\ EndTurn("cancelled") /\ UNCHANGED troubles
     \/ Trouble /\ EndTurn("error")

\* A tool waits for an approval: the Eino turn has ended, and chatMessageQueue.pause
\* refuses if the queue takes no more messages.
Pause ==
  /\ pc = "model"
  /\ \/ /\ box = "accepting"
        /\ pc' = "paused" /\ asked' = FALSE /\ holding' = {}
        /\ UNCHANGED <<queue, runCtx, outcome, session, send, compress, stop, history>>
     \/ box # "accepting" /\ EndTurn("error")
  /\ UNCHANGED troubles

\* Everything was decided: a new Eino turn resumes the checkpoint.
Resume ==
  /\ pc = "paused" /\ ~queueCtx
  /\ \/ /\ ~Cancelled /\ pc' = "model" /\ asked' = AskedAtStart
        /\ UNCHANGED <<queue, runCtx, outcome, session, send, holding, compress, stop, history>>
     \/ Cancelled /\ EndTurn("cancelled")
  /\ UNCHANGED troubles

\* waitForResume ends with the context of the queue.
PauseCancelled ==
  /\ pc = "paused" /\ queueCtx /\ EndTurn("cancelled") /\ UNCHANGED troubles

\* chatMessageQueue.nextAfterTurn
NextAfterTurn ==
  /\ pc = "between" /\ outcome \in {"ok", "steered"}
  /\ IF items = <<>>
     THEN box' = Closing /\ pc' = "exit" /\ UNCHANGED items
     ELSE items' = Rest(items) /\ pc' = "begin" /\ UNCHANGED box
  /\ UNCHANGED <<queueCtx, runCtx, outcome, session, steer, compress, stop, history, troubles>>

\* A turn that failed or was cancelled takes the queue with it.
ClearAfterFailure ==
  /\ pc = "between" /\ outcome \in {"error", "cancelled"}
  /\ Clear /\ pc' = "exit"
  /\ UNCHANGED <<runCtx, outcome, session, steer, compress, stop, history, troubles>>

\* chatMessageQueue.finish
Finish ==
  /\ pc = "exit"
  /\ box' = "absent" /\ items' = <<>> /\ queueCtx' = FALSE
  /\ runCtx' = FALSE /\ pc' = "idle" /\ outcome' = "none"
  /\ UNCHANGED <<session, steer, compress, stop, history, troubles>>

\* newChatRunContext: the context of the queue cancels that of the driver, in a
\* goroutine of its own (context.AfterFunc).
CancelRun ==
  /\ queueCtx /\ ~runCtx /\ pc # "idle" /\ runCtx' = TRUE
  /\ UNCHANGED <<queue, pc, outcome, session, steer, compress, stop, history, troubles>>

---------------------------------------------------------------------------
(* The handler of a message sent to a running Agent *)

\* chatMessageQueue.enqueue
Enqueue(m) ==
  /\ send[m] = "new"
  /\ IF box = "accepting" /\ ~Full
     THEN /\ \E p \in 1..(Len(items) + 1) : Place(m, p) /\ items' = InsertedAt(p, m)
          /\ clock' = clock + 1 /\ arrival' = [arrival EXCEPT ![m] = clock + 1]
          /\ send' = [send EXCEPT ![m] = IF m \in Steering THEN "steer" ELSE "sent"]
     ELSE send' = [send EXCEPT ![m] = "refused"] /\ UNCHANGED <<items, history>>
  /\ UNCHANGED <<box, queueCtx, driver, session, asked, holding, compress, stop, troubles>>

\* SteerSession, under its lock: mark the active turn and take its cancel function.
SteerMark(m) ==
  /\ send[m] = "steer"
  /\ steerPending' = (steerPending \/ active)
  /\ IF pc = "model" THEN holding' = holding \cup {m} /\ send' = [send EXCEPT ![m] = "request"]
                     ELSE UNCHANGED holding /\ send' = [send EXCEPT ![m] = "sent"]
  /\ UNCHANGED <<queue, driver, active, turnCancelled, asked, compress, stop, history, troubles>>

\* requestAgentSteer, after the lock; the Eino turn may have ended.
SteerRequest(m) ==
  /\ send[m] = "request"
  /\ asked' = (asked \/ m \in holding)
  /\ holding' = holding \ {m} /\ send' = [send EXCEPT ![m] = "sent"]
  /\ UNCHANGED <<queue, driver, session, compress, stop, history, troubles>>

---------------------------------------------------------------------------
(* The stop handler *)

CancelSession ==
  /\ stop = "idle" /\ Trouble
  /\ turnCancelled' = (turnCancelled \/ active)
  /\ stop' = "cancelled"
  /\ UNCHANGED <<queue, driver, active, steerPending, steer, compress, history>>

ClearQueue ==
  /\ stop = "cancelled" /\ stop' = "idle" /\ Clear
  /\ UNCHANGED <<driver, session, steer, compress, history, troubles>>

---------------------------------------------------------------------------
(* The compression of the context *)

\* The handler asks whether the conversation is active (and gives up if it is) ...
CompressCheck ==
  /\ compress = "idle" /\ Trouble
  /\ box = "absent" /\ ~active /\ compress' = "checked"
  /\ UNCHANGED <<queue, driver, session, steer, stop, history>>

\* ... and CompressContext takes the session of the runtime.
CompressBegin ==
  /\ compress = "checked"
  /\ IF Vacant THEN compress' = "active" /\ BeginSession
               ELSE compress' = "idle" /\ UNCHANGED session
  /\ UNCHANGED <<queue, driver, steer, stop, history, troubles>>

CompressEnd ==
  /\ compress = "active" /\ compress' = "idle" /\ EndSession
  /\ UNCHANGED <<queue, driver, steer, stop, history, troubles>>

---------------------------------------------------------------------------

Init ==
  /\ box = "absent" /\ items = <<>> /\ queueCtx = FALSE /\ runCtx = FALSE
  /\ pc = "idle" /\ outcome = "none"
  /\ active = FALSE /\ turnCancelled = FALSE /\ steerPending = FALSE
  /\ asked = FALSE /\ send = [m \in Messages |-> "new"] /\ holding = {}
  /\ compress = "idle" /\ stop = "idle"
  /\ arrival = [m \in Messages |-> 0] /\ clock = 0
  /\ troubles = 0

DriverStep ==
  \/ BeginTurn \/ PreambleFails \/ RunModel \/ TurnEnds \/ PauseCancelled
  \/ NextAfterTurn \/ ClearAfterFailure \/ Finish

Next ==
  \/ DriverStep \/ CancelRun \/ Pause \/ Resume
  \/ \E m \in Messages : StartDriver(m) \/ Enqueue(m) \/ SteerMark(m) \/ SteerRequest(m)
  \/ CancelSession \/ ClearQueue
  \/ CompressCheck \/ CompressBegin \/ CompressEnd

Spec == Init /\ [][Next]_vars

\* The driver, the handlers that began and the goroutine of the context go on;
\* the model and the compression are bound by timeouts.  Nobody has to write,
\* stop, compress or decide an approval.
Fairness ==
  /\ WF_vars(DriverStep) /\ WF_vars(CancelRun) /\ WF_vars(ClearQueue)
  /\ WF_vars(CompressBegin \/ CompressEnd)
  /\ \A m \in Messages : WF_vars(SteerMark(m) \/ SteerRequest(m))

FairSpec == Spec /\ Fairness

---------------------------------------------------------------------------
(* Properties *)

DataTypes ==
  /\ box \in {"absent", "accepting", "closing"} /\ items \in Seq(Messages)
  /\ pc \in {"idle", "begin", "preamble", "model", "paused", "between", "exit"}
  /\ outcome \in {"none", "ok", "steered", "error", "cancelled"}
  /\ send \in [Messages -> {"new", "steer", "request", "sent", "refused"}]
  /\ holding \subseteq Messages
  /\ compress \in {"idle", "checked", "active"} /\ stop \in {"idle", "cancelled"}
  /\ arrival \in [Messages -> Nat] /\ clock \in Nat /\ troubles \in Nat

FlagTypes ==
  /\ queueCtx \in BOOLEAN /\ runCtx \in BOOLEAN /\ active \in BOOLEAN
  /\ turnCancelled \in BOOLEAN /\ steerPending \in BOOLEAN /\ asked \in BOOLEAN

\* The type of every variable: the driver's places and the handlers' steps.
TypeOK == DataTypes /\ FlagTypes

Mailbox == INSTANCE ChatMailbox WITH waiting <- Waiting

\* The queue keeps the promise of ChatMailbox: order of arrival with steering
\* first, nothing taken after a stop, nothing accepted and left behind when the
\* driver goes (docs/architecture.md, conversation persistence).
KeepsMailbox == Mailbox!MailboxSpec

\* The queue never holds more than maxQueuedChatMessages, wherever they go in.
BoundedQueue == Len(items) <= MaxQueued

\* A turn and a compression never work on the conversation at the same time,
\* although the handler of the compression decides on a stale answer.
OneUserOfContext == ~(InTurn /\ compress = "active")

\* A steering request that the runtime granted (SteerSession returned true)
\* reaches the running model, even if it came before the model ran or while the
\* turn was paused.
SteeringIsDelivered == pc = "model" /\ steerPending => asked \/ holding # {}

\* A message that waits is taken or dropped in the end, unless its conversation
\* waits for an approval.
QueueDrains == \A m \in Messages : m \in Waiting ~> m \notin Waiting \/ pc = "paused"

---------------------------------------------------------------------------
(* What the documentation says and the code does not do; see README. *)

\* A turn is steered to start a new input at once: when a turn ends steered, a
\* message waits, unless the conversation was stopped meanwhile.
SteeredTurnHasSuccessor ==
  pc = "between" /\ outcome = "steered" => items # <<>> \/ box = "closing"
=============================================================================
