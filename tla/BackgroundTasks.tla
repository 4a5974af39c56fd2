--------------------------- MODULE BackgroundTasks ---------------------------
(***************************************************************************)
(* Background tasks of the service and the approved executions they wait   *)
(* for.  A task has one run and at most one approval; all three are one    *)
(* element of Tasks.  Three threads meet over a task:                      *)
(*   - its worker (service StartTask and runTask), which submits the       *)
(*     operation, executes it or registers the task for its approval;      *)
(*   - the decision (service ApproveAsync or Reject), whose approved       *)
(*     execution is a goroutine of its own;                                *)
(*   - the cancellation (service CancelTask);                              *)
(* and the service is shut down, crashes and recovers under them.  What a  *)
(* thread learnt under taskMu it writes to the table after it let the lock *)
(* go, so writes overtake each other.  Output of commands is left out.     *)
(***************************************************************************)
EXTENDS Naturals, FiniteSets

CONSTANTS
  Tasks,
  MaxRestarts,  \* bound: crashes and restarts after a shutdown
  MaxFaults     \* bound: failed writes

ASSUME BoundAssumption == MaxRestarts \in Nat /\ MaxFaults \in Nat

VARIABLES
  phase,      \* "up", "closing", "stopped", or the recovery step that comes next
  row,        \* tasks table: status and revision ("none": no row)
  run,        \* runs.status
  approval,   \* approvals.status
  live,       \* s.tasks
  waiting,    \* s.approvalTasks
  state,      \* taskState: status, revision, and whether approvalID is set
  taskDone,   \* tasks whose context is cancelled
  registered, \* s.executionCancels
  marked,     \* s.cancelledExecutions
  execDone,   \* approved executions whose context is cancelled
  worker,     \* where the worker of each task is
  result,     \* the status its submit returned
  act,        \* where the decision and its execution are
  canc,       \* where the cancellation is
  carried,    \* the snapshot each thread has yet to write
  execs,      \* history: how often the operation was started
  missed,     \* history: tasks not yet registered when the end was published
  restarts, faults

store    == <<row, run, approval>>
memory   == <<live, waiting, state>>
contexts == <<taskDone, registered, marked, execDone>>
threads  == <<worker, result, act, canc>>
history  == <<execs, missed>>
budgets  == <<restarts, faults>>
vars     == <<phase, store, memory, contexts, threads, carried, history, budgets>>

Ended    == {"completed", "failed", "interrupted", "rejected", "cancelled"}
Statuses == Ended \cup {"none", "running", "approval_required"}
Threads  == {"worker", "act", "canc"}

Serving == phase \in {"up", "closing", "stopped"}

ClosedNever == FALSE  \* mutant: executionClosed is not looked at
Closed == phase # "up"

---------------------------------------------------------------------------
(* The task in memory and its row *)

NoSnapshot == [status |-> "none", rev |-> 0]
Snapshots  == [status : Statuses, rev : Nat]

Valid(t) == t \in live /\ state[t].status \notin Ended

\* Set a status under taskMu and take the snapshot that thread th writes later.
Revise(t, th, status) ==
  /\ state' = [state EXCEPT ![t] = [status |-> status, rev |-> @.rev + 1, known |-> @.known]]
  /\ carried' = [carried EXCEPT ![t][th] = [status |-> status, rev |-> state[t].rev + 1]]

NewerAlways(snapshot, old) == TRUE  \* mutant: the last writer wins
Newer(snapshot, old) == snapshot.rev >= old.rev

\* UpsertTask, which keeps the newer revision.  Its error is ignored by every
\* caller; that it fails is left out.
Save(t, th) ==
  /\ Serving
  /\ carried[t][th] # NoSnapshot
  /\ th = "canc" => canc[t] = "save"
  /\ row' = [row EXCEPT ![t] = IF Newer(carried[t][th], @) THEN carried[t][th] ELSE @]
  /\ carried' = [carried EXCEPT ![t][th] = NoSnapshot]
  /\ UNCHANGED <<phase, run, approval, memory, contexts, threads, history, budgets>>

Free(t, th) == Serving /\ carried[t][th] = NoSnapshot

Fault == faults < MaxFaults /\ faults' = faults + 1

---------------------------------------------------------------------------
(* The worker *)

StartTask(t) ==
  /\ Serving /\ worker[t] = "absent"
  /\ row' = [row EXCEPT ![t] = [status |-> "running", rev |-> 1]]
  /\ state' = [state EXCEPT ![t] = [status |-> "running", rev |-> 1, known |-> FALSE]]
  /\ live' = live \cup {t}
  /\ worker' = [worker EXCEPT ![t] = "launch"]
  /\ UNCHANGED <<phase, run, approval, waiting, contexts, result, act, canc, carried,
                 history, budgets>>

\* The second half of StartTask: the goroutine starts unless the service closed.
Launch(t) ==
  /\ Free(t, "worker") /\ worker[t] = "launch"
  /\ \/ /\ ~ Closed
        /\ worker' = [worker EXCEPT ![t] = "submit"]
        /\ UNCHANGED <<row, live>>
     \/ /\ Closed
        /\ live' = live \ {t}
        /\ row' = [row EXCEPT ![t] = [status |-> "interrupted", rev |-> 2]]
        /\ worker' = [worker EXCEPT ![t] = "done"]
  /\ UNCHANGED <<phase, run, approval, waiting, state, contexts, result, act, canc,
                 carried, history, budgets>>

\* submit is refused before it created a run, or by the automatic approval Agent.
SubmitFails(t) ==
  /\ Free(t, "worker") /\ worker[t] = "submit"
  /\ \/ /\ worker' = [worker EXCEPT ![t] = "settle"]
        /\ \E s \in {"failed", "interrupted"} : result' = [result EXCEPT ![t] = s]
        /\ UNCHANGED run
     \/ /\ t \notin taskDone
        /\ worker' = [worker EXCEPT ![t] = "announce"]
        /\ result' = [result EXCEPT ![t] = "rejected"]
        /\ run' = [run EXCEPT ![t] = "rejected"]
  /\ UNCHANGED <<phase, row, approval, memory, contexts, act, canc, carried, history,
                 budgets>>

\* submit creates the run, to execute it or to have it approved.
SubmitRuns(t) ==
  /\ Free(t, "worker") /\ worker[t] = "submit" /\ t \notin taskDone
  /\ \/ /\ run' = [run EXCEPT ![t] = "running"]
        /\ worker' = [worker EXCEPT ![t] = "announce"]
     \/ /\ run' = [run EXCEPT ![t] = "approval_required"]
        /\ worker' = [worker EXCEPT ![t] = "ask"]
  /\ UNCHANGED <<phase, row, approval, memory, contexts, result, act, canc, carried,
                 history, budgets>>

\* CreateApproval: from here on an operator can decide.
CreateApproval(t) ==
  /\ Free(t, "worker") /\ worker[t] = "ask"
  /\ \/ /\ t \notin taskDone
        /\ approval' = [approval EXCEPT ![t] = "pending"]
        /\ worker' = [worker EXCEPT ![t] = "announce"]
        /\ UNCHANGED <<result, faults>>
     \/ /\ \/ t \in taskDone /\ UNCHANGED faults
           \/ Fault
        /\ \E s \in {"failed", "interrupted"} : result' = [result EXCEPT ![t] = s]
        /\ worker' = [worker EXCEPT ![t] = "settle"]
        /\ UNCHANGED approval
  /\ UNCHANGED <<phase, row, run, memory, contexts, act, canc, carried, history, restarts>>

\* The observer's RunStarted: the task shows its run.
RunStarted(t) ==
  /\ Free(t, "worker") /\ worker[t] = "announce"
  /\ IF Valid(t) THEN Revise(t, "worker", state[t].status) ELSE UNCHANGED <<state, carried>>
  /\ worker' = [worker EXCEPT ![t] = IF approval[t] # "none" THEN "register"
                                     ELSE IF result[t] = "rejected" THEN "settle"
                                     ELSE "execute"]
  /\ UNCHANGED <<phase, store, live, waiting, contexts, result, act, canc, history, budgets>>

\* execute up to the operation itself: a cancelled context or a failed preparation
\* ends it unstarted.
Execute(t) ==
  /\ Free(t, "worker") /\ worker[t] = "execute"
  /\ \/ /\ t \notin taskDone
        /\ worker' = [worker EXCEPT ![t] = "executing"]
        /\ execs' = [execs EXCEPT ![t] = @ + 1]
     \/ /\ worker' = [worker EXCEPT ![t] = "failing"]
        /\ UNCHANGED execs
  /\ UNCHANGED <<phase, store, memory, contexts, result, act, canc, carried, missed, budgets>>

\* "failed" stands for "partial", too: no condition of the code tells them apart.
Outcomes(pc) == {"failed", "interrupted"} \cup (IF pc = "executing" THEN {"completed"} ELSE {})

\* finishExecution: the result is returned even when the run could not be written.
FinishRun(t) ==
  /\ Free(t, "worker") /\ worker[t] \in {"executing", "failing"}
  /\ \E s \in Outcomes(worker[t]) :
       /\ result' = [result EXCEPT ![t] = s]
       /\ \/ run' = [run EXCEPT ![t] = s] /\ UNCHANGED faults
          \/ Fault /\ UNCHANGED run
  /\ worker' = [worker EXCEPT ![t] = "settle"]
  /\ UNCHANGED <<phase, row, approval, memory, contexts, act, canc, carried, history, restarts>>

\* The run waits for approval: runTask registers the task for the events of the
\* run, or rejects the approval of a task that was cancelled meanwhile.
Register(t) ==
  /\ Free(t, "worker") /\ worker[t] = "register"
  /\ \/ /\ Valid(t)
        /\ state' = [state EXCEPT ![t] = [status |-> "approval_required",
                                          rev |-> @.rev + 1, known |-> TRUE]]
        /\ carried' = [carried EXCEPT ![t]["worker"] =
                         [status |-> "approval_required", rev |-> state[t].rev + 1]]
        /\ waiting' = waiting \cup {t}
        /\ UNCHANGED <<run, approval>>
     \/ /\ ~ Valid(t)
        /\ \/ /\ approval[t] = "pending"
              /\ approval' = [approval EXCEPT ![t] = "rejected"]
              /\ run' = [run EXCEPT ![t] = "rejected"]
           \/ /\ approval[t] # "pending"
              /\ UNCHANGED <<run, approval>>
        /\ UNCHANGED <<state, carried, waiting>>
  /\ worker' = [worker EXCEPT ![t] = "done"]
  /\ UNCHANGED <<phase, row, live, contexts, result, act, canc, history, budgets>>

\* runTask stores the result; a cancelled task keeps its status.
Settle(t) ==
  /\ Free(t, "worker") /\ worker[t] = "settle"
  /\ \/ /\ Valid(t)
        /\ Revise(t, "worker", result[t])
        /\ worker' = [worker EXCEPT ![t] = "forget"]
     \/ /\ ~ Valid(t)
        /\ worker' = [worker EXCEPT ![t] = "done"]
        /\ UNCHANGED <<state, carried>>
  /\ UNCHANGED <<phase, store, live, waiting, contexts, result, act, canc, history, budgets>>

ForgetTask(t) ==
  /\ Free(t, "worker") /\ worker[t] = "forget"
  /\ live' = live \ {t}
  /\ worker' = [worker EXCEPT ![t] = "done"]
  /\ UNCHANGED <<phase, store, waiting, state, contexts, result, act, canc, carried,
                 history, budgets>>

---------------------------------------------------------------------------
(* The decision and the approved execution *)

PendingAlways(t) == approval[t] # "none"  \* mutant: the status is not compared
Pending(t) == approval[t] = "pending"

Deciding(t) == Free(t, "act") /\ act[t] \in {"idle", "done"}

\* approveForExecution: the approval and its run change in one transaction.
Approve(t) ==
  /\ Deciding(t) /\ Pending(t)
  /\ approval' = [approval EXCEPT ![t] = "approved"]
  /\ run' = [run EXCEPT ![t] = "running"]
  /\ act' = [act EXCEPT ![t] = "running"]
  /\ UNCHANGED <<phase, row, memory, contexts, worker, result, canc, carried, history, budgets>>

\* Reject, by an operator or by the stop of the session.
Reject(t) ==
  /\ Deciding(t) /\ Pending(t)
  /\ approval' = [approval EXCEPT ![t] = "rejected"]
  /\ run' = [run EXCEPT ![t] = "rejected"]
  /\ act' = [act EXCEPT ![t] = "end"]
  /\ UNCHANGED <<phase, row, memory, contexts, worker, result, canc, carried, history, budgets>>

\* updateApprovalTask, for the event that the run started.
ShowRunning(t) ==
  IF t \in waiting /\ Valid(t) /\ state[t].status # "running"
  THEN Revise(t, "act", "running") ELSE UNCHANGED <<state, carried>>

PublishRunning(t) ==
  /\ Free(t, "act") /\ act[t] = "running"
  /\ ShowRunning(t)
  /\ act' = [act EXCEPT ![t] = "start"]
  /\ UNCHANGED <<phase, store, live, waiting, contexts, worker, result, canc, history, budgets>>

\* startApprovedExecution: refused when the service closed or the execution was
\* cancelled before it began.
StartApproved(t) ==
  /\ Free(t, "act") /\ act[t] = "start"
  /\ \/ /\ Closed
        /\ act' = [act EXCEPT ![t] = "failing"]
        /\ UNCHANGED <<registered, marked>>
     \/ /\ ~ Closed /\ t \in marked
        /\ marked' = marked \ {t}
        /\ act' = [act EXCEPT ![t] = "failing"]
        /\ UNCHANGED registered
     \/ /\ ~ Closed /\ t \notin marked
        /\ registered' = registered \cup {t}
        /\ act' = [act EXCEPT ![t] = "begin"]
        /\ UNCHANGED marked
  /\ UNCHANGED <<phase, store, memory, taskDone, execDone, worker, result, canc, carried,
                 history, budgets>>

\* runExecution: it publishes that it runs and starts the operation.
BeginApproved(t) ==
  /\ Free(t, "act") /\ act[t] = "begin"
  /\ \/ /\ t \notin execDone
        /\ ShowRunning(t)
        /\ execs' = [execs EXCEPT ![t] = @ + 1]
        /\ act' = [act EXCEPT ![t] = "executing"]
     \/ /\ act' = [act EXCEPT ![t] = "failing"]
        /\ UNCHANGED <<state, carried, execs>>
  /\ UNCHANGED <<phase, store, live, waiting, contexts, worker, result, canc, missed, budgets>>

\* finishExecution: without the write there is no terminal event.
FinishApproved(t) ==
  /\ Free(t, "act") /\ act[t] \in {"executing", "failing"}
  /\ \/ /\ \E s \in Outcomes(act[t]) : run' = [run EXCEPT ![t] = s]
        /\ act' = [act EXCEPT ![t] = "end"]
        /\ UNCHANGED faults
     \/ /\ Fault
        /\ act' = [act EXCEPT ![t] = "release"]
        /\ UNCHANGED run
  /\ UNCHANGED <<phase, row, approval, memory, contexts, worker, result, canc, carried,
                 history, restarts>>

\* updateApprovalTask, for the terminal event.
PublishEnd(t) ==
  /\ Free(t, "act") /\ act[t] = "end"
  /\ \/ /\ t \in waiting /\ Valid(t)
        /\ Revise(t, "act", run[t])
        /\ waiting' = waiting \ {t}
        /\ act' = [act EXCEPT ![t] = "forget"]
        /\ UNCHANGED missed
     \/ /\ ~ (t \in waiting /\ Valid(t))
        /\ act' = [act EXCEPT ![t] = "release"]
        /\ missed' = IF worker[t] \in {"announce", "register"} THEN missed \cup {t} ELSE missed
        /\ UNCHANGED <<waiting, state, carried>>
  /\ UNCHANGED <<phase, store, live, contexts, worker, result, canc, execs, budgets>>

ForgetDecided(t) ==
  /\ Free(t, "act") /\ act[t] = "forget"
  /\ live' = live \ {t}
  /\ taskDone' = taskDone \cup {t}
  /\ act' = [act EXCEPT ![t] = "release"]
  /\ UNCHANGED <<phase, store, waiting, state, registered, marked, execDone, worker, result,
                 canc, carried, history, budgets>>

Deregistered(t) == registered \ {t}

\* The deferred cleanup of the execution's goroutine, when there is one.
Release(t) ==
  /\ Free(t, "act") /\ act[t] = "release"
  /\ registered' = Deregistered(t)
  /\ marked' = IF t \in registered THEN marked \ {t} ELSE marked
  /\ act' = [act EXCEPT ![t] = "done"]
  /\ UNCHANGED <<phase, store, memory, taskDone, execDone, worker, result, canc, carried,
                 history, budgets>>

---------------------------------------------------------------------------
(* The cancellation *)

StillWaiting(t) == waiting  \* mutant: the task stays registered for the events
Unregistered(t) == waiting \ {t}

CancelTask(t) ==
  /\ Free(t, "canc") /\ canc[t] = "idle"
  /\ worker[t] \notin {"absent", "launch"}
  /\ Valid(t)
  /\ Revise(t, "canc", "cancelled")
  /\ waiting' = Unregistered(t)
  /\ canc' = [canc EXCEPT ![t] = "context"]
  /\ UNCHANGED <<phase, store, live, contexts, worker, result, act, history, budgets>>

CancelStep(t, from, to) ==
  /\ Serving /\ canc[t] = from
  /\ canc' = [canc EXCEPT ![t] = to]
  /\ UNCHANGED <<phase, row, state, worker, result, act, history, restarts>>

CancelContext(t) ==
  /\ CancelStep(t, "context", IF state[t].known THEN "read" ELSE "save")
  /\ taskDone' = taskDone \cup {t}
  /\ UNCHANGED <<run, approval, live, waiting, registered, marked, execDone, carried, faults>>

\* The approval is read; what was read may be stale when it is acted upon.
ReadApproval(t) ==
  /\ \/ /\ CancelStep(t, "read", IF Pending(t) THEN "reject" ELSE "kill")
        /\ UNCHANGED faults
     \/ CancelStep(t, "read", "kill") /\ Fault
  /\ UNCHANGED <<run, approval, live, waiting, contexts, carried>>

RejectCancelled(t) ==
  /\ \/ /\ Pending(t)
        /\ CancelStep(t, "reject", "save")
        /\ approval' = [approval EXCEPT ![t] = "rejected"]
        /\ run' = [run EXCEPT ![t] = "rejected"]
        /\ UNCHANGED faults
     \/ /\ \/ ~ Pending(t) /\ UNCHANGED faults
           \/ Fault
        /\ CancelStep(t, "reject", "kill")
        /\ UNCHANGED <<run, approval>>
  /\ UNCHANGED <<live, waiting, contexts, carried>>

MarkNever(t) == marked  \* mutant: an execution that has not begun is not remembered
Mark(t) == marked \cup {t}

\* cancelApprovedExecution.
CancelExecution(t) ==
  /\ CancelStep(t, "kill", "save")
  /\ \/ /\ t \in registered
        /\ execDone' = execDone \cup {t}
        /\ UNCHANGED marked
     \/ /\ t \notin registered
        /\ marked' = Mark(t)
        /\ UNCHANGED execDone
  /\ UNCHANGED <<run, approval, live, waiting, taskDone, registered, carried, faults>>

\* The task leaves the memory once its row is written.
ForgetCancelled(t) ==
  /\ carried[t]["canc"] = NoSnapshot
  /\ CancelStep(t, "save", "done")
  /\ live' = live \ {t}
  /\ UNCHANGED <<run, approval, waiting, contexts, carried, faults>>

---------------------------------------------------------------------------
(* Shutdown, crash and recovery *)

\* Shutdown: the service refuses new executions and cancels its context.
Stop ==
  /\ phase = "up"
  /\ phase' = "closing"
  /\ taskDone' = Tasks
  /\ UNCHANGED <<store, memory, registered, marked, execDone, threads, carried, history, budgets>>

\* The AfterFunc of an execution's context.
StopExecution(t) ==
  /\ phase = "closing" /\ t \in registered \ execDone
  /\ execDone' = execDone \cup {t}
  /\ UNCHANGED <<phase, store, memory, taskDone, registered, marked, threads, carried,
                 history, budgets>>

\* No goroutine that Shutdown waits for is left.
Idle(t) == /\ worker[t] \in {"absent", "launch", "done"}
           /\ carried[t]["worker"] = NoSnapshot
           /\ t \notin registered

ShutdownDone ==
  /\ phase = "closing"
  /\ \A t \in Tasks : Idle(t)
  /\ phase' = "stopped"
  /\ UNCHANGED <<store, memory, contexts, threads, carried, history, budgets>>

\* The process ends, in order or not, and starts again with its recovery.
Restart ==
  /\ Serving /\ restarts < MaxRestarts
  /\ restarts' = restarts + 1
  /\ phase' = "tasks"
  /\ live' = {} /\ waiting' = {}
  /\ taskDone' = {} /\ registered' = {} /\ marked' = {} /\ execDone' = {}
  /\ worker' = [t \in Tasks |-> IF worker[t] = "absent" THEN "absent" ELSE "done"]
  /\ act' = [t \in Tasks |-> "idle"]
  /\ canc' = [t \in Tasks |-> "idle"]
  /\ carried' = [t \in Tasks |-> [th \in Threads |-> NoSnapshot]]
  /\ UNCHANGED <<store, state, result, history, faults>>

ActiveRow == {"running", "approval_required"}

RecoverTasks ==
  /\ phase = "tasks"
  /\ phase' = "runs"
  /\ row' = [t \in Tasks |-> IF row[t].status \in ActiveRow
                            THEN [status |-> "interrupted", rev |-> row[t].rev + 1]
                            ELSE row[t]]
  /\ UNCHANGED <<run, approval, memory, contexts, threads, carried, history, budgets>>

RecoverRuns ==
  /\ phase = "runs"
  /\ phase' = "up"
  /\ run' = [t \in Tasks |-> IF run[t] = "running" THEN "interrupted" ELSE run[t]]
  /\ UNCHANGED <<row, approval, memory, contexts, threads, carried, history, budgets>>

---------------------------------------------------------------------------
Init ==
  /\ phase = "up"
  /\ row = [t \in Tasks |-> NoSnapshot]
  /\ run = [t \in Tasks |-> "none"]
  /\ approval = [t \in Tasks |-> "none"]
  /\ live = {} /\ waiting = {}
  /\ state = [t \in Tasks |-> [status |-> "none", rev |-> 0, known |-> FALSE]]
  /\ taskDone = {} /\ registered = {} /\ marked = {} /\ execDone = {}
  /\ worker = [t \in Tasks |-> "absent"]
  /\ result = [t \in Tasks |-> "none"]
  /\ act = [t \in Tasks |-> "idle"]
  /\ canc = [t \in Tasks |-> "idle"]
  /\ carried = [t \in Tasks |-> [th \in Threads |-> NoSnapshot]]
  /\ execs = [t \in Tasks |-> 0]
  /\ missed = {}
  /\ restarts = 0 /\ faults = 0

Work(t) == \/ Launch(t) \/ SubmitFails(t) \/ SubmitRuns(t) \/ CreateApproval(t)
           \/ RunStarted(t) \/ Execute(t) \/ FinishRun(t) \/ Register(t)
           \/ Settle(t) \/ ForgetTask(t)

Act(t) == \/ PublishRunning(t) \/ StartApproved(t) \/ BeginApproved(t)
          \/ FinishApproved(t) \/ PublishEnd(t) \/ ForgetDecided(t) \/ Release(t)

Cancel(t) == \/ CancelContext(t) \/ ReadApproval(t) \/ RejectCancelled(t)
             \/ CancelExecution(t) \/ ForgetCancelled(t)

Recover == RecoverTasks \/ RecoverRuns

Next == \/ \E t \in Tasks : \/ StartTask(t) \/ Work(t)
                           \/ Approve(t) \/ Reject(t) \/ Act(t)
                           \/ CancelTask(t) \/ Cancel(t)
                           \/ \E th \in Threads : Save(t, th)
                           \/ StopExecution(t)
        \/ Stop \/ ShutdownDone \/ Restart \/ Recover

Spec == Init /\ [][Next]_vars

\* Goroutines are scheduled, commands end (each has a timeout) and a started
\* recovery goes on.  Nobody has to start, decide or cancel anything.
TaskDuty(t, k) ==
  CASE k = 1 -> Work(t) [] k = 2 -> Act(t) [] k = 3 -> Cancel(t)
    [] k = 4 -> Save(t, "worker") [] k = 5 -> Save(t, "act") [] OTHER -> Save(t, "canc")
TaskFairness == (\A t \in Tasks, k \in 1..6 : WF_vars(TaskDuty(t, k))) /\ WF_vars(Recover)

---------------------------------------------------------------------------
(* Properties *)

WorkerPlaces == {"absent", "launch", "submit", "ask", "announce", "execute", "executing",
                 "failing", "register", "settle", "forget", "done"}
ActPlaces == {"idle", "running", "start", "begin", "executing", "failing", "end", "forget",
              "release", "done"}
CancPlaces == {"idle", "context", "read", "reject", "kill", "save", "done"}

\* The types of the variables, and that only what runs is registered: the maps of
\* contexts are keyed by tasks whose decision is under way (startApprovedExecution).
TypeOK ==
  /\ phase \in {"up", "closing", "stopped", "tasks", "runs"}
  /\ row \in [Tasks -> Snapshots]
  /\ run \in [Tasks -> Statuses]
  /\ approval \in [Tasks -> {"none", "pending", "approved", "rejected"}]
  /\ live \subseteq Tasks /\ waiting \subseteq Tasks
  /\ state \in [Tasks -> [status : Statuses, rev : Nat, known : BOOLEAN]]
  /\ taskDone \subseteq Tasks /\ marked \subseteq Tasks /\ execDone \subseteq Tasks
  /\ registered \subseteq {t \in Tasks : act[t] \notin {"idle", "running", "start", "done"}}
  /\ worker \in [Tasks -> WorkerPlaces]
  /\ result \in [Tasks -> Statuses]
  /\ act \in [Tasks -> ActPlaces]
  /\ canc \in [Tasks -> CancPlaces]
  /\ carried \in [Tasks -> [Threads -> Snapshots]]
  /\ execs \in [Tasks -> Nat]
  /\ missed \subseteq Tasks
  /\ restarts \in 0..MaxRestarts /\ faults \in 0..MaxFaults

\* A task that waits for its approval hears of the end of its run: the run has not
\* ended, or the decision thread has yet to publish it (updateApprovalTask), or the
\* end was published before runTask registered the task.
TaskFollowsRun ==
  \A t \in waiting : run[t] \in Ended => act[t] = "end" \/ t \in missed

\* docs/architecture.md:215 promises it without the exception: a background task
\* follows the events of its execution and polls nothing.
TaskHearsOfItsEnd ==
  \A t \in waiting : run[t] \in Ended => act[t] = "end"

\* Once a cancellation that knew the approval is over, no decision can start the
\* operation any more: an execution that was granted meanwhile, or may still be, is
\* remembered as cancelled before it begins (cancelledExecutions), and its context
\* is cancelled after (cancelApprovedExecution).
CancelReachesExecution ==
  \A t \in Tasks : state[t].known /\ canc[t] \in {"save", "done"} =>
    /\ Pending(t) \/ act[t] \in {"running", "start"} => t \in marked
    /\ act[t] \in {"begin", "executing"} => t \in execDone

\* When Shutdown returns, no operation runs and none can begin: a handler that is
\* still there finds the service closed (executionClosed).
StoppedIsQuiet ==
  phase = "stopped" => \A t \in Tasks :
    /\ act[t] \notin {"begin", "executing"}
    /\ worker[t] \in {"absent", "launch", "done"}

\* What a reader is shown of a task (GetTask).
View(t) == IF t \in live THEN state[t].status ELSE row[t].status

\* While the process runs, the outcome a task once showed never changes: neither a
\* late result, nor an event, nor a write that was overtaken revises it.
OutcomeStays ==
  [][ Serving /\ Serving' =>
      \A t \in Tasks : View(t) \in Ended => View(t)' = View(t) ]_vars

\* A second start would show as the fall back to an earlier position.
GateOf(t) == IF execs[t] = 1 THEN "started"
             ELSE IF run[t] \in Ended THEN "refused"
             ELSE IF run[t] = "running" THEN "granted"
             ELSE IF approval[t] = "pending" THEN "asked"
             ELSE "idle"

gateOf == [t \in Tasks |-> GateOf(t)]

Gate == INSTANCE OperationGate WITH Operations <- Tasks, gate <- gateOf

\* The decision and the two ways to execute keep the promise of OperationGate.
KeepsGate == Gate!GateSpec

\* The table is to learn how a task ended: it was cancelled, or its run ended while it
\* was registered.
OutcomeDue(t) == t \in live /\ (state[t].status = "cancelled" \/ (t \in waiting /\ run[t] \in Ended))
OutcomeStored(t) == row[t].status \in Ended \/ t \in missed
=============================================================================
