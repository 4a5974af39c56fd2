------------------------ MODULE BackgroundTasks_proofs ------------------------
(***************************************************************************)
(* Proofs about BackgroundTasks, for any set of tasks and any number of    *)
(* restarts and failed writes.                                             *)
(*                                                                         *)
(* Each theorem has its own part of the inductive invariant: what the      *)
(* place of a thread says of the run and its approval (GateStory), how     *)
(* the row, the snapshots and the task in memory compare (RowStory), who   *)
(* will tell a task of the end of its run (EventStory) and what a          *)
(* cancellation or a shutdown left behind (ContextStory).                  *)
(***************************************************************************)
EXTENDS BackgroundTasks, TLAPS

---------------------------------------------------------------------------
(* The inductive invariant *)

\* An operation that has not been decided or granted has not started.
GateStory(t) ==
  /\ worker[t] \in {"absent", "launch", "submit"} =>
       run[t] = "none" /\ approval[t] = "none" /\ execs[t] = 0
  /\ worker[t] = "ask" =>
       run[t] = "approval_required" /\ approval[t] = "none" /\ execs[t] = 0
  /\ worker[t] = "announce" /\ approval[t] = "none" =>
       execs[t] = 0 /\ (result[t] = "rejected" \/ run[t] = "running")
  /\ worker[t] \in {"execute", "failing"} =>
       run[t] = "running" /\ approval[t] = "none" /\ execs[t] = 0
  /\ worker[t] = "executing" =>
       run[t] = "running" /\ approval[t] = "none" /\ execs[t] = 1
  /\ worker[t] = "settle" => result[t] \in Ended
  /\ approval[t] = "none" => act[t] = "idle"
  /\ approval[t] = "pending" =>
       run[t] = "approval_required" /\ execs[t] = 0 /\ act[t] = "idle"
  /\ act[t] \in {"running", "start", "begin", "failing"} =>
       run[t] = "running" /\ execs[t] = 0
  /\ act[t] = "executing" => run[t] = "running" /\ execs[t] = 1
  /\ act[t] = "end" => run[t] \in Ended
  /\ execs[t] \in {0, 1}
  /\ ~ Serving => worker[t] \in {"absent", "done"} /\ act[t] = "idle" /\ canc[t] = "idle"

\* The snapshot of the task as it is in memory.
Current(t) == [status |-> state[t].status, rev |-> state[t].rev]

\* A thread that finished the task: it still has to write what is in memory, or
\* the row shows it.
Finisher(t, th) ==
  /\ state[t].status \in Ended
  /\ carried[t][th] = NoSnapshot => row[t] = Current(t)
  /\ carried[t][th] # NoSnapshot => carried[t][th] = Current(t)

\* Revisions order what was read from memory: a snapshot and the row are older than
\* the memory or equal to it, and a task that left the memory with writes to come
\* has an up-to-date row.
Ordered(t) ==
  /\ \A th \in Threads : carried[t][th] # NoSnapshot =>
       /\ carried[t][th].rev <= state[t].rev
       /\ carried[t][th].rev = state[t].rev => carried[t][th] = Current(t)
       /\ t \notin live => row[t] = Current(t)
  /\ t \in live => /\ row[t].rev <= state[t].rev
                   /\ row[t].rev = state[t].rev => row[t] = Current(t)

\* A task leaves the memory only when its row shows how it ended.
RowStory(t) ==
  /\ Ordered(t)
  /\ worker[t] = "absent" => t \notin live /\ row[t] = NoSnapshot
  /\ worker[t] = "launch" => t \in live /\ state[t].status = "running"
  /\ worker[t] \in {"absent", "launch"} =>
       canc[t] = "idle" /\ \A th \in Threads : carried[t][th] = NoSnapshot
  /\ worker[t] = "forget" => Finisher(t, "worker")
  /\ act[t] = "forget" => Finisher(t, "act")
  /\ canc[t] \in {"context", "read", "reject", "kill", "save"} => Finisher(t, "canc")
  /\ canc[t] # "idle" => state[t].status \in Ended
  /\ ~ Serving => t \notin live /\ \A th \in Threads : carried[t][th] = NoSnapshot

\* A task is registered while it can still be told, and from the moment its
\* approval is visible somebody is to tell it, or told it too early.
EventStory(t) ==
  /\ t \in waiting => Valid(t) /\ worker[t] = "done"
  /\ state[t].known => worker[t] = "done"
  /\ canc[t] \in {"read", "reject", "kill"} => state[t].known
  /\ worker[t] = "register" => approval[t] # "none"
  /\ worker[t] \in {"announce", "register"} /\ approval[t] # "none" /\ run[t] \in Ended =>
       act[t] = "end" \/ t \in missed

\* An execution that began is registered, and none is left after the shutdown.
ContextStory(t) ==
  /\ act[t] \in {"begin", "executing"} => t \in registered
  /\ phase = "stopped" => t \notin registered /\ worker[t] \in {"absent", "launch", "done"}

IInv == /\ TypeOK
        /\ \A t \in Tasks : GateStory(t) /\ RowStory(t) /\ EventStory(t) /\ ContextStory(t)
        /\ TaskFollowsRun
        /\ CancelReachesExecution

---------------------------------------------------------------------------
(* Types *)

SnapshotTypes ==
  /\ row \in [Tasks -> Snapshots]
  /\ state \in [Tasks -> [status : Statuses, rev : Nat, known : BOOLEAN]]
  /\ carried \in [Tasks -> [Threads -> Snapshots]]

PlaceTypes ==
  /\ phase \in {"up", "closing", "stopped", "tasks", "runs"}
  /\ run \in [Tasks -> Statuses]
  /\ approval \in [Tasks -> {"none", "pending", "approved", "rejected"}]
  /\ worker \in [Tasks -> WorkerPlaces]
  /\ result \in [Tasks -> Statuses]
  /\ act \in [Tasks -> ActPlaces]
  /\ canc \in [Tasks -> CancPlaces]
  /\ execs \in [Tasks -> Nat]

SetTypes ==
  /\ live \subseteq Tasks /\ waiting \subseteq Tasks
  /\ taskDone \subseteq Tasks /\ marked \subseteq Tasks /\ execDone \subseteq Tasks
  /\ registered \subseteq {t \in Tasks : act[t] \notin {"idle", "running", "start", "done"}}
  /\ missed \subseteq Tasks
  /\ restarts \in 0..MaxRestarts /\ faults \in 0..MaxFaults

\* The type invariant in its three parts.
LEMMA TypeParts == TypeOK <=> SnapshotTypes /\ PlaceTypes /\ SetTypes
  BY DEF TypeOK, SnapshotTypes, PlaceTypes, SetTypes

\* A revision keeps the types.
LEMMA RevisedTypes ==
  ASSUME SnapshotTypes, NEW t \in Tasks, NEW th \in Threads, NEW status \in Statuses,
         Revise(t, th, status)
  PROVE  /\ state' \in [Tasks -> [status : Statuses, rev : Nat, known : BOOLEAN]]
         /\ carried' \in [Tasks -> [Threads -> Snapshots]]
<1>1. state[t] \in [status : Statuses, rev : Nat, known : BOOLEAN]
  BY DEF SnapshotTypes
<1>2. [status |-> status, rev |-> state[t].rev + 1, known |-> state[t].known]
        \in [status : Statuses, rev : Nat, known : BOOLEAN]
  BY <1>1
<1>3. [status |-> status, rev |-> state[t].rev + 1] \in Snapshots
  BY <1>1 DEF Snapshots
<1> QED
  BY <1>2, <1>3 DEF Revise, SnapshotTypes

\* A thread with nothing to write has a snapshot of the right type, too.
LEMMA NoSnapshotType == NoSnapshot \in Snapshots
  BY DEF NoSnapshot, Snapshots, Statuses

\* Every step keeps the types of rows, of the tasks in memory and of the snapshots.
LEMMA SnapshotStep == SnapshotTypes /\ PlaceTypes /\ [Next]_vars => SnapshotTypes'
<1> SUFFICES ASSUME SnapshotTypes, PlaceTypes, [Next]_vars PROVE SnapshotTypes'
  OBVIOUS
<1> USE DEF SnapshotTypes, store, memory
<1>1. ASSUME NEW t \in Tasks, StartTask(t) PROVE SnapshotTypes'
  <2>1. [status |-> "running", rev |-> 1] \in Snapshots
    BY DEF Snapshots, Statuses
  <2>2. [status |-> "running", rev |-> 1, known |-> FALSE]
          \in [status : Statuses, rev : Nat, known : BOOLEAN]
    BY DEF Statuses
  <2> QED
    BY <1>1, <2>1, <2>2 DEF SnapshotTypes, StartTask
<1>2. ASSUME NEW t \in Tasks, Launch(t) PROVE SnapshotTypes'
  <2>1. [status |-> "interrupted", rev |-> 2] \in Snapshots
    BY DEF Snapshots, Statuses, Ended
  <2> QED
    BY <1>2, <2>1 DEF SnapshotTypes, Launch
<1>3. ASSUME NEW t \in Tasks, SubmitFails(t) PROVE SnapshotTypes'
  BY <1>3 DEF SubmitFails, Free
<1>4. ASSUME NEW t \in Tasks, SubmitRuns(t) PROVE SnapshotTypes'
  BY <1>4 DEF SubmitRuns, Free
<1>5. ASSUME NEW t \in Tasks, CreateApproval(t) PROVE SnapshotTypes'
  BY <1>5 DEF CreateApproval, Free, Fault
<1>6. ASSUME NEW t \in Tasks, RunStarted(t) PROVE SnapshotTypes'
  <2>1. state[t].status \in Statuses
    BY DEF PlaceTypes, SnapshotTypes, Statuses
  <2>2. CASE Revise(t, "worker", state[t].status)
    BY <1>6, <2>1, <2>2, RevisedTypes DEF SnapshotTypes, RunStarted, Threads, store
  <2>3. CASE UNCHANGED <<state, carried>>
    BY <1>6, <2>3 DEF SnapshotTypes, RunStarted, store
  <2> QED
    BY <1>6, <2>2, <2>3 DEF RunStarted, store
<1>7. ASSUME NEW t \in Tasks, Execute(t) PROVE SnapshotTypes'
  BY <1>7 DEF Execute, Free
<1>8. ASSUME NEW t \in Tasks, FinishRun(t) PROVE SnapshotTypes'
  BY <1>8 DEF FinishRun, Free, Outcomes, Fault
<1>9. ASSUME NEW t \in Tasks, Register(t) PROVE SnapshotTypes'
  <2>1. state[t] \in [status : Statuses, rev : Nat, known : BOOLEAN]
    BY DEF SnapshotTypes
  <2>2. [status |-> "approval_required", rev |-> state[t].rev + 1] \in Snapshots
    BY <2>1 DEF Snapshots, Statuses
  <2>3. [status |-> "approval_required", rev |-> state[t].rev + 1, known |-> TRUE]
          \in [status : Statuses, rev : Nat, known : BOOLEAN]
    BY <2>1 DEF Statuses
  <2>4. CASE Valid(t)
    <3>1. state' = [state EXCEPT ![t] = [status |-> "approval_required",
                                         rev |-> state[t].rev + 1, known |-> TRUE]]
      BY <1>9, <2>4 DEF Register
    <3>2. carried' = [carried EXCEPT ![t]["worker"] =
                        [status |-> "approval_required", rev |-> state[t].rev + 1]]
      BY <1>9, <2>4 DEF Register
    <3>3. state' \in [Tasks -> [status : Statuses, rev : Nat, known : BOOLEAN]]
      BY <3>1, <2>3 DEF SnapshotTypes
    <3>4. carried' \in [Tasks -> [Threads -> Snapshots]]
      BY <3>2, <2>2 DEF SnapshotTypes, Threads
    <3> QED
      BY <1>9, <3>3, <3>4 DEF SnapshotTypes, Register
  <2>5. CASE ~ Valid(t)
    BY <1>9, <2>5 DEF SnapshotTypes, Register
  <2> QED
    BY <2>4, <2>5
<1>10. ASSUME NEW t \in Tasks, Settle(t) PROVE SnapshotTypes'
  <2>1. result[t] \in Statuses
    BY DEF PlaceTypes, SnapshotTypes, Statuses
  <2>2. CASE Revise(t, "worker", result[t])
    BY <1>10, <2>1, <2>2, RevisedTypes DEF SnapshotTypes, Settle, Threads, store
  <2>3. CASE UNCHANGED <<state, carried>>
    BY <1>10, <2>3 DEF SnapshotTypes, Settle, store
  <2> QED
    BY <1>10, <2>2, <2>3 DEF Settle, store
<1>11. ASSUME NEW t \in Tasks, ForgetTask(t) PROVE SnapshotTypes'
  BY <1>11 DEF ForgetTask, Free
<1>12. ASSUME NEW t \in Tasks, Approve(t) PROVE SnapshotTypes'
  BY <1>12 DEF Approve, Deciding, Pending, Free
<1>13. ASSUME NEW t \in Tasks, Reject(t) PROVE SnapshotTypes'
  BY <1>13 DEF Reject, Deciding, Pending, Free
<1>14. ASSUME NEW t \in Tasks, PublishRunning(t) PROVE SnapshotTypes'
  <2>1. "running" \in Statuses
    BY DEF Statuses
  <2>2. CASE Revise(t, "act", "running")
    BY <1>14, <2>1, <2>2, RevisedTypes DEF SnapshotTypes, PublishRunning, Threads, store,
       ShowRunning
  <2>3. CASE UNCHANGED <<state, carried>>
    BY <1>14, <2>3 DEF SnapshotTypes, PublishRunning, store, ShowRunning
  <2> QED
    BY <1>14, <2>2, <2>3 DEF PublishRunning, store, ShowRunning
<1>15. ASSUME NEW t \in Tasks, StartApproved(t) PROVE SnapshotTypes'
  BY <1>15 DEF StartApproved, Free
<1>16. ASSUME NEW t \in Tasks, BeginApproved(t) PROVE SnapshotTypes'
  <2>1. "running" \in Statuses
    BY DEF Statuses
  <2>2. CASE Revise(t, "act", "running")
    BY <1>16, <2>1, <2>2, RevisedTypes DEF SnapshotTypes, BeginApproved, Threads, store, ShowRunning
  <2>3. CASE UNCHANGED <<state, carried>>
    BY <1>16, <2>3 DEF SnapshotTypes, BeginApproved, store, ShowRunning
  <2> QED
    BY <1>16, <2>2, <2>3 DEF BeginApproved, store, ShowRunning
<1>17. ASSUME NEW t \in Tasks, FinishApproved(t) PROVE SnapshotTypes'
  BY <1>17 DEF FinishApproved, Free, Outcomes, Fault
<1>18. ASSUME NEW t \in Tasks, PublishEnd(t) PROVE SnapshotTypes'
  <2>1. run[t] \in Statuses
    BY DEF PlaceTypes, SnapshotTypes, Statuses
  <2>2. CASE Revise(t, "act", run[t])
    BY <1>18, <2>1, <2>2, RevisedTypes DEF SnapshotTypes, PublishEnd, Threads, store
  <2>3. CASE UNCHANGED <<state, carried>>
    BY <1>18, <2>3 DEF SnapshotTypes, PublishEnd, store
  <2> QED
    BY <1>18, <2>2, <2>3 DEF PublishEnd, store
<1>19. ASSUME NEW t \in Tasks, ForgetDecided(t) PROVE SnapshotTypes'
  BY <1>19 DEF ForgetDecided, Free
<1>20. ASSUME NEW t \in Tasks, Release(t) PROVE SnapshotTypes'
  BY <1>20 DEF Release, Free, Deregistered
<1>21. ASSUME NEW t \in Tasks, CancelTask(t) PROVE SnapshotTypes'
  <2>1. "cancelled" \in Statuses
    BY DEF Statuses, Ended
  <2> QED
    BY <1>21, <2>1, RevisedTypes DEF SnapshotTypes, CancelTask, Threads, store
<1>22. ASSUME NEW t \in Tasks, CancelContext(t) PROVE SnapshotTypes'
  BY <1>22 DEF CancelContext, CancelStep
<1>23. ASSUME NEW t \in Tasks, ReadApproval(t) PROVE SnapshotTypes'
  BY <1>23 DEF ReadApproval, CancelStep, Fault
<1>24. ASSUME NEW t \in Tasks, RejectCancelled(t) PROVE SnapshotTypes'
  BY <1>24 DEF RejectCancelled, CancelStep, Pending, Fault
<1>25. ASSUME NEW t \in Tasks, CancelExecution(t) PROVE SnapshotTypes'
  BY <1>25 DEF CancelExecution, CancelStep, Mark
<1>26. ASSUME NEW t \in Tasks, ForgetCancelled(t) PROVE SnapshotTypes'
  BY <1>26 DEF ForgetCancelled, CancelStep
<1>27. ASSUME NEW t \in Tasks, StopExecution(t) PROVE SnapshotTypes'
  BY <1>27 DEF StopExecution
<1>28. ASSUME NEW t \in Tasks, NEW th \in Threads, Save(t, th) PROVE SnapshotTypes'
  BY <1>28, NoSnapshotType DEF SnapshotTypes, Save, memory
<1>29. CASE Stop
  BY <1>29 DEF Stop
<1>30. CASE ShutdownDone
  BY <1>30 DEF ShutdownDone
<1>31. CASE Restart
  BY <1>31, NoSnapshotType DEF SnapshotTypes, Restart, store
<1>32. CASE RecoverTasks
  <2>1. \A t \in Tasks : row[t].rev + 1 \in Nat /\ row[t] \in Snapshots
    BY DEF SnapshotTypes, Snapshots
  <2>2. \A t \in Tasks : [status |-> "interrupted", rev |-> row[t].rev + 1] \in Snapshots
    BY <2>1 DEF Snapshots, Statuses, Ended
  <2> QED
    BY <1>32, <2>1, <2>2 DEF SnapshotTypes, RecoverTasks, memory
<1>33. CASE RecoverRuns
  BY <1>33 DEF RecoverRuns
<1>34. CASE UNCHANGED vars
  BY <1>34 DEF vars
<1> QED
  BY <1>1, <1>2, <1>3, <1>4, <1>5, <1>6, <1>7, <1>8, <1>9, <1>10, <1>11, <1>12, <1>13, <1>14,
     <1>15, <1>16, <1>17, <1>18, <1>19, <1>20, <1>21, <1>22, <1>23, <1>24, <1>25, <1>26, <1>27,
     <1>28, <1>29, <1>30, <1>31, <1>32, <1>33, <1>34
  DEF Next, Work, Act, Cancel, Recover

\* Every step keeps the types of the places, the runs and the approvals.
LEMMA PlaceStep == PlaceTypes /\ [Next]_vars => PlaceTypes'
<1> SUFFICES ASSUME PlaceTypes, [Next]_vars PROVE PlaceTypes'
  OBVIOUS
<1> USE DEF PlaceTypes, Statuses, Ended, WorkerPlaces, ActPlaces, CancPlaces, store,
         threads, history
<1>1. ASSUME NEW t \in Tasks, StartTask(t) PROVE PlaceTypes'
  BY <1>1 DEF StartTask
<1>2. ASSUME NEW t \in Tasks, Launch(t) PROVE PlaceTypes'
  BY <1>2 DEF Launch, Free
<1>3. ASSUME NEW t \in Tasks, SubmitFails(t) PROVE PlaceTypes'
  BY <1>3 DEF SubmitFails, Free
<1>4. ASSUME NEW t \in Tasks, SubmitRuns(t) PROVE PlaceTypes'
  BY <1>4 DEF SubmitRuns, Free
<1>5. ASSUME NEW t \in Tasks, CreateApproval(t) PROVE PlaceTypes'
  BY <1>5 DEF CreateApproval, Free, Fault
<1>6. ASSUME NEW t \in Tasks, RunStarted(t) PROVE PlaceTypes'
  BY <1>6 DEF RunStarted, Free, Revise
<1>7. ASSUME NEW t \in Tasks, Execute(t) PROVE PlaceTypes'
  BY <1>7 DEF Execute, Free
<1>8. ASSUME NEW t \in Tasks, FinishRun(t) PROVE PlaceTypes'
  BY <1>8 DEF FinishRun, Free, Outcomes, Fault
<1>9. ASSUME NEW t \in Tasks, Register(t) PROVE PlaceTypes'
  BY <1>9 DEF Register, Free
<1>10. ASSUME NEW t \in Tasks, Settle(t) PROVE PlaceTypes'
  BY <1>10 DEF Settle, Free, Revise
<1>11. ASSUME NEW t \in Tasks, ForgetTask(t) PROVE PlaceTypes'
  BY <1>11 DEF ForgetTask, Free
<1>12. ASSUME NEW t \in Tasks, Approve(t) PROVE PlaceTypes'
  BY <1>12 DEF Approve, Deciding, Pending, Free
<1>13. ASSUME NEW t \in Tasks, Reject(t) PROVE PlaceTypes'
  BY <1>13 DEF Reject, Deciding, Pending, Free
<1>14. ASSUME NEW t \in Tasks, PublishRunning(t) PROVE PlaceTypes'
  BY <1>14 DEF PublishRunning, Free, ShowRunning, Revise
<1>15. ASSUME NEW t \in Tasks, StartApproved(t) PROVE PlaceTypes'
  BY <1>15 DEF StartApproved, Free
<1>16. ASSUME NEW t \in Tasks, BeginApproved(t) PROVE PlaceTypes'
  BY <1>16 DEF BeginApproved, Free, ShowRunning, Revise
<1>17. ASSUME NEW t \in Tasks, FinishApproved(t) PROVE PlaceTypes'
  BY <1>17 DEF FinishApproved, Free, Outcomes, Fault
<1>18. ASSUME NEW t \in Tasks, PublishEnd(t) PROVE PlaceTypes'
  BY <1>18 DEF PublishEnd, Free, Revise
<1>19. ASSUME NEW t \in Tasks, ForgetDecided(t) PROVE PlaceTypes'
  BY <1>19 DEF ForgetDecided, Free
<1>20. ASSUME NEW t \in Tasks, Release(t) PROVE PlaceTypes'
  BY <1>20 DEF Release, Free, Deregistered
<1>21. ASSUME NEW t \in Tasks, CancelTask(t) PROVE PlaceTypes'
  BY <1>21 DEF CancelTask, Free, Revise, Unregistered
<1>22. ASSUME NEW t \in Tasks, CancelContext(t) PROVE PlaceTypes'
  BY <1>22 DEF CancelContext, CancelStep
<1>23. ASSUME NEW t \in Tasks, ReadApproval(t) PROVE PlaceTypes'
  BY <1>23 DEF ReadApproval, CancelStep, Fault
<1>24. ASSUME NEW t \in Tasks, RejectCancelled(t) PROVE PlaceTypes'
  BY <1>24 DEF RejectCancelled, CancelStep, Pending, Fault
<1>25. ASSUME NEW t \in Tasks, CancelExecution(t) PROVE PlaceTypes'
  BY <1>25 DEF CancelExecution, CancelStep, Mark
<1>26. ASSUME NEW t \in Tasks, ForgetCancelled(t) PROVE PlaceTypes'
  BY <1>26 DEF ForgetCancelled, CancelStep
<1>27. ASSUME NEW t \in Tasks, StopExecution(t) PROVE PlaceTypes'
  BY <1>27 DEF StopExecution
<1>28. ASSUME NEW t \in Tasks, NEW th \in Threads, Save(t, th) PROVE PlaceTypes'
  BY <1>28 DEF Save, Newer
<1>29. CASE Stop
  BY <1>29 DEF Stop
<1>30. CASE ShutdownDone
  BY <1>30 DEF ShutdownDone
<1>31. CASE Restart
  BY <1>31 DEF Restart
<1>32. CASE RecoverTasks
  BY <1>32 DEF RecoverTasks, ActiveRow
<1>33. CASE RecoverRuns
  BY <1>33 DEF RecoverRuns
<1>34. CASE UNCHANGED vars
  BY <1>34 DEF vars
<1> QED
  BY <1>1, <1>2, <1>3, <1>4, <1>5, <1>6, <1>7, <1>8, <1>9, <1>10, <1>11, <1>12, <1>13, <1>14,
     <1>15, <1>16, <1>17, <1>18, <1>19, <1>20, <1>21, <1>22, <1>23, <1>24, <1>25, <1>26, <1>27,
     <1>28, <1>29, <1>30, <1>31, <1>32, <1>33, <1>34
  DEF Next, Work, Act, Cancel, Recover

\* Every step keeps the types of the sets and the bounds.
LEMMA SetStep == PlaceTypes /\ SetTypes /\ [Next]_vars => SetTypes'
<1> SUFFICES ASSUME PlaceTypes, SetTypes, [Next]_vars PROVE SetTypes'
  OBVIOUS
<1> USE BoundAssumption
<1> USE DEF SetTypes, PlaceTypes, memory, contexts, threads, history, budgets
<1>1. ASSUME NEW t \in Tasks, StartTask(t) PROVE SetTypes'
  BY <1>1 DEF StartTask
<1>2. ASSUME NEW t \in Tasks, Launch(t) PROVE SetTypes'
  BY <1>2 DEF Launch, Free
<1>3. ASSUME NEW t \in Tasks, SubmitFails(t) PROVE SetTypes'
  BY <1>3 DEF SubmitFails, Free
<1>4. ASSUME NEW t \in Tasks, SubmitRuns(t) PROVE SetTypes'
  BY <1>4 DEF SubmitRuns, Free
<1>5. ASSUME NEW t \in Tasks, CreateApproval(t) PROVE SetTypes'
  BY <1>5 DEF CreateApproval, Free, Fault
<1>6. ASSUME NEW t \in Tasks, RunStarted(t) PROVE SetTypes'
  BY <1>6 DEF RunStarted, Free, Revise
<1>7. ASSUME NEW t \in Tasks, Execute(t) PROVE SetTypes'
  BY <1>7 DEF Execute, Free
<1>8. ASSUME NEW t \in Tasks, FinishRun(t) PROVE SetTypes'
  BY <1>8 DEF FinishRun, Free, Outcomes, Fault
<1>9. ASSUME NEW t \in Tasks, Register(t) PROVE SetTypes'
  BY <1>9 DEF Register, Free
<1>10. ASSUME NEW t \in Tasks, Settle(t) PROVE SetTypes'
  BY <1>10 DEF Settle, Free, Revise
<1>11. ASSUME NEW t \in Tasks, ForgetTask(t) PROVE SetTypes'
  BY <1>11 DEF ForgetTask, Free
<1>12. ASSUME NEW t \in Tasks, Approve(t) PROVE SetTypes'
  BY <1>12 DEF Approve, Deciding, Pending, Free
<1>13. ASSUME NEW t \in Tasks, Reject(t) PROVE SetTypes'
  BY <1>13 DEF Reject, Deciding, Pending, Free
<1>14. ASSUME NEW t \in Tasks, PublishRunning(t) PROVE SetTypes'
  BY <1>14 DEF PublishRunning, Free, ShowRunning, Revise
<1>15. ASSUME NEW t \in Tasks, StartApproved(t) PROVE SetTypes'
  BY <1>15 DEF StartApproved, Free
<1>16. ASSUME NEW t \in Tasks, BeginApproved(t) PROVE SetTypes'
  BY <1>16 DEF BeginApproved, Free, ShowRunning, Revise
<1>17. ASSUME NEW t \in Tasks, FinishApproved(t) PROVE SetTypes'
  BY <1>17 DEF FinishApproved, Free, Outcomes, Fault
<1>18. ASSUME NEW t \in Tasks, PublishEnd(t) PROVE SetTypes'
  BY <1>18 DEF PublishEnd, Free, Revise
<1>19. ASSUME NEW t \in Tasks, ForgetDecided(t) PROVE SetTypes'
  BY <1>19 DEF ForgetDecided, Free
<1>20. ASSUME NEW t \in Tasks, Release(t) PROVE SetTypes'
  BY <1>20 DEF Release, Free, Deregistered
<1>21. ASSUME NEW t \in Tasks, CancelTask(t) PROVE SetTypes'
  BY <1>21 DEF CancelTask, Free, Revise, Unregistered
<1>22. ASSUME NEW t \in Tasks, CancelContext(t) PROVE SetTypes'
  BY <1>22 DEF CancelContext, CancelStep
<1>23. ASSUME NEW t \in Tasks, ReadApproval(t) PROVE SetTypes'
  BY <1>23 DEF ReadApproval, CancelStep, Fault
<1>24. ASSUME NEW t \in Tasks, RejectCancelled(t) PROVE SetTypes'
  BY <1>24 DEF RejectCancelled, CancelStep, Pending, Fault
<1>25. ASSUME NEW t \in Tasks, CancelExecution(t) PROVE SetTypes'
  BY <1>25 DEF CancelExecution, CancelStep, Mark
<1>26. ASSUME NEW t \in Tasks, ForgetCancelled(t) PROVE SetTypes'
  BY <1>26 DEF ForgetCancelled, CancelStep
<1>27. ASSUME NEW t \in Tasks, StopExecution(t) PROVE SetTypes'
  BY <1>27 DEF StopExecution
<1>28. ASSUME NEW t \in Tasks, NEW th \in Threads, Save(t, th) PROVE SetTypes'
  BY <1>28 DEF Save, Newer
<1>29. CASE Stop
  BY <1>29 DEF Stop
<1>30. CASE ShutdownDone
  BY <1>30 DEF ShutdownDone
<1>31. CASE Restart
  BY <1>31 DEF Restart
<1>32. CASE RecoverTasks
  BY <1>32 DEF RecoverTasks, ActiveRow
<1>33. CASE RecoverRuns
  BY <1>33 DEF RecoverRuns
<1>34. CASE UNCHANGED vars
  BY <1>34 DEF vars
<1> QED
  BY <1>1, <1>2, <1>3, <1>4, <1>5, <1>6, <1>7, <1>8, <1>9, <1>10, <1>11, <1>12, <1>13, <1>14,
     <1>15, <1>16, <1>17, <1>18, <1>19, <1>20, <1>21, <1>22, <1>23, <1>24, <1>25, <1>26, <1>27,
     <1>28, <1>29, <1>30, <1>31, <1>32, <1>33, <1>34
  DEF Next, Work, Act, Cancel, Recover

\* Every step keeps the types.
LEMMA TypeStep == TypeOK /\ [Next]_vars => TypeOK'
<1>1. SnapshotTypes' /\ PlaceTypes' /\ SetTypes' => TypeOK'
  BY DEF TypeOK, SnapshotTypes, PlaceTypes, SetTypes
<1> QED
  BY <1>1, TypeParts, SnapshotStep, PlaceStep, SetStep

---------------------------------------------------------------------------
(* The parts of the invariant *)

\* Every step keeps what the places of the threads say of the run and its approval.
LEMMA GateStoryStep ==
  TypeOK /\ (\A t \in Tasks : GateStory(t)) /\ [Next]_vars => \A u \in Tasks : GateStory(u)'
<1> SUFFICES ASSUME TypeOK, \A t \in Tasks : GateStory(t), [Next]_vars, NEW u \in Tasks
             PROVE  GateStory(u)'
  OBVIOUS
<1>types. SnapshotTypes /\ PlaceTypes /\ SetTypes
  BY TypeParts
<1> USE <1>types
<1> USE DEF GateStory, PlaceTypes, Serving, Ended, store, threads, history
<1>1. ASSUME NEW t \in Tasks, StartTask(t) PROVE GateStory(u)'
  BY <1>1 DEF StartTask
<1>2. ASSUME NEW t \in Tasks, Launch(t) PROVE GateStory(u)'
  BY <1>2 DEF Launch, Free
<1>3. ASSUME NEW t \in Tasks, SubmitFails(t) PROVE GateStory(u)'
  BY <1>3 DEF SubmitFails, Free
<1>4. ASSUME NEW t \in Tasks, SubmitRuns(t) PROVE GateStory(u)'
  BY <1>4 DEF SubmitRuns, Free
<1>5. ASSUME NEW t \in Tasks, CreateApproval(t) PROVE GateStory(u)'
  BY <1>5 DEF CreateApproval, Free, Fault
<1>6. ASSUME NEW t \in Tasks, RunStarted(t) PROVE GateStory(u)'
  BY <1>6 DEF RunStarted, Free, Revise
<1>7. ASSUME NEW t \in Tasks, Execute(t) PROVE GateStory(u)'
  BY <1>7 DEF Execute, Free
<1>8. ASSUME NEW t \in Tasks, FinishRun(t) PROVE GateStory(u)'
  BY <1>8 DEF FinishRun, Free, Outcomes, Fault
<1>9. ASSUME NEW t \in Tasks, Register(t) PROVE GateStory(u)'
  BY <1>9 DEF Register, Free
<1>10. ASSUME NEW t \in Tasks, Settle(t) PROVE GateStory(u)'
  BY <1>10 DEF Settle, Free, Revise
<1>11. ASSUME NEW t \in Tasks, ForgetTask(t) PROVE GateStory(u)'
  BY <1>11 DEF ForgetTask, Free
<1>12. ASSUME NEW t \in Tasks, Approve(t) PROVE GateStory(u)'
  BY <1>12 DEF Approve, Deciding, Pending, Free
<1>13. ASSUME NEW t \in Tasks, Reject(t) PROVE GateStory(u)'
  BY <1>13 DEF Reject, Deciding, Pending, Free
<1>14. ASSUME NEW t \in Tasks, PublishRunning(t) PROVE GateStory(u)'
  BY <1>14 DEF PublishRunning, Free, ShowRunning, Revise
<1>15. ASSUME NEW t \in Tasks, StartApproved(t) PROVE GateStory(u)'
  BY <1>15 DEF StartApproved, Free
<1>16. ASSUME NEW t \in Tasks, BeginApproved(t) PROVE GateStory(u)'
  BY <1>16 DEF BeginApproved, Free, ShowRunning, Revise
<1>17. ASSUME NEW t \in Tasks, FinishApproved(t) PROVE GateStory(u)'
  BY <1>17 DEF FinishApproved, Free, Outcomes, Fault
<1>18. ASSUME NEW t \in Tasks, PublishEnd(t) PROVE GateStory(u)'
  BY <1>18 DEF PublishEnd, Free, Revise
<1>19. ASSUME NEW t \in Tasks, ForgetDecided(t) PROVE GateStory(u)'
  BY <1>19 DEF ForgetDecided, Free
<1>20. ASSUME NEW t \in Tasks, Release(t) PROVE GateStory(u)'
  BY <1>20 DEF Release, Free, Deregistered
<1>21. ASSUME NEW t \in Tasks, CancelTask(t) PROVE GateStory(u)'
  BY <1>21 DEF CancelTask, Free, Revise, Unregistered
<1>22. ASSUME NEW t \in Tasks, CancelContext(t) PROVE GateStory(u)'
  BY <1>22 DEF CancelContext, CancelStep
<1>23. ASSUME NEW t \in Tasks, ReadApproval(t) PROVE GateStory(u)'
  BY <1>23 DEF ReadApproval, CancelStep, Fault
<1>24. ASSUME NEW t \in Tasks, RejectCancelled(t) PROVE GateStory(u)'
  BY <1>24 DEF RejectCancelled, CancelStep, Pending, Fault
<1>25. ASSUME NEW t \in Tasks, CancelExecution(t) PROVE GateStory(u)'
  BY <1>25 DEF CancelExecution, CancelStep, Mark
<1>26. ASSUME NEW t \in Tasks, ForgetCancelled(t) PROVE GateStory(u)'
  BY <1>26 DEF ForgetCancelled, CancelStep
<1>27. ASSUME NEW t \in Tasks, StopExecution(t) PROVE GateStory(u)'
  BY <1>27 DEF StopExecution
<1>28. ASSUME NEW t \in Tasks, NEW th \in Threads, Save(t, th) PROVE GateStory(u)'
  BY <1>28 DEF Save, Newer
<1>29. CASE Stop
  BY <1>29 DEF Stop
<1>30. CASE ShutdownDone
  BY <1>30 DEF ShutdownDone
<1>31. CASE Restart
  BY <1>31 DEF Restart
<1>32. CASE RecoverTasks
  BY <1>32 DEF RecoverTasks, ActiveRow
<1>33. CASE RecoverRuns
  BY <1>33 DEF RecoverRuns
<1>34. CASE UNCHANGED vars
  BY <1>34 DEF vars
<1> QED
  BY <1>1, <1>2, <1>3, <1>4, <1>5, <1>6, <1>7, <1>8, <1>9, <1>10, <1>11, <1>12, <1>13, <1>14,
     <1>15, <1>16, <1>17, <1>18, <1>19, <1>20, <1>21, <1>22, <1>23, <1>24, <1>25, <1>26, <1>27,
     <1>28, <1>29, <1>30, <1>31, <1>32, <1>33, <1>34
  DEF Next, Work, Act, Cancel, Recover

\* Every step keeps who is to tell a task of the end of its run.
LEMMA EventStep == IInv /\ [Next]_vars => \A u \in Tasks : EventStory(u)'
<1> SUFFICES ASSUME TypeOK, \A t \in Tasks : GateStory(t) /\ RowStory(t) /\ EventStory(t),
                    [Next]_vars, NEW u \in Tasks PROVE EventStory(u)'
  BY DEF IInv
<1>types. SnapshotTypes /\ PlaceTypes /\ SetTypes
  BY TypeParts
<1> USE <1>types
<1> USE DEF GateStory, RowStory, EventStory, Finisher, Valid, PlaceTypes, SetTypes, Serving, Ended,
         store, memory, threads, history
<1>1. ASSUME NEW t \in Tasks, StartTask(t) PROVE EventStory(u)'
  BY <1>1 DEF StartTask
<1>2. ASSUME NEW t \in Tasks, Launch(t) PROVE EventStory(u)'
  BY <1>2 DEF Launch, Free
<1>3. ASSUME NEW t \in Tasks, SubmitFails(t) PROVE EventStory(u)'
  BY <1>3 DEF SubmitFails, Free
<1>4. ASSUME NEW t \in Tasks, SubmitRuns(t) PROVE EventStory(u)'
  BY <1>4 DEF SubmitRuns, Free
<1>5. ASSUME NEW t \in Tasks, CreateApproval(t) PROVE EventStory(u)'
  BY <1>5 DEF CreateApproval, Free, Fault
<1>6. ASSUME NEW t \in Tasks, RunStarted(t) PROVE EventStory(u)'
  <2>1. CASE Revise(t, "worker", state[t].status)
    <3>1. \A w \in Tasks : /\ state'[w].known = state[w].known
                          /\ state'[w].status = IF w = t THEN state[t].status ELSE state[w].status
      BY <2>1 DEF Revise, SnapshotTypes
    <3> QED
      BY <1>6, <3>1 DEF RunStarted, Free
  <2>2. CASE UNCHANGED <<state, carried>>
    BY <1>6, <2>2 DEF RunStarted, Free
  <2> QED
    BY <1>6, <2>1, <2>2 DEF RunStarted
<1>7. ASSUME NEW t \in Tasks, Execute(t) PROVE EventStory(u)'
  BY <1>7 DEF Execute, Free
<1>8. ASSUME NEW t \in Tasks, FinishRun(t) PROVE EventStory(u)'
  BY <1>8 DEF FinishRun, Free, Outcomes, Fault
<1>9. ASSUME NEW t \in Tasks, Register(t) PROVE EventStory(u)'
  <2>1. CASE Valid(t)
    <3>1. /\ waiting' = waiting \cup {t} /\ UNCHANGED <<run, approval>>
          /\ \A w \in Tasks : /\ w # t => state'[w] = state[w]
                              /\ w = t => /\ state'[w].status = "approval_required"
                                          /\ state'[w].known
      BY <1>9, <2>1, TypeParts DEF Register, SnapshotTypes
    <3> QED
      BY <1>9, <2>1, <3>1 DEF Register, Free
  <2>2. CASE ~ Valid(t)
    BY <1>9, <2>2 DEF Register, Free
  <2> QED
    BY <2>1, <2>2
<1>10. ASSUME NEW t \in Tasks, Settle(t) PROVE EventStory(u)'
  <2>1. CASE Revise(t, "worker", result[t])
    <3>1. \A w \in Tasks : /\ state'[w].known = state[w].known
                          /\ state'[w].status = IF w = t THEN result[t] ELSE state[w].status
      BY <2>1 DEF Revise, SnapshotTypes
    <3> QED
      BY <1>10, <3>1 DEF Settle, Free
  <2>2. CASE UNCHANGED <<state, carried>>
    BY <1>10, <2>2 DEF Settle, Free
  <2> QED
    BY <1>10, <2>1, <2>2 DEF Settle
<1>11. ASSUME NEW t \in Tasks, ForgetTask(t) PROVE EventStory(u)'
  BY <1>11 DEF ForgetTask, Free
<1>12. ASSUME NEW t \in Tasks, Approve(t) PROVE EventStory(u)'
  BY <1>12 DEF Approve, Deciding, Pending, Free
<1>13. ASSUME NEW t \in Tasks, Reject(t) PROVE EventStory(u)'
  BY <1>13 DEF Reject, Deciding, Pending, Free
<1>14. ASSUME NEW t \in Tasks, PublishRunning(t) PROVE EventStory(u)'
  <2>1. CASE Revise(t, "act", "running")
    <3>1. \A w \in Tasks : /\ state'[w].known = state[w].known
                          /\ state'[w].status = IF w = t THEN "running" ELSE state[w].status
      BY <2>1 DEF Revise, SnapshotTypes
    <3> QED
      BY <1>14, <3>1 DEF PublishRunning, Free, ShowRunning
  <2>2. CASE UNCHANGED <<state, carried>>
    BY <1>14, <2>2 DEF PublishRunning, Free, ShowRunning
  <2> QED
    BY <1>14, <2>1, <2>2 DEF PublishRunning, ShowRunning
<1>15. ASSUME NEW t \in Tasks, StartApproved(t) PROVE EventStory(u)'
  BY <1>15 DEF StartApproved, Free
<1>16. ASSUME NEW t \in Tasks, BeginApproved(t) PROVE EventStory(u)'
  <2>1. CASE Revise(t, "act", "running")
    <3>1. \A w \in Tasks : /\ state'[w].known = state[w].known
                          /\ state'[w].status = IF w = t THEN "running" ELSE state[w].status
      BY <2>1 DEF Revise, SnapshotTypes
    <3> QED
      BY <1>16, <3>1 DEF BeginApproved, Free, ShowRunning
  <2>2. CASE UNCHANGED <<state, carried>>
    BY <1>16, <2>2 DEF BeginApproved, Free, ShowRunning
  <2> QED
    BY <1>16, <2>1, <2>2 DEF BeginApproved, ShowRunning
<1>17. ASSUME NEW t \in Tasks, FinishApproved(t) PROVE EventStory(u)'
  BY <1>17 DEF FinishApproved, Free, Outcomes, Fault
<1>18. ASSUME NEW t \in Tasks, PublishEnd(t) PROVE EventStory(u)'
  <2>1. CASE Revise(t, "act", run[t])
    <3>1. \A w \in Tasks : /\ state'[w].known = state[w].known
                          /\ state'[w].status = IF w = t THEN run[t] ELSE state[w].status
      BY <2>1 DEF Revise, SnapshotTypes
    <3> QED
      BY <1>18, <3>1 DEF PublishEnd, Free
  <2>2. CASE UNCHANGED <<state, carried>>
    BY <1>18, <2>2 DEF PublishEnd, Free
  <2> QED
    BY <1>18, <2>1, <2>2 DEF PublishEnd
<1>19. ASSUME NEW t \in Tasks, ForgetDecided(t) PROVE EventStory(u)'
  BY <1>19 DEF ForgetDecided, Free
<1>20. ASSUME NEW t \in Tasks, Release(t) PROVE EventStory(u)'
  BY <1>20 DEF Release, Free, Deregistered
<1>21. ASSUME NEW t \in Tasks, CancelTask(t) PROVE EventStory(u)'
  <2>1. \A w \in Tasks : /\ state'[w].known = state[w].known
                        /\ state'[w].status = IF w = t THEN "cancelled" ELSE state[w].status
    BY <1>21 DEF Revise, SnapshotTypes, CancelTask
  <2> QED
    BY <1>21, <2>1 DEF CancelTask, Free, Unregistered
<1>22. ASSUME NEW t \in Tasks, CancelContext(t) PROVE EventStory(u)'
  BY <1>22 DEF CancelContext, CancelStep
<1>23. ASSUME NEW t \in Tasks, ReadApproval(t) PROVE EventStory(u)'
  BY <1>23 DEF ReadApproval, CancelStep, Fault
<1>24. ASSUME NEW t \in Tasks, RejectCancelled(t) PROVE EventStory(u)'
  BY <1>24 DEF RejectCancelled, CancelStep, Pending, Fault
<1>25. ASSUME NEW t \in Tasks, CancelExecution(t) PROVE EventStory(u)'
  BY <1>25 DEF CancelExecution, CancelStep, Mark
<1>26. ASSUME NEW t \in Tasks, ForgetCancelled(t) PROVE EventStory(u)'
  BY <1>26 DEF ForgetCancelled, CancelStep
<1>27. ASSUME NEW t \in Tasks, StopExecution(t) PROVE EventStory(u)'
  BY <1>27 DEF StopExecution
<1>28. ASSUME NEW t \in Tasks, NEW th \in Threads, Save(t, th) PROVE EventStory(u)'
  BY <1>28 DEF Save, Newer
<1>29. CASE Stop
  BY <1>29 DEF Stop
<1>30. CASE ShutdownDone
  BY <1>30 DEF ShutdownDone
<1>31. CASE Restart
  BY <1>31 DEF Restart
<1>32. CASE RecoverTasks
  BY <1>32 DEF RecoverTasks, ActiveRow
<1>33. CASE RecoverRuns
  BY <1>33 DEF RecoverRuns
<1>34. CASE UNCHANGED vars
  BY <1>34 DEF vars
<1> QED
  BY <1>1, <1>2, <1>3, <1>4, <1>5, <1>6, <1>7, <1>8, <1>9, <1>10, <1>11, <1>12, <1>13, <1>14,
     <1>15, <1>16, <1>17, <1>18, <1>19, <1>20, <1>21, <1>22, <1>23, <1>24, <1>25, <1>26, <1>27,
     <1>28, <1>29, <1>30, <1>31, <1>32, <1>33, <1>34
  DEF Next, Work, Act, Cancel, Recover

\* Every step keeps that a registered task hears of the end of its run.
LEMMA HearingStep == IInv /\ [Next]_vars => TaskFollowsRun'
<1> SUFFICES ASSUME TypeOK, \A t \in Tasks : GateStory(t) /\ RowStory(t) /\ EventStory(t),
                    TaskFollowsRun, [Next]_vars PROVE TaskFollowsRun'
  BY DEF IInv
<1>types. SnapshotTypes /\ PlaceTypes /\ SetTypes
  BY TypeParts
<1> USE <1>types
<1> USE DEF TaskFollowsRun, GateStory, RowStory, EventStory, Finisher, Valid, PlaceTypes, SetTypes,
         Serving, Ended, store, memory, threads, history
<1>1. ASSUME NEW t \in Tasks, StartTask(t) PROVE TaskFollowsRun'
  BY <1>1 DEF StartTask
<1>2. ASSUME NEW t \in Tasks, Launch(t) PROVE TaskFollowsRun'
  BY <1>2 DEF Launch, Free
<1>3. ASSUME NEW t \in Tasks, SubmitFails(t) PROVE TaskFollowsRun'
  BY <1>3 DEF SubmitFails, Free
<1>4. ASSUME NEW t \in Tasks, SubmitRuns(t) PROVE TaskFollowsRun'
  BY <1>4 DEF SubmitRuns, Free
<1>5. ASSUME NEW t \in Tasks, CreateApproval(t) PROVE TaskFollowsRun'
  BY <1>5 DEF CreateApproval, Free, Fault
<1>6. ASSUME NEW t \in Tasks, RunStarted(t) PROVE TaskFollowsRun'
  <2>1. CASE Revise(t, "worker", state[t].status)
    <3>1. \A w \in Tasks : /\ state'[w].known = state[w].known
                          /\ state'[w].status = IF w = t THEN state[t].status ELSE state[w].status
      BY <2>1 DEF Revise, SnapshotTypes
    <3> QED
      BY <1>6, <3>1 DEF RunStarted, Free
  <2>2. CASE UNCHANGED <<state, carried>>
    BY <1>6, <2>2 DEF RunStarted, Free
  <2> QED
    BY <1>6, <2>1, <2>2 DEF RunStarted
<1>7. ASSUME NEW t \in Tasks, Execute(t) PROVE TaskFollowsRun'
  BY <1>7 DEF Execute, Free
<1>8. ASSUME NEW t \in Tasks, FinishRun(t) PROVE TaskFollowsRun'
  BY <1>8 DEF FinishRun, Free, Outcomes, Fault
<1>9. ASSUME NEW t \in Tasks, Register(t) PROVE TaskFollowsRun'
  <2>1. CASE Valid(t)
    <3>1. /\ waiting' = waiting \cup {t} /\ UNCHANGED <<run, approval>>
          /\ \A w \in Tasks : /\ w # t => state'[w] = state[w]
                              /\ w = t => /\ state'[w].status = "approval_required"
                                          /\ state'[w].known
      BY <1>9, <2>1, TypeParts DEF Register, SnapshotTypes
    <3> QED
      BY <1>9, <2>1, <3>1 DEF Register, Free
  <2>2. CASE ~ Valid(t)
    BY <1>9, <2>2 DEF Register, Free
  <2> QED
    BY <2>1, <2>2
<1>10. ASSUME NEW t \in Tasks, Settle(t) PROVE TaskFollowsRun'
  <2>1. CASE Revise(t, "worker", result[t])
    <3>1. \A w \in Tasks : /\ state'[w].known = state[w].known
                          /\ state'[w].status = IF w = t THEN result[t] ELSE state[w].status
      BY <2>1 DEF Revise, SnapshotTypes
    <3> QED
      BY <1>10, <3>1 DEF Settle, Free
  <2>2. CASE UNCHANGED <<state, carried>>
    BY <1>10, <2>2 DEF Settle, Free
  <2> QED
    BY <1>10, <2>1, <2>2 DEF Settle
<1>11. ASSUME NEW t \in Tasks, ForgetTask(t) PROVE TaskFollowsRun'
  BY <1>11 DEF ForgetTask, Free
<1>12. ASSUME NEW t \in Tasks, Approve(t) PROVE TaskFollowsRun'
  BY <1>12 DEF Approve, Deciding, Pending, Free
<1>13. ASSUME NEW t \in Tasks, Reject(t) PROVE TaskFollowsRun'
  BY <1>13 DEF Reject, Deciding, Pending, Free
<1>14. ASSUME NEW t \in Tasks, PublishRunning(t) PROVE TaskFollowsRun'
  <2>1. CASE Revise(t, "act", "running")
    <3>1. \A w \in Tasks : /\ state'[w].known = state[w].known
                          /\ state'[w].status = IF w = t THEN "running" ELSE state[w].status
      BY <2>1 DEF Revise, SnapshotTypes
    <3> QED
      BY <1>14, <3>1 DEF PublishRunning, Free, ShowRunning
  <2>2. CASE UNCHANGED <<state, carried>>
    BY <1>14, <2>2 DEF PublishRunning, Free, ShowRunning
  <2> QED
    BY <1>14, <2>1, <2>2 DEF PublishRunning, ShowRunning
<1>15. ASSUME NEW t \in Tasks, StartApproved(t) PROVE TaskFollowsRun'
  BY <1>15 DEF StartApproved, Free
<1>16. ASSUME NEW t \in Tasks, BeginApproved(t) PROVE TaskFollowsRun'
  <2>1. CASE Revise(t, "act", "running")
    <3>1. \A w \in Tasks : /\ state'[w].known = state[w].known
                          /\ state'[w].status = IF w = t THEN "running" ELSE state[w].status
      BY <2>1 DEF Revise, SnapshotTypes
    <3> QED
      BY <1>16, <3>1 DEF BeginApproved, Free, ShowRunning
  <2>2. CASE UNCHANGED <<state, carried>>
    BY <1>16, <2>2 DEF BeginApproved, Free, ShowRunning
  <2> QED
    BY <1>16, <2>1, <2>2 DEF BeginApproved, ShowRunning
<1>17. ASSUME NEW t \in Tasks, FinishApproved(t) PROVE TaskFollowsRun'
  BY <1>17 DEF FinishApproved, Free, Outcomes, Fault
<1>18. ASSUME NEW t \in Tasks, PublishEnd(t) PROVE TaskFollowsRun'
  <2>1. CASE Revise(t, "act", run[t])
    <3>1. \A w \in Tasks : /\ state'[w].known = state[w].known
                          /\ state'[w].status = IF w = t THEN run[t] ELSE state[w].status
      BY <2>1 DEF Revise, SnapshotTypes
    <3> QED
      BY <1>18, <3>1 DEF PublishEnd, Free
  <2>2. CASE UNCHANGED <<state, carried>>
    BY <1>18, <2>2 DEF PublishEnd, Free
  <2> QED
    BY <1>18, <2>1, <2>2 DEF PublishEnd
<1>19. ASSUME NEW t \in Tasks, ForgetDecided(t) PROVE TaskFollowsRun'
  BY <1>19 DEF ForgetDecided, Free
<1>20. ASSUME NEW t \in Tasks, Release(t) PROVE TaskFollowsRun'
  BY <1>20 DEF Release, Free, Deregistered
<1>21. ASSUME NEW t \in Tasks, CancelTask(t) PROVE TaskFollowsRun'
  <2>1. \A w \in Tasks : /\ state'[w].known = state[w].known
                        /\ state'[w].status = IF w = t THEN "cancelled" ELSE state[w].status
    BY <1>21 DEF Revise, SnapshotTypes, CancelTask
  <2> QED
    BY <1>21, <2>1 DEF CancelTask, Free, Unregistered
<1>22. ASSUME NEW t \in Tasks, CancelContext(t) PROVE TaskFollowsRun'
  BY <1>22 DEF CancelContext, CancelStep
<1>23. ASSUME NEW t \in Tasks, ReadApproval(t) PROVE TaskFollowsRun'
  BY <1>23 DEF ReadApproval, CancelStep, Fault
<1>24. ASSUME NEW t \in Tasks, RejectCancelled(t) PROVE TaskFollowsRun'
  BY <1>24 DEF RejectCancelled, CancelStep, Pending, Fault
<1>25. ASSUME NEW t \in Tasks, CancelExecution(t) PROVE TaskFollowsRun'
  BY <1>25 DEF CancelExecution, CancelStep, Mark
<1>26. ASSUME NEW t \in Tasks, ForgetCancelled(t) PROVE TaskFollowsRun'
  BY <1>26 DEF ForgetCancelled, CancelStep
<1>27. ASSUME NEW t \in Tasks, StopExecution(t) PROVE TaskFollowsRun'
  BY <1>27 DEF StopExecution
<1>28. ASSUME NEW t \in Tasks, NEW th \in Threads, Save(t, th) PROVE TaskFollowsRun'
  BY <1>28 DEF Save, Newer
<1>29. CASE Stop
  BY <1>29 DEF Stop
<1>30. CASE ShutdownDone
  BY <1>30 DEF ShutdownDone
<1>31. CASE Restart
  BY <1>31 DEF Restart
<1>32. CASE RecoverTasks
  BY <1>32 DEF RecoverTasks, ActiveRow
<1>33. CASE RecoverRuns
  BY <1>33 DEF RecoverRuns
<1>34. CASE UNCHANGED vars
  BY <1>34 DEF vars
<1> QED
  BY <1>1, <1>2, <1>3, <1>4, <1>5, <1>6, <1>7, <1>8, <1>9, <1>10, <1>11, <1>12, <1>13, <1>14,
     <1>15, <1>16, <1>17, <1>18, <1>19, <1>20, <1>21, <1>22, <1>23, <1>24, <1>25, <1>26, <1>27,
     <1>28, <1>29, <1>30, <1>31, <1>32, <1>33, <1>34
  DEF Next, Work, Act, Cancel, Recover

\* Every step keeps that what began is registered, and nothing after the shutdown.
LEMMA ContextStep == IInv /\ [Next]_vars => \A u \in Tasks : ContextStory(u)'
<1> SUFFICES ASSUME TypeOK, \A t \in Tasks : GateStory(t) /\ ContextStory(t),
                    [Next]_vars, NEW u \in Tasks PROVE ContextStory(u)'
  BY DEF IInv
<1>types. SnapshotTypes /\ PlaceTypes /\ SetTypes
  BY TypeParts
<1> USE <1>types
<1> USE DEF GateStory, ContextStory, PlaceTypes, SetTypes, Serving, Closed, store, contexts,
         threads, history
<1>1. ASSUME NEW t \in Tasks, StartTask(t) PROVE ContextStory(u)'
  BY <1>1 DEF StartTask
<1>2. ASSUME NEW t \in Tasks, Launch(t) PROVE ContextStory(u)'
  BY <1>2 DEF Launch, Free
<1>3. ASSUME NEW t \in Tasks, SubmitFails(t) PROVE ContextStory(u)'
  BY <1>3 DEF SubmitFails, Free
<1>4. ASSUME NEW t \in Tasks, SubmitRuns(t) PROVE ContextStory(u)'
  BY <1>4 DEF SubmitRuns, Free
<1>5. ASSUME NEW t \in Tasks, CreateApproval(t) PROVE ContextStory(u)'
  BY <1>5 DEF CreateApproval, Free, Fault
<1>6. ASSUME NEW t \in Tasks, RunStarted(t) PROVE ContextStory(u)'
  BY <1>6 DEF RunStarted, Free, Revise
<1>7. ASSUME NEW t \in Tasks, Execute(t) PROVE ContextStory(u)'
  BY <1>7 DEF Execute, Free
<1>8. ASSUME NEW t \in Tasks, FinishRun(t) PROVE ContextStory(u)'
  BY <1>8 DEF FinishRun, Free, Outcomes, Fault
<1>9. ASSUME NEW t \in Tasks, Register(t) PROVE ContextStory(u)'
  BY <1>9 DEF Register, Free
<1>10. ASSUME NEW t \in Tasks, Settle(t) PROVE ContextStory(u)'
  BY <1>10 DEF Settle, Free, Revise
<1>11. ASSUME NEW t \in Tasks, ForgetTask(t) PROVE ContextStory(u)'
  BY <1>11 DEF ForgetTask, Free
<1>12. ASSUME NEW t \in Tasks, Approve(t) PROVE ContextStory(u)'
  BY <1>12 DEF Approve, Deciding, Pending, Free
<1>13. ASSUME NEW t \in Tasks, Reject(t) PROVE ContextStory(u)'
  BY <1>13 DEF Reject, Deciding, Pending, Free
<1>14. ASSUME NEW t \in Tasks, PublishRunning(t) PROVE ContextStory(u)'
  BY <1>14 DEF PublishRunning, Free, ShowRunning, Revise
<1>15. ASSUME NEW t \in Tasks, StartApproved(t) PROVE ContextStory(u)'
  BY <1>15 DEF StartApproved, Free
<1>16. ASSUME NEW t \in Tasks, BeginApproved(t) PROVE ContextStory(u)'
  BY <1>16 DEF BeginApproved, Free, ShowRunning, Revise
<1>17. ASSUME NEW t \in Tasks, FinishApproved(t) PROVE ContextStory(u)'
  BY <1>17 DEF FinishApproved, Free, Outcomes, Fault
<1>18. ASSUME NEW t \in Tasks, PublishEnd(t) PROVE ContextStory(u)'
  BY <1>18 DEF PublishEnd, Free, Revise
<1>19. ASSUME NEW t \in Tasks, ForgetDecided(t) PROVE ContextStory(u)'
  BY <1>19 DEF ForgetDecided, Free
<1>20. ASSUME NEW t \in Tasks, Release(t) PROVE ContextStory(u)'
  BY <1>20 DEF Release, Free, Deregistered
<1>21. ASSUME NEW t \in Tasks, CancelTask(t) PROVE ContextStory(u)'
  BY <1>21 DEF CancelTask, Free, Revise, Unregistered
<1>22. ASSUME NEW t \in Tasks, CancelContext(t) PROVE ContextStory(u)'
  BY <1>22 DEF CancelContext, CancelStep
<1>23. ASSUME NEW t \in Tasks, ReadApproval(t) PROVE ContextStory(u)'
  BY <1>23 DEF ReadApproval, CancelStep, Fault
<1>24. ASSUME NEW t \in Tasks, RejectCancelled(t) PROVE ContextStory(u)'
  BY <1>24 DEF RejectCancelled, CancelStep, Pending, Fault
<1>25. ASSUME NEW t \in Tasks, CancelExecution(t) PROVE ContextStory(u)'
  BY <1>25 DEF CancelExecution, CancelStep, Mark
<1>26. ASSUME NEW t \in Tasks, ForgetCancelled(t) PROVE ContextStory(u)'
  BY <1>26 DEF ForgetCancelled, CancelStep
<1>27. ASSUME NEW t \in Tasks, StopExecution(t) PROVE ContextStory(u)'
  BY <1>27 DEF StopExecution
<1>28. ASSUME NEW t \in Tasks, NEW th \in Threads, Save(t, th) PROVE ContextStory(u)'
  BY <1>28 DEF Save, Newer
<1>29. CASE Stop
  BY <1>29 DEF Stop
<1>30. CASE ShutdownDone
  BY <1>30 DEF ShutdownDone, Idle
<1>31. CASE Restart
  BY <1>31 DEF Restart
<1>32. CASE RecoverTasks
  BY <1>32 DEF RecoverTasks, ActiveRow
<1>33. CASE RecoverRuns
  BY <1>33 DEF RecoverRuns
<1>34. CASE UNCHANGED vars
  BY <1>34 DEF vars
<1> QED
  BY <1>1, <1>2, <1>3, <1>4, <1>5, <1>6, <1>7, <1>8, <1>9, <1>10, <1>11, <1>12, <1>13, <1>14,
     <1>15, <1>16, <1>17, <1>18, <1>19, <1>20, <1>21, <1>22, <1>23, <1>24, <1>25, <1>26, <1>27,
     <1>28, <1>29, <1>30, <1>31, <1>32, <1>33, <1>34
  DEF Next, Work, Act, Cancel, Recover

\* Every step keeps that a cancellation that is over reaches the execution.
LEMMA CancelledStep == IInv /\ [Next]_vars => CancelReachesExecution'
<1> SUFFICES ASSUME TypeOK,
                    \A t \in Tasks : /\ GateStory(t) /\ RowStory(t)
                                     /\ EventStory(t) /\ ContextStory(t),
                    CancelReachesExecution, [Next]_vars PROVE CancelReachesExecution'
  BY DEF IInv
<1>types. SnapshotTypes /\ PlaceTypes /\ SetTypes
  BY TypeParts
<1> USE <1>types
<1> USE DEF CancelReachesExecution, Pending, GateStory, RowStory, EventStory, ContextStory,
         Finisher,
         Valid, PlaceTypes, SetTypes, Serving, Ended, store, memory, contexts, threads, history
<1>1. ASSUME NEW t \in Tasks, StartTask(t) PROVE CancelReachesExecution'
  BY <1>1 DEF StartTask
<1>2. ASSUME NEW t \in Tasks, Launch(t) PROVE CancelReachesExecution'
  BY <1>2 DEF Launch, Free
<1>3. ASSUME NEW t \in Tasks, SubmitFails(t) PROVE CancelReachesExecution'
  BY <1>3 DEF SubmitFails, Free
<1>4. ASSUME NEW t \in Tasks, SubmitRuns(t) PROVE CancelReachesExecution'
  BY <1>4 DEF SubmitRuns, Free
<1>5. ASSUME NEW t \in Tasks, CreateApproval(t) PROVE CancelReachesExecution'
  BY <1>5 DEF CreateApproval, Free, Fault
<1>6. ASSUME NEW t \in Tasks, RunStarted(t) PROVE CancelReachesExecution'
  <2>1. CASE Revise(t, "worker", state[t].status)
    <3>1. \A w \in Tasks : /\ state'[w].known = state[w].known
                          /\ state'[w].status = IF w = t THEN state[t].status ELSE state[w].status
      BY <2>1 DEF Revise, SnapshotTypes
    <3> QED
      BY <1>6, <3>1 DEF RunStarted, Free
  <2>2. CASE UNCHANGED <<state, carried>>
    BY <1>6, <2>2 DEF RunStarted, Free
  <2> QED
    BY <1>6, <2>1, <2>2 DEF RunStarted
<1>7. ASSUME NEW t \in Tasks, Execute(t) PROVE CancelReachesExecution'
  BY <1>7 DEF Execute, Free
<1>8. ASSUME NEW t \in Tasks, FinishRun(t) PROVE CancelReachesExecution'
  BY <1>8 DEF FinishRun, Free, Outcomes, Fault
<1>9. ASSUME NEW t \in Tasks, Register(t) PROVE CancelReachesExecution'
  <2>1. CASE Valid(t)
    <3>1. /\ waiting' = waiting \cup {t} /\ UNCHANGED <<run, approval>>
          /\ \A w \in Tasks : /\ w # t => state'[w] = state[w]
                              /\ w = t => /\ state'[w].status = "approval_required"
                                          /\ state'[w].known
      BY <1>9, <2>1, TypeParts DEF Register, SnapshotTypes
    <3> QED
      BY <1>9, <2>1, <3>1 DEF Register, Free
  <2>2. CASE ~ Valid(t)
    BY <1>9, <2>2 DEF Register, Free
  <2> QED
    BY <2>1, <2>2
<1>10. ASSUME NEW t \in Tasks, Settle(t) PROVE CancelReachesExecution'
  <2>1. CASE Revise(t, "worker", result[t])
    <3>1. \A w \in Tasks : /\ state'[w].known = state[w].known
                          /\ state'[w].status = IF w = t THEN result[t] ELSE state[w].status
      BY <2>1 DEF Revise, SnapshotTypes
    <3> QED
      BY <1>10, <3>1 DEF Settle, Free
  <2>2. CASE UNCHANGED <<state, carried>>
    BY <1>10, <2>2 DEF Settle, Free
  <2> QED
    BY <1>10, <2>1, <2>2 DEF Settle
<1>11. ASSUME NEW t \in Tasks, ForgetTask(t) PROVE CancelReachesExecution'
  BY <1>11 DEF ForgetTask, Free
<1>12. ASSUME NEW t \in Tasks, Approve(t) PROVE CancelReachesExecution'
  BY <1>12 DEF Approve, Deciding, Pending, Free
<1>13. ASSUME NEW t \in Tasks, Reject(t) PROVE CancelReachesExecution'
  BY <1>13 DEF Reject, Deciding, Pending, Free
<1>14. ASSUME NEW t \in Tasks, PublishRunning(t) PROVE CancelReachesExecution'
  <2>1. CASE Revise(t, "act", "running")
    <3>1. \A w \in Tasks : /\ state'[w].known = state[w].known
                          /\ state'[w].status = IF w = t THEN "running" ELSE state[w].status
      BY <2>1 DEF Revise, SnapshotTypes
    <3> QED
      BY <1>14, <3>1 DEF PublishRunning, Free, ShowRunning
  <2>2. CASE UNCHANGED <<state, carried>>
    BY <1>14, <2>2 DEF PublishRunning, Free, ShowRunning
  <2> QED
    BY <1>14, <2>1, <2>2 DEF PublishRunning, ShowRunning
<1>15. ASSUME NEW t \in Tasks, StartApproved(t) PROVE CancelReachesExecution'
  BY <1>15 DEF StartApproved, Free
<1>16. ASSUME NEW t \in Tasks, BeginApproved(t) PROVE CancelReachesExecution'
  <2>1. CASE Revise(t, "act", "running")
    <3>1. \A w \in Tasks : /\ state'[w].known = state[w].known
                          /\ state'[w].status = IF w = t THEN "running" ELSE state[w].status
      BY <2>1 DEF Revise, SnapshotTypes
    <3> QED
      BY <1>16, <3>1 DEF BeginApproved, Free, ShowRunning
  <2>2. CASE UNCHANGED <<state, carried>>
    BY <1>16, <2>2 DEF BeginApproved, Free, ShowRunning
  <2> QED
    BY <1>16, <2>1, <2>2 DEF BeginApproved, ShowRunning
<1>17. ASSUME NEW t \in Tasks, FinishApproved(t) PROVE CancelReachesExecution'
  BY <1>17 DEF FinishApproved, Free, Outcomes, Fault
<1>18. ASSUME NEW t \in Tasks, PublishEnd(t) PROVE CancelReachesExecution'
  <2>1. CASE Revise(t, "act", run[t])
    <3>1. \A w \in Tasks : /\ state'[w].known = state[w].known
                          /\ state'[w].status = IF w = t THEN run[t] ELSE state[w].status
      BY <2>1 DEF Revise, SnapshotTypes
    <3> QED
      BY <1>18, <3>1 DEF PublishEnd, Free
  <2>2. CASE UNCHANGED <<state, carried>>
    BY <1>18, <2>2 DEF PublishEnd, Free
  <2> QED
    BY <1>18, <2>1, <2>2 DEF PublishEnd
<1>19. ASSUME NEW t \in Tasks, ForgetDecided(t) PROVE CancelReachesExecution'
  BY <1>19 DEF ForgetDecided, Free
<1>20. ASSUME NEW t \in Tasks, Release(t) PROVE CancelReachesExecution'
  BY <1>20 DEF Release, Free, Deregistered
<1>21. ASSUME NEW t \in Tasks, CancelTask(t) PROVE CancelReachesExecution'
  <2>1. \A w \in Tasks : /\ state'[w].known = state[w].known
                        /\ state'[w].status = IF w = t THEN "cancelled" ELSE state[w].status
    BY <1>21 DEF Revise, SnapshotTypes, CancelTask
  <2> QED
    BY <1>21, <2>1 DEF CancelTask, Free, Unregistered
<1>22. ASSUME NEW t \in Tasks, CancelContext(t) PROVE CancelReachesExecution'
  BY <1>22 DEF CancelContext, CancelStep
<1>23. ASSUME NEW t \in Tasks, ReadApproval(t) PROVE CancelReachesExecution'
  BY <1>23 DEF ReadApproval, CancelStep, Fault
<1>24. ASSUME NEW t \in Tasks, RejectCancelled(t) PROVE CancelReachesExecution'
  BY <1>24 DEF RejectCancelled, CancelStep, Pending, Fault
<1>25. ASSUME NEW t \in Tasks, CancelExecution(t) PROVE CancelReachesExecution'
  BY <1>25 DEF CancelExecution, CancelStep, Mark
<1>26. ASSUME NEW t \in Tasks, ForgetCancelled(t) PROVE CancelReachesExecution'
  BY <1>26 DEF ForgetCancelled, CancelStep
<1>27. ASSUME NEW t \in Tasks, StopExecution(t) PROVE CancelReachesExecution'
  BY <1>27 DEF StopExecution
<1>28. ASSUME NEW t \in Tasks, NEW th \in Threads, Save(t, th) PROVE CancelReachesExecution'
  BY <1>28 DEF Save, Newer
<1>29. CASE Stop
  BY <1>29 DEF Stop
<1>30. CASE ShutdownDone
  BY <1>30 DEF ShutdownDone
<1>31. CASE Restart
  BY <1>31 DEF Restart
<1>32. CASE RecoverTasks
  BY <1>32 DEF RecoverTasks, ActiveRow
<1>33. CASE RecoverRuns
  BY <1>33 DEF RecoverRuns
<1>34. CASE UNCHANGED vars
  BY <1>34 DEF vars
<1> QED
  BY <1>1, <1>2, <1>3, <1>4, <1>5, <1>6, <1>7, <1>8, <1>9, <1>10, <1>11, <1>12, <1>13, <1>14,
     <1>15, <1>16, <1>17, <1>18, <1>19, <1>20, <1>21, <1>22, <1>23, <1>24, <1>25, <1>26, <1>27,
     <1>28, <1>29, <1>30, <1>31, <1>32, <1>33, <1>34
  DEF Next, Work, Act, Cancel, Recover

\* A revision keeps the order and leaves its thread with the newest snapshot.
LEMMA RevisionOrdered ==
  ASSUME SnapshotTypes, NEW t \in Tasks, NEW th \in Threads, NEW status \in Statuses,
         Revise(t, th, status), Ordered(t), t \in live, live' = live, row' = row
  PROVE  /\ Ordered(t)'
         /\ carried'[t][th] = Current(t)' /\ carried'[t][th] # NoSnapshot
         /\ state'[t].status = status
         /\ \A w \in Tasks \ {t} : state'[w] = state[w] /\ carried'[w] = carried[w]
<1>1. /\ state[t] \in [status : Statuses, rev : Nat, known : BOOLEAN]
      /\ row[t] \in Snapshots
      /\ \A other \in Threads : carried[t][other] \in Snapshots
  BY DEF SnapshotTypes
<1>2. state'[t] = [status |-> status, rev |-> state[t].rev + 1, known |-> state[t].known]
  BY DEF Revise, SnapshotTypes
<1>3. /\ carried'[t][th] = [status |-> status, rev |-> state[t].rev + 1]
      /\ \A other \in Threads \ {th} : carried'[t][other] = carried[t][other]
  BY DEF Revise, SnapshotTypes
<1>4. carried'[t][th] = Current(t)' /\ carried'[t][th] # NoSnapshot
  BY <1>1, <1>2, <1>3 DEF Current, NoSnapshot
<1>5. \A other \in Threads \ {th} : carried'[t][other] # NoSnapshot =>
        carried'[t][other].rev < state'[t].rev
  BY <1>1, <1>2, <1>3 DEF Ordered, Snapshots
<1>6. row'[t].rev < state'[t].rev
  BY <1>1, <1>2 DEF Ordered, Snapshots
<1>7. carried'[t][th].rev = state'[t].rev
  BY <1>2, <1>3
<1>8. Ordered(t)'
  <2>1. state'[t].rev \in Nat /\ row'[t].rev \in Nat
    BY <1>1, <1>2 DEF Snapshots
  <2>2. \A other \in Threads : carried'[t][other].rev \in Nat
    BY <1>1, <1>3 DEF Snapshots
  <2>3. ASSUME NEW other \in Threads, carried'[t][other] # NoSnapshot
        PROVE  /\ carried'[t][other].rev <= state'[t].rev
               /\ carried'[t][other].rev = state'[t].rev => carried'[t][other] = Current(t)'
    <3>1. CASE other = th
      BY <3>1, <1>4, <1>7, <2>1
    <3>2. CASE other # th
      BY <3>2, <1>5, <2>1, <2>2, <2>3
    <3> QED
      BY <3>1, <3>2
  <2> QED
    BY <1>6, <2>1, <2>3 DEF Ordered
<1> QED
  BY <1>2, <1>4, <1>8 DEF Revise, SnapshotTypes

\* A write keeps the order, never replaces the current row, and a current snapshot
\* makes the row current.
LEMMA SaveOrdered ==
  ASSUME SnapshotTypes, NEW t \in Tasks, NEW th \in Threads, Save(t, th), Ordered(t)
  PROVE  /\ Ordered(t)'
         /\ row[t] = Current(t) \/ carried[t][th] = Current(t) => row'[t] = Current(t)
<1>1. /\ state[t] \in [status : Statuses, rev : Nat, known : BOOLEAN]
      /\ row[t] \in Snapshots
      /\ \A other \in Threads : carried[t][other] \in Snapshots
  BY DEF SnapshotTypes
<1>2. /\ row'[t] = IF carried[t][th].rev >= row[t].rev THEN carried[t][th] ELSE row[t]
      /\ carried[t][th] # NoSnapshot /\ live' = live /\ state' = state
  BY DEF Save, Newer, SnapshotTypes, memory
<1>3. /\ carried'[t][th] = NoSnapshot
      /\ \A other \in Threads \ {th} : carried'[t][other] = carried[t][other]
  BY DEF Save, SnapshotTypes
<1>4. Current(t)' = Current(t)
  BY <1>2 DEF Current
<1>5. Current(t).rev = state[t].rev
  BY DEF Current
<1>6. row[t] = Current(t) => row'[t] = Current(t)
  BY <1>1, <1>2, <1>5 DEF Ordered, Snapshots
<1>7. carried[t][th] = Current(t) => row'[t] = Current(t)
  <2> SUFFICES ASSUME carried[t][th] = Current(t) PROVE row'[t] = Current(t)
    OBVIOUS
  <2>1. CASE t \in live
    BY <2>1, <1>1, <1>2, <1>5 DEF Ordered, Snapshots
  <2>2. CASE t \notin live
    BY <2>2, <1>2, <1>6 DEF Ordered
  <2> QED
    BY <2>1, <2>2
<1>8. t \in live => /\ row'[t].rev <= state[t].rev
                    /\ row'[t].rev = state[t].rev => row'[t] = Current(t)
  BY <1>1, <1>2 DEF Ordered, Snapshots
<1>9. Ordered(t)'
  BY <1>2, <1>3, <1>4, <1>6, <1>8 DEF Ordered
<1> QED
  BY <1>6, <1>7, <1>9

\* A step that leaves all of a task alone keeps its part.
LEMMA RowUnmoved ==
  ASSUME NEW u \in Tasks, RowStory(u), phase' = phase, live' = live, row'[u] = row[u],
         state'[u] = state[u], carried'[u] = carried[u], worker'[u] = worker[u],
         act'[u] = act[u], canc'[u] = canc[u]
  PROVE  RowStory(u)'
<1>1. Current(u)' = Current(u)
  BY DEF Current
<1>2. Ordered(u)'
  BY <1>1 DEF RowStory, Ordered
<1> QED
  BY <1>1, <1>2 DEF RowStory, Finisher, Serving

\* A step that only moves threads, none of them to a place that needs to have
\* finished the task or to have left it alone, keeps the part of a task.
LEMMA RowMoved ==
  ASSUME NEW u \in Tasks, RowStory(u), phase' = phase, live' = live, row'[u] = row[u],
         state'[u] = state[u], carried'[u] = carried[u],
         worker'[u] \in {"absent", "launch", "forget"} => worker'[u] = worker[u],
         act'[u] = "forget" => act'[u] = act[u],
         canc'[u] # canc[u] => canc[u] \in {"context", "read", "reject", "kill", "save"}
  PROVE  RowStory(u)'
<1>1. Current(u)' = Current(u)
  BY DEF Current
<1>2. Ordered(u)'
  BY <1>1 DEF RowStory, Ordered
<1>3. \A th \in Threads : Finisher(u, th) => Finisher(u, th)'
  BY <1>1 DEF Finisher
<1>4. "worker" \in Threads /\ "act" \in Threads /\ "canc" \in Threads
  BY DEF Threads
<1>5. canc'[u] # canc[u] => /\ Finisher(u, "canc") /\ state[u].status \in Ended
                            /\ worker[u] \notin {"absent", "launch"}
  BY DEF RowStory
<1> QED
  BY <1>2, <1>3, <1>4, <1>5 DEF RowStory, Serving

\* Every step keeps the order of revisions.
LEMMA RowStep == IInv /\ [Next]_vars => \A u \in Tasks : RowStory(u)'
<1> SUFFICES ASSUME TypeOK, \A t \in Tasks : GateStory(t) /\ RowStory(t) /\ EventStory(t),
                    [Next]_vars, NEW u \in Tasks PROVE RowStory(u)'
  BY DEF IInv
<1>types. SnapshotTypes /\ PlaceTypes /\ SetTypes
  BY TypeParts
<1> USE <1>types
<1>1. ASSUME NEW t \in Tasks, StartTask(t) PROVE RowStory(u)'
  <2>1. CASE u # t
    <3>1. \A w \in Tasks \ {t} : /\ state'[w] = state[w] /\ carried'[w] = carried[w]
                                /\ row'[w] = row[w] /\ worker'[w] = worker[w]
                                /\ act'[w] = act[w] /\ canc'[w] = canc[w]
      BY <1>1 DEF StartTask, SnapshotTypes, PlaceTypes
    <3>2. u \in live' <=> u \in live
      BY <1>1, <2>1 DEF StartTask
    <3>3. Current(u)' = Current(u) /\ phase' = phase
      BY <1>1, <2>1, <3>1 DEF StartTask, Current
    <3> QED
      BY <2>1, <3>1, <3>2, <3>3 DEF RowStory, Ordered, Finisher, Serving
  <2>2. CASE u = t
    <3>1. /\ state'[t].status = "running" /\ state'[t].rev = 1 /\ t \in live' /\ Serving'
          /\ row'[t] = [status |-> "running", rev |-> 1] /\ worker'[t] = "launch"
          /\ UNCHANGED <<carried, act, canc>>
      BY <1>1 DEF StartTask, SnapshotTypes, PlaceTypes, Serving
    <3>2. act[t] = "idle" /\ canc[t] = "idle" /\ \A th \in Threads : carried[t][th] = NoSnapshot
      BY <1>1 DEF StartTask, RowStory, GateStory
    <3> QED
      BY <2>2, <3>1, <3>2 DEF RowStory, Ordered, Finisher, Current, Ended
  <2> QED
    BY <2>1, <2>2
<1>2. ASSUME NEW t \in Tasks, Launch(t) PROVE RowStory(u)'
  <2>1. /\ phase' = phase /\ state' = state /\ carried' = carried /\ act' = act /\ canc' = canc
        /\ \A w \in Tasks \ {t} : row'[w] = row[w] /\ worker'[w] = worker[w]
        /\ \A w \in Tasks \ {t} : w \in live' <=> w \in live
    BY <1>2 DEF Launch, SnapshotTypes, PlaceTypes
  <2>2. CASE u # t
    BY <2>1, <2>2 DEF RowStory, Ordered, Finisher, Current, Serving
  <2>3. CASE u = t
    <3>1. /\ worker'[t] \in {"submit", "done"}
          /\ t \in live' => live' = live /\ row' = row
      BY <1>2 DEF Launch, PlaceTypes
    <3>2. /\ act[t] = "idle" /\ canc[t] = "idle" /\ \A th \in Threads : carried[t][th] = NoSnapshot
          /\ Serving
      BY <1>2 DEF Launch, Free, RowStory, GateStory
    <3> QED
      BY <2>1, <2>3, <3>1, <3>2 DEF RowStory, Ordered, Finisher, Current, Serving
  <2> QED
    BY <2>2, <2>3
<1>3. ASSUME NEW t \in Tasks, SubmitFails(t) PROVE RowStory(u)'
  BY <1>3, RowMoved DEF SubmitFails, Free, PlaceTypes, store, memory, threads
<1>4. ASSUME NEW t \in Tasks, SubmitRuns(t) PROVE RowStory(u)'
  BY <1>4, RowMoved DEF SubmitRuns, Free, PlaceTypes, store, memory, threads
<1>5. ASSUME NEW t \in Tasks, CreateApproval(t) PROVE RowStory(u)'
  BY <1>5, RowMoved DEF CreateApproval, Free, Fault, PlaceTypes, store, memory, threads
<1>6. ASSUME NEW t \in Tasks, RunStarted(t) PROVE RowStory(u)'
  <2>1. CASE Valid(t)
    <3>1. Revise(t, "worker", state[t].status)
      BY <1>6, <2>1 DEF RunStarted
    <3>2. state[t].status \in Statuses
      BY DEF SnapshotTypes
    <3>3. /\ Ordered(t)' /\ carried'[t]["worker"] = Current(t)'
          /\ carried'[t]["worker"] # NoSnapshot
          /\ state'[t].status = state[t].status
          /\ \A w \in Tasks \ {t} : state'[w] = state[w] /\ carried'[w] = carried[w]
      <4>1. Ordered(t) /\ "worker" \in Threads
        BY DEF RowStory, Threads
      <4>2. t \in live /\ live' = live /\ row' = row
        BY <1>6, <2>1 DEF RunStarted, Valid, store
      <4> QED
        BY <3>1, <3>2, <4>1, <4>2, RevisionOrdered
    <3>4. /\ phase' = phase /\ live' = live /\ row' = row
          /\ \A w \in Tasks \ {t} : worker'[w] = worker[w] /\ act'[w] = act[w] /\ canc'[w] = canc[w]
      BY <1>6 DEF RunStarted, store, PlaceTypes
    <3>5. CASE u # t
      BY <3>3, <3>4, <3>5, RowUnmoved
    <3>6. CASE u = t
      BY <1>6, <2>1, <3>2, <3>3, <3>4, <3>6
      DEF RunStarted, Free, RowStory, GateStory, Finisher, Valid, PlaceTypes, Serving, Ended
    <3> QED
      BY <3>5, <3>6
  <2>2. CASE ~ (Valid(t))
    <3>1. /\ phase' = phase /\ live' = live /\ row' = row
          /\ \A w \in Tasks \ {t} : worker'[w] = worker[w] /\ act'[w] = act[w] /\ canc'[w] = canc[w]
      BY <1>6 DEF RunStarted, store, PlaceTypes
    <3>2. state' = state /\ carried' = carried
      BY <1>6, <2>2 DEF RunStarted
    <3>3. CASE u # t
      BY <3>1, <3>2, <3>3, RowUnmoved
    <3>4. CASE u = t
      BY <1>6, <2>2, <3>1, <3>2, <3>4
      DEF RunStarted, RowStory, Ordered, Finisher, Current, PlaceTypes, Serving
    <3> QED
      BY <3>3, <3>4
  <2> QED
    BY <2>1, <2>2
<1>7. ASSUME NEW t \in Tasks, Execute(t) PROVE RowStory(u)'
  BY <1>7, RowMoved DEF Execute, Free, PlaceTypes, store, memory, threads
<1>8. ASSUME NEW t \in Tasks, FinishRun(t) PROVE RowStory(u)'
  BY <1>8, RowMoved DEF FinishRun, Free, Outcomes, Fault, PlaceTypes, store, memory, threads
<1>9. ASSUME NEW t \in Tasks, Register(t) PROVE RowStory(u)'
  <2>1. /\ phase' = phase /\ live' = live /\ row' = row
        /\ \A w \in Tasks \ {t} : worker'[w] = worker[w] /\ act'[w] = act[w] /\ canc'[w] = canc[w]
    BY <1>9 DEF Register, PlaceTypes
  <2>2. \A w \in Tasks \ {t} : state'[w] = state[w] /\ carried'[w] = carried[w]
    BY <1>9 DEF Register, SnapshotTypes
  <2>3. CASE u # t
    BY <2>1, <2>2, <2>3, RowUnmoved
  <2>4. CASE u = t /\ Valid(t)
    <3>1. Ordered(t)' /\ worker'[t] = "done" /\ UNCHANGED <<act, canc>>
      <4>1. /\ state'[t] = [status |-> "approval_required", rev |-> state[t].rev + 1,
                         known |-> TRUE]
            /\ carried'[t] = [carried[t] EXCEPT !["worker"] =
                 [status |-> "approval_required", rev |-> state[t].rev + 1]]
        BY <1>9, <2>4 DEF Register, SnapshotTypes
      <4>2. /\ state[t] \in [status : Statuses, rev : Nat, known : BOOLEAN]
            /\ row[t] \in Snapshots /\ carried[t] \in [Threads -> Snapshots]
        BY DEF SnapshotTypes
      <4>3. t \in live /\ live' = live /\ row' = row
        BY <1>9, <2>4 DEF Register, Valid
      <4>4. worker'[t] = "done" /\ UNCHANGED <<act, canc>>
        BY <1>9 DEF Register, PlaceTypes
      <4>5. Ordered(t)
        BY DEF RowStory
      <4>6. Current(t)' = [status |-> "approval_required", rev |-> state[t].rev + 1]
        BY <4>1 DEF Current
      <4>7. \A other \in Threads : carried'[t][other] # NoSnapshot =>
              /\ carried'[t][other].rev <= state[t].rev + 1
              /\ carried'[t][other].rev = state[t].rev + 1 => carried'[t][other] = Current(t)'
        <5>1. carried'[t]["worker"] = Current(t)' /\ Current(t)'.rev = state[t].rev + 1
          BY <4>1, <4>2, <4>6 DEF Threads
        <5>2. \A other \in Threads \ {"worker"} : carried'[t][other] = carried[t][other]
          BY <4>1, <4>2
        <5> QED
          BY <4>2, <4>5, <5>1, <5>2 DEF Ordered, Snapshots
      <4>8. row'[t].rev < state[t].rev + 1
        BY <4>2, <4>3, <4>5 DEF Ordered, Snapshots
      <4> QED
        BY <4>1, <4>2, <4>3, <4>4, <4>7, <4>8 DEF Ordered, Snapshots
    <3> QED
      BY <1>9, <2>1, <2>4, <3>1 DEF Register, Free, RowStory, Finisher, Valid, Serving
  <2>5. CASE u = t /\ ~ Valid(t)
    BY <1>9, <2>1, <2>5 DEF Register, RowStory, Ordered, Finisher, Current, PlaceTypes, Serving
  <2> QED
    BY <2>3, <2>4, <2>5
<1>10. ASSUME NEW t \in Tasks, Settle(t) PROVE RowStory(u)'
  <2>1. CASE Valid(t)
    <3>1. Revise(t, "worker", result[t])
      BY <1>10, <2>1 DEF Settle
    <3>2. result[t] \in Statuses
      BY DEF SnapshotTypes, PlaceTypes
    <3>3. /\ Ordered(t)' /\ carried'[t]["worker"] = Current(t)'
          /\ carried'[t]["worker"] # NoSnapshot
          /\ state'[t].status = result[t]
          /\ \A w \in Tasks \ {t} : state'[w] = state[w] /\ carried'[w] = carried[w]
      <4>1. Ordered(t) /\ "worker" \in Threads
        BY DEF RowStory, Threads
      <4>2. t \in live /\ live' = live /\ row' = row
        BY <1>10, <2>1 DEF Settle, Valid, store
      <4> QED
        BY <3>1, <3>2, <4>1, <4>2, RevisionOrdered
    <3>4. /\ phase' = phase /\ live' = live /\ row' = row
          /\ \A w \in Tasks \ {t} : worker'[w] = worker[w] /\ act'[w] = act[w] /\ canc'[w] = canc[w]
      BY <1>10 DEF Settle, store, PlaceTypes
    <3>5. CASE u # t
      BY <3>3, <3>4, <3>5, RowUnmoved
    <3>6. CASE u = t
      BY <1>10, <2>1, <3>2, <3>3, <3>4, <3>6
      DEF Settle, Free, RowStory, GateStory, Finisher, Valid, PlaceTypes, Serving, Ended
    <3> QED
      BY <3>5, <3>6
  <2>2. CASE ~ (Valid(t))
    <3>1. /\ phase' = phase /\ live' = live /\ row' = row
          /\ \A w \in Tasks \ {t} : worker'[w] = worker[w] /\ act'[w] = act[w] /\ canc'[w] = canc[w]
      BY <1>10 DEF Settle, store, PlaceTypes
    <3>2. state' = state /\ carried' = carried
      BY <1>10, <2>2 DEF Settle
    <3>3. CASE u # t
      BY <3>1, <3>2, <3>3, RowUnmoved
    <3>4. CASE u = t
      BY <1>10, <2>2, <3>1, <3>2, <3>4
      DEF Settle, RowStory, Ordered, Finisher, Current, PlaceTypes, Serving
    <3> QED
      BY <3>3, <3>4
  <2> QED
    BY <2>1, <2>2
<1>11. ASSUME NEW t \in Tasks, ForgetTask(t) PROVE RowStory(u)'
  BY <1>11 DEF ForgetTask, Free,
     RowStory, Ordered, Finisher, Current, NoSnapshot, PlaceTypes, SetTypes, Serving, Ended,
     store, memory, threads, history
<1>12. ASSUME NEW t \in Tasks, Approve(t) PROVE RowStory(u)'
  BY <1>12, RowMoved DEF Approve, Deciding, Pending, Free, PlaceTypes, store, memory, threads
<1>13. ASSUME NEW t \in Tasks, Reject(t) PROVE RowStory(u)'
  BY <1>13, RowMoved DEF Reject, Deciding, Pending, Free, PlaceTypes, store, memory, threads
<1>14. ASSUME NEW t \in Tasks, PublishRunning(t) PROVE RowStory(u)'
  <2>1. CASE t \in waiting /\ Valid(t) /\ state[t].status # "running"
    <3>1. Revise(t, "act", "running")
      BY <1>14, <2>1 DEF PublishRunning, ShowRunning, PlaceTypes
    <3>2. "running" \in Statuses
      BY DEF Statuses
    <3>3. /\ Ordered(t)' /\ carried'[t]["act"] = Current(t)' /\ carried'[t]["act"] # NoSnapshot
          /\ state'[t].status = "running"
          /\ \A w \in Tasks \ {t} : state'[w] = state[w] /\ carried'[w] = carried[w]
      <4>1. Ordered(t) /\ "act" \in Threads
        BY DEF RowStory, Threads
      <4>2. t \in live /\ live' = live /\ row' = row
        BY <1>14, <2>1 DEF PublishRunning, Valid, store
      <4> QED
        BY <3>1, <3>2, <4>1, <4>2, RevisionOrdered
    <3>4. /\ phase' = phase /\ live' = live /\ row' = row
          /\ \A w \in Tasks \ {t} : worker'[w] = worker[w] /\ act'[w] = act[w] /\ canc'[w] = canc[w]
      BY <1>14 DEF PublishRunning, store, PlaceTypes
    <3>5. CASE u # t
      BY <3>3, <3>4, <3>5, RowUnmoved
    <3>6. CASE u = t
      BY <1>14, <2>1, <3>2, <3>3, <3>4, <3>6
      DEF PublishRunning, Free, RowStory, GateStory, Finisher, Valid, PlaceTypes, Serving, Ended
    <3> QED
      BY <3>5, <3>6
  <2>2. CASE ~ (t \in waiting /\ Valid(t) /\ state[t].status # "running")
    <3>1. /\ phase' = phase /\ live' = live /\ row' = row
          /\ \A w \in Tasks \ {t} : worker'[w] = worker[w] /\ act'[w] = act[w] /\ canc'[w] = canc[w]
      BY <1>14 DEF PublishRunning, store, PlaceTypes
    <3>2. state' = state /\ carried' = carried
      BY <1>14, <2>2 DEF PublishRunning, ShowRunning
    <3>3. CASE u # t
      BY <3>1, <3>2, <3>3, RowUnmoved
    <3>4. CASE u = t
      BY <1>14, <2>2, <3>1, <3>2, <3>4
      DEF PublishRunning, RowStory, Ordered, Finisher, Current, PlaceTypes, Serving
    <3> QED
      BY <3>3, <3>4
  <2> QED
    BY <2>1, <2>2
<1>15. ASSUME NEW t \in Tasks, StartApproved(t) PROVE RowStory(u)'
  BY <1>15, RowMoved DEF StartApproved, Free, PlaceTypes, store, memory, threads
<1>16. ASSUME NEW t \in Tasks, BeginApproved(t) PROVE RowStory(u)'
  <2>1. CASE act'[t] = "executing" /\ t \in waiting /\ Valid(t) /\ state[t].status # "running"
    <3>1. Revise(t, "act", "running")
      BY <1>16, <2>1 DEF BeginApproved, ShowRunning, PlaceTypes
    <3>2. "running" \in Statuses
      BY DEF Statuses
    <3>3. /\ Ordered(t)' /\ carried'[t]["act"] = Current(t)' /\ carried'[t]["act"] # NoSnapshot
          /\ state'[t].status = "running"
          /\ \A w \in Tasks \ {t} : state'[w] = state[w] /\ carried'[w] = carried[w]
      <4>1. Ordered(t) /\ "act" \in Threads
        BY DEF RowStory, Threads
      <4>2. t \in live /\ live' = live /\ row' = row
        BY <1>16, <2>1 DEF BeginApproved, Valid, store
      <4> QED
        BY <3>1, <3>2, <4>1, <4>2, RevisionOrdered
    <3>4. /\ phase' = phase /\ live' = live /\ row' = row
          /\ \A w \in Tasks \ {t} : worker'[w] = worker[w] /\ act'[w] = act[w] /\ canc'[w] = canc[w]
      BY <1>16 DEF BeginApproved, store, PlaceTypes
    <3>5. CASE u # t
      BY <3>3, <3>4, <3>5, RowUnmoved
    <3>6. CASE u = t
      BY <1>16, <2>1, <3>2, <3>3, <3>4, <3>6
      DEF BeginApproved, Free, RowStory, GateStory, Finisher, Valid, PlaceTypes, Serving, Ended
    <3> QED
      BY <3>5, <3>6
  <2>2. CASE ~ (act'[t] = "executing" /\ t \in waiting /\ Valid(t) /\ state[t].status # "running")
    <3>1. /\ phase' = phase /\ live' = live /\ row' = row
          /\ \A w \in Tasks \ {t} : worker'[w] = worker[w] /\ act'[w] = act[w] /\ canc'[w] = canc[w]
      BY <1>16 DEF BeginApproved, store, PlaceTypes
    <3>2. state' = state /\ carried' = carried
      BY <1>16, <2>2 DEF BeginApproved, ShowRunning, PlaceTypes
    <3>3. CASE u # t
      BY <3>1, <3>2, <3>3, RowUnmoved
    <3>4. CASE u = t
      BY <1>16, <2>2, <3>1, <3>2, <3>4
      DEF BeginApproved, RowStory, Ordered, Finisher, Current, PlaceTypes, Serving
    <3> QED
      BY <3>3, <3>4
  <2> QED
    BY <2>1, <2>2
<1>17. ASSUME NEW t \in Tasks, FinishApproved(t) PROVE RowStory(u)'
  BY <1>17, RowMoved DEF FinishApproved, Free, Outcomes, Fault, PlaceTypes, store, memory, threads
<1>18. ASSUME NEW t \in Tasks, PublishEnd(t) PROVE RowStory(u)'
  <2>1. CASE t \in waiting /\ Valid(t)
    <3>1. Revise(t, "act", run[t])
      BY <1>18, <2>1 DEF PublishEnd
    <3>2. run[t] \in Statuses
      BY DEF SnapshotTypes, PlaceTypes
    <3>3. /\ Ordered(t)' /\ carried'[t]["act"] = Current(t)' /\ carried'[t]["act"] # NoSnapshot
          /\ state'[t].status = run[t]
          /\ \A w \in Tasks \ {t} : state'[w] = state[w] /\ carried'[w] = carried[w]
      <4>1. Ordered(t) /\ "act" \in Threads
        BY DEF RowStory, Threads
      <4>2. t \in live /\ live' = live /\ row' = row
        BY <1>18, <2>1 DEF PublishEnd, Valid, store
      <4> QED
        BY <3>1, <3>2, <4>1, <4>2, RevisionOrdered
    <3>4. /\ phase' = phase /\ live' = live /\ row' = row
          /\ \A w \in Tasks \ {t} : worker'[w] = worker[w] /\ act'[w] = act[w] /\ canc'[w] = canc[w]
      BY <1>18 DEF PublishEnd, store, PlaceTypes
    <3>5. CASE u # t
      BY <3>3, <3>4, <3>5, RowUnmoved
    <3>6. CASE u = t
      BY <1>18, <2>1, <3>2, <3>3, <3>4, <3>6
      DEF PublishEnd, Free, RowStory, GateStory, Finisher, Valid, PlaceTypes, Serving, Ended
    <3> QED
      BY <3>5, <3>6
  <2>2. CASE ~ (t \in waiting /\ Valid(t))
    <3>1. /\ phase' = phase /\ live' = live /\ row' = row
          /\ \A w \in Tasks \ {t} : worker'[w] = worker[w] /\ act'[w] = act[w] /\ canc'[w] = canc[w]
      BY <1>18 DEF PublishEnd, store, PlaceTypes
    <3>2. state' = state /\ carried' = carried
      BY <1>18, <2>2 DEF PublishEnd
    <3>3. CASE u # t
      BY <3>1, <3>2, <3>3, RowUnmoved
    <3>4. CASE u = t
      BY <1>18, <2>2, <3>1, <3>2, <3>4
      DEF PublishEnd, RowStory, Ordered, Finisher, Current, PlaceTypes, Serving
    <3> QED
      BY <3>3, <3>4
  <2> QED
    BY <2>1, <2>2
<1>19. ASSUME NEW t \in Tasks, ForgetDecided(t) PROVE RowStory(u)'
  BY <1>19, ZenonT(60) DEF ForgetDecided, Free,
     RowStory, Ordered, Finisher, Current, NoSnapshot, PlaceTypes, SetTypes, Serving, Ended,
     store, memory, threads, history
<1>20. ASSUME NEW t \in Tasks, Release(t) PROVE RowStory(u)'
  BY <1>20, RowMoved DEF Release, Free, Deregistered, PlaceTypes, store, memory, threads
<1>21. ASSUME NEW t \in Tasks, CancelTask(t) PROVE RowStory(u)'
  <2>1. Revise(t, "canc", "cancelled") /\ "cancelled" \in Statuses
    BY <1>21 DEF CancelTask, Statuses, Ended
  <2>2. /\ Ordered(t)' /\ carried'[t]["canc"] = Current(t)' /\ carried'[t]["canc"] # NoSnapshot
        /\ state'[t].status = "cancelled"
        /\ \A w \in Tasks \ {t} : state'[w] = state[w] /\ carried'[w] = carried[w]
    <3>1. Ordered(t) /\ "canc" \in Threads
      BY DEF RowStory, Threads
    <3>2. t \in live /\ live' = live /\ row' = row
      BY <1>21 DEF CancelTask, Valid, store
    <3> QED
      BY <2>1, <3>1, <3>2, RevisionOrdered
  <2>3. /\ phase' = phase /\ live' = live /\ row' = row
        /\ \A w \in Tasks \ {t} : worker'[w] = worker[w] /\ act'[w] = act[w] /\ canc'[w] = canc[w]
    BY <1>21 DEF CancelTask, store, PlaceTypes
  <2>4. CASE u # t
    BY <2>2, <2>3, <2>4, RowUnmoved
  <2>5. CASE u = t
    BY <1>21, <2>2, <2>3, <2>5
    DEF CancelTask, Free, RowStory, Finisher, Valid, PlaceTypes, Serving, Ended
  <2> QED
    BY <2>4, <2>5
<1>22. ASSUME NEW t \in Tasks, CancelContext(t) PROVE RowStory(u)'
  BY <1>22, RowMoved DEF CancelContext, CancelStep, PlaceTypes, store, memory, threads
<1>23. ASSUME NEW t \in Tasks, ReadApproval(t) PROVE RowStory(u)'
  <2>1. /\ phase' = phase /\ UNCHANGED <<live, row, state, carried, worker, act>>
        /\ \A w \in Tasks \ {t} : canc'[w] = canc[w]
        /\ canc[t] = "read" /\ canc'[t] \in {"reject", "kill"}
    BY <1>23 DEF ReadApproval, CancelStep, PlaceTypes
  <2>2. CASE u # t
    BY <2>1, <2>2, RowUnmoved
  <2>3. CASE u = t
    BY <2>1, <2>3 DEF RowStory, Ordered, Finisher, Current, Serving
  <2> QED
    BY <2>2, <2>3
<1>24. ASSUME NEW t \in Tasks, RejectCancelled(t) PROVE RowStory(u)'
  BY <1>24, RowMoved DEF RejectCancelled, CancelStep, Pending, Fault, PlaceTypes, store, memory, threads
<1>25. ASSUME NEW t \in Tasks, CancelExecution(t) PROVE RowStory(u)'
  BY <1>25, RowMoved DEF CancelExecution, CancelStep, Mark, PlaceTypes, store, memory, threads
<1>26. ASSUME NEW t \in Tasks, ForgetCancelled(t) PROVE RowStory(u)'
  BY <1>26 DEF ForgetCancelled, CancelStep,
     RowStory, Ordered, Finisher, Current, NoSnapshot, PlaceTypes, SetTypes, Serving, Ended,
     store, memory, threads, history
<1>27. ASSUME NEW t \in Tasks, StopExecution(t) PROVE RowStory(u)'
  BY <1>27, RowMoved DEF StopExecution, PlaceTypes, store, memory, threads
<1>28. ASSUME NEW t \in Tasks, NEW th \in Threads, Save(t, th) PROVE RowStory(u)'
  <2>1. /\ phase' = phase /\ live' = live /\ UNCHANGED <<state, worker, act, canc>>
        /\ \A w \in Tasks \ {t} : row'[w] = row[w] /\ carried'[w] = carried[w]
        /\ \A other \in Threads \ {th} : carried'[t][other] = carried[t][other]
        /\ carried[t][th] # NoSnapshot /\ carried'[t][th] = NoSnapshot
    BY <1>28 DEF Save, SnapshotTypes, memory, threads
  <2>2. CASE u # t
    BY <2>1, <2>2, RowUnmoved
  <2>3. CASE u = t
    <3>1. Ordered(t)
      BY DEF RowStory
    <3>2. /\ Ordered(t)'
          /\ row[t] = Current(t) \/ carried[t][th] = Current(t) => row'[t] = Current(t)
      BY <1>28, <3>1, SaveOrdered
    <3>3. Current(t)' = Current(t)
      BY <2>1 DEF Current
    <3>4. ASSUME NEW other \in Threads, Finisher(t, other) PROVE Finisher(t, other)'
      BY <2>1, <3>2, <3>3, <3>4 DEF Finisher
    <3>5. worker[t] \notin {"absent", "launch"}
      BY <2>1 DEF RowStory
    <3>6. "worker" \in Threads /\ "act" \in Threads /\ "canc" \in Threads
      BY DEF Threads
    <3> QED
      BY <2>1, <2>3, <3>2, <3>4, <3>5, <3>6 DEF RowStory, Serving
  <2> QED
    BY <2>2, <2>3
<1>29. CASE Stop
  BY <1>29 DEF Stop,
     RowStory, Ordered, Finisher, Current, NoSnapshot, PlaceTypes, SetTypes, Serving, Ended,
     store, memory, threads, history
<1>30. CASE ShutdownDone
  BY <1>30 DEF ShutdownDone,
     RowStory, Ordered, Finisher, Current, NoSnapshot, PlaceTypes, SetTypes, Serving, Ended,
     store, memory, threads, history
<1>31. CASE Restart
  BY <1>31 DEF Restart,
     RowStory, Ordered, Finisher, Current, NoSnapshot, PlaceTypes, SetTypes, Serving, Ended,
     store, memory, threads, history
<1>32. CASE RecoverTasks
  <2>1. /\ ~ Serving /\ ~ Serving' /\ UNCHANGED <<live, state, carried, worker, act, canc>>
        /\ row[u].status = "none" => row'[u] = row[u]
    BY <1>32 DEF RecoverTasks, ActiveRow, Serving, memory, threads
  <2>2. u \notin live /\ act[u] = "idle" /\ canc[u] = "idle" /\ worker[u] \in {"absent", "done"}
    BY <2>1 DEF RowStory, GateStory
  <2>3. \A th \in Threads : carried[u][th] = NoSnapshot
    BY <2>1 DEF RowStory
  <2>4. worker[u] = "absent" => row'[u] = NoSnapshot
    BY <2>1 DEF RowStory, NoSnapshot
  <2> QED
    BY <2>1, <2>2, <2>3, <2>4 DEF RowStory, Ordered, Finisher
<1>33. CASE RecoverRuns
  BY <1>33 DEF RecoverRuns,
     RowStory, Ordered, Finisher, Current, NoSnapshot, PlaceTypes, SetTypes, Serving, Ended,
     store, memory, threads, history
<1>34. CASE UNCHANGED vars
  BY <1>34 DEF vars,
     RowStory, Ordered, Finisher, Current, NoSnapshot, PlaceTypes, SetTypes, Serving, Ended,
     store, memory, threads, history
<1> QED
  BY <1>1, <1>2, <1>3, <1>4, <1>5, <1>6, <1>7, <1>8, <1>9, <1>10, <1>11, <1>12, <1>13, <1>14,
     <1>15, <1>16, <1>17, <1>18, <1>19, <1>20, <1>21, <1>22, <1>23, <1>24, <1>25, <1>26, <1>27,
     <1>28, <1>29, <1>30, <1>31, <1>32, <1>33, <1>34
  DEF Next, Work, Act, Cancel, Recover

\* OutcomeStays, as a condition on one step.
OutcomeKept ==
  Serving /\ Serving' => \A t \in Tasks : View(t) \in Ended => View(t)' = View(t)

\* No step changes an outcome that was shown.
LEMMA OutcomeStep == IInv /\ [Next]_vars => OutcomeKept
<1> SUFFICES ASSUME IInv, [Next]_vars, Serving, Serving', NEW u \in Tasks,
                    View(u) \in Ended
             PROVE  View(u)' = View(u)
  BY DEF OutcomeKept
<1>types. SnapshotTypes /\ PlaceTypes /\ SetTypes /\ (\A t \in Tasks : RowStory(t))
  BY TypeParts DEF IInv
<1> USE <1>types
<1>1. ASSUME NEW t \in Tasks, StartTask(t) PROVE View(u)' = View(u)
  <2>1. CASE u = t
    <3>1. t \notin live /\ row[t] = NoSnapshot
      BY <1>1 DEF StartTask, RowStory
    <3> QED
      BY <2>1, <3>1 DEF View, NoSnapshot, Ended
  <2>2. CASE u # t
    <3>1. state'[u] = state[u] /\ row'[u] = row[u] /\ (u \in live' <=> u \in live)
      BY <1>1, <2>2 DEF StartTask, SnapshotTypes
    <3> QED
      BY <3>1 DEF View
  <2> QED
    BY <2>1, <2>2
<1>2. ASSUME NEW t \in Tasks, Launch(t) PROVE View(u)' = View(u)
  BY <1>2 DEF Launch, Free,
     View, RowStory, Finisher, Current, NoSnapshot, Valid, SnapshotTypes, Ended, store, memory
<1>3. ASSUME NEW t \in Tasks, SubmitFails(t) PROVE View(u)' = View(u)
  BY <1>3 DEF SubmitFails, Free,
     View, RowStory, Finisher, Current, NoSnapshot, Valid, SnapshotTypes, Ended, store, memory
<1>4. ASSUME NEW t \in Tasks, SubmitRuns(t) PROVE View(u)' = View(u)
  BY <1>4 DEF SubmitRuns, Free,
     View, RowStory, Finisher, Current, NoSnapshot, Valid, SnapshotTypes, Ended, store, memory
<1>5. ASSUME NEW t \in Tasks, CreateApproval(t) PROVE View(u)' = View(u)
  BY <1>5 DEF CreateApproval, Free, Fault,
     View, RowStory, Finisher, Current, NoSnapshot, Valid, SnapshotTypes, Ended, store, memory
<1>6. ASSUME NEW t \in Tasks, RunStarted(t) PROVE View(u)' = View(u)
  <2>1. u = t => Valid(t) \/ state'[u].status = state[u].status
    BY <1>6 DEF RunStarted, Revise, SnapshotTypes
  <2>2. u # t => state'[u].status = state[u].status
    BY <1>6 DEF RunStarted, Revise, SnapshotTypes
  <2> QED
    BY <1>6, <2>1, <2>2 DEF RunStarted, Valid, View, store
<1>7. ASSUME NEW t \in Tasks, Execute(t) PROVE View(u)' = View(u)
  BY <1>7 DEF Execute, Free,
     View, RowStory, Finisher, Current, NoSnapshot, Valid, SnapshotTypes, Ended, store, memory
<1>8. ASSUME NEW t \in Tasks, FinishRun(t) PROVE View(u)' = View(u)
  BY <1>8 DEF FinishRun, Free, Outcomes, Fault,
     View, RowStory, Finisher, Current, NoSnapshot, Valid, SnapshotTypes, Ended, store, memory
<1>9. ASSUME NEW t \in Tasks, Register(t) PROVE View(u)' = View(u)
  <2>1. state'[u].status = state[u].status \/ (u = t /\ Valid(t))
    BY <1>9 DEF Register, SnapshotTypes
  <2> QED
    BY <1>9, <2>1 DEF Register, Valid, View
<1>10. ASSUME NEW t \in Tasks, Settle(t) PROVE View(u)' = View(u)
  <2>1. u = t => Valid(t) \/ state'[u].status = state[u].status
    BY <1>10 DEF Settle, Revise, SnapshotTypes
  <2>2. u # t => state'[u].status = state[u].status
    BY <1>10 DEF Settle, Revise, SnapshotTypes
  <2> QED
    BY <1>10, <2>1, <2>2 DEF Settle, Valid, View, store
<1>11. ASSUME NEW t \in Tasks, ForgetTask(t) PROVE View(u)' = View(u)
  <2>1. /\ UNCHANGED <<row, state>> /\ live' = live \ {t}
        /\ carried[t]["worker"] = NoSnapshot /\ worker[t] = "forget"
    BY <1>11 DEF ForgetTask, Free, store
  <2>2. row[t] = Current(t)
    BY <2>1 DEF RowStory, Finisher
  <2> QED
    BY <2>1, <2>2 DEF View, Current
<1>12. ASSUME NEW t \in Tasks, Approve(t) PROVE View(u)' = View(u)
  BY <1>12 DEF Approve, Deciding, Pending, Free,
     View, RowStory, Finisher, Current, NoSnapshot, Valid, SnapshotTypes, Ended, store, memory
<1>13. ASSUME NEW t \in Tasks, Reject(t) PROVE View(u)' = View(u)
  BY <1>13 DEF Reject, Deciding, Pending, Free,
     View, RowStory, Finisher, Current, NoSnapshot, Valid, SnapshotTypes, Ended, store, memory
<1>14. ASSUME NEW t \in Tasks, PublishRunning(t) PROVE View(u)' = View(u)
  <2>1. u = t => Valid(t) \/ state'[u].status = state[u].status
    BY <1>14 DEF PublishRunning, Revise, SnapshotTypes, ShowRunning
  <2>2. u # t => state'[u].status = state[u].status
    BY <1>14 DEF PublishRunning, Revise, SnapshotTypes, ShowRunning
  <2> QED
    BY <1>14, <2>1, <2>2 DEF PublishRunning, Valid, View, store
<1>15. ASSUME NEW t \in Tasks, StartApproved(t) PROVE View(u)' = View(u)
  BY <1>15 DEF StartApproved, Free,
     View, RowStory, Finisher, Current, NoSnapshot, Valid, SnapshotTypes, Ended, store, memory
<1>16. ASSUME NEW t \in Tasks, BeginApproved(t) PROVE View(u)' = View(u)
  <2>1. u = t => Valid(t) \/ state'[u].status = state[u].status
    BY <1>16 DEF BeginApproved, Revise, SnapshotTypes, ShowRunning
  <2>2. u # t => state'[u].status = state[u].status
    BY <1>16 DEF BeginApproved, Revise, SnapshotTypes, ShowRunning
  <2> QED
    BY <1>16, <2>1, <2>2 DEF BeginApproved, Valid, View, store
<1>17. ASSUME NEW t \in Tasks, FinishApproved(t) PROVE View(u)' = View(u)
  BY <1>17 DEF FinishApproved, Free, Outcomes, Fault,
     View, RowStory, Finisher, Current, NoSnapshot, Valid, SnapshotTypes, Ended, store, memory
<1>18. ASSUME NEW t \in Tasks, PublishEnd(t) PROVE View(u)' = View(u)
  <2>1. u = t => Valid(t) \/ state'[u].status = state[u].status
    BY <1>18 DEF PublishEnd, Revise, SnapshotTypes
  <2>2. u # t => state'[u].status = state[u].status
    BY <1>18 DEF PublishEnd, Revise, SnapshotTypes
  <2> QED
    BY <1>18, <2>1, <2>2 DEF PublishEnd, Valid, View, store
<1>19. ASSUME NEW t \in Tasks, ForgetDecided(t) PROVE View(u)' = View(u)
  <2>1. /\ UNCHANGED <<row, state>> /\ live' = live \ {t}
        /\ carried[t]["act"] = NoSnapshot /\ act[t] = "forget"
    BY <1>19 DEF ForgetDecided, Free, store
  <2>2. row[t] = Current(t)
    BY <2>1 DEF RowStory, Finisher
  <2> QED
    BY <2>1, <2>2 DEF View, Current
<1>20. ASSUME NEW t \in Tasks, Release(t) PROVE View(u)' = View(u)
  BY <1>20 DEF Release, Free, Deregistered,
     View, RowStory, Finisher, Current, NoSnapshot, Valid, SnapshotTypes, Ended, store, memory
<1>21. ASSUME NEW t \in Tasks, CancelTask(t) PROVE View(u)' = View(u)
  <2>1. state'[u].status = state[u].status \/ u = t
    BY <1>21 DEF CancelTask, Revise, SnapshotTypes
  <2> QED
    BY <1>21, <2>1 DEF CancelTask, Valid, View, store
<1>22. ASSUME NEW t \in Tasks, CancelContext(t) PROVE View(u)' = View(u)
  BY <1>22 DEF CancelContext, CancelStep,
     View, RowStory, Finisher, Current, NoSnapshot, Valid, SnapshotTypes, Ended, store, memory
<1>23. ASSUME NEW t \in Tasks, ReadApproval(t) PROVE View(u)' = View(u)
  BY <1>23 DEF ReadApproval, CancelStep, Fault,
     View, RowStory, Finisher, Current, NoSnapshot, Valid, SnapshotTypes, Ended, store, memory
<1>24. ASSUME NEW t \in Tasks, RejectCancelled(t) PROVE View(u)' = View(u)
  BY <1>24 DEF RejectCancelled, CancelStep, Pending, Fault,
     View, RowStory, Finisher, Current, NoSnapshot, Valid, SnapshotTypes, Ended, store, memory
<1>25. ASSUME NEW t \in Tasks, CancelExecution(t) PROVE View(u)' = View(u)
  BY <1>25 DEF CancelExecution, CancelStep, Mark,
     View, RowStory, Finisher, Current, NoSnapshot, Valid, SnapshotTypes, Ended, store, memory
<1>26. ASSUME NEW t \in Tasks, ForgetCancelled(t) PROVE View(u)' = View(u)
  <2>1. /\ UNCHANGED <<row, state>> /\ live' = live \ {t}
        /\ carried[t]["canc"] = NoSnapshot /\ canc[t] = "save"
    BY <1>26 DEF ForgetCancelled, CancelStep
  <2>2. row[t] = Current(t)
    BY <2>1 DEF RowStory, Finisher
  <2> QED
    BY <2>1, <2>2 DEF View, Current
<1>27. ASSUME NEW t \in Tasks, StopExecution(t) PROVE View(u)' = View(u)
  BY <1>27 DEF StopExecution,
     View, RowStory, Finisher, Current, NoSnapshot, Valid, SnapshotTypes, Ended, store, memory
<1>28. ASSUME NEW t \in Tasks, NEW th \in Threads, Save(t, th) PROVE View(u)' = View(u)
  <2>1. UNCHANGED <<live, state>> /\ carried[t][th] # NoSnapshot
        /\ (u # t => row'[u] = row[u])
    BY <1>28 DEF Save, memory, SnapshotTypes
  <2>2. u = t /\ t \notin live => row'[u] = row[u]
    <3>1. Ordered(t)
      BY DEF RowStory
    <3>2. row[t] = Current(t) => row'[t] = Current(t)
      BY <1>28, <3>1, SaveOrdered
    <3> QED
      BY <2>1, <3>1, <3>2 DEF Ordered
  <2> QED
    BY <2>1, <2>2 DEF View
<1>29. CASE Stop
  BY <1>29 DEF Stop,
     View, RowStory, Finisher, Current, NoSnapshot, Valid, SnapshotTypes, Ended, store, memory
<1>30. CASE ShutdownDone
  BY <1>30 DEF ShutdownDone,
     View, RowStory, Finisher, Current, NoSnapshot, Valid, SnapshotTypes, Ended, store, memory
<1>31. CASE Restart
  BY <1>31 DEF Restart, Serving
<1>32. CASE RecoverTasks
  BY <1>32 DEF RecoverTasks, Serving
<1>33. CASE RecoverRuns
  BY <1>33 DEF RecoverRuns, Serving
<1>34. CASE UNCHANGED vars
  BY <1>34 DEF vars,
     View, RowStory, Finisher, Current, NoSnapshot, Valid, SnapshotTypes, Ended, store, memory
<1> QED
  BY <1>1, <1>2, <1>3, <1>4, <1>5, <1>6, <1>7, <1>8, <1>9, <1>10, <1>11, <1>12, <1>13, <1>14,
     <1>15, <1>16, <1>17, <1>18, <1>19, <1>20, <1>21, <1>22, <1>23, <1>24, <1>25, <1>26, <1>27,
     <1>28, <1>29, <1>30, <1>31, <1>32, <1>33, <1>34
  DEF Next, Work, Act, Cancel, Recover

---------------------------------------------------------------------------
(* The promise of OperationGate *)

\* A step that leaves runs, approvals and executions alone leaves every gate alone.
LEMMA GateUnmoved == UNCHANGED <<run, approval, execs>> => UNCHANGED gateOf
  BY DEF gateOf, GateOf

\* A step that touches one task moves the gate of that task only.
LEMMA GateOfOthers ==
  ASSUME NEW t \in Tasks,
         \A u \in Tasks \ {t} : /\ run'[u] = run[u] /\ approval'[u] = approval[u]
                                /\ execs'[u] = execs[u]
  PROVE  gateOf' = [gateOf EXCEPT ![t] = GateOf(t)']
<1>1. \A u \in Tasks \ {t} : GateOf(u)' = GateOf(u)
  BY DEF GateOf
<1>2. gateOf = [u \in Tasks |-> GateOf(u)] /\ gateOf' = [u \in Tasks |-> GateOf(u)']
  BY DEF gateOf
<1> QED
  BY <1>1, <1>2

\* Every step asks, grants, refuses or starts an operation the way OperationGate
\* allows, or leaves its gate alone.
LEMMA GateStep == IInv /\ [Next]_vars => [Gate!GateNext]_gateOf
<1> SUFFICES ASSUME IInv, [Next]_vars PROVE [Gate!GateNext]_gateOf
  OBVIOUS
<1>types. PlaceTypes /\ \A t \in Tasks : GateStory(t)
  BY TypeParts DEF IInv
<1>gates. gateOf = [t \in Tasks |-> GateOf(t)] /\ gateOf' = [t \in Tasks |-> GateOf(t)']
  BY DEF gateOf
<1> USE <1>types DEF PlaceTypes
<1>1. ASSUME NEW t \in Tasks, StartTask(t) PROVE [Gate!GateNext]_gateOf
  BY <1>1, GateUnmoved DEF StartTask, store, history
<1>2. ASSUME NEW t \in Tasks, Launch(t) PROVE [Gate!GateNext]_gateOf
  BY <1>2, GateUnmoved DEF Launch, store, history
<1>3. ASSUME NEW t \in Tasks, SubmitFails(t) PROVE [Gate!GateNext]_gateOf
  <2>1. CASE worker'[t] = "announce"
    <3>1. gateOf' = [gateOf EXCEPT ![t] = GateOf(t)']
      BY <1>3, <2>1, GateOfOthers DEF SubmitFails, store, history
    <3>2. GateOf(t) = "idle" /\ GateOf(t)' = "refused"
      BY <1>3, <2>1 DEF SubmitFails, GateStory, GateOf, Ended, history
    <3> QED
      BY <3>1, <3>2, <1>gates DEF Gate!GateNext, Gate!Bypass
  <2>2. CASE ~ (worker'[t] = "announce")
    BY <1>3, <2>2, GateUnmoved DEF SubmitFails, store, history
  <2> QED
    BY <2>1, <2>2
<1>4. ASSUME NEW t \in Tasks, SubmitRuns(t) PROVE [Gate!GateNext]_gateOf
  <2>1. gateOf' = [gateOf EXCEPT ![t] = GateOf(t)']
    BY <1>4, GateOfOthers DEF SubmitRuns, store, history
  <2>2. GateOf(t) = "idle" /\ GateOf(t)' \in {"granted", "idle"}
    BY <1>4 DEF SubmitRuns, GateStory, GateOf, Ended, Free, store, history
  <2>3. CASE GateOf(t)' = "granted"
    BY <2>1, <2>2, <2>3, <1>gates DEF Gate!GateNext, Gate!Bypass
  <2>4. CASE GateOf(t)' = "idle"
    BY <2>1, <2>2, <2>4, <1>gates
  <2> QED
    BY <2>2, <2>3, <2>4
<1>5. ASSUME NEW t \in Tasks, CreateApproval(t) PROVE [Gate!GateNext]_gateOf
  <2>1. CASE approval' # approval
    <3>1. gateOf' = [gateOf EXCEPT ![t] = GateOf(t)']
      BY <1>5, <2>1, GateOfOthers DEF CreateApproval, store, history
    <3>2. GateOf(t) = "idle" /\ GateOf(t)' = "asked"
      BY <1>5, <2>1 DEF CreateApproval, GateStory, GateOf, Ended, history
    <3> QED
      BY <3>1, <3>2, <1>gates DEF Gate!GateNext, Gate!Ask
  <2>2. CASE ~ (approval' # approval)
    BY <1>5, <2>2, GateUnmoved DEF CreateApproval, store, history
  <2> QED
    BY <2>1, <2>2
<1>6. ASSUME NEW t \in Tasks, RunStarted(t) PROVE [Gate!GateNext]_gateOf
  BY <1>6, GateUnmoved DEF RunStarted, store, history, Revise
<1>7. ASSUME NEW t \in Tasks, Execute(t) PROVE [Gate!GateNext]_gateOf
  <2>1. CASE execs' # execs
    <3>1. gateOf' = [gateOf EXCEPT ![t] = GateOf(t)']
      BY <1>7, <2>1, GateOfOthers DEF Execute, store, history
    <3>2. GateOf(t) = "granted" /\ GateOf(t)' = "started"
      BY <1>7, <2>1 DEF Execute, GateStory, GateOf, Ended, store
    <3> QED
      BY <3>1, <3>2, <1>gates DEF Gate!GateNext, Gate!Start
  <2>2. CASE ~ (execs' # execs)
    BY <1>7, <2>2, GateUnmoved DEF Execute, store, history
  <2> QED
    BY <2>1, <2>2
<1>8. ASSUME NEW t \in Tasks, FinishRun(t) PROVE [Gate!GateNext]_gateOf
  <2>1. CASE run' # run /\ worker[t] = "failing"
    <3>1. gateOf' = [gateOf EXCEPT ![t] = GateOf(t)']
      BY <1>8, GateOfOthers DEF FinishRun, store, history
    <3>2. GateOf(t) = "granted" /\ GateOf(t)' = "refused"
      BY <1>8, <2>1 DEF FinishRun, GateStory, GateOf, Ended, Outcomes, store, history
    <3>3. Gate!Refuse({t})
      BY <3>1, <3>2, <1>gates DEF Gate!Refuse
    <3> QED
      BY <3>3 DEF Gate!GateNext
  <2>2. CASE run' # run /\ worker[t] = "executing"
    <3>1. gateOf' = [gateOf EXCEPT ![t] = GateOf(t)']
      BY <1>8, GateOfOthers DEF FinishRun, store, history
    <3>2. GateOf(t) = "started" /\ GateOf(t)' = "started"
      BY <1>8, <2>2 DEF FinishRun, GateStory, GateOf, store, history
    <3> QED
      BY <3>1, <3>2, <1>gates
  <2>3. CASE run' = run
    BY <1>8, <2>3, GateUnmoved DEF FinishRun, store, history
  <2> QED
    BY <1>8, <2>1, <2>2, <2>3 DEF FinishRun
<1>9. ASSUME NEW t \in Tasks, Register(t) PROVE [Gate!GateNext]_gateOf
  <2>1. CASE approval' # approval
    <3>1. gateOf' = [gateOf EXCEPT ![t] = GateOf(t)']
      BY <1>9, <2>1, GateOfOthers DEF Register, store, history
    <3>2. GateOf(t) = "asked" /\ GateOf(t)' = "refused"
      BY <1>9, <2>1 DEF Register, GateStory, GateOf, Ended, history
    <3>3. Gate!Refuse({t})
      BY <3>1, <3>2, <1>gates DEF Gate!Refuse
    <3> QED
      BY <3>3 DEF Gate!GateNext
  <2>2. CASE ~ (approval' # approval)
    BY <1>9, <2>2, GateUnmoved DEF Register, store, history
  <2> QED
    BY <2>1, <2>2
<1>10. ASSUME NEW t \in Tasks, Settle(t) PROVE [Gate!GateNext]_gateOf
  BY <1>10, GateUnmoved DEF Settle, store, history
<1>11. ASSUME NEW t \in Tasks, ForgetTask(t) PROVE [Gate!GateNext]_gateOf
  BY <1>11, GateUnmoved DEF ForgetTask, store, history
<1>12. ASSUME NEW t \in Tasks, Approve(t) PROVE [Gate!GateNext]_gateOf
  <2>1. gateOf' = [gateOf EXCEPT ![t] = GateOf(t)']
    BY <1>12, GateOfOthers DEF Approve, store, history
  <2>2. GateOf(t) = "asked" /\ GateOf(t)' = "granted"
    BY <1>12 DEF Approve, Pending, GateStory, GateOf, Ended, history
  <2> QED
    BY <2>1, <2>2, <1>gates DEF Gate!GateNext, Gate!Grant
<1>13. ASSUME NEW t \in Tasks, Reject(t) PROVE [Gate!GateNext]_gateOf
  <2>1. CASE approval' # approval
    <3>1. gateOf' = [gateOf EXCEPT ![t] = GateOf(t)']
      BY <1>13, <2>1, GateOfOthers DEF Reject, store, history, Pending, Deciding
    <3>2. GateOf(t) = "asked" /\ GateOf(t)' = "refused"
      BY <1>13, <2>1 DEF Reject, Pending, GateStory, GateOf, Ended, history
    <3>3. Gate!Refuse({t})
      BY <3>1, <3>2, <1>gates DEF Gate!Refuse
    <3> QED
      BY <3>3 DEF Gate!GateNext
  <2>2. CASE ~ (approval' # approval)
    BY <1>13, <2>2, GateUnmoved DEF Reject, store, history, Pending, Deciding
  <2> QED
    BY <2>1, <2>2
<1>14. ASSUME NEW t \in Tasks, PublishRunning(t) PROVE [Gate!GateNext]_gateOf
  BY <1>14, GateUnmoved DEF PublishRunning, store, history
<1>15. ASSUME NEW t \in Tasks, StartApproved(t) PROVE [Gate!GateNext]_gateOf
  BY <1>15, GateUnmoved DEF StartApproved, store, history
<1>16. ASSUME NEW t \in Tasks, BeginApproved(t) PROVE [Gate!GateNext]_gateOf
  <2>1. CASE execs' # execs
    <3>1. gateOf' = [gateOf EXCEPT ![t] = GateOf(t)']
      BY <1>16, <2>1, GateOfOthers DEF BeginApproved, store, history
    <3>2. GateOf(t) = "granted" /\ GateOf(t)' = "started"
      BY <1>16, <2>1 DEF BeginApproved, GateStory, GateOf, Ended, store
    <3> QED
      BY <3>1, <3>2, <1>gates DEF Gate!GateNext, Gate!Start
  <2>2. CASE ~ (execs' # execs)
    BY <1>16, <2>2, GateUnmoved DEF BeginApproved, store, history
  <2> QED
    BY <2>1, <2>2
<1>17. ASSUME NEW t \in Tasks, FinishApproved(t) PROVE [Gate!GateNext]_gateOf
  <2>1. CASE run' # run /\ act[t] = "failing"
    <3>1. gateOf' = [gateOf EXCEPT ![t] = GateOf(t)']
      BY <1>17, GateOfOthers DEF FinishApproved, store, history
    <3>2. GateOf(t) = "granted" /\ GateOf(t)' = "refused"
      BY <1>17, <2>1 DEF FinishApproved, GateStory, GateOf, Ended, Outcomes, store, history
    <3>3. Gate!Refuse({t})
      BY <3>1, <3>2, <1>gates DEF Gate!Refuse
    <3> QED
      BY <3>3 DEF Gate!GateNext
  <2>2. CASE run' # run /\ act[t] = "executing"
    <3>1. gateOf' = [gateOf EXCEPT ![t] = GateOf(t)']
      BY <1>17, GateOfOthers DEF FinishApproved, store, history
    <3>2. GateOf(t) = "started" /\ GateOf(t)' = "started"
      BY <1>17, <2>2 DEF FinishApproved, GateStory, GateOf, store, history
    <3> QED
      BY <3>1, <3>2, <1>gates
  <2>3. CASE run' = run
    BY <1>17, <2>3, GateUnmoved DEF FinishApproved, store, history
  <2> QED
    BY <1>17, <2>1, <2>2, <2>3 DEF FinishApproved
<1>18. ASSUME NEW t \in Tasks, PublishEnd(t) PROVE [Gate!GateNext]_gateOf
  BY <1>18, GateUnmoved DEF PublishEnd, store, history
<1>19. ASSUME NEW t \in Tasks, ForgetDecided(t) PROVE [Gate!GateNext]_gateOf
  BY <1>19, GateUnmoved DEF ForgetDecided, store, history
<1>20. ASSUME NEW t \in Tasks, Release(t) PROVE [Gate!GateNext]_gateOf
  BY <1>20, GateUnmoved DEF Release, store, history
<1>21. ASSUME NEW t \in Tasks, CancelTask(t) PROVE [Gate!GateNext]_gateOf
  BY <1>21, GateUnmoved DEF CancelTask, store, history
<1>22. ASSUME NEW t \in Tasks, CancelContext(t) PROVE [Gate!GateNext]_gateOf
  BY <1>22, GateUnmoved DEF CancelContext, store, history, CancelStep
<1>23. ASSUME NEW t \in Tasks, ReadApproval(t) PROVE [Gate!GateNext]_gateOf
  BY <1>23, GateUnmoved DEF ReadApproval, store, history, CancelStep
<1>24. ASSUME NEW t \in Tasks, RejectCancelled(t) PROVE [Gate!GateNext]_gateOf
  <2>1. CASE approval' # approval
    <3>1. gateOf' = [gateOf EXCEPT ![t] = GateOf(t)']
      BY <1>24, <2>1, GateOfOthers DEF RejectCancelled, store, history, Pending, CancelStep
    <3>2. GateOf(t) = "asked" /\ GateOf(t)' = "refused"
      BY <1>24, <2>1 DEF RejectCancelled, Pending, GateStory, GateOf, Ended, CancelStep, history
    <3>3. Gate!Refuse({t})
      BY <3>1, <3>2, <1>gates DEF Gate!Refuse
    <3> QED
      BY <3>3 DEF Gate!GateNext
  <2>2. CASE ~ (approval' # approval)
    BY <1>24, <2>2, GateUnmoved DEF RejectCancelled, store, history, Pending, CancelStep
  <2> QED
    BY <2>1, <2>2
<1>25. ASSUME NEW t \in Tasks, CancelExecution(t) PROVE [Gate!GateNext]_gateOf
  BY <1>25, GateUnmoved DEF CancelExecution, store, history, CancelStep
<1>26. ASSUME NEW t \in Tasks, ForgetCancelled(t) PROVE [Gate!GateNext]_gateOf
  BY <1>26, GateUnmoved DEF ForgetCancelled, store, history, CancelStep
<1>27. ASSUME NEW t \in Tasks, StopExecution(t) PROVE [Gate!GateNext]_gateOf
  BY <1>27, GateUnmoved DEF StopExecution, store, history
<1>28. ASSUME NEW t \in Tasks, NEW th \in Threads, Save(t, th) PROVE [Gate!GateNext]_gateOf
  BY <1>28, GateUnmoved DEF Save, store, history
<1>29. CASE Stop
  BY <1>29, GateUnmoved DEF Stop, store, history
<1>30. CASE ShutdownDone
  BY <1>30, GateUnmoved DEF ShutdownDone, store, history
<1>31. CASE Restart
  BY <1>31, GateUnmoved DEF Restart, store, history
<1>32. CASE RecoverTasks
  BY <1>32, GateUnmoved DEF RecoverTasks, store, history
<1>33. CASE RecoverRuns
  <2> DEFINE Swept == {t \in Tasks : run[t] = "running" /\ execs[t] # 1}
  <2>1. \A t \in Tasks : GateOf(t)' = IF t \in Swept THEN "refused" ELSE GateOf(t)
    BY <1>33 DEF RecoverRuns, GateOf, Ended, history
  <2>2. \A t \in Swept : GateOf(t) = "granted"
    BY DEF GateOf, Ended
  <2>3. CASE Swept = {}
    BY <2>1, <2>3, <1>gates
  <2>4. CASE Swept # {}
    <3>1. Gate!Refuse(Swept)
      BY <2>1, <2>2, <2>4, <1>gates DEF Gate!Refuse
    <3>2. Swept \in SUBSET Tasks
      OBVIOUS
    <3> QED
      BY <3>1, <3>2 DEF Gate!GateNext
  <2> QED
    BY <2>3, <2>4
<1>34. CASE UNCHANGED vars
  BY <1>34, GateUnmoved DEF vars, store, history
<1> QED
  BY <1>1, <1>2, <1>3, <1>4, <1>5, <1>6, <1>7, <1>8, <1>9, <1>10, <1>11, <1>12, <1>13, <1>14,
     <1>15, <1>16, <1>17, <1>18, <1>19, <1>20, <1>21, <1>22, <1>23, <1>24, <1>25, <1>26, <1>27,
     <1>28, <1>29, <1>30, <1>31, <1>32, <1>33, <1>34
  DEF Next, Work, Act, Cancel, Recover

---------------------------------------------------------------------------
(* The invariant *)

\* The service starts with no tasks.
LEMMA InitHolds == Init => IInv
<1> SUFFICES ASSUME Init PROVE IInv
  OBVIOUS
<1>1. TypeOK
  BY BoundAssumption, NoSnapshotType
  DEF Init, TypeOK, Statuses, WorkerPlaces, ActPlaces, CancPlaces
<1>2. \A t \in Tasks : GateStory(t) /\ EventStory(t) /\ ContextStory(t)
  BY DEF Init, GateStory, EventStory, ContextStory, Valid, Serving, Ended
<1>3. \A t \in Tasks : RowStory(t)
  BY DEF Init, RowStory, Ordered, Finisher, Current, NoSnapshot, Serving, Ended
<1>4. TaskFollowsRun /\ CancelReachesExecution
  BY DEF Init, TaskFollowsRun, CancelReachesExecution
<1> QED
  BY <1>1, <1>2, <1>3, <1>4 DEF IInv

\* Every reachable state satisfies the invariant.
THEOREM InductiveInvariant == Spec => []IInv
<1>1. Init => IInv
  BY InitHolds
<1>2. IInv /\ [Next]_vars => IInv'
  <2> SUFFICES ASSUME IInv, [Next]_vars PROVE IInv'
    OBVIOUS
  <2>1. TypeOK'
    BY TypeStep DEF IInv
  <2>2. \A u \in Tasks : GateStory(u)' /\ RowStory(u)' /\ EventStory(u)' /\ ContextStory(u)'
    BY GateStoryStep, RowStep, EventStep, ContextStep DEF IInv
  <2>3. TaskFollowsRun' /\ CancelReachesExecution'
    BY HearingStep, CancelledStep
  <2> QED
    BY <2>1, <2>2, <2>3 DEF IInv
<1> QED
  BY <1>1, <1>2, PTL DEF Spec

\* The variables keep their types, and only what runs is registered to be cancelled
\* (startApprovedExecution and its deferred cleanup).
THEOREM TypeCorrect == Spec => []TypeOK
<1>1. IInv => TypeOK
  BY DEF IInv
<1> QED
  BY <1>1, InductiveInvariant, PTL

\* A task that is registered for its approval hears of the end of its run, unless
\* the end was published before it was registered (updateApprovalTask).
THEOREM TasksFollowRuns == Spec => []TaskFollowsRun
<1>1. IInv => TaskFollowsRun
  BY DEF IInv
<1> QED
  BY <1>1, InductiveInvariant, PTL

\* Once a cancellation that knew the approval is over, no decision can start the
\* operation any more (cancelApprovedExecution, cancelledExecutions).
THEOREM CancellationReaches == Spec => []CancelReachesExecution
<1>1. IInv => CancelReachesExecution
  BY DEF IInv
<1> QED
  BY <1>1, InductiveInvariant, PTL

\* When Shutdown returns, no operation runs and none can begin (executionClosed).
THEOREM QuietWhenStopped == Spec => []StoppedIsQuiet
<1>1. IInv => StoppedIsQuiet
  BY DEF IInv, ContextStory, StoppedIsQuiet
<1> QED
  BY <1>1, InductiveInvariant, PTL

\* While the process runs, the outcome a task once showed never changes: neither a
\* late result, nor an event, nor a write that was overtaken revises it (UpsertTask
\* compares revisions).
THEOREM OutcomesStay == Spec => OutcomeStays
<1>1. IInv /\ [Next]_vars => OutcomeKept
  BY OutcomeStep
<1> QED
  BY <1>1, InductiveInvariant, PTL DEF Spec, OutcomeStays, OutcomeKept

\* Background tasks, whether they execute at once or after a decision, keep the
\* promise of OperationGate: no operation starts twice, and none without a grant.
THEOREM KeepsOperationGate == Spec => KeepsGate
<1>1. Init => Gate!GateInit
  BY DEF Init, Gate!GateInit, gateOf, GateOf, Ended
<1>2. IInv /\ [Next]_vars => [Gate!GateNext]_gateOf
  BY GateStep
<1> QED
  BY <1>1, <1>2, InductiveInvariant, PTL DEF Spec, KeepsGate, Gate!GateSpec
=============================================================================
