-------------------- MODULE ApprovalContinuation_proofs --------------------
(***************************************************************************)
(* Proofs about ApprovalContinuation, for any number of calls, turns,      *)
(* crashes, stops and faults.                                              *)
(*                                                                         *)
(* AtMostOnce is not inductive: that the claim of a resumed tool meets an  *)
(* operation that was never executed follows from what the status of a run *)
(* says about its history, and that ToolSubmit meets a fresh call from     *)
(* what the place of a tool says about its run.  Both are conjuncts of     *)
(* CallStory.  What a checkpoint holds and which turn the driver is in     *)
(* matter because they decide which tools a resumption moves.              *)
(*                                                                         *)
(* How a group of operations goes on is a second invariant, TurnInv: its   *)
(* tools, the checkpoint, the driver or the queued resumption and the      *)
(* handlers that read it hold the same calls, the ones whose interrupts    *)
(* are bound.  Some of its conjuncts, as the properties, speak only of     *)
(* behaviours in which no process dies under a stop, or of those without   *)
(* stops and faults.                                                       *)
(*                                                                         *)
(* At the end, about ApprovalExplanations, for any approvals and any       *)
(* bounds: who will end the "working" of an approval is what is inductive  *)
(* there, and that the registry names who is at work.                      *)
(***************************************************************************)
EXTENDS ApprovalContinuation, ApprovalExplanations, FiniteSetTheorems, TLAPS

---------------------------------------------------------------------------
(* The inductive invariant *)

\* An execution leaves its trace in the run, and only what was approved or
\* needed no approval has one.
ExecutedOnce(c) ==
  /\ execs[c] > 0 => /\ execs[c] = 1
                     /\ run[c] \notin {"none", "approval_required"}
                     /\ approval[c] \in {"none", "approved"}
  /\ run[c] = "running" => execs[c] > 0

\* Nothing happened yet to a call no turn has made.
FreshIsUntouched(c) ==
  turnOf[c] = NoTurn => run[c] = "none" /\ approval[c] = "none" /\ tool[c] = "idle" /\ op[c] = "idle"

\* Where a tool is tells how far its run and its approval are.
ToolKnowsRun(c) ==
  /\ tool[c] = "started" => run[c] = "none" /\ approval[c] = "none"
  /\ tool[c] \in {"created", "bound"} => run[c] = "approval_required" /\ approval[c] = "none"
  /\ tool[c] \in {"claim", "refused", "failing"} => approval[c] \in Decided
  /\ tool[c] = "executing" => execs[c] > 0

CallStory(c) ==
  /\ ExecutedOnce(c) /\ FreshIsUntouched(c) /\ ToolKnowsRun(c)
  /\ approval[c] # "none" => run[c] # "none"

\* A checkpoint holds calls of its own turn.
SavedByTurn == \A t \in Turns : \A c \in saved[t] : turnOf[c] = t

DriverHasTurn == pc # "idle" => turn \in Turns

Story == (\A c \in Calls : CallStory(c)) /\ SavedByTurn /\ DriverHasTurn

IInv == TypeOK /\ Story

---------------------------------------------------------------------------
(* Types *)

\* Every step keeps the types.
LEMMA TypeStep == TypeOK /\ [Next]_vars => TypeOK'
<1> SUFFICES ASSUME TypeOK, [Next]_vars PROVE TypeOK'
  OBVIOUS
<1> USE DEF store, driver, queued, tools, handler, budget, TerminalRun, Decided,
          RunStatus, ApprovalStatus, CallStatus, MessageStatus, ServerStep, DriverPlace,
          ToolPlace, Outcome, HandlerPlace
<1>1. CASE BeginTurn
  <2>1. StoreTypes'
    BY <1>1 DEF BeginTurn, TypeOK, StoreTypes
  <2>2. ProcessTypes'
    BY <1>1 DEF BeginTurn, TypeOK, ProcessTypes
  <2>3. FlagTypes'
    BY <1>1 DEF BeginTurn, TypeOK, FlagTypes
  <2> QED
    BY <2>1, <2>2, <2>3 DEF TypeOK
<1>2. CASE BeginResume
  <2>1. StoreTypes'
    BY <1>2 DEF BeginResume, Replayed, TypeOK, StoreTypes
  <2>2. ProcessTypes'
    BY <1>2 DEF BeginResume, Replayed, TypeOK, StoreTypes, ProcessTypes
  <2>3. FlagTypes'
    BY <1>2, Zenon DEF BeginResume, Replayed, TypeOK, FlagTypes
  <2> QED
    BY <2>1, <2>2, <2>3 DEF TypeOK
<1>3. CASE Interrupt
  <2>1. StoreTypes'
    BY <1>3 DEF Interrupt, Paused, TurnCalls, TypeOK, StoreTypes
  <2>2. ProcessTypes'
    BY <1>3 DEF Interrupt, Paused, TurnCalls, TypeOK, StoreTypes, ProcessTypes
  <2>3. FlagTypes'
    BY <1>3, Zenon DEF Interrupt, Paused, TurnCalls, TypeOK, FlagTypes
  <2> QED
    BY <2>1, <2>2, <2>3 DEF TypeOK
<1>4. CASE RegisterPause
  <2>1. StoreTypes'
    BY <1>4 DEF RegisterPause, TypeOK, StoreTypes
  <2>2. ProcessTypes'
    BY <1>4 DEF RegisterPause, TypeOK, StoreTypes, ProcessTypes
  <2>3. FlagTypes'
    BY <1>4, Zenon DEF RegisterPause, TypeOK, FlagTypes
  <2> QED
    BY <2>1, <2>2, <2>3 DEF TypeOK
<1>5. CASE Activate
  BY <1>5 DEF Activate, Exposed, Rebound, Fault, TurnCalls,
     TypeOK, StoreTypes, ProcessTypes, FlagTypes
<1>6. CASE MarkWaiting
  BY <1>6 DEF MarkWaiting, Fault,
     TypeOK, StoreTypes, ProcessTypes, FlagTypes
<1>7. CASE Wake
  BY <1>7 DEF Wake,
     TypeOK, StoreTypes, ProcessTypes, FlagTypes
<1>8. CASE ResumeGroup
  BY <1>8 DEF ResumeGroup, Replayed, Fault,
     TypeOK, StoreTypes, ProcessTypes, FlagTypes
<1>9. CASE ModelEnd
  BY <1>9 DEF ModelEnd, Fault,
     TypeOK, StoreTypes, ProcessTypes, FlagTypes
<1>10. CASE ModelCancelled
  BY <1>10 DEF ModelCancelled,
     TypeOK, StoreTypes, ProcessTypes, FlagTypes
<1>11. CASE SettleCalls
  BY <1>11 DEF SettleCalls, Settle,
     TypeOK, StoreTypes, ProcessTypes, FlagTypes
<1>12. CASE MarkMessage
  <2>1. StoreTypes'
    BY <1>12 DEF MarkMessage, TypeOK, StoreTypes
  <2>2. ProcessTypes'
    BY <1>12 DEF MarkMessage, TypeOK, StoreTypes, ProcessTypes
  <2>3. FlagTypes'
    BY <1>12, Zenon DEF MarkMessage, TypeOK, FlagTypes
  <2> QED
    BY <2>1, <2>2, <2>3 DEF TypeOK
<1>13. CASE CheckpointCleanup
  BY <1>13 DEF CheckpointCleanup, Fault,
     TypeOK, StoreTypes, ProcessTypes, FlagTypes
<1>14. CASE Exit
  BY <1>14 DEF Exit,
     TypeOK, StoreTypes, ProcessTypes, FlagTypes
<1>15. ASSUME NEW c \in Calls, ToolSubmit(c)
      PROVE  TypeOK'
  BY <1>15 DEF ToolSubmit, MoveTool, Execute, EndCall,
     TypeOK, StoreTypes, ProcessTypes, FlagTypes
<1>16. ASSUME NEW c \in Calls, ToolBind(c)
      PROVE  TypeOK'
  BY <1>16 DEF ToolBind, MoveTool,
     TypeOK, StoreTypes, ProcessTypes, FlagTypes
<1>17. ASSUME NEW c \in Calls, ToolRequest(c)
      PROVE  TypeOK'
  BY <1>17 DEF ToolRequest, MoveTool,
     TypeOK, StoreTypes, ProcessTypes, FlagTypes
<1>18. ASSUME NEW c \in Calls, ToolPause(c)
      PROVE  TypeOK'
  BY <1>18 DEF ToolPause, MoveTool,
     TypeOK, StoreTypes, ProcessTypes, FlagTypes
<1>19. ASSUME NEW c \in Calls, ToolAbandon(c)
      PROVE  TypeOK'
  BY <1>19 DEF ToolAbandon, MoveTool, EndCall, Fault,
     TypeOK, StoreTypes, ProcessTypes, FlagTypes
<1>20. ASSUME NEW c \in Calls, ToolResume(c)
      PROVE  TypeOK'
  BY <1>20 DEF ToolResume, MoveTool, EndCall,
     TypeOK, StoreTypes, ProcessTypes, FlagTypes
<1>21. ASSUME NEW c \in Calls, ToolClaim(c)
      PROVE  TypeOK'
  BY <1>21 DEF ToolClaim, MoveTool, EndCall, Execute, ClaimedStatus,
     TypeOK, StoreTypes, ProcessTypes, FlagTypes
<1>22. ASSUME NEW c \in Calls, ToolRefused(c)
      PROVE  TypeOK'
  BY <1>22 DEF ToolRefused, MoveTool, EndCall,
     TypeOK, StoreTypes, ProcessTypes, FlagTypes
<1>23. ASSUME NEW c \in Calls, ToolFinish(c)
      PROVE  TypeOK'
  BY <1>23 DEF ToolFinish, MoveTool, EndCall, Fault,
     TypeOK, StoreTypes, ProcessTypes, FlagTypes
<1>24. ASSUME NEW c \in Calls, OpResumeQueue(c)
      PROVE  TypeOK'
  <2>1. StoreTypes'
    BY <1>24 DEF OpResumeQueue, Settle, Remaining, TypeOK, StoreTypes
  <2>2. ProcessTypes'
    BY <1>24 DEF OpResumeQueue, Settle, Remaining, TypeOK, StoreTypes, ProcessTypes
  <2>3. FlagTypes'
    BY <1>24, Zenon DEF OpResumeQueue, Settle, Remaining, TypeOK, FlagTypes
  <2> QED
    BY <2>1, <2>2, <2>3 DEF TypeOK
<1>25. ASSUME NEW c \in Calls, OpCheckActive(c)
      PROVE  TypeOK'
  BY <1>25 DEF OpCheckActive,
     TypeOK, StoreTypes, ProcessTypes, FlagTypes
<1>26. ASSUME NEW c \in Calls, OpReadGroup(c)
      PROVE  TypeOK'
  BY <1>26 DEF OpReadGroup, DecidedGroup, Bound, TurnCalls,
     TypeOK, StoreTypes, ProcessTypes, FlagTypes
<1>27. ASSUME NEW c \in Calls, OpBegin(c)
      PROVE  TypeOK'
  <2>1. StoreTypes'
    BY <1>27 DEF OpBegin, BeginDriver, TypeOK, StoreTypes
  <2>2. ProcessTypes'
    BY <1>27 DEF OpBegin, BeginDriver, TypeOK, StoreTypes, ProcessTypes
  <2>3. FlagTypes'
    BY <1>27, Zenon DEF OpBegin, BeginDriver, TypeOK, FlagTypes
  <2> QED
    BY <2>1, <2>2, <2>3 DEF TypeOK
<1>28. CASE StopQueue
  <2>1. StoreTypes'
    BY <1>28 DEF StopQueue, TypeOK, StoreTypes
  <2>2. ProcessTypes'
    BY <1>28 DEF StopQueue, TypeOK, StoreTypes, ProcessTypes
  <2>3. FlagTypes'
    BY <1>28, Zenon DEF StopQueue, TypeOK, FlagTypes
  <2> QED
    BY <2>1, <2>2, <2>3 DEF TypeOK
<1>29. CASE StopAbort
  BY <1>29 DEF StopAbort, Settle,
     TypeOK, StoreTypes, ProcessTypes, FlagTypes
<1>30. ASSUME NEW c \in Calls, StopReject(c)
      PROVE  TypeOK'
  BY <1>30 DEF StopReject, Settle,
     TypeOK, StoreTypes, ProcessTypes, FlagTypes
<1>31. CASE StopDone
  BY <1>31 DEF StopDone,
     TypeOK, StoreTypes, ProcessTypes, FlagTypes
<1>32. CASE RecoverRuns
  BY <1>32 DEF RecoverRuns,
     TypeOK, StoreTypes, ProcessTypes, FlagTypes
<1>33. CASE RecoverApprovals
  BY <1>33 DEF RecoverApprovals,
     TypeOK, StoreTypes, ProcessTypes, FlagTypes
<1>34. CASE RecoverMessages
  BY <1>34 DEF RecoverMessages,
     TypeOK, StoreTypes, ProcessTypes, FlagTypes
<1>35. CASE RecoverCalls
  BY <1>35 DEF RecoverCalls, Settle,
     TypeOK, StoreTypes, ProcessTypes, FlagTypes
<1>36. CASE RecoverResume
  <2>1. StoreTypes'
    BY <1>36 DEF RecoverResume, ResumeDecided, BeginDriver, Bound, TurnCalls, TypeOK, StoreTypes
  <2>2. ProcessTypes'
    BY <1>36 DEF RecoverResume, ResumeDecided, BeginDriver, Bound, TurnCalls, TypeOK, StoreTypes,
       ProcessTypes
  <2>3. FlagTypes'
    BY <1>36, Zenon DEF RecoverResume, ResumeDecided, BeginDriver, Bound, TurnCalls, TypeOK,
       FlagTypes
  <2> QED
    BY <2>1, <2>2, <2>3 DEF TypeOK
<1>37. ASSUME NEW t \in Turns, StartTurn(t)
      PROVE  TypeOK'
  BY <1>37 DEF StartTurn,
     TypeOK, StoreTypes, ProcessTypes, FlagTypes
<1>38. ASSUME NEW t \in Turns, QueueAdvance(t)
      PROVE  TypeOK'
  BY <1>38 DEF QueueAdvance,
     TypeOK, StoreTypes, ProcessTypes, FlagTypes
<1>39. ASSUME NEW t \in Turns, ReloadAgent(t)
      PROVE  TypeOK'
  BY <1>39 DEF ReloadAgent, ResumeDecided, BeginDriver, Bound, TurnCalls,
     TypeOK, StoreTypes, ProcessTypes, FlagTypes
<1>40. ASSUME NEW S \in SUBSET Calls, ModelCalls(S)
      PROVE  TypeOK'
  BY <1>40 DEF ModelCalls,
     TypeOK, StoreTypes, ProcessTypes, FlagTypes
<1>41. ASSUME NEW c \in Calls, NEW d \in Decided, Decide(c, d)
      PROVE  TypeOK'
  BY <1>41 DEF Decide,
     TypeOK, StoreTypes, ProcessTypes, FlagTypes
<1>42. CASE StopSession
  BY <1>42 DEF StopSession, LiveTools,
     TypeOK, StoreTypes, ProcessTypes, FlagTypes
<1>43. CASE Crash
  <2>1. StoreTypes'
    BY <1>43 DEF Crash, TypeOK, StoreTypes
  <2>2. ProcessTypes'
    BY <1>43 DEF Crash, TypeOK, StoreTypes, ProcessTypes
  <2>3. FlagTypes'
    BY <1>43, Zenon DEF Crash, TypeOK, FlagTypes
  <2> QED
    BY <2>1, <2>2, <2>3 DEF TypeOK
<1>44. CASE UNCHANGED vars
  BY <1>44 DEF vars, TypeOK, StoreTypes, ProcessTypes, FlagTypes
<1>45. CASE DriverStep
  BY <1>45, <1>1, <1>2, <1>3, <1>4, <1>5, <1>6, <1>7, <1>8, <1>9, <1>10, <1>11, <1>12, <1>13,
     <1>14 DEF DriverStep
<1>46. ASSUME NEW c \in Calls, ToolStep(c) \/ OpStep(c)
      PROVE  TypeOK'
  BY <1>46, <1>15, <1>16, <1>17, <1>18, <1>19, <1>20, <1>21, <1>22, <1>23, <1>24, <1>25, <1>26,
     <1>27
  DEF ToolStep, OpStep
<1>47. CASE StopStep \/ RecoveryStep
  BY <1>47, <1>28, <1>29, <1>30, <1>31, <1>32, <1>33, <1>34, <1>35, <1>36
  DEF StopStep, RecoveryStep
<1> QED
  BY <1>37, <1>38, <1>39, <1>40, <1>41, <1>42, <1>43, <1>44, <1>45, <1>46, <1>47
  DEF Next
---------------------------------------------------------------------------
(* The story of each call *)

\* Every step keeps the story of each call.
LEMMA StoryStep == IInv /\ [Next]_vars => Story'
<1> SUFFICES ASSUME IInv, [Next]_vars PROVE Story'
  OBVIOUS
<1> USE NoTurnAssumption DEF store, driver, queued, tools, handler, budget, TerminalRun, Decided,
          IInv, Story, CallStory, ExecutedOnce, FreshIsUntouched, ToolKnowsRun, SavedByTurn,
          DriverHasTurn, TypeOK, StoreTypes, ProcessTypes
<1>1. CASE BeginTurn
  BY <1>1 DEF BeginTurn
<1>2. CASE BeginResume
  BY <1>2 DEF BeginResume, Replayed, TurnCalls
<1>3. CASE Interrupt
  BY <1>3 DEF Interrupt, Paused, TurnCalls
<1>4. CASE RegisterPause
  BY <1>4 DEF RegisterPause
<1>5. CASE Activate
  BY <1>5 DEF Activate, Exposed, Rebound, Fault, TurnCalls
<1>6. CASE MarkWaiting
  BY <1>6 DEF MarkWaiting, Fault
<1>7. CASE Wake
  BY <1>7 DEF Wake
<1>8. CASE ResumeGroup
  BY <1>8 DEF ResumeGroup, Replayed, Fault
<1>9. CASE ModelEnd
  BY <1>9 DEF ModelEnd, Fault
<1>10. CASE ModelCancelled
  BY <1>10 DEF ModelCancelled
<1>11. CASE SettleCalls
  BY <1>11 DEF SettleCalls, Settle
<1>12. CASE MarkMessage
  BY <1>12 DEF MarkMessage
<1>13. CASE CheckpointCleanup
  BY <1>13 DEF CheckpointCleanup, Fault
<1>14. CASE Exit
  BY <1>14 DEF Exit
<1>15. ASSUME NEW c \in Calls, ToolSubmit(c)
      PROVE  Story'
  BY <1>15 DEF ToolSubmit, MoveTool, Execute, EndCall
<1>16. ASSUME NEW c \in Calls, ToolBind(c)
      PROVE  Story'
  BY <1>16 DEF ToolBind, MoveTool
<1>17. ASSUME NEW c \in Calls, ToolRequest(c)
      PROVE  Story'
  BY <1>17 DEF ToolRequest, MoveTool
<1>18. ASSUME NEW c \in Calls, ToolPause(c)
      PROVE  Story'
  BY <1>18 DEF ToolPause, MoveTool
<1>19. ASSUME NEW c \in Calls, ToolAbandon(c)
      PROVE  Story'
  BY <1>19 DEF ToolAbandon, MoveTool, EndCall, Fault
<1>20. ASSUME NEW c \in Calls, ToolResume(c)
      PROVE  Story'
  BY <1>20 DEF ToolResume, MoveTool, EndCall, Terminal
<1>21. ASSUME NEW c \in Calls, ToolClaim(c)
      PROVE  Story'
  BY <1>21 DEF ToolClaim, MoveTool, EndCall, Execute, ClaimedStatus, Claimable
<1>22. ASSUME NEW c \in Calls, ToolRefused(c)
      PROVE  Story'
  BY <1>22 DEF ToolRefused, MoveTool, EndCall, Terminal
<1>23. ASSUME NEW c \in Calls, ToolFinish(c)
      PROVE  Story'
  BY <1>23 DEF ToolFinish, MoveTool, EndCall, Fault
<1>24. ASSUME NEW c \in Calls, OpResumeQueue(c)
      PROVE  Story'
  BY <1>24 DEF OpResumeQueue, Settle, Remaining
<1>25. ASSUME NEW c \in Calls, OpCheckActive(c)
      PROVE  Story'
  BY <1>25 DEF OpCheckActive
<1>26. ASSUME NEW c \in Calls, OpReadGroup(c)
      PROVE  Story'
  BY <1>26 DEF OpReadGroup, DecidedGroup, Bound, TurnCalls
<1>27. ASSUME NEW c \in Calls, OpBegin(c)
      PROVE  Story'
  BY <1>27 DEF OpBegin, BeginDriver
<1>28. CASE StopQueue
  BY <1>28 DEF StopQueue
<1>29. CASE StopAbort
  BY <1>29 DEF StopAbort, Settle, Abortable
<1>30. ASSUME NEW c \in Calls, StopReject(c)
      PROVE  Story'
  BY <1>30 DEF StopReject, Settle, Decidable
<1>31. CASE StopDone
  BY <1>31 DEF StopDone
<1>32. CASE RecoverRuns
  BY <1>32 DEF RecoverRuns
<1>33. CASE RecoverApprovals
  BY <1>33 DEF RecoverApprovals, Unactivated
<1>34. CASE RecoverMessages
  BY <1>34 DEF RecoverMessages
<1>35. CASE RecoverCalls
  BY <1>35 DEF RecoverCalls, Settle
<1>36. CASE RecoverResume
  BY <1>36 DEF RecoverResume, ResumeDecided, BeginDriver, Bound, TurnCalls
<1>37. ASSUME NEW t \in Turns, StartTurn(t)
      PROVE  Story'
  BY <1>37 DEF StartTurn
<1>38. ASSUME NEW t \in Turns, QueueAdvance(t)
      PROVE  Story'
  BY <1>38 DEF QueueAdvance
<1>39. ASSUME NEW t \in Turns, ReloadAgent(t)
      PROVE  Story'
  BY <1>39 DEF ReloadAgent, ResumeDecided, BeginDriver, Bound, TurnCalls
<1>40. ASSUME NEW S \in SUBSET Calls, ModelCalls(S)
      PROVE  Story'
  BY <1>40 DEF ModelCalls, AtRest, Paused, TurnCalls
<1>41. ASSUME NEW c \in Calls, NEW d \in Decided, Decide(c, d)
      PROVE  Story'
  BY <1>41 DEF Decide, Decidable
<1>42. CASE StopSession
  BY <1>42 DEF StopSession, LiveTools
<1>43. CASE Crash
  BY <1>43 DEF Crash
<1>44. CASE UNCHANGED vars
  BY <1>44 DEF vars
<1>45. CASE DriverStep
  BY <1>45, <1>1, <1>2, <1>3, <1>4, <1>5, <1>6, <1>7, <1>8, <1>9, <1>10, <1>11, <1>12, <1>13,
     <1>14 DEF DriverStep
<1>46. ASSUME NEW c \in Calls, ToolStep(c) \/ OpStep(c)
      PROVE  Story'
  BY <1>46, <1>15, <1>16, <1>17, <1>18, <1>19, <1>20, <1>21, <1>22, <1>23, <1>24, <1>25, <1>26,
     <1>27
  DEF ToolStep, OpStep
<1>47. CASE StopStep \/ RecoveryStep
  BY <1>47, <1>28, <1>29, <1>30, <1>31, <1>32, <1>33, <1>34, <1>35, <1>36
  DEF StopStep, RecoveryStep
<1> QED
  BY <1>37, <1>38, <1>39, <1>40, <1>41, <1>42, <1>43, <1>44, <1>45, <1>46, <1>47
  DEF Next
---------------------------------------------------------------------------
(* Safety *)

\* The types of every variable hold in every state.
THEOREM TypeCorrect == Spec => []TypeOK
<1>1. Init => StoreTypes
  BY DEF Init, StoreTypes, RunStatus, ApprovalStatus, CallStatus, MessageStatus
<1>2. Init => ProcessTypes
  BY DEF Init, ProcessTypes, ServerStep, DriverPlace, ToolPlace, Outcome, HandlerPlace
<1>3. Init => FlagTypes
  BY Zenon DEF Init, FlagTypes
<1>4. Init => TypeOK
  BY <1>1, <1>2, <1>3 DEF TypeOK
<1> QED
  BY <1>4, TypeStep, PTL DEF Spec

\* The inductive invariant holds in every state.
THEOREM InductiveInvariant == Spec => []IInv
<1>1. Init => Story
  BY DEF Init, Story, CallStory, ExecutedOnce, FreshIsUntouched, ToolKnowsRun, SavedByTurn,
         DriverHasTurn
<1>2. Spec => []TypeOK
  BY TypeCorrect
<1> QED
  BY <1>1, <1>2, StoryStep, PTL DEF Spec, IInv

\* No operation is executed twice (ClaimAgentApprovalRun and submit), however
\* the conversation is stopped, restarted and resumed.
THEOREM ExecutedAtMostOnce == Spec => []AtMostOnce
<1>1. IInv => AtMostOnce
  BY DEF IInv, TypeOK, StoreTypes, Story, CallStory, ExecutedOnce, AtMostOnce
<1> QED
  BY <1>1, InductiveInvariant, PTL

\* What was executed was approved or needed no approval: the claim reads the
\* decision in the statement that takes the run.
THEOREM DecisionsHold == Spec => []ExecutedAsDecided
<1>1. IInv => ExecutedAsDecided
  BY DEF IInv, Story, CallStory, ExecutedOnce, ExecutedAsDecided
<1> QED
  BY <1>1, InductiveInvariant, PTL

\* No step reopens a run, takes back a rejection or redecides what was executed.
LEMMA VerdictsStep == IInv /\ [Next]_vars => VerdictsKept
<1> SUFFICES ASSUME IInv, [Next]_vars PROVE VerdictsKept
  OBVIOUS
<1> USE DEF store, driver, queued, tools, handler, budget, TerminalRun, Decided, Terminal, IInv,
          Story, CallStory, ExecutedOnce, ToolKnowsRun, TypeOK, StoreTypes, ProcessTypes,
          VerdictsKept
<1>1. CASE BeginTurn
  BY <1>1 DEF BeginTurn
<1>2. CASE BeginResume
  BY <1>2 DEF BeginResume, Replayed
<1>3. CASE Interrupt
  BY <1>3 DEF Interrupt, Paused, TurnCalls
<1>4. CASE RegisterPause
  BY <1>4 DEF RegisterPause
<1>5. CASE Activate
  BY <1>5 DEF Activate, Exposed, Rebound, Fault, TurnCalls
<1>6. CASE MarkWaiting
  BY <1>6 DEF MarkWaiting, Fault
<1>7. CASE Wake
  BY <1>7 DEF Wake
<1>8. CASE ResumeGroup
  BY <1>8 DEF ResumeGroup, Replayed, Fault
<1>9. CASE ModelEnd
  BY <1>9 DEF ModelEnd, Fault
<1>10. CASE ModelCancelled
  BY <1>10 DEF ModelCancelled
<1>11. CASE SettleCalls
  BY <1>11 DEF SettleCalls, Settle
<1>12. CASE MarkMessage
  BY <1>12 DEF MarkMessage
<1>13. CASE CheckpointCleanup
  BY <1>13 DEF CheckpointCleanup, Fault
<1>14. CASE Exit
  BY <1>14 DEF Exit
<1>15. ASSUME NEW c \in Calls, ToolSubmit(c)
      PROVE  VerdictsKept
  BY <1>15 DEF ToolSubmit, MoveTool, Execute, EndCall
<1>16. ASSUME NEW c \in Calls, ToolBind(c)
      PROVE  VerdictsKept
  BY <1>16 DEF ToolBind, MoveTool
<1>17. ASSUME NEW c \in Calls, ToolRequest(c)
      PROVE  VerdictsKept
  BY <1>17 DEF ToolRequest, MoveTool
<1>18. ASSUME NEW c \in Calls, ToolPause(c)
      PROVE  VerdictsKept
  BY <1>18 DEF ToolPause, MoveTool
<1>19. ASSUME NEW c \in Calls, ToolAbandon(c)
      PROVE  VerdictsKept
  BY <1>19 DEF ToolAbandon, MoveTool, EndCall, Fault
<1>20. ASSUME NEW c \in Calls, ToolResume(c)
      PROVE  VerdictsKept
  BY <1>20 DEF ToolResume, MoveTool, EndCall
<1>21. ASSUME NEW c \in Calls, ToolClaim(c)
      PROVE  VerdictsKept
  BY <1>21 DEF ToolClaim, MoveTool, EndCall, Execute, ClaimedStatus, Claimable
<1>22. ASSUME NEW c \in Calls, ToolRefused(c)
      PROVE  VerdictsKept
  BY <1>22 DEF ToolRefused, MoveTool, EndCall
<1>23. ASSUME NEW c \in Calls, ToolFinish(c)
      PROVE  VerdictsKept
  BY <1>23 DEF ToolFinish, MoveTool, EndCall, Fault
<1>24. ASSUME NEW c \in Calls, OpResumeQueue(c)
      PROVE  VerdictsKept
  BY <1>24 DEF OpResumeQueue, Settle, Remaining
<1>25. ASSUME NEW c \in Calls, OpCheckActive(c)
      PROVE  VerdictsKept
  BY <1>25 DEF OpCheckActive
<1>26. ASSUME NEW c \in Calls, OpReadGroup(c)
      PROVE  VerdictsKept
  BY <1>26 DEF OpReadGroup, DecidedGroup, Bound, TurnCalls
<1>27. ASSUME NEW c \in Calls, OpBegin(c)
      PROVE  VerdictsKept
  BY <1>27 DEF OpBegin, BeginDriver
<1>28. CASE StopQueue
  BY <1>28 DEF StopQueue
<1>29. CASE StopAbort
  BY <1>29 DEF StopAbort, Settle, Abortable
<1>30. ASSUME NEW c \in Calls, StopReject(c)
      PROVE  VerdictsKept
  BY <1>30 DEF StopReject, Settle, Decidable
<1>31. CASE StopDone
  BY <1>31 DEF StopDone
<1>32. CASE RecoverRuns
  BY <1>32 DEF RecoverRuns
<1>33. CASE RecoverApprovals
  BY <1>33 DEF RecoverApprovals, Unactivated
<1>34. CASE RecoverMessages
  BY <1>34 DEF RecoverMessages
<1>35. CASE RecoverCalls
  BY <1>35 DEF RecoverCalls, Settle
<1>36. CASE RecoverResume
  BY <1>36 DEF RecoverResume, ResumeDecided, BeginDriver, Bound, TurnCalls
<1>37. ASSUME NEW t \in Turns, StartTurn(t)
      PROVE  VerdictsKept
  BY <1>37 DEF StartTurn
<1>38. ASSUME NEW t \in Turns, QueueAdvance(t)
      PROVE  VerdictsKept
  BY <1>38 DEF QueueAdvance
<1>39. ASSUME NEW t \in Turns, ReloadAgent(t)
      PROVE  VerdictsKept
  BY <1>39 DEF ReloadAgent, ResumeDecided, BeginDriver, Bound, TurnCalls
<1>40. ASSUME NEW S \in SUBSET Calls, ModelCalls(S)
      PROVE  VerdictsKept
  BY <1>40 DEF ModelCalls
<1>41. ASSUME NEW c \in Calls, NEW d \in Decided, Decide(c, d)
      PROVE  VerdictsKept
  BY <1>41 DEF Decide, Decidable
<1>42. CASE StopSession
  BY <1>42 DEF StopSession, LiveTools
<1>43. CASE Crash
  BY <1>43 DEF Crash
<1>44. CASE UNCHANGED vars
  BY <1>44 DEF vars
<1>45. CASE DriverStep
  BY <1>45, <1>1, <1>2, <1>3, <1>4, <1>5, <1>6, <1>7, <1>8, <1>9, <1>10, <1>11, <1>12, <1>13,
     <1>14 DEF DriverStep
<1>46. ASSUME NEW c \in Calls, ToolStep(c) \/ OpStep(c)
      PROVE  VerdictsKept
  BY <1>46, <1>15, <1>16, <1>17, <1>18, <1>19, <1>20, <1>21, <1>22, <1>23, <1>24, <1>25, <1>26,
     <1>27
  DEF ToolStep, OpStep
<1>47. CASE StopStep \/ RecoveryStep
  BY <1>47, <1>28, <1>29, <1>30, <1>31, <1>32, <1>33, <1>34, <1>35, <1>36
  DEF StopStep, RecoveryStep
<1> QED
  BY <1>37, <1>38, <1>39, <1>40, <1>41, <1>42, <1>43, <1>44, <1>45, <1>46, <1>47
  DEF Next

\* A verdict, once given, stays: of a run, of an approval, of an execution.
THEOREM VerdictsAreFinal == Spec => VerdictsFinal
<1>1. IInv /\ [Next]_vars => [VerdictsKept]_vars
  BY VerdictsStep
<1> QED
  BY <1>1, InductiveInvariant, PTL DEF Spec, VerdictsFinal

---------------------------------------------------------------------------
(* The promise of OperationGate *)

\* A step that leaves what the gate of a call depends on leaves the gate.
LEMMA GateUnmoved == UNCHANGED <<run, approval, execs>> => UNCHANGED gateOf
BY DEF gateOf, GateOf, Terminal

\* The gate of every call, in every state the invariant allows.
LEMMA GateOfCall ==
  ASSUME IInv, NEW c \in Calls
  PROVE  /\ execs[c] > 0 => GateOf(c) = "started"
         /\ GateOf(c) = "idle" <=> run[c] = "none"
         /\ GateOf(c) = "asked" <=> run[c] = "approval_required" /\ approval[c] \in {"none", "preparing", "pending"}
         /\ GateOf(c) = "granted" <=> run[c] = "approval_required" /\ approval[c] = "approved"
BY DEF IInv, Story, CallStory, ExecutedOnce, TypeOK, StoreTypes, GateOf, Terminal, TerminalRun,
       RunStatus, ApprovalStatus, Decided

\* A step that touches the record of one call moves the gate of that call only.
LEMMA GateOfOthers ==
  ASSUME NEW c \in Calls,
         \A x \in Calls \ {c} : run'[x] = run[x] /\ approval'[x] = approval[x] /\ execs'[x] = execs[x]
  PROVE  gateOf' = [gateOf EXCEPT ![c] = GateOf(c)']
<1>1. \A x \in Calls \ {c} : GateOf(x)' = GateOf(x)
  BY DEF GateOf, Terminal
<1>2. gateOf = [x \in Calls |-> GateOf(x)] /\ gateOf' = [x \in Calls |-> GateOf(x)']
  BY DEF gateOf
<1> QED
  BY <1>1, <1>2

\* Every step asks, grants, refuses or starts an operation the way OperationGate
\* allows, or leaves its gate alone.
LEMMA GateStep == IInv /\ [Next]_vars => [Gate!GateNext]_gateOf
<1> SUFFICES ASSUME IInv, [Next]_vars PROVE [Gate!GateNext]_gateOf
  OBVIOUS
<1> USE DEF store, driver, queued, tools, handler, budget
<1>types. run \in [Calls -> RunStatus] /\ approval \in [Calls -> ApprovalStatus] /\ execs \in [Calls -> Nat]
  BY DEF IInv, TypeOK, StoreTypes
<1>gates. gateOf = [c \in Calls |-> GateOf(c)] /\ gateOf' = [c \in Calls |-> GateOf(c)']
  BY DEF gateOf
<1>1. CASE BeginTurn
  BY <1>1, GateUnmoved DEF BeginTurn
<1>2. CASE BeginResume
  BY <1>2, GateUnmoved DEF BeginResume, Replayed
<1>3. CASE Interrupt
  BY <1>3, GateUnmoved DEF Interrupt, Paused, TurnCalls
<1>4. CASE RegisterPause
  BY <1>4, GateUnmoved DEF RegisterPause
<1>5. CASE Activate
  <2>1. \A c \in Calls : GateOf(c)' = GateOf(c)
    BY <1>5, <1>types DEF Activate, Exposed, Rebound, Fault, TurnCalls, GateOf, Terminal,
       TerminalRun
  <2> QED
    BY <2>1, <1>gates
<1>6. CASE MarkWaiting
  BY <1>6, GateUnmoved DEF MarkWaiting, Fault
<1>7. CASE Wake
  BY <1>7, GateUnmoved DEF Wake
<1>8. CASE ResumeGroup
  BY <1>8, GateUnmoved DEF ResumeGroup, Replayed, Fault
<1>9. CASE ModelEnd
  BY <1>9, GateUnmoved DEF ModelEnd, Fault
<1>10. CASE ModelCancelled
  BY <1>10, GateUnmoved DEF ModelCancelled
<1>11. CASE SettleCalls
  BY <1>11, GateUnmoved DEF SettleCalls, Settle
<1>12. CASE MarkMessage
  BY <1>12, GateUnmoved DEF MarkMessage
<1>13. CASE CheckpointCleanup
  BY <1>13, GateUnmoved DEF CheckpointCleanup, Fault
<1>14. CASE Exit
  BY <1>14, GateUnmoved DEF Exit
<1>15. ASSUME NEW c \in Calls, ToolSubmit(c)
      PROVE  [Gate!GateNext]_gateOf
  <2>1. gateOf' = [gateOf EXCEPT ![c] = GateOf(c)']
    BY <1>15, <1>types, GateOfOthers DEF ToolSubmit, MoveTool, Execute, EndCall
  <2>2. GateOf(c) = "idle"
    BY <1>15, GateOfCall DEF ToolSubmit, MoveTool, Execute, EndCall, IInv, Story, CallStory,
       ToolKnowsRun
  <2>3. GateOf(c)' \in {"started", "refused", "asked"}
    BY <1>15, <1>types DEF ToolSubmit, MoveTool, Execute, EndCall, GateOf, Terminal, TerminalRun,
       IInv, Story, CallStory, ToolKnowsRun, ExecutedOnce
  <2> QED
    BY <2>1, <2>2, <2>3, <1>gates DEF Gate!GateNext, Gate!Ask, Gate!Bypass
<1>16. ASSUME NEW c \in Calls, ToolBind(c)
      PROVE  [Gate!GateNext]_gateOf
  BY <1>16, GateUnmoved DEF ToolBind, MoveTool
<1>17. ASSUME NEW c \in Calls, ToolRequest(c)
      PROVE  [Gate!GateNext]_gateOf
  <2>1. gateOf' = [gateOf EXCEPT ![c] = GateOf(c)']
    BY <1>17, <1>types, GateOfOthers DEF ToolRequest, MoveTool
  <2>2. GateOf(c)' = GateOf(c)
    BY <1>17, <1>types DEF ToolRequest, MoveTool, GateOf, Terminal, TerminalRun, Decided, IInv,
       Story, CallStory, ToolKnowsRun
  <2> QED
    BY <2>1, <2>2, <1>gates
<1>18. ASSUME NEW c \in Calls, ToolPause(c)
      PROVE  [Gate!GateNext]_gateOf
  BY <1>18, GateUnmoved DEF ToolPause, MoveTool
<1>19. ASSUME NEW c \in Calls, ToolAbandon(c)
      PROVE  [Gate!GateNext]_gateOf
  BY <1>19, GateUnmoved DEF ToolAbandon, MoveTool, EndCall, Fault
<1>20. ASSUME NEW c \in Calls, ToolResume(c)
      PROVE  [Gate!GateNext]_gateOf
  BY <1>20, GateUnmoved DEF ToolResume, MoveTool, EndCall
<1>21. ASSUME NEW c \in Calls, ToolClaim(c)
      PROVE  [Gate!GateNext]_gateOf
  <2>1. gateOf' = [gateOf EXCEPT ![c] = GateOf(c)']
    BY <1>21, <1>types, GateOfOthers DEF ToolClaim, MoveTool, EndCall, Execute, ClaimedStatus,
       Claimable
  <2>1a. CASE c \notin killed /\ Claimable(c)
    <3>1. GateOf(c) = "granted"
      BY <2>1a, GateOfCall DEF Claimable
    <3>2. GateOf(c)' = "started"
      BY <2>1a, <1>21, <1>types DEF ToolClaim, MoveTool, EndCall, Execute, ClaimedStatus,
         Claimable, GateOf
    <3> QED
      BY <2>1, <3>1, <3>2, <1>gates DEF Gate!GateNext, Gate!Start
  <2>1b. CASE ~(c \notin killed /\ Claimable(c))
    BY <2>1b, <1>21, GateUnmoved DEF ToolClaim, MoveTool, EndCall, Execute, ClaimedStatus, Claimable
  <2> QED
    BY <2>1a, <2>1b
<1>22. ASSUME NEW c \in Calls, ToolRefused(c)
      PROVE  [Gate!GateNext]_gateOf
  BY <1>22, GateUnmoved DEF ToolRefused, MoveTool, EndCall
<1>23. ASSUME NEW c \in Calls, ToolFinish(c)
      PROVE  [Gate!GateNext]_gateOf
  <2>1. gateOf' = [gateOf EXCEPT ![c] = GateOf(c)']
    BY <1>23, <1>types, GateOfOthers DEF ToolFinish, MoveTool, EndCall, Fault
  <2>2. run'[c] \in TerminalRun \/ run' = run
    BY <1>23, <1>types DEF ToolFinish, MoveTool, EndCall, Fault, TerminalRun
  <2>3. GateOf(c)' = GateOf(c) \/ (GateOf(c) = "granted" /\ GateOf(c)' = "refused")
    <3>1. approval' = approval /\ execs' = execs
      BY <1>23 DEF ToolFinish, MoveTool, EndCall, Fault
    <3>2. CASE run' = run
      BY <3>1, <3>2 DEF GateOf, Terminal
    <3>3. CASE execs[c] > 0
      BY <3>1, <3>3 DEF GateOf
    <3>4. CASE run'[c] \in TerminalRun /\ ~(execs[c] > 0)
      <4>1. approval[c] \in Decided /\ run[c] \notin {"none", "running"}
        BY <1>23, <3>4 DEF ToolFinish, MoveTool, EndCall, Fault, IInv, Story, CallStory,
           ToolKnowsRun, ExecutedOnce, Decided
      <4>2. GateOf(c)' = "refused"
        BY <3>1, <3>4 DEF GateOf, Terminal
      <4>3. GateOf(c) \in {"refused", "granted"}
        BY <3>4, <4>1 DEF GateOf, Terminal, Decided
      <4> QED
        BY <4>2, <4>3
    <3> QED
      BY <2>2, <3>2, <3>3, <3>4
  <2>4. Gate!Refuse({c}) => Gate!GateNext
    BY DEF Gate!GateNext
  <2>5. GateOf(c) = "granted" /\ GateOf(c)' = "refused" => Gate!Refuse({c})
    BY <2>1, <1>gates DEF Gate!Refuse
  <2> QED
    BY <2>1, <2>3, <2>4, <2>5, <1>gates
<1>24. ASSUME NEW c \in Calls, OpResumeQueue(c)
      PROVE  [Gate!GateNext]_gateOf
  BY <1>24, GateUnmoved DEF OpResumeQueue, Settle, Remaining
<1>25. ASSUME NEW c \in Calls, OpCheckActive(c)
      PROVE  [Gate!GateNext]_gateOf
  BY <1>25, GateUnmoved DEF OpCheckActive
<1>26. ASSUME NEW c \in Calls, OpReadGroup(c)
      PROVE  [Gate!GateNext]_gateOf
  BY <1>26, GateUnmoved DEF OpReadGroup, DecidedGroup, Bound, TurnCalls
<1>27. ASSUME NEW c \in Calls, OpBegin(c)
      PROVE  [Gate!GateNext]_gateOf
  BY <1>27, GateUnmoved DEF OpBegin, BeginDriver
<1>28. CASE StopQueue
  BY <1>28, GateUnmoved DEF StopQueue
<1>29. CASE StopAbort
  <2> DEFINE Swept == {c \in Abortable : GateOf(c) \in {"asked", "granted"}}
  <2>1. \A c \in Calls : GateOf(c)' = IF c \in Swept THEN "refused" ELSE GateOf(c)
    <3> SUFFICES ASSUME NEW c \in Calls PROVE GateOf(c)' = IF c \in Swept THEN "refused" ELSE GateOf(c)
      OBVIOUS
    <3>1. CASE c \notin Abortable
      BY <3>1, <1>29, <1>types DEF StopAbort, Settle, Abortable, GateOf, Terminal
    <3>2. CASE c \in Abortable
      BY <3>2, <1>29, <1>types, GateOfCall
      DEF StopAbort, Settle, Abortable, GateOf, Terminal, TerminalRun, RunStatus, IInv, Story,
         CallStory, ExecutedOnce
    <3> QED
      BY <3>1, <3>2
  <2>2. CASE Swept = {}
    BY <2>1, <2>2, <1>gates
  <2>3. CASE Swept # {}
    <3>1. Swept \in SUBSET Calls
      BY DEF Abortable
    <3>2. Gate!Refuse(Swept)
      BY <2>1, <2>3, <3>1, <1>gates DEF Gate!Refuse
    <3> QED
      BY <3>1, <3>2 DEF Gate!GateNext
  <2> QED
    BY <2>2, <2>3
<1>30. ASSUME NEW c \in Calls, StopReject(c)
      PROVE  [Gate!GateNext]_gateOf
  <2>1. gateOf' = [gateOf EXCEPT ![c] = GateOf(c)']
    BY <1>30, <1>types, GateOfOthers DEF StopReject, Settle, Decidable
  <2>2. GateOf(c) = "asked" /\ GateOf(c)' = "refused"
    BY <1>30, <1>types, GateOfCall DEF StopReject, Settle, Decidable, GateOf, Terminal,
       TerminalRun, IInv, Story, CallStory, ExecutedOnce
  <2>3. Gate!Refuse({c})
    BY <2>1, <2>2, <1>gates DEF Gate!Refuse
  <2> QED
    BY <2>3 DEF Gate!GateNext
<1>31. CASE StopDone
  BY <1>31, GateUnmoved DEF StopDone
<1>32. CASE RecoverRuns
  <2>1. \A c \in Calls : GateOf(c)' = GateOf(c)
    BY <1>32, <1>types DEF RecoverRuns, GateOf, Terminal, TerminalRun, IInv, Story, CallStory,
       ExecutedOnce
  <2> QED
    BY <2>1, <1>gates
<1>33. CASE RecoverApprovals
  <2> DEFINE Swept == {c \in Unactivated : GateOf(c) \in {"asked", "granted"}}
  <2>1. \A c \in Calls : GateOf(c)' = IF c \in Swept THEN "refused" ELSE GateOf(c)
    <3> SUFFICES ASSUME NEW c \in Calls PROVE GateOf(c)' = IF c \in Swept THEN "refused" ELSE GateOf(c)
      OBVIOUS
    <3>1. CASE c \notin Unactivated
      BY <3>1, <1>33, <1>types DEF RecoverApprovals, Unactivated, GateOf, Terminal
    <3>2. CASE c \in Unactivated
      BY <3>2, <1>33, <1>types, GateOfCall
      DEF RecoverApprovals, Unactivated, GateOf, Terminal, TerminalRun, RunStatus, IInv, Story,
         CallStory, ExecutedOnce
    <3> QED
      BY <3>1, <3>2
  <2>2. CASE Swept = {}
    BY <2>1, <2>2, <1>gates
  <2>3. CASE Swept # {}
    <3>1. Swept \in SUBSET Calls
      BY DEF Unactivated
    <3>2. Gate!Refuse(Swept)
      BY <2>1, <2>3, <3>1, <1>gates DEF Gate!Refuse
    <3> QED
      BY <3>1, <3>2 DEF Gate!GateNext
  <2> QED
    BY <2>2, <2>3
<1>34. CASE RecoverMessages
  BY <1>34, GateUnmoved DEF RecoverMessages
<1>35. CASE RecoverCalls
  BY <1>35, GateUnmoved DEF RecoverCalls, Settle
<1>36. CASE RecoverResume
  BY <1>36, GateUnmoved DEF RecoverResume, ResumeDecided, BeginDriver, Bound, TurnCalls
<1>37. ASSUME NEW t \in Turns, StartTurn(t)
      PROVE  [Gate!GateNext]_gateOf
  BY <1>37, GateUnmoved DEF StartTurn
<1>38. ASSUME NEW t \in Turns, QueueAdvance(t)
      PROVE  [Gate!GateNext]_gateOf
  BY <1>38, GateUnmoved DEF QueueAdvance
<1>39. ASSUME NEW t \in Turns, ReloadAgent(t)
      PROVE  [Gate!GateNext]_gateOf
  BY <1>39, GateUnmoved DEF ReloadAgent, ResumeDecided, BeginDriver, Bound, TurnCalls
<1>40. ASSUME NEW S \in SUBSET Calls, ModelCalls(S)
      PROVE  [Gate!GateNext]_gateOf
  BY <1>40, GateUnmoved DEF ModelCalls
<1>41. ASSUME NEW c \in Calls, NEW d \in Decided, Decide(c, d)
      PROVE  [Gate!GateNext]_gateOf
  <2>1. gateOf' = [gateOf EXCEPT ![c] = GateOf(c)']
    BY <1>41, <1>types, GateOfOthers DEF Decide, Decidable
  <2>2. GateOf(c) = "asked" \/ GateOf(c) = "refused"
    BY <1>41, <1>types, GateOfCall
    DEF Decide, Decidable, GateOf, Terminal, TerminalRun, RunStatus, IInv, Story, CallStory,
       ExecutedOnce
  <2>3. GateOf(c) = "refused" => GateOf(c)' = "refused"
    BY <1>41, <1>types DEF Decide, Decidable, GateOf, Terminal, TerminalRun, IInv, Story,
       CallStory, ExecutedOnce, Decided
  <2>4. GateOf(c) = "asked" => GateOf(c)' \in {"granted", "refused"}
    BY <1>41, <1>types, GateOfCall
    DEF Decide, Decidable, GateOf, Terminal, TerminalRun, IInv, Story, CallStory, ExecutedOnce,
       Decided
  <2>5. GateOf(c) = "asked" /\ GateOf(c)' = "granted" => Gate!Grant(c)
    BY <2>1, <1>gates DEF Gate!Grant
  <2>6. GateOf(c) = "asked" /\ GateOf(c)' = "refused" => Gate!Refuse({c})
    BY <2>1, <1>gates DEF Gate!Refuse
  <2> QED
    BY <2>1, <2>2, <2>3, <2>4, <2>5, <2>6, <1>gates DEF Gate!GateNext
<1>42. CASE StopSession
  BY <1>42, GateUnmoved DEF StopSession, LiveTools
<1>43. CASE Crash
  BY <1>43, GateUnmoved DEF Crash
<1>44. CASE UNCHANGED vars
  BY <1>44, GateUnmoved DEF vars
<1>45. CASE DriverStep
  BY <1>45, <1>1, <1>2, <1>3, <1>4, <1>5, <1>6, <1>7, <1>8, <1>9, <1>10, <1>11, <1>12, <1>13,
     <1>14 DEF DriverStep
<1>46. ASSUME NEW c \in Calls, ToolStep(c) \/ OpStep(c)
      PROVE  [Gate!GateNext]_gateOf
  BY <1>46, <1>15, <1>16, <1>17, <1>18, <1>19, <1>20, <1>21, <1>22, <1>23, <1>24, <1>25, <1>26,
     <1>27
  DEF ToolStep, OpStep
<1>47. CASE StopStep \/ RecoveryStep
  BY <1>47, <1>28, <1>29, <1>30, <1>31, <1>32, <1>33, <1>34, <1>35, <1>36
  DEF StopStep, RecoveryStep
<1> QED
  BY <1>37, <1>38, <1>39, <1>40, <1>41, <1>42, <1>43, <1>44, <1>45, <1>46, <1>47
  DEF Next

\* The machinery of approvals, pauses, checkpoints and restarts implements the
\* promise of OperationGate, for any number of calls, turns, crashes and stops.
THEOREM KeepsOperationGate == Spec => KeepsGate
<1>1. Init => Gate!GateInit
  BY DEF Init, Gate!GateInit, gateOf, GateOf, Terminal, TerminalRun
<1>2. IInv /\ [Next]_vars => [Gate!GateNext]_gateOf
  BY GateStep
<1> QED
  BY <1>1, <1>2, InductiveInvariant, PTL DEF Spec, KeepsGate, Gate!GateSpec

---------------------------------------------------------------------------
(* The operations of a turn that pauses are one group: they are shown      *)
(* together, resumed together, and can be carried out while they are       *)
(* shown; the driver that waits for them wakes; and the conversation is    *)
(* free again when nothing is left to decide.                              *)
(*                                                                         *)
(* Who holds the group differs from place to place: the tools, while the   *)
(* model's answer is worked on; the checkpoint, once they have paused; the *)
(* driver and the queue, while it waits; the bound interrupts, for those   *)
(* who decide and for the next process.  The invariant says that these     *)
(* agree, or that the turn has failed and nothing will resume it.          *)

Handling == {"interrupted", "registered", "activated", "waiting", "woken"}
Ending   == {"settle", "message", "checkpoint"}
Away(t)  == turn = t => pc \in {"begun", "exit"}
Stopping == stop \in {"cancelled", "cleared", "aborted"}

\* The queue has a driver exactly while it exists; an idle one has no turn; clearing the
\* queue cancels, and nothing runs before the recovery is over.
QueueStory ==
  /\ queue = "none" <=> pc = "idle"
  /\ pc = "idle" => turn = NoTurn /\ outcome = "none" /\ ~cancelled
  /\ queue = "cleared" \/ outcome = "cancelled" => cancelled
  /\ server # "up" => pc = "idle" /\ stop = "idle"
RestStory(c) == server # "up" => tool[c] = "idle" /\ op[c] = "idle"

\* The status of the message tells how far its turn is.
OutcomeStory ==
  /\ pc = "model" \/ pc \in Handling => outcome = "none"
  /\ pc \in Ending => outcome # "none"
MessageStory ==
  /\ pc \in {"model", "settle", "message"} \/ pc \in Handling => msg[turn] \in {"pending", "waiting_for_approval"}
  /\ pc = "checkpoint" => msg[turn] = IF outcome \in {"ok", "steered"} THEN "completed" ELSE "failed"
  /\ pc = "begun" /\ group = {} => msg[turn] = "none"
UnmadeStory(t) == msg[t] = "none" => \A c \in Calls : turnOf[c] # t

\* A tool that is not at rest belongs to the turn of the driver, or its turn has failed;
\* otherwise it has paused, and the checkpoint of its turn holds it.
Kept(c) == tool[c] = "paused" /\ c \in saved[turnOf[c]]
ToolStory(c) ==
  tool[c] \notin {"idle", "done"} =>
    \/ turn = turnOf[c] /\ pc = "model"
    \/ turn = turnOf[c] /\ pc \in Handling /\ Kept(c)
    \/ turn = turnOf[c] /\ pc \in Ending /\ (outcome = "cancelled" \/ (outcome = "error" /\ Kept(c)))
    \/ Away(turnOf[c]) /\ (msg[turnOf[c]] = "failed" \/ Kept(c))

\* The group the driver handles is what the checkpoint holds.
PauseStory == pc \in Handling => group = saved[turn] /\ group # {} /\ \A c \in group : tool[c] = "paused"

\* Where an approval is, by the places of its call.
ApprovalStory(c) ==
  /\ approval[c] \in {"preparing", "pending"} => run[c] = "approval_required"
  /\ approval[c] = "preparing" => tool[c] \in {"requested", "paused"} \/ server \in {"runs", "approvals"}
  /\ approval[c] = "pending" => c \in bound
  /\ c \in bound => approval[c] \in {"pending", "approved", "rejected"}
  /\ tool[c] \in {"requested", "paused"} => approval[c] # "none"
  /\ \A t \in Turns : c \in saved[t] => approval[c] # "none"
  /\ approval[c] # "none" \/ (tool[c] = "bound" /\ c \notin killed) => c \in linked

\* What is pending is in the checkpoint, until its turn has ended.
SavedStory(c) ==
  approval[c] = "pending" =>
    c \in saved[turnOf[c]] \/ (Away(turnOf[c]) /\ msg[turnOf[c]] \in {"completed", "failed"})

\* A checkpoint holds the group that was activated last, or one that was not yet.
GroupStory(t) == saved[t] = {} \/ saved[t] = Bound(t) \/ \A c \in saved[t] : approval[c] = "preparing"

\* In the model: what asks is new, or it is the checkpoint that was replayed for the
\* decisions of an earlier group, and then nothing else moves.
Asking(t) == {c \in TurnCalls(t) : tool[c] \in {"requested", "paused"}}
ModelStory ==
  pc = "model" =>
    /\ \/ \A c \in Asking(turn) : approval[c] = "preparing"
       \/ /\ Asking(turn) = saved[turn]
          /\ \A c \in TurnCalls(turn) : tool[c] \in {"requested", "paused", "idle", "done"}
    /\ \A c \in TurnCalls(turn) : approval[c] = "pending" => c \in Asking(turn)

\* No call of a turn starts while a decision of the turn is pending.
StartStory ==
  \A c, d \in Calls : turnOf[c] = turnOf[d] /\ tool[d] \in {"started", "created", "bound"} => approval[c] # "pending"

\* Until a group is decided, nothing of it has been carried out.
Answered(c) == \/ approval[c] \in {"pending", "approved"} /\ run[c] = "approval_required"
               \/ approval[c] = "rejected" /\ run[c] = "rejected"
UndecidedStory(t) == AllDecided(Bound(t)) \/ \A c \in Bound(t) : Answered(c)

\* What a handler has read to start a driver with was decided, and stays it; a later group
\* of the turn has none of it.
GroupRead(t, S) == S # {} /\ S \subseteq TurnCalls(t) /\ AllDecided(S) /\ (S = Bound(t) \/ S \cap Bound(t) = {})
DriverRead  == pc = "begun" /\ group # {} => GroupRead(turn, group)
HandlerRead == \A c \in Calls : op[c] = "begin" => GroupRead(turnOf[c], opGroup[c])
BoundStory  == pc \in {"activated", "waiting", "woken"} => Bound(turn) = group

\* A turn with a pending decision may be retained.
ResumableStory ==
  /\ pc \in {"registered", "activated", "waiting", "woken"} => resumable
  /\ pc = "model" \/ pc \in Handling \/ pc \in Ending =>
       \A c \in TurnCalls(turn) : approval[c] = "pending" => resumable /\ outcome \notin {"ok", "steered"}

GroupsStory ==
  /\ QueueStory /\ OutcomeStory /\ MessageStory /\ PauseStory /\ ModelStory /\ StartStory
  /\ DriverRead /\ HandlerRead /\ BoundStory /\ ResumableStory
  /\ GroupExposedTogether /\ ResumedWhenDecided
  /\ \A c \in Calls : RestStory(c) /\ ToolStory(c) /\ ApprovalStory(c) /\ SavedStory(c)
  /\ \A t \in Turns : UnmadeStory(t) /\ GroupStory(t) /\ UndecidedStory(t)

GroupsInv == IInv /\ GroupsStory

\* A stop handler settles what it cancels before it ends; so, unless the process dies under
\* one, what is pending outside of it is in a checkpoint, and its turn is not cancelled.
StopStory == stops = 0 => stop = "idle"
Uncut(c) ==
  (stops = 0 \/ crashes = 0) /\ ~Stopping /\ approval[c] = "pending" =>
    c \in saved[turnOf[c]] /\ ~(turn = turnOf[c] /\ cancelled)

\* A call that is not settled is being worked on, awaits a decision, or is about to be
\* settled by the handler that rejected it or by the recovery.
BusyStory(c) ==
  /\ turnOf[c] # NoTurn => call[c] # "none"
  /\ op[c] # "idle" => approval[c] \in Decided
  /\ call[c] \in {"running", "approval_required"} =>
       \/ tool[c] \notin {"idle", "requested", "paused", "done"}
       \/ run[c] = "approval_required"
       \/ run[c] = "rejected" /\ op[c] = "decided"
       \/ server \in {"runs", "approvals", "messages", "calls"}

\* While nothing was stopped and nothing failed, at most the process crashed.
Calm == stops = 0 /\ faults = 0
CalmFlags == Calm => ~cancelled /\ killed = {}

\* A turn that waits and has no driver is untouched, and whoever read its group read the
\* one that is bound.
CalmAway(t) ==
  Calm /\ msg[t] \in {"pending", "waiting_for_approval"} /\ Away(t) =>
    /\ pc = "exit" => turn # t
    /\ turn = t /\ group # {} => group = Bound(t)
    /\ \A c \in TurnCalls(t) : tool[c] = "idle" /\ (op[c] = "begin" => opGroup[c] = Bound(t))

\* What asks is always new.
CalmAsking ==
  /\ Calm /\ pc = "model" => \A c \in Asking(turn) : approval[c] = "preparing"
  /\ Calm /\ pc \in {"interrupted", "registered"} => \A c \in group : approval[c] = "preparing"

\* The pause is the part of the group whose decisions the queue has not heard of.
CalmPause ==
  /\ Calm /\ pc = "registered" => paused = group /\ ~woken
  /\ Calm /\ pc \in {"activated", "waiting"} =>
       /\ paused \subseteq group
       /\ \A c \in group : IF c \in paused THEN approval[c] \in Decided => op[c] = "decided"
                                          ELSE approval[c] \in Decided
       /\ woken <=> paused = {}
  /\ Calm /\ pc = "woken" => AllDecided(group)

CalmEnd == Calm /\ pc \in Ending /\ outcome = "error" => saved[turn] = {}

TurnStory ==
  /\ StopStory /\ CalmFlags /\ CalmAsking /\ CalmPause /\ CalmEnd
  /\ \A c \in Calls : Uncut(c) /\ BusyStory(c)
  /\ \A t \in Turns : CalmAway(t)

TurnInv == GroupsInv /\ TurnStory

---------------------------------------------------------------------------

\* What a restart or a reload reads is a decided group.
LEMMA ResumeReads ==
  \A t \in Turns : ResumeDecided(t) =>
    GroupRead(t, Bound(t)) /\ Bound(t) # {} /\ pc = "idle" /\ queue = "none"
  BY DEF ResumeDecided, Resumable, BeginDriver, GroupRead, Bound, TurnCalls

\* A call no turn has made has no history.
LEMMA Fresh ==
  ASSUME GroupsInv
  PROVE  /\ NoTurn \notin Turns
         /\ \A c \in Calls : turnOf[c] \notin Turns =>
              turnOf[c] = NoTurn /\ run[c] = "none" /\ approval[c] = "none" /\ tool[c] = "idle" /\ op[c] = "idle"
  BY NoTurnAssumption DEF GroupsInv, IInv, TypeOK, StoreTypes, Story, CallStory, FreshIsUntouched

\* The queue and its driver.
LEMMA QueueStep == GroupsInv /\ [Next]_vars => QueueStory'
<1> SUFFICES ASSUME GroupsInv, [Next]_vars PROVE QueueStory'
  OBVIOUS
<1> USE DEF store, driver, queued, tools, handler, budget, QueueStory
<1>given. QueueStory /\ (\A c \in Calls : RestStory(c))
  BY DEF GroupsInv, GroupsStory
<1>types. cancelled \in BOOLEAN /\ queue \in {"none", "open", "cleared"} /\ DriverHasTurn
  BY DEF GroupsInv, IInv, TypeOK, StoreTypes, ProcessTypes, FlagTypes, Story, CallStory
<1>1. CASE BeginTurn
  BY <1>1, <1>given, <1>types DEF BeginTurn
<1>2. CASE BeginResume
  BY <1>2, <1>given, <1>types DEF BeginResume, Replayed, HasCheckpoint
<1>3. CASE Interrupt
  BY <1>3, <1>given, <1>types DEF Interrupt, Paused, TurnCalls, AtRest
<1>4. CASE RegisterPause
  BY <1>4, <1>given, <1>types DEF RegisterPause
<1>5. CASE Activate
  BY <1>5, <1>given, <1>types DEF Activate, Exposed, Rebound, Fault, TurnCalls
<1>6. CASE MarkWaiting
  BY <1>6, <1>given, <1>types DEF MarkWaiting, Fault
<1>7. CASE Wake
  BY <1>7, <1>given, <1>types DEF Wake, Awake
<1>8. CASE ResumeGroup
  BY <1>8, <1>given, <1>types DEF ResumeGroup, Replayed, Fault, AllDecided
<1>9. CASE ModelEnd
  BY <1>9, <1>given, <1>types DEF ModelEnd, Fault, AtRest, Paused, TurnCalls
<1>10. CASE ModelCancelled
  BY <1>10, <1>given, <1>types DEF ModelCancelled
<1>11. CASE SettleCalls
  BY <1>11, <1>given, <1>types DEF SettleCalls, Settle, Unfinished
<1>12. CASE MarkMessage
  BY <1>12, <1>given, <1>types DEF MarkMessage
<1>13. CASE CheckpointCleanup
  BY <1>13, <1>given, <1>types DEF CheckpointCleanup, Fault
<1>14. CASE Exit
  BY <1>14, <1>given, <1>types DEF Exit
<1>15. ASSUME NEW c \in Calls, OpBegin(c)
      PROVE  QueueStory'
  BY <1>15, <1>given, <1>types DEF OpBegin, BeginDriver, RestStory
<1>16. CASE StopQueue
  BY <1>16, <1>given, <1>types DEF StopQueue
<1>17. CASE StopAbort
  BY <1>17, <1>given, <1>types DEF StopAbort, Settle, Abortable
<1>18. CASE StopDone
  BY <1>18, <1>given, <1>types DEF StopDone
<1>19. CASE RecoverRuns
  BY <1>19, <1>given, <1>types DEF RecoverRuns
<1>20. CASE RecoverApprovals
  BY <1>20, <1>given, <1>types DEF RecoverApprovals, Unactivated, TurnCalls
<1>21. CASE RecoverMessages
  BY <1>21, <1>given, <1>types DEF RecoverMessages
<1>22. CASE RecoverCalls
  BY <1>22, <1>given, <1>types DEF RecoverCalls, Settle
<1>23. CASE RecoverResume
  BY <1>23, <1>given, <1>types DEF RecoverResume, ResumeDecided, BeginDriver
<1>24. ASSUME NEW t \in Turns, StartTurn(t)
      PROVE  QueueStory'
  BY <1>24, <1>given, <1>types DEF StartTurn
<1>25. ASSUME NEW t \in Turns, QueueAdvance(t)
      PROVE  QueueStory'
  BY <1>25, <1>given, <1>types DEF QueueAdvance
<1>26. ASSUME NEW t \in Turns, ReloadAgent(t)
      PROVE  QueueStory'
  BY <1>26, <1>given, <1>types DEF ReloadAgent, ResumeDecided, BeginDriver
<1>27. CASE StopSession
  BY <1>27, <1>given, <1>types DEF StopSession, SessionActive, LiveTools
<1>28. CASE Crash
  BY <1>28, <1>given, <1>types DEF Crash
<1>29. CASE \/ (\E c \in Calls : ToolSubmit(c))
           \/ (\E c \in Calls : ToolBind(c))
           \/ (\E c \in Calls : ToolRequest(c))
           \/ (\E c \in Calls : ToolPause(c))
           \/ (\E c \in Calls : ToolAbandon(c))
           \/ (\E c \in Calls : ToolResume(c))
           \/ (\E c \in Calls : ToolClaim(c))
           \/ (\E c \in Calls : ToolRefused(c))
           \/ (\E c \in Calls : ToolFinish(c))
           \/ (\E c \in Calls : OpResumeQueue(c))
           \/ (\E c \in Calls : OpCheckActive(c))
           \/ (\E c \in Calls : OpReadGroup(c))
           \/ (\E c \in Calls : StopReject(c))
           \/ (\E S \in SUBSET Calls : ModelCalls(S))
           \/ (\E c \in Calls, d \in Decided : Decide(c, d))
  <2>1. UNCHANGED <<queue, pc, turn, outcome, cancelled, server, stop>>
    BY <1>29
      DEF ToolSubmit, MoveTool, Execute, EndCall, ToolBind, ToolRequest, ToolPause, ToolAbandon,
          Fault, ToolResume, ToolClaim, ClaimedStatus, Claimable, ToolRefused, ToolFinish,
          OpResumeQueue, Settle, Remaining, OpCheckActive, OpReadGroup, DecidedGroup, StopReject,
          Decidable, ModelCalls, Decide
  <2> QED
    BY <2>1, <1>given
<1>30. CASE UNCHANGED vars
  BY <1>30, <1>given DEF vars
<1> QED
  BY <1>1, <1>2, <1>3, <1>4, <1>5, <1>6, <1>7, <1>8, <1>9, <1>10, <1>11, <1>12, <1>13, <1>14,
       <1>15, <1>16, <1>17, <1>18, <1>19, <1>20, <1>21, <1>22, <1>23, <1>24, <1>25, <1>26, <1>27,
       <1>28, <1>29, <1>30
  DEF Next, DriverStep, ToolStep, OpStep, StopStep, RecoveryStep

\* Before the recovery is over nothing runs.
LEMMA RestStep == GroupsInv /\ [Next]_vars => \A x \in Calls : RestStory(x)'
<1> SUFFICES ASSUME GroupsInv, [Next]_vars, NEW x \in Calls PROVE RestStory(x)'
  OBVIOUS
<1> USE DEF store, driver, queued, tools, handler, budget, RestStory, QueueStory
<1>given. QueueStory /\ (\A c \in Calls : RestStory(c))
  BY DEF GroupsInv, GroupsStory
<1>types. tool \in [Calls -> ToolPlace] /\ op \in [Calls -> HandlerPlace]
  BY DEF GroupsInv, IInv, TypeOK, StoreTypes, ProcessTypes, FlagTypes, Story, CallStory
<1>1. CASE BeginResume
  BY <1>1, <1>given, <1>types DEF BeginResume, Replayed, HasCheckpoint
<1>2. CASE ResumeGroup
  BY <1>2, <1>given, <1>types DEF ResumeGroup, Replayed, Fault, AllDecided
<1>3. ASSUME NEW c \in Calls, ToolSubmit(c)
      PROVE  RestStory(x)'
  BY <1>3, <1>given, <1>types DEF ToolSubmit, MoveTool, Execute, EndCall
<1>4. ASSUME NEW c \in Calls, ToolBind(c)
      PROVE  RestStory(x)'
  BY <1>4, <1>given, <1>types DEF ToolBind, MoveTool
<1>5. ASSUME NEW c \in Calls, ToolRequest(c)
      PROVE  RestStory(x)'
  BY <1>5, <1>given, <1>types DEF ToolRequest, MoveTool
<1>6. ASSUME NEW c \in Calls, ToolPause(c)
      PROVE  RestStory(x)'
  BY <1>6, <1>given, <1>types DEF ToolPause, MoveTool
<1>7. ASSUME NEW c \in Calls, ToolAbandon(c)
      PROVE  RestStory(x)'
  BY <1>7, <1>given, <1>types DEF ToolAbandon, MoveTool, EndCall, Fault
<1>8. ASSUME NEW c \in Calls, ToolResume(c)
      PROVE  RestStory(x)'
  BY <1>8, <1>given, <1>types DEF ToolResume, MoveTool, EndCall
<1>9. ASSUME NEW c \in Calls, ToolClaim(c)
      PROVE  RestStory(x)'
  BY <1>9, <1>given, <1>types DEF ToolClaim, MoveTool, EndCall, Execute, ClaimedStatus, Claimable
<1>10. ASSUME NEW c \in Calls, ToolRefused(c)
      PROVE  RestStory(x)'
  BY <1>10, <1>given, <1>types DEF ToolRefused, MoveTool, EndCall
<1>11. ASSUME NEW c \in Calls, ToolFinish(c)
      PROVE  RestStory(x)'
  BY <1>11, <1>given, <1>types DEF ToolFinish, MoveTool, EndCall, Fault
<1>12. ASSUME NEW c \in Calls, OpResumeQueue(c)
      PROVE  RestStory(x)'
  BY <1>12, <1>given, <1>types DEF OpResumeQueue, Settle, Remaining
<1>13. ASSUME NEW c \in Calls, OpCheckActive(c)
      PROVE  RestStory(x)'
  BY <1>13, <1>given, <1>types DEF OpCheckActive
<1>14. ASSUME NEW c \in Calls, OpReadGroup(c)
      PROVE  RestStory(x)'
  BY <1>14, <1>given, <1>types DEF OpReadGroup, DecidedGroup
<1>15. ASSUME NEW c \in Calls, OpBegin(c)
      PROVE  RestStory(x)'
  BY <1>15, <1>given, <1>types DEF OpBegin, BeginDriver
<1>16. CASE RecoverRuns
  BY <1>16, <1>given, <1>types DEF RecoverRuns
<1>17. CASE RecoverApprovals
  BY <1>17, <1>given, <1>types DEF RecoverApprovals, Unactivated, TurnCalls
<1>18. CASE RecoverMessages
  BY <1>18, <1>given, <1>types DEF RecoverMessages
<1>19. CASE RecoverCalls
  BY <1>19, <1>given, <1>types DEF RecoverCalls, Settle
<1>20. CASE RecoverResume
  BY <1>20, <1>given, <1>types DEF RecoverResume, ResumeDecided, BeginDriver
<1>21. ASSUME NEW S \in SUBSET Calls, ModelCalls(S)
      PROVE  RestStory(x)'
  BY <1>21, <1>given, <1>types DEF ModelCalls
<1>22. ASSUME NEW c \in Calls, NEW d \in Decided, Decide(c, d)
      PROVE  RestStory(x)'
  BY <1>22, <1>given, <1>types DEF Decide, Decidable
<1>23. CASE Crash
  BY <1>23, <1>given, <1>types DEF Crash
<1>24. CASE \/ BeginTurn
           \/ Interrupt
           \/ RegisterPause
           \/ Activate
           \/ MarkWaiting
           \/ Wake
           \/ ModelEnd
           \/ ModelCancelled
           \/ SettleCalls
           \/ MarkMessage
           \/ CheckpointCleanup
           \/ Exit
           \/ StopQueue
           \/ StopAbort
           \/ (\E c \in Calls : StopReject(c))
           \/ StopDone
           \/ (\E t \in Turns : StartTurn(t))
           \/ (\E t \in Turns : QueueAdvance(t))
           \/ (\E t \in Turns : ReloadAgent(t))
           \/ StopSession
  <2>1. UNCHANGED <<server, tool, op>>
    BY <1>24
      DEF BeginTurn, Interrupt, Paused, TurnCalls, AtRest, RegisterPause, Activate, Exposed,
          Rebound, Fault, MarkWaiting, Wake, Awake, ModelEnd, ModelCancelled, SettleCalls, Settle,
          Unfinished, MarkMessage, CheckpointCleanup, Exit, StopQueue, StopAbort, Abortable,
          StopReject, Decidable, StopDone, StartTurn, QueueAdvance, ReloadAgent, ResumeDecided,
          BeginDriver, StopSession, SessionActive, LiveTools
  <2> QED
    BY <2>1, <1>given
<1>25. CASE UNCHANGED vars
  BY <1>25, <1>given DEF vars
<1> QED
  BY <1>1, <1>2, <1>3, <1>4, <1>5, <1>6, <1>7, <1>8, <1>9, <1>10, <1>11, <1>12, <1>13, <1>14,
       <1>15, <1>16, <1>17, <1>18, <1>19, <1>20, <1>21, <1>22, <1>23, <1>24, <1>25
  DEF Next, DriverStep, ToolStep, OpStep, StopStep, RecoveryStep

\* The outcome of a turn is set when it ends.
LEMMA OutcomeStep == GroupsInv /\ [Next]_vars => OutcomeStory'
<1> SUFFICES ASSUME GroupsInv, [Next]_vars PROVE OutcomeStory'
  OBVIOUS
<1> USE DEF store, driver, queued, tools, handler, budget, OutcomeStory, Handling, Ending
<1>given. QueueStory /\ OutcomeStory
  BY DEF GroupsInv, GroupsStory
<1>types. outcome \in Outcome /\ pc \in DriverPlace
  BY DEF GroupsInv, IInv, TypeOK, StoreTypes, ProcessTypes, FlagTypes, Story, CallStory
<1>1. CASE BeginTurn
  BY <1>1, <1>given, <1>types DEF BeginTurn
<1>2. CASE BeginResume
  BY <1>2, <1>given, <1>types DEF BeginResume, Replayed, HasCheckpoint
<1>3. CASE Interrupt
  BY <1>3, <1>given, <1>types DEF Interrupt, Paused, TurnCalls, AtRest
<1>4. CASE RegisterPause
  BY <1>4, <1>given, <1>types DEF RegisterPause
<1>5. CASE Activate
  BY <1>5, <1>given, <1>types DEF Activate, Exposed, Rebound, Fault, TurnCalls
<1>6. CASE MarkWaiting
  BY <1>6, <1>given, <1>types DEF MarkWaiting, Fault
<1>7. CASE Wake
  BY <1>7, <1>given, <1>types DEF Wake, Awake
<1>8. CASE ResumeGroup
  BY <1>8, <1>given, <1>types DEF ResumeGroup, Replayed, Fault, AllDecided
<1>9. CASE ModelEnd
  BY <1>9, <1>given, <1>types DEF ModelEnd, Fault, AtRest, Paused, TurnCalls
<1>10. CASE ModelCancelled
  BY <1>10, <1>given, <1>types DEF ModelCancelled
<1>11. CASE SettleCalls
  BY <1>11, <1>given, <1>types DEF SettleCalls, Settle, Unfinished
<1>12. CASE MarkMessage
  BY <1>12, <1>given, <1>types DEF MarkMessage
<1>13. CASE CheckpointCleanup
  BY <1>13, <1>given, <1>types DEF CheckpointCleanup, Fault
<1>14. CASE Exit
  BY <1>14, <1>given, <1>types DEF Exit
<1>15. ASSUME NEW c \in Calls, OpBegin(c)
      PROVE  OutcomeStory'
  BY <1>15, <1>given, <1>types DEF OpBegin, BeginDriver
<1>16. CASE RecoverResume
  BY <1>16, <1>given, <1>types DEF RecoverResume, ResumeDecided, BeginDriver
<1>17. ASSUME NEW t \in Turns, StartTurn(t)
      PROVE  OutcomeStory'
  BY <1>17, <1>given, <1>types DEF StartTurn
<1>18. ASSUME NEW t \in Turns, QueueAdvance(t)
      PROVE  OutcomeStory'
  BY <1>18, <1>given, <1>types DEF QueueAdvance
<1>19. ASSUME NEW t \in Turns, ReloadAgent(t)
      PROVE  OutcomeStory'
  BY <1>19, <1>given, <1>types DEF ReloadAgent, ResumeDecided, BeginDriver
<1>20. CASE Crash
  BY <1>20, <1>given, <1>types DEF Crash
<1>21. CASE \/ (\E c \in Calls : ToolSubmit(c))
           \/ (\E c \in Calls : ToolBind(c))
           \/ (\E c \in Calls : ToolRequest(c))
           \/ (\E c \in Calls : ToolPause(c))
           \/ (\E c \in Calls : ToolAbandon(c))
           \/ (\E c \in Calls : ToolResume(c))
           \/ (\E c \in Calls : ToolClaim(c))
           \/ (\E c \in Calls : ToolRefused(c))
           \/ (\E c \in Calls : ToolFinish(c))
           \/ (\E c \in Calls : OpResumeQueue(c))
           \/ (\E c \in Calls : OpCheckActive(c))
           \/ (\E c \in Calls : OpReadGroup(c))
           \/ StopQueue
           \/ StopAbort
           \/ (\E c \in Calls : StopReject(c))
           \/ StopDone
           \/ RecoverRuns
           \/ RecoverApprovals
           \/ RecoverMessages
           \/ RecoverCalls
           \/ (\E S \in SUBSET Calls : ModelCalls(S))
           \/ (\E c \in Calls, d \in Decided : Decide(c, d))
           \/ StopSession
  <2>1. UNCHANGED <<pc, outcome>>
    BY <1>21
      DEF ToolSubmit, MoveTool, Execute, EndCall, ToolBind, ToolRequest, ToolPause, ToolAbandon,
          Fault, ToolResume, ToolClaim, ClaimedStatus, Claimable, ToolRefused, ToolFinish,
          OpResumeQueue, Settle, Remaining, OpCheckActive, OpReadGroup, DecidedGroup, StopQueue,
          StopAbort, Abortable, StopReject, Decidable, StopDone, RecoverRuns, RecoverApprovals,
          Unactivated, TurnCalls, RecoverMessages, RecoverCalls, ModelCalls, Decide, StopSession,
          SessionActive, LiveTools
  <2> QED
    BY <2>1, <1>given
<1>22. CASE UNCHANGED vars
  BY <1>22, <1>given DEF vars
<1> QED
  BY <1>1, <1>2, <1>3, <1>4, <1>5, <1>6, <1>7, <1>8, <1>9, <1>10, <1>11, <1>12, <1>13, <1>14,
       <1>15, <1>16, <1>17, <1>18, <1>19, <1>20, <1>21, <1>22
  DEF Next, DriverStep, ToolStep, OpStep, StopStep, RecoveryStep

\* The message of the turn.
LEMMA MessageStep == GroupsInv /\ [Next]_vars => MessageStory'
<1> SUFFICES ASSUME GroupsInv, [Next]_vars PROVE MessageStory'
  OBVIOUS
<1> USE DEF store, driver, queued, tools, handler, budget, MessageStory, DriverHasTurn, Handling,
      Ending
<1>given. QueueStory /\ OutcomeStory /\ MessageStory /\ PauseStory /\ HandlerRead
  BY DEF GroupsInv, GroupsStory
<1>types. msg \in [Turns -> MessageStatus] /\ DriverHasTurn
  BY DEF GroupsInv, IInv, TypeOK, StoreTypes, ProcessTypes, FlagTypes, Story, CallStory
<1>1. CASE BeginTurn
  BY <1>1, <1>given, <1>types DEF BeginTurn, QueueStory
<1>2. CASE BeginResume
  BY <1>2, <1>given, <1>types DEF BeginResume, Replayed, HasCheckpoint, QueueStory
<1>3. CASE Interrupt
  BY <1>3, <1>given, <1>types DEF Interrupt, Paused, TurnCalls, AtRest
<1>4. CASE RegisterPause
  BY <1>4, <1>given, <1>types DEF RegisterPause
<1>5. CASE Activate
  BY <1>5, <1>given, <1>types DEF Activate, Exposed, Rebound, Fault, TurnCalls
<1>6. CASE MarkWaiting
  BY <1>6, <1>given, <1>types DEF MarkWaiting, Fault
<1>7. CASE Wake
  BY <1>7, <1>given, <1>types DEF Wake, Awake
<1>8. CASE ResumeGroup
  BY <1>8, <1>given, <1>types DEF ResumeGroup, Replayed, Fault, AllDecided
<1>9. CASE ModelEnd
  BY <1>9, <1>given, <1>types DEF ModelEnd, Fault, AtRest, Paused, TurnCalls
<1>10. CASE ModelCancelled
  BY <1>10, <1>given, <1>types DEF ModelCancelled
<1>11. CASE SettleCalls
  BY <1>11, <1>given, <1>types DEF SettleCalls, Settle, Unfinished
<1>12. CASE MarkMessage
  BY <1>12, <1>given, <1>types DEF MarkMessage
<1>13. CASE CheckpointCleanup
  BY <1>13, <1>given, <1>types DEF CheckpointCleanup, Fault
<1>14. CASE Exit
  BY <1>14, <1>given, <1>types DEF Exit
<1>15. ASSUME NEW c \in Calls, OpBegin(c)
      PROVE  MessageStory'
  BY <1>15, <1>given, <1>types DEF OpBegin, BeginDriver, HandlerRead, GroupRead
<1>16. CASE RecoverMessages
  BY <1>16, <1>given, <1>types DEF RecoverMessages, QueueStory
<1>17. CASE RecoverResume
  BY <1>17, <1>given, <1>types, ResumeReads DEF RecoverResume, ResumeDecided, BeginDriver
<1>18. ASSUME NEW t \in Turns, StartTurn(t)
      PROVE  MessageStory'
  BY <1>18, <1>given, <1>types DEF StartTurn
<1>19. ASSUME NEW t \in Turns, QueueAdvance(t)
      PROVE  MessageStory'
  BY <1>19, <1>given, <1>types DEF QueueAdvance
<1>20. ASSUME NEW t \in Turns, ReloadAgent(t)
      PROVE  MessageStory'
  BY <1>20, <1>given, <1>types, ResumeReads DEF ReloadAgent, ResumeDecided, BeginDriver
<1>21. CASE Crash
  BY <1>21, <1>given, <1>types DEF Crash
<1>22. CASE \/ (\E c \in Calls : ToolSubmit(c))
           \/ (\E c \in Calls : ToolBind(c))
           \/ (\E c \in Calls : ToolRequest(c))
           \/ (\E c \in Calls : ToolPause(c))
           \/ (\E c \in Calls : ToolAbandon(c))
           \/ (\E c \in Calls : ToolResume(c))
           \/ (\E c \in Calls : ToolClaim(c))
           \/ (\E c \in Calls : ToolRefused(c))
           \/ (\E c \in Calls : ToolFinish(c))
           \/ (\E c \in Calls : OpResumeQueue(c))
           \/ (\E c \in Calls : OpCheckActive(c))
           \/ (\E c \in Calls : OpReadGroup(c))
           \/ StopQueue
           \/ StopAbort
           \/ (\E c \in Calls : StopReject(c))
           \/ StopDone
           \/ RecoverRuns
           \/ RecoverApprovals
           \/ RecoverCalls
           \/ (\E S \in SUBSET Calls : ModelCalls(S))
           \/ (\E c \in Calls, d \in Decided : Decide(c, d))
           \/ StopSession
  <2>1. UNCHANGED <<pc, msg, outcome, group, turn>>
    BY <1>22
      DEF ToolSubmit, MoveTool, Execute, EndCall, ToolBind, ToolRequest, ToolPause, ToolAbandon,
          Fault, ToolResume, ToolClaim, ClaimedStatus, Claimable, ToolRefused, ToolFinish,
          OpResumeQueue, Settle, Remaining, OpCheckActive, OpReadGroup, DecidedGroup, StopQueue,
          StopAbort, Abortable, StopReject, Decidable, StopDone, RecoverRuns, RecoverApprovals,
          Unactivated, TurnCalls, RecoverCalls, ModelCalls, Decide, StopSession, SessionActive,
          LiveTools
  <2> QED
    BY <2>1, <1>given
<1>23. CASE UNCHANGED vars
  BY <1>23, <1>given DEF vars
<1> QED
  BY <1>1, <1>2, <1>3, <1>4, <1>5, <1>6, <1>7, <1>8, <1>9, <1>10, <1>11, <1>12, <1>13, <1>14,
       <1>15, <1>16, <1>17, <1>18, <1>19, <1>20, <1>21, <1>22, <1>23
  DEF Next, DriverStep, ToolStep, OpStep, StopStep, RecoveryStep

\* A turn without a message has made no call.
LEMMA UnmadeStep == GroupsInv /\ [Next]_vars => \A u \in Turns : UnmadeStory(u)'
<1> SUFFICES ASSUME GroupsInv, [Next]_vars, NEW u \in Turns PROVE UnmadeStory(u)'
  OBVIOUS
<1> USE DEF store, driver, queued, tools, handler, budget, UnmadeStory, DriverHasTurn
<1>given. MessageStory /\ (\A t \in Turns : UnmadeStory(t))
  BY DEF GroupsInv, GroupsStory
<1>types. /\ msg \in [Turns -> MessageStatus] /\ turnOf \in [Calls -> Turns \cup {NoTurn}]
          /\ DriverHasTurn
  BY DEF GroupsInv, IInv, TypeOK, StoreTypes, ProcessTypes, FlagTypes, Story, CallStory,
        NoTurnAssumption
<1>fresh. /\ NoTurn \notin Turns
         /\ \A c \in Calls : turnOf[c] \notin Turns =>
              turnOf[c] = NoTurn /\ run[c] = "none" /\ approval[c] = "none" /\ tool[c] = "idle" /\ op[c] = "idle"
  BY Fresh
<1>1. CASE BeginTurn
  BY <1>1, <1>given, <1>fresh, <1>types DEF BeginTurn
<1>2. CASE BeginResume
  BY <1>2, <1>given, <1>fresh, <1>types DEF BeginResume, Replayed, HasCheckpoint
<1>3. CASE MarkWaiting
  BY <1>3, <1>given, <1>fresh, <1>types DEF MarkWaiting, Fault
<1>4. CASE ResumeGroup
  BY <1>4, <1>given, <1>fresh, <1>types DEF ResumeGroup, Replayed, Fault, AllDecided
<1>5. CASE MarkMessage
  BY <1>5, <1>given, <1>fresh, <1>types DEF MarkMessage
<1>6. CASE CheckpointCleanup
  BY <1>6, <1>given, <1>fresh, <1>types DEF CheckpointCleanup, Fault
<1>7. CASE RecoverMessages
  BY <1>7, <1>given, <1>fresh, <1>types DEF RecoverMessages
<1>8. ASSUME NEW S \in SUBSET Calls, ModelCalls(S)
      PROVE  UnmadeStory(u)'
  BY <1>8, <1>given, <1>fresh, <1>types DEF ModelCalls, MessageStory
<1>9. CASE \/ Interrupt
           \/ RegisterPause
           \/ Activate
           \/ Wake
           \/ ModelEnd
           \/ ModelCancelled
           \/ SettleCalls
           \/ Exit
           \/ (\E c \in Calls : ToolSubmit(c))
           \/ (\E c \in Calls : ToolBind(c))
           \/ (\E c \in Calls : ToolRequest(c))
           \/ (\E c \in Calls : ToolPause(c))
           \/ (\E c \in Calls : ToolAbandon(c))
           \/ (\E c \in Calls : ToolResume(c))
           \/ (\E c \in Calls : ToolClaim(c))
           \/ (\E c \in Calls : ToolRefused(c))
           \/ (\E c \in Calls : ToolFinish(c))
           \/ (\E c \in Calls : OpResumeQueue(c))
           \/ (\E c \in Calls : OpCheckActive(c))
           \/ (\E c \in Calls : OpReadGroup(c))
           \/ (\E c \in Calls : OpBegin(c))
           \/ StopQueue
           \/ StopAbort
           \/ (\E c \in Calls : StopReject(c))
           \/ StopDone
           \/ RecoverRuns
           \/ RecoverApprovals
           \/ RecoverCalls
           \/ RecoverResume
           \/ (\E t \in Turns : StartTurn(t))
           \/ (\E t \in Turns : QueueAdvance(t))
           \/ (\E t \in Turns : ReloadAgent(t))
           \/ (\E c \in Calls, d \in Decided : Decide(c, d))
           \/ StopSession
           \/ Crash
  <2>1. UNCHANGED <<msg, turnOf>>
    BY <1>9
      DEF Interrupt, Paused, TurnCalls, AtRest, RegisterPause, Activate, Exposed, Rebound, Fault,
          Wake, Awake, ModelEnd, ModelCancelled, SettleCalls, Settle, Unfinished, Exit,
          ToolSubmit, MoveTool, Execute, EndCall, ToolBind, ToolRequest, ToolPause, ToolAbandon,
          ToolResume, ToolClaim, ClaimedStatus, Claimable, ToolRefused, ToolFinish, OpResumeQueue,
          Remaining, OpCheckActive, OpReadGroup, DecidedGroup, OpBegin, BeginDriver, StopQueue,
          StopAbort, Abortable, StopReject, Decidable, StopDone, RecoverRuns, RecoverApprovals,
          Unactivated, RecoverCalls, RecoverResume, ResumeDecided, StartTurn, QueueAdvance,
          ReloadAgent, Decide, StopSession, SessionActive, LiveTools, Crash
  <2> QED
    BY <2>1, <1>given
<1>10. CASE UNCHANGED vars
  BY <1>10, <1>given DEF vars
<1> QED
  BY <1>1, <1>2, <1>3, <1>4, <1>5, <1>6, <1>7, <1>8, <1>9, <1>10
  DEF Next, DriverStep, ToolStep, OpStep, StopStep, RecoveryStep

\* Where the tools are.
LEMMA ToolStoryStep == GroupsInv /\ [Next]_vars => \A x \in Calls : ToolStory(x)'
<1> SUFFICES ASSUME GroupsInv, [Next]_vars, NEW x \in Calls PROVE ToolStory(x)'
  OBVIOUS
<1> USE DEF store, driver, queued, tools, handler, budget, ToolStory, Kept, Away, DriverHasTurn,
      SavedByTurn, Handling, Ending
<1>given. /\ QueueStory /\ MessageStory /\ OutcomeStory /\ PauseStory
          /\ (\A t \in Turns : UnmadeStory(t)) /\ (\A c \in Calls : ToolStory(c))
          /\ (\A c \in Calls : RestStory(c))
  BY DEF GroupsInv, GroupsStory
<1>types. /\ msg \in [Turns -> MessageStatus] /\ saved \in [Turns -> SUBSET Calls]
          /\ tool \in [Calls -> ToolPlace] /\ approval \in [Calls -> ApprovalStatus]
          /\ run \in [Calls -> RunStatus] /\ turnOf \in [Calls -> Turns \cup {NoTurn}]
          /\ bound \subseteq Calls /\ group \subseteq Calls /\ DriverHasTurn /\ SavedByTurn
  BY DEF GroupsInv, IInv, TypeOK, StoreTypes, ProcessTypes, FlagTypes, Story, CallStory
<1>fresh. /\ NoTurn \notin Turns
         /\ \A c \in Calls : turnOf[c] \notin Turns =>
              turnOf[c] = NoTurn /\ run[c] = "none" /\ approval[c] = "none" /\ tool[c] = "idle" /\ op[c] = "idle"
  BY Fresh
<1>1. CASE BeginTurn
  BY <1>1, <1>given, <1>fresh, <1>types DEF BeginTurn, MessageStory, UnmadeStory
<1>2. CASE BeginResume
  BY <1>2, <1>given, <1>fresh, <1>types DEF BeginResume, Replayed, HasCheckpoint, QueueStory
<1>3. CASE Interrupt
  BY <1>3, <1>given, <1>fresh, <1>types DEF Interrupt, Paused, TurnCalls, AtRest, Live
<1>4. CASE RegisterPause
  BY <1>4, <1>given, <1>fresh, <1>types DEF RegisterPause, OutcomeStory
<1>5. CASE Activate
  BY <1>5, <1>given, <1>fresh, <1>types
    DEF Activate, Exposed, Rebound, Fault, TurnCalls, QueueStory
<1>6. CASE MarkWaiting
  BY <1>6, <1>given, <1>fresh, <1>types DEF MarkWaiting, Fault
<1>7. CASE Wake
  BY <1>7, <1>given, <1>fresh, <1>types DEF Wake, Awake, QueueStory
<1>8. CASE ResumeGroup
  BY <1>8, <1>given, <1>fresh, <1>types DEF ResumeGroup, Replayed, Fault, AllDecided
<1>9. CASE ModelEnd
  BY <1>9, <1>given, <1>fresh, <1>types DEF ModelEnd, Fault, AtRest, Paused, TurnCalls, Live
<1>10. CASE ModelCancelled
  BY <1>10, <1>given, <1>fresh, <1>types DEF ModelCancelled
<1>11. CASE SettleCalls
  BY <1>11, <1>given, <1>fresh, <1>types DEF SettleCalls, Settle, Unfinished
<1>12. CASE MarkMessage
  BY <1>12, <1>given, <1>fresh, <1>types DEF MarkMessage, MessageStory
<1>13. CASE CheckpointCleanup
  BY <1>13, <1>given, <1>fresh, <1>types
    DEF CheckpointCleanup, Fault, MessageStory, OutcomeStory, Retained
<1>14. CASE Exit
  BY <1>14, <1>given, <1>fresh, <1>types DEF Exit
<1>15. ASSUME NEW c \in Calls, ToolSubmit(c)
      PROVE  ToolStory(x)'
  BY <1>15, <1>given, <1>fresh, <1>types DEF ToolSubmit, MoveTool, Execute, EndCall
<1>16. ASSUME NEW c \in Calls, ToolBind(c)
      PROVE  ToolStory(x)'
  BY <1>16, <1>given, <1>fresh, <1>types DEF ToolBind, MoveTool
<1>17. ASSUME NEW c \in Calls, ToolRequest(c)
      PROVE  ToolStory(x)'
  BY <1>17, <1>given, <1>fresh, <1>types DEF ToolRequest, MoveTool
<1>18. ASSUME NEW c \in Calls, ToolPause(c)
      PROVE  ToolStory(x)'
  BY <1>18, <1>given, <1>fresh, <1>types DEF ToolPause, MoveTool
<1>19. ASSUME NEW c \in Calls, ToolAbandon(c)
      PROVE  ToolStory(x)'
  BY <1>19, <1>given, <1>fresh, <1>types DEF ToolAbandon, MoveTool, EndCall, Fault
<1>20. ASSUME NEW c \in Calls, ToolResume(c)
      PROVE  ToolStory(x)'
  BY <1>20, <1>given, <1>fresh, <1>types DEF ToolResume, MoveTool, EndCall
<1>21. ASSUME NEW c \in Calls, ToolClaim(c)
      PROVE  ToolStory(x)'
  BY <1>21, <1>given, <1>fresh, <1>types
    DEF ToolClaim, MoveTool, EndCall, Execute, ClaimedStatus, Claimable
<1>22. ASSUME NEW c \in Calls, ToolRefused(c)
      PROVE  ToolStory(x)'
  BY <1>22, <1>given, <1>fresh, <1>types DEF ToolRefused, MoveTool, EndCall
<1>23. ASSUME NEW c \in Calls, ToolFinish(c)
      PROVE  ToolStory(x)'
  BY <1>23, <1>given, <1>fresh, <1>types DEF ToolFinish, MoveTool, EndCall, Fault
<1>24. ASSUME NEW c \in Calls, OpBegin(c)
      PROVE  ToolStory(x)'
  BY <1>24, <1>given, <1>fresh, <1>types DEF OpBegin, BeginDriver, HandlerRead
<1>25. CASE RecoverApprovals
  BY <1>25, <1>given, <1>fresh, <1>types DEF RecoverApprovals, Unactivated, TurnCalls, RestStory
<1>26. CASE RecoverMessages
  BY <1>26, <1>given, <1>fresh, <1>types DEF RecoverMessages, RestStory
<1>27. CASE RecoverResume
  BY <1>27, <1>given, <1>fresh, <1>types, ResumeReads
    DEF RecoverResume, ResumeDecided, BeginDriver
<1>28. ASSUME NEW t \in Turns, StartTurn(t)
      PROVE  ToolStory(x)'
  BY <1>28, <1>given, <1>fresh, <1>types DEF StartTurn
<1>29. ASSUME NEW t \in Turns, QueueAdvance(t)
      PROVE  ToolStory(x)'
  BY <1>29, <1>given, <1>fresh, <1>types DEF QueueAdvance
<1>30. ASSUME NEW t \in Turns, ReloadAgent(t)
      PROVE  ToolStory(x)'
  BY <1>30, <1>given, <1>fresh, <1>types, ResumeReads DEF ReloadAgent, ResumeDecided, BeginDriver
<1>31. ASSUME NEW S \in SUBSET Calls, ModelCalls(S)
      PROVE  ToolStory(x)'
  BY <1>31, <1>given, <1>fresh, <1>types DEF ModelCalls
<1>32. CASE Crash
  BY <1>32, <1>given, <1>fresh, <1>types DEF Crash
<1>33. CASE \/ (\E c \in Calls : OpResumeQueue(c))
           \/ (\E c \in Calls : OpCheckActive(c))
           \/ (\E c \in Calls : OpReadGroup(c))
           \/ StopQueue
           \/ StopAbort
           \/ (\E c \in Calls : StopReject(c))
           \/ StopDone
           \/ RecoverRuns
           \/ RecoverCalls
           \/ (\E c \in Calls, d \in Decided : Decide(c, d))
           \/ StopSession
  <2>1. UNCHANGED <<tool, turn, pc, outcome, saved, turnOf, msg>>
    BY <1>33
      DEF OpResumeQueue, Settle, Remaining, OpCheckActive, OpReadGroup, DecidedGroup, StopQueue,
          StopAbort, Abortable, StopReject, Decidable, StopDone, RecoverRuns, RecoverCalls,
          Decide, StopSession, SessionActive, LiveTools
  <2> QED
    BY <2>1, <1>given
<1>34. CASE UNCHANGED vars
  BY <1>34, <1>given DEF vars
<1> QED
  BY <1>1, <1>2, <1>3, <1>4, <1>5, <1>6, <1>7, <1>8, <1>9, <1>10, <1>11, <1>12, <1>13, <1>14,
       <1>15, <1>16, <1>17, <1>18, <1>19, <1>20, <1>21, <1>22, <1>23, <1>24, <1>25, <1>26, <1>27,
       <1>28, <1>29, <1>30, <1>31, <1>32, <1>33, <1>34
  DEF Next, DriverStep, ToolStep, OpStep, StopStep, RecoveryStep

\* The group is what the checkpoint holds.
LEMMA PauseStep == GroupsInv /\ [Next]_vars => PauseStory'
<1> SUFFICES ASSUME GroupsInv, [Next]_vars PROVE PauseStory'
  OBVIOUS
<1> USE DEF store, driver, queued, tools, handler, budget, PauseStory, DriverHasTurn, SavedByTurn,
      Handling, Ending
<1>given. PauseStory /\ QueueStory
  BY DEF GroupsInv, GroupsStory
<1>types. /\ msg \in [Turns -> MessageStatus] /\ saved \in [Turns -> SUBSET Calls]
          /\ tool \in [Calls -> ToolPlace] /\ approval \in [Calls -> ApprovalStatus]
          /\ run \in [Calls -> RunStatus] /\ turnOf \in [Calls -> Turns \cup {NoTurn}]
          /\ bound \subseteq Calls /\ group \subseteq Calls /\ DriverHasTurn /\ SavedByTurn
  BY DEF GroupsInv, IInv, TypeOK, StoreTypes, ProcessTypes, FlagTypes, Story, CallStory
<1>1. CASE BeginTurn
  BY <1>1, <1>given, <1>types DEF BeginTurn
<1>2. CASE BeginResume
  BY <1>2, <1>given, <1>types DEF BeginResume, Replayed, HasCheckpoint
<1>3. CASE Interrupt
  BY <1>3, <1>given, <1>types DEF Interrupt, Paused, TurnCalls, AtRest
<1>4. CASE RegisterPause
  BY <1>4, <1>given, <1>types DEF RegisterPause
<1>5. CASE Activate
  BY <1>5, <1>given, <1>types DEF Activate, Exposed, Rebound, Fault, TurnCalls
<1>6. CASE MarkWaiting
  BY <1>6, <1>given, <1>types DEF MarkWaiting, Fault
<1>7. CASE Wake
  BY <1>7, <1>given, <1>types DEF Wake, Awake
<1>8. CASE ResumeGroup
  BY <1>8, <1>given, <1>types DEF ResumeGroup, Replayed, Fault, AllDecided
<1>9. CASE ModelEnd
  BY <1>9, <1>given, <1>types DEF ModelEnd, Fault, AtRest, Paused, TurnCalls
<1>10. CASE ModelCancelled
  BY <1>10, <1>given, <1>types DEF ModelCancelled
<1>11. CASE SettleCalls
  BY <1>11, <1>given, <1>types DEF SettleCalls, Settle, Unfinished
<1>12. CASE MarkMessage
  BY <1>12, <1>given, <1>types DEF MarkMessage
<1>13. CASE CheckpointCleanup
  BY <1>13, <1>given, <1>types DEF CheckpointCleanup, Fault
<1>14. CASE Exit
  BY <1>14, <1>given, <1>types DEF Exit
<1>15. ASSUME NEW c \in Calls, ToolSubmit(c)
      PROVE  PauseStory'
  BY <1>15, <1>given, <1>types DEF ToolSubmit, MoveTool, Execute, EndCall
<1>16. ASSUME NEW c \in Calls, ToolBind(c)
      PROVE  PauseStory'
  BY <1>16, <1>given, <1>types DEF ToolBind, MoveTool
<1>17. ASSUME NEW c \in Calls, ToolRequest(c)
      PROVE  PauseStory'
  BY <1>17, <1>given, <1>types DEF ToolRequest, MoveTool
<1>18. ASSUME NEW c \in Calls, ToolPause(c)
      PROVE  PauseStory'
  BY <1>18, <1>given, <1>types DEF ToolPause, MoveTool
<1>19. ASSUME NEW c \in Calls, ToolAbandon(c)
      PROVE  PauseStory'
  BY <1>19, <1>given, <1>types DEF ToolAbandon, MoveTool, EndCall, Fault
<1>20. ASSUME NEW c \in Calls, ToolResume(c)
      PROVE  PauseStory'
  BY <1>20, <1>given, <1>types DEF ToolResume, MoveTool, EndCall
<1>21. ASSUME NEW c \in Calls, ToolClaim(c)
      PROVE  PauseStory'
  BY <1>21, <1>given, <1>types DEF ToolClaim, MoveTool, EndCall, Execute, ClaimedStatus, Claimable
<1>22. ASSUME NEW c \in Calls, ToolRefused(c)
      PROVE  PauseStory'
  BY <1>22, <1>given, <1>types DEF ToolRefused, MoveTool, EndCall
<1>23. ASSUME NEW c \in Calls, ToolFinish(c)
      PROVE  PauseStory'
  BY <1>23, <1>given, <1>types DEF ToolFinish, MoveTool, EndCall, Fault
<1>24. ASSUME NEW c \in Calls, OpBegin(c)
      PROVE  PauseStory'
  BY <1>24, <1>given, <1>types DEF OpBegin, BeginDriver
<1>25. CASE RecoverApprovals
  BY <1>25, <1>given, <1>types DEF RecoverApprovals, Unactivated, TurnCalls, QueueStory
<1>26. CASE RecoverResume
  BY <1>26, <1>given, <1>types, ResumeReads DEF RecoverResume, ResumeDecided, BeginDriver
<1>27. ASSUME NEW t \in Turns, StartTurn(t)
      PROVE  PauseStory'
  BY <1>27, <1>given, <1>types DEF StartTurn
<1>28. ASSUME NEW t \in Turns, QueueAdvance(t)
      PROVE  PauseStory'
  BY <1>28, <1>given, <1>types DEF QueueAdvance
<1>29. ASSUME NEW t \in Turns, ReloadAgent(t)
      PROVE  PauseStory'
  BY <1>29, <1>given, <1>types, ResumeReads DEF ReloadAgent, ResumeDecided, BeginDriver
<1>30. ASSUME NEW S \in SUBSET Calls, ModelCalls(S)
      PROVE  PauseStory'
  BY <1>30, <1>given, <1>types DEF ModelCalls
<1>31. CASE Crash
  BY <1>31, <1>given, <1>types DEF Crash
<1>32. CASE \/ (\E c \in Calls : OpResumeQueue(c))
           \/ (\E c \in Calls : OpCheckActive(c))
           \/ (\E c \in Calls : OpReadGroup(c))
           \/ StopQueue
           \/ StopAbort
           \/ (\E c \in Calls : StopReject(c))
           \/ StopDone
           \/ RecoverRuns
           \/ RecoverMessages
           \/ RecoverCalls
           \/ (\E c \in Calls, d \in Decided : Decide(c, d))
           \/ StopSession
  <2>1. UNCHANGED <<pc, group, saved, turn, tool>>
    BY <1>32
      DEF OpResumeQueue, Settle, Remaining, OpCheckActive, OpReadGroup, DecidedGroup, StopQueue,
          StopAbort, Abortable, StopReject, Decidable, StopDone, RecoverRuns, RecoverMessages,
          RecoverCalls, Decide, StopSession, SessionActive, LiveTools
  <2> QED
    BY <2>1, <1>given
<1>33. CASE UNCHANGED vars
  BY <1>33, <1>given DEF vars
<1> QED
  BY <1>1, <1>2, <1>3, <1>4, <1>5, <1>6, <1>7, <1>8, <1>9, <1>10, <1>11, <1>12, <1>13, <1>14,
       <1>15, <1>16, <1>17, <1>18, <1>19, <1>20, <1>21, <1>22, <1>23, <1>24, <1>25, <1>26, <1>27,
       <1>28, <1>29, <1>30, <1>31, <1>32, <1>33
  DEF Next, DriverStep, ToolStep, OpStep, StopStep, RecoveryStep

\* Where an approval is.
LEMMA ApprovalStep == GroupsInv /\ [Next]_vars => \A x \in Calls : ApprovalStory(x)'
<1> SUFFICES ASSUME GroupsInv, [Next]_vars, NEW x \in Calls PROVE ApprovalStory(x)'
  OBVIOUS
<1> USE DEF store, driver, queued, tools, handler, budget, ApprovalStory, DriverHasTurn,
      SavedByTurn, Decided, Handling, Ending
<1>given. /\ PauseStory /\ DriverRead /\ QueueStory /\ (\A c \in Calls : ApprovalStory(c))
          /\ (\A c \in Calls : SavedStory(c)) /\ (\A c \in Calls : RestStory(c))
  BY DEF GroupsInv, GroupsStory
<1>types. /\ msg \in [Turns -> MessageStatus] /\ saved \in [Turns -> SUBSET Calls]
          /\ tool \in [Calls -> ToolPlace] /\ approval \in [Calls -> ApprovalStatus]
          /\ run \in [Calls -> RunStatus] /\ turnOf \in [Calls -> Turns \cup {NoTurn}]
          /\ bound \subseteq Calls /\ group \subseteq Calls /\ DriverHasTurn /\ SavedByTurn
          /\ (\A c \in Calls : ToolKnowsRun(c)) /\ (\A c \in Calls : ExecutedOnce(c))
          /\ linked \subseteq Calls /\ killed \subseteq Calls
  BY DEF GroupsInv, IInv, TypeOK, StoreTypes, ProcessTypes, FlagTypes, Story, CallStory
<1>fresh. /\ NoTurn \notin Turns
         /\ \A c \in Calls : turnOf[c] \notin Turns =>
              turnOf[c] = NoTurn /\ run[c] = "none" /\ approval[c] = "none" /\ tool[c] = "idle" /\ op[c] = "idle"
  BY Fresh
<1>1. CASE BeginResume
  BY <1>1, <1>given, <1>fresh, <1>types
    DEF BeginResume, Replayed, HasCheckpoint, DriverRead, GroupRead, AllDecided
<1>2. CASE Interrupt
  BY <1>2, <1>given, <1>fresh, <1>types DEF Interrupt, Paused, TurnCalls, AtRest, PauseStory
<1>3. CASE Activate
  <2>1. CASE ~(pc' = "activated")
    BY <1>3, <2>1, <1>given DEF Activate
  <2>2. CASE pc' = "activated"
    <3>1. /\ pc = "registered" /\ turn \in Turns
          /\ approval' = [c \in Calls |-> IF c \in group /\ approval[c] = "preparing" THEN "pending" ELSE approval[c]]
          /\ bound' = (bound \ TurnCalls(turn)) \cup group
          /\ UNCHANGED <<run, tool, server, saved, linked, killed, turnOf>>
      BY <1>3, <2>2, <1>types DEF Activate, Exposed, Rebound
    <3>2. group = saved[turn] /\ \A c \in group : tool[c] = "paused"
      BY <3>1, <1>given DEF PauseStory
    <3>3. x \in bound' => x \in bound \/ x \in group
      BY <3>1
    <3>4. approval[x] = "pending" => x \in bound'
      <4> SUFFICES ASSUME approval[x] = "pending", turnOf[x] = turn PROVE x \in group
        BY <3>1, <1>given DEF TurnCalls
      <4> QED
        BY <3>1, <3>2, <1>given DEF SavedStory, Away
    <3>5. approval'[x] = "pending" => approval[x] = "pending" \/ (x \in group /\ approval[x] = "preparing")
      BY <3>1
    <3>6. x \in group => x \in bound'
      BY <3>1
    <3>7. x \in group => approval[x] # "none"
      BY <3>2, <1>given
    <3>8. /\ approval'[x] = "none" <=> approval[x] = "none"
          /\ approval'[x] = "preparing" => approval[x] = "preparing" /\ x \notin group
          /\ approval'[x] # approval[x] => approval[x] = "preparing" /\ approval'[x] = "pending"
      BY <3>1
    <3>9. x \in bound' => approval'[x] \in {"pending", "approved", "rejected"}
      BY <3>3, <3>7, <3>8, <1>given, <1>types DEF ApprovalStatus
    <3> QED
      BY <3>1, <3>4, <3>5, <3>6, <3>8, <3>9, <1>given
  <2> QED
    BY <2>1, <2>2
<1>4. CASE ResumeGroup
  BY <1>4, <1>given, <1>fresh, <1>types DEF ResumeGroup, Replayed, Fault, AllDecided, PauseStory
<1>5. CASE CheckpointCleanup
  BY <1>5, <1>given, <1>fresh, <1>types DEF CheckpointCleanup, Fault
<1>6. ASSUME NEW c \in Calls, ToolSubmit(c)
      PROVE  ApprovalStory(x)'
  BY <1>6, <1>given, <1>fresh, <1>types
    DEF ToolSubmit, MoveTool, Execute, EndCall, ToolKnowsRun, ExecutedOnce
<1>7. ASSUME NEW c \in Calls, ToolBind(c)
      PROVE  ApprovalStory(x)'
  BY <1>7, <1>given, <1>fresh, <1>types DEF ToolBind, MoveTool
<1>8. ASSUME NEW c \in Calls, ToolRequest(c)
      PROVE  ApprovalStory(x)'
  BY <1>8, <1>given, <1>fresh, <1>types DEF ToolRequest, MoveTool, ToolKnowsRun
<1>9. ASSUME NEW c \in Calls, ToolPause(c)
      PROVE  ApprovalStory(x)'
  BY <1>9, <1>given, <1>fresh, <1>types DEF ToolPause, MoveTool, ToolKnowsRun
<1>10. ASSUME NEW c \in Calls, ToolAbandon(c)
      PROVE  ApprovalStory(x)'
  BY <1>10, <1>given, <1>fresh, <1>types DEF ToolAbandon, MoveTool, EndCall, Fault
<1>11. ASSUME NEW c \in Calls, ToolResume(c)
      PROVE  ApprovalStory(x)'
  BY <1>11, <1>given, <1>fresh, <1>types DEF ToolResume, MoveTool, EndCall, ToolKnowsRun
<1>12. ASSUME NEW c \in Calls, ToolClaim(c)
      PROVE  ApprovalStory(x)'
  BY <1>12, <1>given, <1>fresh, <1>types
    DEF ToolClaim, MoveTool, EndCall, Execute, ClaimedStatus, Claimable, ToolKnowsRun
<1>13. ASSUME NEW c \in Calls, ToolRefused(c)
      PROVE  ApprovalStory(x)'
  BY <1>13, <1>given, <1>fresh, <1>types DEF ToolRefused, MoveTool, EndCall
<1>14. ASSUME NEW c \in Calls, ToolFinish(c)
      PROVE  ApprovalStory(x)'
  BY <1>14, <1>given, <1>fresh, <1>types
    DEF ToolFinish, MoveTool, EndCall, Fault, ToolKnowsRun, ExecutedOnce
<1>15. CASE StopAbort
  BY <1>15, <1>given, <1>fresh, <1>types DEF StopAbort, Settle, Abortable
<1>16. ASSUME NEW c \in Calls, StopReject(c)
      PROVE  ApprovalStory(x)'
  BY <1>16, <1>given, <1>fresh, <1>types DEF StopReject, Settle, Decidable
<1>17. CASE RecoverRuns
  BY <1>17, <1>given, <1>fresh, <1>types DEF RecoverRuns
<1>18. CASE RecoverApprovals
  BY <1>18, <1>given, <1>fresh, <1>types DEF RecoverApprovals, Unactivated, TurnCalls
<1>19. CASE RecoverMessages
  BY <1>19, <1>given, <1>fresh, <1>types DEF RecoverMessages
<1>20. CASE RecoverCalls
  BY <1>20, <1>given, <1>fresh, <1>types DEF RecoverCalls, Settle
<1>21. CASE RecoverResume
  BY <1>21, <1>given, <1>fresh, <1>types, ResumeReads
    DEF RecoverResume, ResumeDecided, BeginDriver
<1>22. ASSUME NEW t \in Turns, ReloadAgent(t)
      PROVE  ApprovalStory(x)'
  BY <1>22, <1>given, <1>fresh, <1>types, ResumeReads DEF ReloadAgent, ResumeDecided, BeginDriver
<1>23. ASSUME NEW S \in SUBSET Calls, ModelCalls(S)
      PROVE  ApprovalStory(x)'
  BY <1>23, <1>given, <1>fresh, <1>types DEF ModelCalls, FreshIsUntouched
<1>24. ASSUME NEW c \in Calls, NEW d \in Decided, Decide(c, d)
      PROVE  ApprovalStory(x)'
  BY <1>24, <1>given, <1>fresh, <1>types DEF Decide, Decidable
<1>25. CASE StopSession
  BY <1>25, <1>given, <1>fresh, <1>types DEF StopSession, SessionActive, LiveTools
<1>26. CASE Crash
  BY <1>26, <1>given, <1>fresh, <1>types DEF Crash
<1>27. CASE \/ BeginTurn
           \/ RegisterPause
           \/ MarkWaiting
           \/ Wake
           \/ ModelEnd
           \/ ModelCancelled
           \/ SettleCalls
           \/ MarkMessage
           \/ Exit
           \/ (\E c \in Calls : OpResumeQueue(c))
           \/ (\E c \in Calls : OpCheckActive(c))
           \/ (\E c \in Calls : OpReadGroup(c))
           \/ (\E c \in Calls : OpBegin(c))
           \/ StopQueue
           \/ StopDone
           \/ (\E t \in Turns : StartTurn(t))
           \/ (\E t \in Turns : QueueAdvance(t))
  <2>1. UNCHANGED <<run, approval, tool, server, bound, saved, linked, killed>>
    BY <1>27
      DEF BeginTurn, RegisterPause, MarkWaiting, Fault, Wake, Awake, ModelEnd, AtRest, Paused,
          TurnCalls, ModelCancelled, SettleCalls, Settle, Unfinished, MarkMessage, Exit,
          OpResumeQueue, Remaining, OpCheckActive, OpReadGroup, DecidedGroup, OpBegin,
          BeginDriver, StopQueue, StopDone, StartTurn, QueueAdvance
  <2> QED
    BY <2>1, <1>given
<1>28. CASE UNCHANGED vars
  BY <1>28, <1>given DEF vars
<1> QED
  BY <1>1, <1>2, <1>3, <1>4, <1>5, <1>6, <1>7, <1>8, <1>9, <1>10, <1>11, <1>12, <1>13, <1>14,
       <1>15, <1>16, <1>17, <1>18, <1>19, <1>20, <1>21, <1>22, <1>23, <1>24, <1>25, <1>26, <1>27,
       <1>28
  DEF Next, DriverStep, ToolStep, OpStep, StopStep, RecoveryStep

\* Where the checkpoints are.
LEMMA SavedStep == GroupsInv /\ [Next]_vars => \A x \in Calls : SavedStory(x)'
<1> SUFFICES ASSUME GroupsInv, [Next]_vars, NEW x \in Calls PROVE SavedStory(x)'
  OBVIOUS
<1> USE DEF store, driver, queued, tools, handler, budget, SavedStory, Away, DriverHasTurn,
      SavedByTurn, Handling, Ending
<1>given. /\ PauseStory /\ MessageStory /\ OutcomeStory /\ ModelStory /\ GroupExposedTogether
          /\ QueueStory /\ (\A c \in Calls : SavedStory(c))
  BY DEF GroupsInv, GroupsStory
<1>types. /\ msg \in [Turns -> MessageStatus] /\ saved \in [Turns -> SUBSET Calls]
          /\ tool \in [Calls -> ToolPlace] /\ approval \in [Calls -> ApprovalStatus]
          /\ run \in [Calls -> RunStatus] /\ turnOf \in [Calls -> Turns \cup {NoTurn}]
          /\ bound \subseteq Calls /\ group \subseteq Calls /\ DriverHasTurn /\ SavedByTurn
          /\ (\A c \in Calls : ToolKnowsRun(c)) /\ (\A c \in Calls : ExecutedOnce(c))
  BY DEF GroupsInv, IInv, TypeOK, StoreTypes, ProcessTypes, FlagTypes, Story, CallStory
<1>fresh. /\ NoTurn \notin Turns
         /\ \A c \in Calls : turnOf[c] \notin Turns =>
              turnOf[c] = NoTurn /\ run[c] = "none" /\ approval[c] = "none" /\ tool[c] = "idle" /\ op[c] = "idle"
  BY Fresh
<1>1. CASE BeginTurn
  BY <1>1, <1>given, <1>fresh, <1>types DEF BeginTurn, MessageStory
<1>2. CASE BeginResume
  BY <1>2, <1>given, <1>fresh, <1>types DEF BeginResume, Replayed, HasCheckpoint
<1>3. CASE Interrupt
  BY <1>3, <1>given, <1>fresh, <1>types
    DEF Interrupt, Paused, TurnCalls, AtRest, ModelStory, Asking, Live
<1>4. CASE RegisterPause
  BY <1>4, <1>given, <1>fresh, <1>types DEF RegisterPause
<1>5. CASE Activate
  BY <1>5, <1>given, <1>fresh, <1>types
    DEF Activate, Exposed, Rebound, Fault, TurnCalls, PauseStory
<1>6. CASE MarkWaiting
  BY <1>6, <1>given, <1>fresh, <1>types DEF MarkWaiting, Fault
<1>7. CASE Wake
  BY <1>7, <1>given, <1>fresh, <1>types DEF Wake, Awake
<1>8. CASE ResumeGroup
  BY <1>8, <1>given, <1>fresh, <1>types DEF ResumeGroup, Replayed, Fault, AllDecided
<1>9. CASE ModelEnd
  BY <1>9, <1>given, <1>fresh, <1>types DEF ModelEnd, Fault, AtRest, Paused, TurnCalls
<1>10. CASE ModelCancelled
  BY <1>10, <1>given, <1>fresh, <1>types DEF ModelCancelled
<1>11. CASE SettleCalls
  BY <1>11, <1>given, <1>fresh, <1>types DEF SettleCalls, Settle, Unfinished
<1>12. CASE MarkMessage
  BY <1>12, <1>given, <1>fresh, <1>types DEF MarkMessage
<1>13. CASE CheckpointCleanup
  BY <1>13, <1>given, <1>fresh, <1>types DEF CheckpointCleanup, Fault, MessageStory
<1>14. CASE Exit
  BY <1>14, <1>given, <1>fresh, <1>types DEF Exit
<1>15. ASSUME NEW c \in Calls, ToolRequest(c)
      PROVE  SavedStory(x)'
  BY <1>15, <1>given, <1>fresh, <1>types DEF ToolRequest, MoveTool
<1>16. ASSUME NEW c \in Calls, OpBegin(c)
      PROVE  SavedStory(x)'
  BY <1>16, <1>given, <1>fresh, <1>types DEF OpBegin, BeginDriver
<1>17. CASE StopAbort
  BY <1>17, <1>given, <1>fresh, <1>types DEF StopAbort, Settle, Abortable
<1>18. ASSUME NEW c \in Calls, StopReject(c)
      PROVE  SavedStory(x)'
  BY <1>18, <1>given, <1>fresh, <1>types DEF StopReject, Settle, Decidable
<1>19. CASE RecoverApprovals
  BY <1>19, <1>given, <1>fresh, <1>types
    DEF RecoverApprovals, Unactivated, TurnCalls, GroupExposedTogether, QueueStory
<1>20. CASE RecoverMessages
  BY <1>20, <1>given, <1>fresh, <1>types DEF RecoverMessages, QueueStory
<1>21. CASE RecoverResume
  BY <1>21, <1>given, <1>fresh, <1>types, ResumeReads
    DEF RecoverResume, ResumeDecided, BeginDriver
<1>22. ASSUME NEW t \in Turns, StartTurn(t)
      PROVE  SavedStory(x)'
  BY <1>22, <1>given, <1>fresh, <1>types DEF StartTurn
<1>23. ASSUME NEW t \in Turns, QueueAdvance(t)
      PROVE  SavedStory(x)'
  BY <1>23, <1>given, <1>fresh, <1>types DEF QueueAdvance
<1>24. ASSUME NEW t \in Turns, ReloadAgent(t)
      PROVE  SavedStory(x)'
  BY <1>24, <1>given, <1>fresh, <1>types, ResumeReads DEF ReloadAgent, ResumeDecided, BeginDriver
<1>25. ASSUME NEW S \in SUBSET Calls, ModelCalls(S)
      PROVE  SavedStory(x)'
  BY <1>25, <1>given, <1>fresh, <1>types DEF ModelCalls
<1>26. ASSUME NEW c \in Calls, NEW d \in Decided, Decide(c, d)
      PROVE  SavedStory(x)'
  BY <1>26, <1>given, <1>fresh, <1>types DEF Decide, Decidable, Decided
<1>27. CASE Crash
  BY <1>27, <1>given, <1>fresh, <1>types DEF Crash
<1>28. CASE \/ (\E c \in Calls : ToolSubmit(c))
           \/ (\E c \in Calls : ToolBind(c))
           \/ (\E c \in Calls : ToolPause(c))
           \/ (\E c \in Calls : ToolAbandon(c))
           \/ (\E c \in Calls : ToolResume(c))
           \/ (\E c \in Calls : ToolClaim(c))
           \/ (\E c \in Calls : ToolRefused(c))
           \/ (\E c \in Calls : ToolFinish(c))
           \/ (\E c \in Calls : OpResumeQueue(c))
           \/ (\E c \in Calls : OpCheckActive(c))
           \/ (\E c \in Calls : OpReadGroup(c))
           \/ StopQueue
           \/ StopDone
           \/ RecoverRuns
           \/ RecoverCalls
           \/ StopSession
  <2>1. UNCHANGED <<approval, saved, turnOf, turn, pc, msg>>
    BY <1>28
      DEF ToolSubmit, MoveTool, Execute, EndCall, ToolBind, ToolPause, ToolAbandon, Fault,
          ToolResume, ToolClaim, ClaimedStatus, Claimable, ToolRefused, ToolFinish, OpResumeQueue,
          Settle, Remaining, OpCheckActive, OpReadGroup, DecidedGroup, StopQueue, StopDone,
          RecoverRuns, RecoverCalls, StopSession, SessionActive, LiveTools
  <2> QED
    BY <2>1, <1>given
<1>29. CASE UNCHANGED vars
  BY <1>29, <1>given DEF vars
<1> QED
  BY <1>1, <1>2, <1>3, <1>4, <1>5, <1>6, <1>7, <1>8, <1>9, <1>10, <1>11, <1>12, <1>13, <1>14,
       <1>15, <1>16, <1>17, <1>18, <1>19, <1>20, <1>21, <1>22, <1>23, <1>24, <1>25, <1>26, <1>27,
       <1>28, <1>29
  DEF Next, DriverStep, ToolStep, OpStep, StopStep, RecoveryStep

\* A group is shown at once.
LEMMA ExposedStep == GroupsInv /\ [Next]_vars => GroupExposedTogether'
<1> SUFFICES ASSUME GroupsInv, [Next]_vars PROVE GroupExposedTogether'
  OBVIOUS
<1> USE DEF store, driver, queued, tools, handler, budget, GroupExposedTogether, DriverHasTurn,
      SavedByTurn
<1>given. /\ PauseStory /\ StartStory /\ GroupExposedTogether /\ QueueStory
          /\ (\A c \in Calls : ApprovalStory(c)) /\ (\A c \in Calls : ToolStory(c))
  BY DEF GroupsInv, GroupsStory
<1>types. /\ msg \in [Turns -> MessageStatus] /\ saved \in [Turns -> SUBSET Calls]
          /\ tool \in [Calls -> ToolPlace] /\ approval \in [Calls -> ApprovalStatus]
          /\ run \in [Calls -> RunStatus] /\ turnOf \in [Calls -> Turns \cup {NoTurn}]
          /\ bound \subseteq Calls /\ group \subseteq Calls /\ DriverHasTurn /\ SavedByTurn
          /\ (\A c \in Calls : ToolKnowsRun(c)) /\ (\A c \in Calls : ExecutedOnce(c))
  BY DEF GroupsInv, IInv, TypeOK, StoreTypes, ProcessTypes, FlagTypes, Story, CallStory
<1>fresh. /\ NoTurn \notin Turns
         /\ \A c \in Calls : turnOf[c] \notin Turns =>
              turnOf[c] = NoTurn /\ run[c] = "none" /\ approval[c] = "none" /\ tool[c] = "idle" /\ op[c] = "idle"
  BY Fresh
<1>1. CASE Activate
  BY <1>1, <1>given, <1>fresh, <1>types
    DEF Activate, Exposed, Rebound, Fault, TurnCalls, PauseStory, QueueStory, ApprovalStory,
        ToolStory, Kept, Away, Handling, Ending
<1>2. ASSUME NEW c \in Calls, ToolRequest(c)
      PROVE  GroupExposedTogether'
  BY <1>2, <1>given, <1>fresh, <1>types DEF ToolRequest, MoveTool, StartStory
<1>3. CASE StopAbort
  BY <1>3, <1>given, <1>fresh, <1>types DEF StopAbort, Settle, Abortable
<1>4. ASSUME NEW c \in Calls, StopReject(c)
      PROVE  GroupExposedTogether'
  BY <1>4, <1>given, <1>fresh, <1>types DEF StopReject, Settle, Decidable
<1>5. CASE RecoverApprovals
  BY <1>5, <1>given, <1>fresh, <1>types DEF RecoverApprovals, Unactivated, TurnCalls
<1>6. CASE RecoverResume
  BY <1>6, <1>given, <1>fresh, <1>types, ResumeReads DEF RecoverResume, ResumeDecided, BeginDriver
<1>7. ASSUME NEW t \in Turns, ReloadAgent(t)
      PROVE  GroupExposedTogether'
  BY <1>7, <1>given, <1>fresh, <1>types, ResumeReads DEF ReloadAgent, ResumeDecided, BeginDriver
<1>8. ASSUME NEW S \in SUBSET Calls, ModelCalls(S)
      PROVE  GroupExposedTogether'
  BY <1>8, <1>given, <1>fresh, <1>types DEF ModelCalls
<1>9. ASSUME NEW c \in Calls, NEW d \in Decided, Decide(c, d)
      PROVE  GroupExposedTogether'
  BY <1>9, <1>given, <1>fresh, <1>types DEF Decide, Decidable, Decided
<1>10. CASE \/ BeginTurn
           \/ BeginResume
           \/ Interrupt
           \/ RegisterPause
           \/ MarkWaiting
           \/ Wake
           \/ ResumeGroup
           \/ ModelEnd
           \/ ModelCancelled
           \/ SettleCalls
           \/ MarkMessage
           \/ CheckpointCleanup
           \/ Exit
           \/ (\E c \in Calls : ToolSubmit(c))
           \/ (\E c \in Calls : ToolBind(c))
           \/ (\E c \in Calls : ToolPause(c))
           \/ (\E c \in Calls : ToolAbandon(c))
           \/ (\E c \in Calls : ToolResume(c))
           \/ (\E c \in Calls : ToolClaim(c))
           \/ (\E c \in Calls : ToolRefused(c))
           \/ (\E c \in Calls : ToolFinish(c))
           \/ (\E c \in Calls : OpResumeQueue(c))
           \/ (\E c \in Calls : OpCheckActive(c))
           \/ (\E c \in Calls : OpReadGroup(c))
           \/ (\E c \in Calls : OpBegin(c))
           \/ StopQueue
           \/ StopDone
           \/ RecoverRuns
           \/ RecoverMessages
           \/ RecoverCalls
           \/ (\E t \in Turns : StartTurn(t))
           \/ (\E t \in Turns : QueueAdvance(t))
           \/ StopSession
           \/ Crash
  <2>1. UNCHANGED <<approval, turnOf>>
    BY <1>10
      DEF BeginTurn, BeginResume, Replayed, HasCheckpoint, Interrupt, Paused, TurnCalls, AtRest,
          RegisterPause, MarkWaiting, Fault, Wake, Awake, ResumeGroup, AllDecided, ModelEnd,
          ModelCancelled, SettleCalls, Settle, Unfinished, MarkMessage, CheckpointCleanup, Exit,
          ToolSubmit, MoveTool, Execute, EndCall, ToolBind, ToolPause, ToolAbandon, ToolResume,
          ToolClaim, ClaimedStatus, Claimable, ToolRefused, ToolFinish, OpResumeQueue, Remaining,
          OpCheckActive, OpReadGroup, DecidedGroup, OpBegin, BeginDriver, StopQueue, StopDone,
          RecoverRuns, RecoverMessages, RecoverCalls, StartTurn, QueueAdvance, StopSession,
          SessionActive, LiveTools, Crash
  <2> QED
    BY <2>1, <1>given
<1>11. CASE UNCHANGED vars
  BY <1>11, <1>given DEF vars
<1> QED
  BY <1>1, <1>2, <1>3, <1>4, <1>5, <1>6, <1>7, <1>8, <1>9, <1>10, <1>11
  DEF Next, DriverStep, ToolStep, OpStep, StopStep, RecoveryStep

\* No call starts while another of its turn awaits a decision.
LEMMA StartStep == GroupsInv /\ [Next]_vars => StartStory'
<1> SUFFICES ASSUME GroupsInv, [Next]_vars PROVE StartStory'
  OBVIOUS
<1> USE DEF store, driver, queued, tools, handler, budget, StartStory, DriverHasTurn, SavedByTurn
<1>given. PauseStory /\ StartStory /\ ModelStory /\ QueueStory /\ (\A c \in Calls : ToolStory(c))
  BY DEF GroupsInv, GroupsStory
<1>types. /\ msg \in [Turns -> MessageStatus] /\ saved \in [Turns -> SUBSET Calls]
          /\ tool \in [Calls -> ToolPlace] /\ approval \in [Calls -> ApprovalStatus]
          /\ run \in [Calls -> RunStatus] /\ turnOf \in [Calls -> Turns \cup {NoTurn}]
          /\ bound \subseteq Calls /\ group \subseteq Calls /\ DriverHasTurn /\ SavedByTurn
          /\ (\A c \in Calls : ToolKnowsRun(c)) /\ (\A c \in Calls : ExecutedOnce(c))
  BY DEF GroupsInv, IInv, TypeOK, StoreTypes, ProcessTypes, FlagTypes, Story, CallStory
<1>fresh. /\ NoTurn \notin Turns
         /\ \A c \in Calls : turnOf[c] \notin Turns =>
              turnOf[c] = NoTurn /\ run[c] = "none" /\ approval[c] = "none" /\ tool[c] = "idle" /\ op[c] = "idle"
  BY Fresh
<1>1. CASE BeginResume
  BY <1>1, <1>given, <1>fresh, <1>types DEF BeginResume, Replayed, HasCheckpoint
<1>2. CASE Activate
  BY <1>2, <1>given, <1>fresh, <1>types
    DEF Activate, Exposed, Rebound, Fault, TurnCalls, PauseStory, ToolStory, Kept, Away, Handling,
        Ending
<1>3. CASE ResumeGroup
  BY <1>3, <1>given, <1>fresh, <1>types DEF ResumeGroup, Replayed, Fault, AllDecided
<1>4. ASSUME NEW c \in Calls, ToolSubmit(c)
      PROVE  StartStory'
  BY <1>4, <1>given, <1>fresh, <1>types DEF ToolSubmit, MoveTool, Execute, EndCall
<1>5. ASSUME NEW c \in Calls, ToolBind(c)
      PROVE  StartStory'
  BY <1>5, <1>given, <1>fresh, <1>types DEF ToolBind, MoveTool
<1>6. ASSUME NEW c \in Calls, ToolRequest(c)
      PROVE  StartStory'
  BY <1>6, <1>given, <1>fresh, <1>types DEF ToolRequest, MoveTool
<1>7. ASSUME NEW c \in Calls, ToolPause(c)
      PROVE  StartStory'
  BY <1>7, <1>given, <1>fresh, <1>types DEF ToolPause, MoveTool
<1>8. ASSUME NEW c \in Calls, ToolAbandon(c)
      PROVE  StartStory'
  BY <1>8, <1>given, <1>fresh, <1>types DEF ToolAbandon, MoveTool, EndCall, Fault
<1>9. ASSUME NEW c \in Calls, ToolResume(c)
      PROVE  StartStory'
  BY <1>9, <1>given, <1>fresh, <1>types DEF ToolResume, MoveTool, EndCall
<1>10. ASSUME NEW c \in Calls, ToolClaim(c)
      PROVE  StartStory'
  BY <1>10, <1>given, <1>fresh, <1>types
    DEF ToolClaim, MoveTool, EndCall, Execute, ClaimedStatus, Claimable
<1>11. ASSUME NEW c \in Calls, ToolRefused(c)
      PROVE  StartStory'
  BY <1>11, <1>given, <1>fresh, <1>types DEF ToolRefused, MoveTool, EndCall
<1>12. ASSUME NEW c \in Calls, ToolFinish(c)
      PROVE  StartStory'
  BY <1>12, <1>given, <1>fresh, <1>types DEF ToolFinish, MoveTool, EndCall, Fault
<1>13. CASE StopAbort
  BY <1>13, <1>given, <1>fresh, <1>types DEF StopAbort, Settle, Abortable
<1>14. ASSUME NEW c \in Calls, StopReject(c)
      PROVE  StartStory'
  BY <1>14, <1>given, <1>fresh, <1>types DEF StopReject, Settle, Decidable
<1>15. CASE RecoverApprovals
  BY <1>15, <1>given, <1>fresh, <1>types DEF RecoverApprovals, Unactivated, TurnCalls
<1>16. CASE RecoverResume
  BY <1>16, <1>given, <1>fresh, <1>types, ResumeReads
    DEF RecoverResume, ResumeDecided, BeginDriver
<1>17. ASSUME NEW t \in Turns, ReloadAgent(t)
      PROVE  StartStory'
  BY <1>17, <1>given, <1>fresh, <1>types, ResumeReads DEF ReloadAgent, ResumeDecided, BeginDriver
<1>18. ASSUME NEW S \in SUBSET Calls, ModelCalls(S)
      PROVE  StartStory'
  BY <1>18, <1>given, <1>fresh, <1>types
    DEF ModelCalls, ModelStory, Asking, AtRest, Live, Paused, TurnCalls
<1>19. ASSUME NEW c \in Calls, NEW d \in Decided, Decide(c, d)
      PROVE  StartStory'
  BY <1>19, <1>given, <1>fresh, <1>types DEF Decide, Decidable, Decided
<1>20. CASE Crash
  BY <1>20, <1>given, <1>fresh, <1>types DEF Crash
<1>21. CASE \/ BeginTurn
           \/ Interrupt
           \/ RegisterPause
           \/ MarkWaiting
           \/ Wake
           \/ ModelEnd
           \/ ModelCancelled
           \/ SettleCalls
           \/ MarkMessage
           \/ CheckpointCleanup
           \/ Exit
           \/ (\E c \in Calls : OpResumeQueue(c))
           \/ (\E c \in Calls : OpCheckActive(c))
           \/ (\E c \in Calls : OpReadGroup(c))
           \/ (\E c \in Calls : OpBegin(c))
           \/ StopQueue
           \/ StopDone
           \/ RecoverRuns
           \/ RecoverMessages
           \/ RecoverCalls
           \/ (\E t \in Turns : StartTurn(t))
           \/ (\E t \in Turns : QueueAdvance(t))
           \/ StopSession
  <2>1. UNCHANGED <<approval, turnOf, tool>>
    BY <1>21
      DEF BeginTurn, Interrupt, Paused, TurnCalls, AtRest, RegisterPause, MarkWaiting, Fault,
          Wake, Awake, ModelEnd, ModelCancelled, SettleCalls, Settle, Unfinished, MarkMessage,
          CheckpointCleanup, Exit, OpResumeQueue, Remaining, OpCheckActive, OpReadGroup,
          DecidedGroup, OpBegin, BeginDriver, StopQueue, StopDone, RecoverRuns, RecoverMessages,
          RecoverCalls, StartTurn, QueueAdvance, StopSession, SessionActive, LiveTools
  <2> QED
    BY <2>1, <1>given
<1>22. CASE UNCHANGED vars
  BY <1>22, <1>given DEF vars
<1> QED
  BY <1>1, <1>2, <1>3, <1>4, <1>5, <1>6, <1>7, <1>8, <1>9, <1>10, <1>11, <1>12, <1>13, <1>14,
       <1>15, <1>16, <1>17, <1>18, <1>19, <1>20, <1>21, <1>22
  DEF Next, DriverStep, ToolStep, OpStep, StopStep, RecoveryStep

\* A checkpoint holds one group.
LEMMA GroupStep == GroupsInv /\ [Next]_vars => \A u \in Turns : GroupStory(u)'
<1> SUFFICES ASSUME GroupsInv, [Next]_vars, NEW u \in Turns PROVE GroupStory(u)'
  OBVIOUS
<1> USE DEF store, driver, queued, tools, handler, budget, GroupStory, DriverHasTurn, SavedByTurn,
      Bound, TurnCalls
<1>given. /\ PauseStory /\ ModelStory /\ (\A c \in Calls : ApprovalStory(c))
          /\ (\A t \in Turns : GroupStory(t))
  BY DEF GroupsInv, GroupsStory
<1>types. /\ msg \in [Turns -> MessageStatus] /\ saved \in [Turns -> SUBSET Calls]
          /\ tool \in [Calls -> ToolPlace] /\ approval \in [Calls -> ApprovalStatus]
          /\ run \in [Calls -> RunStatus] /\ turnOf \in [Calls -> Turns \cup {NoTurn}]
          /\ bound \subseteq Calls /\ group \subseteq Calls /\ DriverHasTurn /\ SavedByTurn
          /\ (\A c \in Calls : ToolKnowsRun(c)) /\ (\A c \in Calls : ExecutedOnce(c))
  BY DEF GroupsInv, IInv, TypeOK, StoreTypes, ProcessTypes, FlagTypes, Story, CallStory
<1>fresh. /\ NoTurn \notin Turns
         /\ \A c \in Calls : turnOf[c] \notin Turns =>
              turnOf[c] = NoTurn /\ run[c] = "none" /\ approval[c] = "none" /\ tool[c] = "idle" /\ op[c] = "idle"
  BY Fresh
<1>1. CASE Interrupt
  BY <1>1, <1>given, <1>fresh, <1>types DEF Interrupt, Paused, AtRest, ModelStory, Asking, Live
<1>2. CASE Activate
  BY <1>2, <1>given, <1>fresh, <1>types
    DEF Activate, Exposed, Rebound, Fault, PauseStory, Handling, Ending
<1>3. CASE CheckpointCleanup
  BY <1>3, <1>given, <1>fresh, <1>types DEF CheckpointCleanup, Fault
<1>4. ASSUME NEW c \in Calls, ToolRequest(c)
      PROVE  GroupStory(u)'
  BY <1>4, <1>given, <1>fresh, <1>types DEF ToolRequest, MoveTool
<1>5. CASE StopAbort
  BY <1>5, <1>given, <1>fresh, <1>types DEF StopAbort, Settle, Abortable
<1>6. ASSUME NEW c \in Calls, StopReject(c)
      PROVE  GroupStory(u)'
  BY <1>6, <1>given, <1>fresh, <1>types DEF StopReject, Settle, Decidable
<1>7. CASE RecoverApprovals
  BY <1>7, <1>given, <1>fresh, <1>types DEF RecoverApprovals, Unactivated
<1>8. CASE RecoverResume
  BY <1>8, <1>given, <1>fresh, <1>types, ResumeReads DEF RecoverResume, ResumeDecided, BeginDriver
<1>9. ASSUME NEW t \in Turns, ReloadAgent(t)
      PROVE  GroupStory(u)'
  BY <1>9, <1>given, <1>fresh, <1>types, ResumeReads DEF ReloadAgent, ResumeDecided, BeginDriver
<1>10. ASSUME NEW S \in SUBSET Calls, ModelCalls(S)
      PROVE  GroupStory(u)'
  BY <1>10, <1>given, <1>fresh, <1>types DEF ModelCalls, ApprovalStory
<1>11. ASSUME NEW c \in Calls, NEW d \in Decided, Decide(c, d)
      PROVE  GroupStory(u)'
  BY <1>11, <1>given, <1>fresh, <1>types DEF Decide, Decidable, Decided
<1>12. CASE \/ BeginTurn
           \/ BeginResume
           \/ RegisterPause
           \/ MarkWaiting
           \/ Wake
           \/ ResumeGroup
           \/ ModelEnd
           \/ ModelCancelled
           \/ SettleCalls
           \/ MarkMessage
           \/ Exit
           \/ (\E c \in Calls : ToolSubmit(c))
           \/ (\E c \in Calls : ToolBind(c))
           \/ (\E c \in Calls : ToolPause(c))
           \/ (\E c \in Calls : ToolAbandon(c))
           \/ (\E c \in Calls : ToolResume(c))
           \/ (\E c \in Calls : ToolClaim(c))
           \/ (\E c \in Calls : ToolRefused(c))
           \/ (\E c \in Calls : ToolFinish(c))
           \/ (\E c \in Calls : OpResumeQueue(c))
           \/ (\E c \in Calls : OpCheckActive(c))
           \/ (\E c \in Calls : OpReadGroup(c))
           \/ (\E c \in Calls : OpBegin(c))
           \/ StopQueue
           \/ StopDone
           \/ RecoverRuns
           \/ RecoverMessages
           \/ RecoverCalls
           \/ (\E t \in Turns : StartTurn(t))
           \/ (\E t \in Turns : QueueAdvance(t))
           \/ StopSession
           \/ Crash
  <2>1. UNCHANGED <<saved, bound, turnOf, approval>>
    BY <1>12
      DEF BeginTurn, BeginResume, Replayed, HasCheckpoint, RegisterPause, MarkWaiting, Fault,
          Wake, Awake, ResumeGroup, AllDecided, ModelEnd, AtRest, Paused, ModelCancelled,
          SettleCalls, Settle, Unfinished, MarkMessage, Exit, ToolSubmit, MoveTool, Execute,
          EndCall, ToolBind, ToolPause, ToolAbandon, ToolResume, ToolClaim, ClaimedStatus,
          Claimable, ToolRefused, ToolFinish, OpResumeQueue, Remaining, OpCheckActive,
          OpReadGroup, DecidedGroup, OpBegin, BeginDriver, StopQueue, StopDone, RecoverRuns,
          RecoverMessages, RecoverCalls, StartTurn, QueueAdvance, StopSession, SessionActive,
          LiveTools, Crash
  <2> QED
    BY <2>1, <1>given
<1>13. CASE UNCHANGED vars
  BY <1>13, <1>given DEF vars
<1> QED
  BY <1>1, <1>2, <1>3, <1>4, <1>5, <1>6, <1>7, <1>8, <1>9, <1>10, <1>11, <1>12, <1>13
  DEF Next, DriverStep, ToolStep, OpStep, StopStep, RecoveryStep

\* What asks while the model works.
LEMMA ModelStep == GroupsInv /\ [Next]_vars => ModelStory'
<1> SUFFICES ASSUME GroupsInv, [Next]_vars PROVE ModelStory'
  OBVIOUS
<1> USE DEF store, driver, queued, tools, handler, budget, ModelStory, DriverHasTurn, SavedByTurn,
      Asking, TurnCalls
<1>given. /\ PauseStory /\ ModelStory /\ MessageStory /\ DriverRead /\ QueueStory
          /\ (\A t \in Turns : UnmadeStory(t)) /\ (\A c \in Calls : ApprovalStory(c))
          /\ (\A c \in Calls : SavedStory(c)) /\ (\A c \in Calls : ToolStory(c))
          /\ (\A t \in Turns : GroupStory(t))
  BY DEF GroupsInv, GroupsStory
<1>types. /\ msg \in [Turns -> MessageStatus] /\ saved \in [Turns -> SUBSET Calls]
          /\ tool \in [Calls -> ToolPlace] /\ approval \in [Calls -> ApprovalStatus]
          /\ run \in [Calls -> RunStatus] /\ turnOf \in [Calls -> Turns \cup {NoTurn}]
          /\ bound \subseteq Calls /\ group \subseteq Calls /\ DriverHasTurn /\ SavedByTurn
          /\ (\A c \in Calls : ToolKnowsRun(c)) /\ (\A c \in Calls : ExecutedOnce(c))
  BY DEF GroupsInv, IInv, TypeOK, StoreTypes, ProcessTypes, FlagTypes, Story, CallStory
<1>fresh. /\ NoTurn \notin Turns
         /\ \A c \in Calls : turnOf[c] \notin Turns =>
              turnOf[c] = NoTurn /\ run[c] = "none" /\ approval[c] = "none" /\ tool[c] = "idle" /\ op[c] = "idle"
  BY Fresh
<1>1. CASE BeginTurn
  BY <1>1, <1>given, <1>fresh, <1>types DEF BeginTurn, MessageStory, UnmadeStory
<1>2. CASE BeginResume
  <2>1. CASE pc' # "model"
    BY <2>1
  <2>2. CASE pc' = "model"
    <3>1. /\ pc = "begun" /\ group # {} /\ turn \in Turns /\ turn' = turn
          /\ msg[turn] \in {"waiting_for_approval", "pending"} /\ saved[turn] # {}
          /\ tool' = [c \in Calls |-> IF c \notin saved[turn] THEN tool[c]
                                     ELSE IF c \in group THEN "resume" ELSE "requested"]
          /\ UNCHANGED <<approval, saved, turnOf>>
      BY <1>2, <2>2, <1>types DEF BeginResume, Replayed, HasCheckpoint
    <3>2. \A c \in Calls : turnOf[c] = turn /\ c \notin saved[turn] => tool[c] \in {"idle", "done"}
      BY <3>1, <1>given DEF ToolStory, Kept, Away, Handling, Ending
    <3>3. \A c \in Calls : turnOf[c] = turn /\ approval[c] = "pending" => c \in saved[turn]
      BY <3>1, <1>given DEF SavedStory
    <3>4. (\A c \in group : approval[c] \in Decided) /\ (group = Bound(turn) \/ group \cap Bound(turn) = {})
      BY <3>1, <1>given DEF DriverRead, GroupRead, AllDecided
    <3>5. \A c \in saved[turn] : turnOf[c] = turn
      BY <3>1, <1>types
    <3>6. Asking(turn)' = saved[turn] \ group
      <4>1. \A c \in Calls : turnOf[c] = turn /\ tool'[c] \in {"requested", "paused"} <=> c \in saved[turn] /\ c \notin group
        BY <3>1, <3>2, <3>5
      <4> QED
        BY <4>1, <3>1, <1>types
    <3>7. CASE \A c \in saved[turn] : approval[c] = "preparing"
      BY <3>1, <3>3, <3>6, <3>7, <1>types
    <3>8. CASE saved[turn] = Bound(turn) /\ group = Bound(turn)
      BY <3>1, <3>3, <3>4, <3>6, <3>8, <1>types DEF Decided
    <3>9. CASE saved[turn] = Bound(turn) /\ group \cap Bound(turn) = {}
      <4>1. Asking(turn)' = saved[turn]
        BY <3>6, <3>9
      <4>2. \A c \in TurnCalls(turn) : tool'[c] \in {"requested", "paused", "idle", "done"}
        BY <3>1, <3>2, <3>9
      <4> QED
        BY <3>1, <3>3, <4>1, <4>2
    <3> QED
      BY <3>1, <3>4, <3>7, <3>8, <3>9, <1>given DEF GroupStory
  <2> QED
    BY <2>1, <2>2
<1>3. CASE Interrupt
  BY <1>3, <1>given, <1>fresh, <1>types DEF Interrupt, Paused, AtRest
<1>4. CASE RegisterPause
  BY <1>4, <1>given, <1>fresh, <1>types DEF RegisterPause
<1>5. CASE Activate
  BY <1>5, <1>given, <1>fresh, <1>types DEF Activate, Exposed, Rebound, Fault
<1>6. CASE MarkWaiting
  BY <1>6, <1>given, <1>fresh, <1>types DEF MarkWaiting, Fault
<1>7. CASE Wake
  BY <1>7, <1>given, <1>fresh, <1>types DEF Wake, Awake
<1>8. CASE ResumeGroup
  BY <1>8, <1>given, <1>fresh, <1>types
    DEF ResumeGroup, Replayed, Fault, AllDecided, PauseStory, ToolStory, Kept, Away, SavedStory,
        Decided, Handling, Ending
<1>9. CASE ModelEnd
  BY <1>9, <1>given, <1>fresh, <1>types DEF ModelEnd, Fault, AtRest, Paused
<1>10. CASE ModelCancelled
  BY <1>10, <1>given, <1>fresh, <1>types DEF ModelCancelled
<1>11. CASE SettleCalls
  BY <1>11, <1>given, <1>fresh, <1>types DEF SettleCalls, Settle, Unfinished
<1>12. CASE MarkMessage
  BY <1>12, <1>given, <1>fresh, <1>types DEF MarkMessage
<1>13. CASE CheckpointCleanup
  BY <1>13, <1>given, <1>fresh, <1>types DEF CheckpointCleanup, Fault
<1>14. CASE Exit
  BY <1>14, <1>given, <1>fresh, <1>types DEF Exit
<1>15. ASSUME NEW c \in Calls, ToolSubmit(c)
      PROVE  ModelStory'
  BY <1>15, <1>given, <1>fresh, <1>types DEF ToolSubmit, MoveTool, Execute, EndCall
<1>16. ASSUME NEW c \in Calls, ToolBind(c)
      PROVE  ModelStory'
  BY <1>16, <1>given, <1>fresh, <1>types DEF ToolBind, MoveTool
<1>17. ASSUME NEW c \in Calls, ToolRequest(c)
      PROVE  ModelStory'
  BY <1>17, <1>given, <1>fresh, <1>types DEF ToolRequest, MoveTool
<1>18. ASSUME NEW c \in Calls, ToolPause(c)
      PROVE  ModelStory'
  BY <1>18, <1>given, <1>fresh, <1>types DEF ToolPause, MoveTool
<1>19. ASSUME NEW c \in Calls, ToolAbandon(c)
      PROVE  ModelStory'
  BY <1>19, <1>given, <1>fresh, <1>types DEF ToolAbandon, MoveTool, EndCall, Fault
<1>20. ASSUME NEW c \in Calls, ToolResume(c)
      PROVE  ModelStory'
  BY <1>20, <1>given, <1>fresh, <1>types DEF ToolResume, MoveTool, EndCall
<1>21. ASSUME NEW c \in Calls, ToolClaim(c)
      PROVE  ModelStory'
  BY <1>21, <1>given, <1>fresh, <1>types
    DEF ToolClaim, MoveTool, EndCall, Execute, ClaimedStatus, Claimable
<1>22. ASSUME NEW c \in Calls, ToolRefused(c)
      PROVE  ModelStory'
  BY <1>22, <1>given, <1>fresh, <1>types DEF ToolRefused, MoveTool, EndCall
<1>23. ASSUME NEW c \in Calls, ToolFinish(c)
      PROVE  ModelStory'
  BY <1>23, <1>given, <1>fresh, <1>types DEF ToolFinish, MoveTool, EndCall, Fault
<1>24. ASSUME NEW c \in Calls, OpBegin(c)
      PROVE  ModelStory'
  BY <1>24, <1>given, <1>fresh, <1>types DEF OpBegin, BeginDriver
<1>25. CASE StopAbort
  BY <1>25, <1>given, <1>fresh, <1>types DEF StopAbort, Settle, Abortable
<1>26. ASSUME NEW c \in Calls, StopReject(c)
      PROVE  ModelStory'
  BY <1>26, <1>given, <1>fresh, <1>types DEF StopReject, Settle, Decidable
<1>27. CASE RecoverApprovals
  BY <1>27, <1>given, <1>fresh, <1>types DEF RecoverApprovals, Unactivated, QueueStory
<1>28. CASE RecoverResume
  BY <1>28, <1>given, <1>fresh, <1>types, ResumeReads
    DEF RecoverResume, ResumeDecided, BeginDriver
<1>29. ASSUME NEW t \in Turns, StartTurn(t)
      PROVE  ModelStory'
  BY <1>29, <1>given, <1>fresh, <1>types DEF StartTurn
<1>30. ASSUME NEW t \in Turns, QueueAdvance(t)
      PROVE  ModelStory'
  BY <1>30, <1>given, <1>fresh, <1>types DEF QueueAdvance
<1>31. ASSUME NEW t \in Turns, ReloadAgent(t)
      PROVE  ModelStory'
  BY <1>31, <1>given, <1>fresh, <1>types, ResumeReads DEF ReloadAgent, ResumeDecided, BeginDriver
<1>32. ASSUME NEW S \in SUBSET Calls, ModelCalls(S)
      PROVE  ModelStory'
  BY <1>32, <1>given, <1>fresh, <1>types DEF ModelCalls, AtRest, Live, Paused
<1>33. ASSUME NEW c \in Calls, NEW d \in Decided, Decide(c, d)
      PROVE  ModelStory'
  BY <1>33, <1>given, <1>fresh, <1>types DEF Decide, Decidable, Decided
<1>34. CASE Crash
  BY <1>34, <1>given, <1>fresh, <1>types DEF Crash
<1>35. CASE \/ (\E c \in Calls : OpResumeQueue(c))
           \/ (\E c \in Calls : OpCheckActive(c))
           \/ (\E c \in Calls : OpReadGroup(c))
           \/ StopQueue
           \/ StopDone
           \/ RecoverRuns
           \/ RecoverMessages
           \/ RecoverCalls
           \/ StopSession
  <2>1. UNCHANGED <<pc, turn, turnOf, tool, saved, approval>>
    BY <1>35
      DEF OpResumeQueue, Settle, Remaining, OpCheckActive, OpReadGroup, DecidedGroup, StopQueue,
          StopDone, RecoverRuns, RecoverMessages, RecoverCalls, StopSession, SessionActive,
          LiveTools
  <2> QED
    BY <2>1, <1>given
<1>36. CASE UNCHANGED vars
  BY <1>36, <1>given DEF vars
<1> QED
  BY <1>1, <1>2, <1>3, <1>4, <1>5, <1>6, <1>7, <1>8, <1>9, <1>10, <1>11, <1>12, <1>13, <1>14,
       <1>15, <1>16, <1>17, <1>18, <1>19, <1>20, <1>21, <1>22, <1>23, <1>24, <1>25, <1>26, <1>27,
       <1>28, <1>29, <1>30, <1>31, <1>32, <1>33, <1>34, <1>35, <1>36
  DEF Next, DriverStep, ToolStep, OpStep, StopStep, RecoveryStep

\* Nothing of a group is carried out before all of it is decided.
LEMMA UndecidedStep == GroupsInv /\ [Next]_vars => \A u \in Turns : UndecidedStory(u)'
<1> SUFFICES ASSUME GroupsInv, [Next]_vars, NEW u \in Turns PROVE UndecidedStory(u)'
  OBVIOUS
<1> USE DEF store, driver, queued, tools, handler, budget, UndecidedStory, AllDecided, Decided,
      Answered, DriverHasTurn, SavedByTurn, Bound, TurnCalls
<1>given. /\ PauseStory /\ ResumedWhenDecided /\ (\A t \in Turns : UndecidedStory(t))
          /\ (\A c \in Calls : ApprovalStory(c)) /\ (\A t \in Turns : GroupStory(t))
  BY DEF GroupsInv, GroupsStory
<1>types. /\ msg \in [Turns -> MessageStatus] /\ saved \in [Turns -> SUBSET Calls]
          /\ tool \in [Calls -> ToolPlace] /\ approval \in [Calls -> ApprovalStatus]
          /\ run \in [Calls -> RunStatus] /\ turnOf \in [Calls -> Turns \cup {NoTurn}]
          /\ bound \subseteq Calls /\ group \subseteq Calls /\ DriverHasTurn /\ SavedByTurn
          /\ (\A c \in Calls : ToolKnowsRun(c)) /\ (\A c \in Calls : ExecutedOnce(c))
  BY DEF GroupsInv, IInv, TypeOK, StoreTypes, ProcessTypes, FlagTypes, Story, CallStory
<1>fresh. /\ NoTurn \notin Turns
         /\ \A c \in Calls : turnOf[c] \notin Turns =>
              turnOf[c] = NoTurn /\ run[c] = "none" /\ approval[c] = "none" /\ tool[c] = "idle" /\ op[c] = "idle"
  BY Fresh
<1>1. CASE Activate
  BY <1>1, <1>given, <1>fresh, <1>types
    DEF Activate, Exposed, Rebound, Fault, PauseStory, GroupStory, ApprovalStory, Handling, Ending
<1>2. ASSUME NEW c \in Calls, ToolSubmit(c)
      PROVE  UndecidedStory(u)'
  BY <1>2, <1>given, <1>fresh, <1>types
    DEF ToolSubmit, MoveTool, Execute, EndCall, ApprovalStory, ToolKnowsRun, ExecutedOnce
<1>3. ASSUME NEW c \in Calls, ToolRequest(c)
      PROVE  UndecidedStory(u)'
  BY <1>3, <1>given, <1>fresh, <1>types
    DEF ToolRequest, MoveTool, ApprovalStory, ToolKnowsRun, ExecutedOnce
<1>4. ASSUME NEW c \in Calls, ToolClaim(c)
      PROVE  UndecidedStory(u)'
  BY <1>4, <1>given, <1>fresh, <1>types
    DEF ToolClaim, MoveTool, EndCall, Execute, ClaimedStatus, Claimable, ResumedWhenDecided
<1>5. ASSUME NEW c \in Calls, ToolFinish(c)
      PROVE  UndecidedStory(u)'
  BY <1>5, <1>given, <1>fresh, <1>types
    DEF ToolFinish, MoveTool, EndCall, Fault, ResumedWhenDecided, ToolKnowsRun, ExecutedOnce
<1>6. CASE StopAbort
  BY <1>6, <1>given, <1>fresh, <1>types DEF StopAbort, Settle, Abortable
<1>7. ASSUME NEW c \in Calls, StopReject(c)
      PROVE  UndecidedStory(u)'
  BY <1>7, <1>given, <1>fresh, <1>types DEF StopReject, Settle, Decidable
<1>8. CASE RecoverRuns
  BY <1>8, <1>given, <1>fresh, <1>types DEF RecoverRuns
<1>9. CASE RecoverApprovals
  BY <1>9, <1>given, <1>fresh, <1>types DEF RecoverApprovals, Unactivated, ApprovalStory
<1>10. CASE RecoverResume
  BY <1>10, <1>given, <1>fresh, <1>types, ResumeReads
    DEF RecoverResume, ResumeDecided, BeginDriver
<1>11. ASSUME NEW t \in Turns, ReloadAgent(t)
      PROVE  UndecidedStory(u)'
  BY <1>11, <1>given, <1>fresh, <1>types, ResumeReads DEF ReloadAgent, ResumeDecided, BeginDriver
<1>12. ASSUME NEW S \in SUBSET Calls, ModelCalls(S)
      PROVE  UndecidedStory(u)'
  BY <1>12, <1>given, <1>fresh, <1>types DEF ModelCalls, ApprovalStory
<1>13. ASSUME NEW c \in Calls, NEW d \in Decided, Decide(c, d)
      PROVE  UndecidedStory(u)'
  BY <1>13, <1>given, <1>fresh, <1>types DEF Decide, Decidable, ApprovalStory
<1>14. CASE \/ BeginTurn
           \/ BeginResume
           \/ Interrupt
           \/ RegisterPause
           \/ MarkWaiting
           \/ Wake
           \/ ResumeGroup
           \/ ModelEnd
           \/ ModelCancelled
           \/ SettleCalls
           \/ MarkMessage
           \/ CheckpointCleanup
           \/ Exit
           \/ (\E c \in Calls : ToolBind(c))
           \/ (\E c \in Calls : ToolPause(c))
           \/ (\E c \in Calls : ToolAbandon(c))
           \/ (\E c \in Calls : ToolResume(c))
           \/ (\E c \in Calls : ToolRefused(c))
           \/ (\E c \in Calls : OpResumeQueue(c))
           \/ (\E c \in Calls : OpCheckActive(c))
           \/ (\E c \in Calls : OpReadGroup(c))
           \/ (\E c \in Calls : OpBegin(c))
           \/ StopQueue
           \/ StopDone
           \/ RecoverMessages
           \/ RecoverCalls
           \/ (\E t \in Turns : StartTurn(t))
           \/ (\E t \in Turns : QueueAdvance(t))
           \/ StopSession
           \/ Crash
  <2>1. UNCHANGED <<bound, turnOf, approval, run>>
    BY <1>14
      DEF BeginTurn, BeginResume, Replayed, HasCheckpoint, Interrupt, Paused, AtRest,
          RegisterPause, MarkWaiting, Fault, Wake, Awake, ResumeGroup, ModelEnd, ModelCancelled,
          SettleCalls, Settle, Unfinished, MarkMessage, CheckpointCleanup, Exit, ToolBind,
          MoveTool, ToolPause, ToolAbandon, EndCall, ToolResume, ToolRefused, OpResumeQueue,
          Remaining, OpCheckActive, OpReadGroup, DecidedGroup, OpBegin, BeginDriver, StopQueue,
          StopDone, RecoverMessages, RecoverCalls, StartTurn, QueueAdvance, StopSession,
          SessionActive, LiveTools, Crash
  <2> QED
    BY <2>1, <1>given
<1>15. CASE UNCHANGED vars
  BY <1>15, <1>given DEF vars
<1> QED
  BY <1>1, <1>2, <1>3, <1>4, <1>5, <1>6, <1>7, <1>8, <1>9, <1>10, <1>11, <1>12, <1>13, <1>14,
       <1>15
  DEF Next, DriverStep, ToolStep, OpStep, StopStep, RecoveryStep

\* A group is resumed when it is decided.
LEMMA ResumedStep == GroupsInv /\ [Next]_vars => ResumedWhenDecided'
<1> SUFFICES ASSUME GroupsInv, [Next]_vars PROVE ResumedWhenDecided'
  OBVIOUS
<1> USE DEF store, driver, queued, tools, handler, budget, ResumedWhenDecided, AllDecided,
      Decided, DriverHasTurn, SavedByTurn, Bound, TurnCalls
<1>given. /\ PauseStory /\ ResumedWhenDecided /\ DriverRead /\ BoundStory
          /\ (\A c \in Calls : ApprovalStory(c)) /\ (\A c \in Calls : ToolStory(c))
          /\ (\A c \in Calls : RestStory(c)) /\ (\A t \in Turns : GroupStory(t))
  BY DEF GroupsInv, GroupsStory
<1>types. /\ msg \in [Turns -> MessageStatus] /\ saved \in [Turns -> SUBSET Calls]
          /\ tool \in [Calls -> ToolPlace] /\ approval \in [Calls -> ApprovalStatus]
          /\ run \in [Calls -> RunStatus] /\ turnOf \in [Calls -> Turns \cup {NoTurn}]
          /\ bound \subseteq Calls /\ group \subseteq Calls /\ DriverHasTurn /\ SavedByTurn
          /\ (\A c \in Calls : ToolKnowsRun(c)) /\ (\A c \in Calls : ExecutedOnce(c))
  BY DEF GroupsInv, IInv, TypeOK, StoreTypes, ProcessTypes, FlagTypes, Story, CallStory
<1>fresh. /\ NoTurn \notin Turns
         /\ \A c \in Calls : turnOf[c] \notin Turns =>
              turnOf[c] = NoTurn /\ run[c] = "none" /\ approval[c] = "none" /\ tool[c] = "idle" /\ op[c] = "idle"
  BY Fresh
<1>1. CASE BeginResume
  BY <1>1, <1>given, <1>fresh, <1>types
    DEF BeginResume, Replayed, HasCheckpoint, DriverRead, GroupRead, GroupStory
<1>2. CASE Activate
  BY <1>2, <1>given, <1>fresh, <1>types
    DEF Activate, Exposed, Rebound, Fault, PauseStory, ToolStory, Kept, Away, Handling, Ending
<1>3. CASE ResumeGroup
  BY <1>3, <1>given, <1>fresh, <1>types DEF ResumeGroup, Replayed, Fault, BoundStory
<1>4. ASSUME NEW c \in Calls, ToolSubmit(c)
      PROVE  ResumedWhenDecided'
  BY <1>4, <1>given, <1>fresh, <1>types DEF ToolSubmit, MoveTool, Execute, EndCall
<1>5. ASSUME NEW c \in Calls, ToolBind(c)
      PROVE  ResumedWhenDecided'
  BY <1>5, <1>given, <1>fresh, <1>types DEF ToolBind, MoveTool
<1>6. ASSUME NEW c \in Calls, ToolRequest(c)
      PROVE  ResumedWhenDecided'
  BY <1>6, <1>given, <1>fresh, <1>types
    DEF ToolRequest, MoveTool, ApprovalStory, ToolKnowsRun, ExecutedOnce
<1>7. ASSUME NEW c \in Calls, ToolPause(c)
      PROVE  ResumedWhenDecided'
  BY <1>7, <1>given, <1>fresh, <1>types DEF ToolPause, MoveTool
<1>8. ASSUME NEW c \in Calls, ToolAbandon(c)
      PROVE  ResumedWhenDecided'
  BY <1>8, <1>given, <1>fresh, <1>types DEF ToolAbandon, MoveTool, EndCall, Fault
<1>9. ASSUME NEW c \in Calls, ToolResume(c)
      PROVE  ResumedWhenDecided'
  BY <1>9, <1>given, <1>fresh, <1>types DEF ToolResume, MoveTool, EndCall
<1>10. ASSUME NEW c \in Calls, ToolClaim(c)
      PROVE  ResumedWhenDecided'
  BY <1>10, <1>given, <1>fresh, <1>types
    DEF ToolClaim, MoveTool, EndCall, Execute, ClaimedStatus, Claimable
<1>11. ASSUME NEW c \in Calls, ToolRefused(c)
      PROVE  ResumedWhenDecided'
  BY <1>11, <1>given, <1>fresh, <1>types DEF ToolRefused, MoveTool, EndCall
<1>12. ASSUME NEW c \in Calls, ToolFinish(c)
      PROVE  ResumedWhenDecided'
  BY <1>12, <1>given, <1>fresh, <1>types DEF ToolFinish, MoveTool, EndCall, Fault
<1>13. CASE StopAbort
  BY <1>13, <1>given, <1>fresh, <1>types DEF StopAbort, Settle, Abortable
<1>14. ASSUME NEW c \in Calls, StopReject(c)
      PROVE  ResumedWhenDecided'
  BY <1>14, <1>given, <1>fresh, <1>types DEF StopReject, Settle, Decidable
<1>15. CASE RecoverApprovals
  BY <1>15, <1>given, <1>fresh, <1>types DEF RecoverApprovals, Unactivated, RestStory
<1>16. CASE RecoverResume
  BY <1>16, <1>given, <1>fresh, <1>types, ResumeReads
    DEF RecoverResume, ResumeDecided, BeginDriver
<1>17. ASSUME NEW t \in Turns, ReloadAgent(t)
      PROVE  ResumedWhenDecided'
  BY <1>17, <1>given, <1>fresh, <1>types, ResumeReads DEF ReloadAgent, ResumeDecided, BeginDriver
<1>18. ASSUME NEW S \in SUBSET Calls, ModelCalls(S)
      PROVE  ResumedWhenDecided'
  BY <1>18, <1>given, <1>fresh, <1>types DEF ModelCalls, ApprovalStory
<1>19. ASSUME NEW c \in Calls, NEW d \in Decided, Decide(c, d)
      PROVE  ResumedWhenDecided'
  BY <1>19, <1>given, <1>fresh, <1>types DEF Decide, Decidable
<1>20. CASE Crash
  BY <1>20, <1>given, <1>fresh, <1>types DEF Crash
<1>21. CASE \/ BeginTurn
           \/ Interrupt
           \/ RegisterPause
           \/ MarkWaiting
           \/ Wake
           \/ ModelEnd
           \/ ModelCancelled
           \/ SettleCalls
           \/ MarkMessage
           \/ CheckpointCleanup
           \/ Exit
           \/ (\E c \in Calls : OpResumeQueue(c))
           \/ (\E c \in Calls : OpCheckActive(c))
           \/ (\E c \in Calls : OpReadGroup(c))
           \/ (\E c \in Calls : OpBegin(c))
           \/ StopQueue
           \/ StopDone
           \/ RecoverRuns
           \/ RecoverMessages
           \/ RecoverCalls
           \/ (\E t \in Turns : StartTurn(t))
           \/ (\E t \in Turns : QueueAdvance(t))
           \/ StopSession
  <2>1. UNCHANGED <<tool, approval, bound, turnOf>>
    BY <1>21
      DEF BeginTurn, Interrupt, Paused, AtRest, RegisterPause, MarkWaiting, Fault, Wake, Awake,
          ModelEnd, ModelCancelled, SettleCalls, Settle, Unfinished, MarkMessage,
          CheckpointCleanup, Exit, OpResumeQueue, Remaining, OpCheckActive, OpReadGroup,
          DecidedGroup, OpBegin, BeginDriver, StopQueue, StopDone, RecoverRuns, RecoverMessages,
          RecoverCalls, StartTurn, QueueAdvance, StopSession, SessionActive, LiveTools
  <2> QED
    BY <2>1, <1>given
<1>22. CASE UNCHANGED vars
  BY <1>22, <1>given DEF vars
<1> QED
  BY <1>1, <1>2, <1>3, <1>4, <1>5, <1>6, <1>7, <1>8, <1>9, <1>10, <1>11, <1>12, <1>13, <1>14,
       <1>15, <1>16, <1>17, <1>18, <1>19, <1>20, <1>21, <1>22
  DEF Next, DriverStep, ToolStep, OpStep, StopStep, RecoveryStep

\* What a driver starts with was decided.
LEMMA DriverReadStep == GroupsInv /\ [Next]_vars => DriverRead'
<1> SUFFICES ASSUME GroupsInv, [Next]_vars PROVE DriverRead'
  OBVIOUS
<1> USE DEF store, driver, queued, tools, handler, budget, DriverRead, GroupRead, AllDecided,
      Decided, DriverHasTurn, SavedByTurn, Bound, TurnCalls
<1>given. DriverRead /\ HandlerRead /\ QueueStory /\ (\A c \in Calls : ApprovalStory(c))
  BY DEF GroupsInv, GroupsStory
<1>types. /\ msg \in [Turns -> MessageStatus] /\ saved \in [Turns -> SUBSET Calls]
          /\ tool \in [Calls -> ToolPlace] /\ approval \in [Calls -> ApprovalStatus]
          /\ run \in [Calls -> RunStatus] /\ turnOf \in [Calls -> Turns \cup {NoTurn}]
          /\ bound \subseteq Calls /\ group \subseteq Calls /\ DriverHasTurn /\ SavedByTurn
          /\ (\A c \in Calls : ToolKnowsRun(c)) /\ (\A c \in Calls : ExecutedOnce(c))
          /\ op \in [Calls -> HandlerPlace] /\ opGroup \in [Calls -> SUBSET Calls]
  BY DEF GroupsInv, IInv, TypeOK, StoreTypes, ProcessTypes, FlagTypes, Story, CallStory
<1>fresh. /\ NoTurn \notin Turns
         /\ \A c \in Calls : turnOf[c] \notin Turns =>
              turnOf[c] = NoTurn /\ run[c] = "none" /\ approval[c] = "none" /\ tool[c] = "idle" /\ op[c] = "idle"
  BY Fresh
<1>1. CASE BeginTurn
  BY <1>1, <1>given, <1>fresh, <1>types DEF BeginTurn
<1>2. CASE BeginResume
  BY <1>2, <1>given, <1>fresh, <1>types DEF BeginResume, Replayed, HasCheckpoint
<1>3. CASE Interrupt
  BY <1>3, <1>given, <1>fresh, <1>types DEF Interrupt, Paused, AtRest
<1>4. CASE RegisterPause
  BY <1>4, <1>given, <1>fresh, <1>types DEF RegisterPause
<1>5. CASE Activate
  BY <1>5, <1>given, <1>fresh, <1>types DEF Activate, Exposed, Rebound, Fault
<1>6. CASE MarkWaiting
  BY <1>6, <1>given, <1>fresh, <1>types DEF MarkWaiting, Fault
<1>7. CASE Wake
  BY <1>7, <1>given, <1>fresh, <1>types DEF Wake, Awake
<1>8. CASE ResumeGroup
  BY <1>8, <1>given, <1>fresh, <1>types DEF ResumeGroup, Replayed, Fault
<1>9. CASE ModelEnd
  BY <1>9, <1>given, <1>fresh, <1>types DEF ModelEnd, Fault, AtRest, Paused
<1>10. CASE ModelCancelled
  BY <1>10, <1>given, <1>fresh, <1>types DEF ModelCancelled
<1>11. CASE SettleCalls
  BY <1>11, <1>given, <1>fresh, <1>types DEF SettleCalls, Settle, Unfinished
<1>12. CASE MarkMessage
  BY <1>12, <1>given, <1>fresh, <1>types DEF MarkMessage
<1>13. CASE CheckpointCleanup
  BY <1>13, <1>given, <1>fresh, <1>types DEF CheckpointCleanup, Fault
<1>14. CASE Exit
  BY <1>14, <1>given, <1>fresh, <1>types DEF Exit
<1>15. ASSUME NEW c \in Calls, ToolRequest(c)
      PROVE  DriverRead'
  BY <1>15, <1>given, <1>fresh, <1>types DEF ToolRequest, MoveTool, ToolKnowsRun
<1>16. ASSUME NEW c \in Calls, OpBegin(c)
      PROVE  DriverRead'
  BY <1>16, <1>given, <1>fresh, <1>types DEF OpBegin, BeginDriver, HandlerRead
<1>17. CASE StopAbort
  BY <1>17, <1>given, <1>fresh, <1>types DEF StopAbort, Settle, Abortable
<1>18. ASSUME NEW c \in Calls, StopReject(c)
      PROVE  DriverRead'
  BY <1>18, <1>given, <1>fresh, <1>types DEF StopReject, Settle, Decidable
<1>19. CASE RecoverApprovals
  BY <1>19, <1>given, <1>fresh, <1>types DEF RecoverApprovals, Unactivated, QueueStory
<1>20. CASE RecoverResume
  BY <1>20, <1>given, <1>fresh, <1>types, ResumeReads
    DEF RecoverResume, ResumeDecided, BeginDriver
<1>21. ASSUME NEW t \in Turns, StartTurn(t)
      PROVE  DriverRead'
  BY <1>21, <1>given, <1>fresh, <1>types DEF StartTurn
<1>22. ASSUME NEW t \in Turns, QueueAdvance(t)
      PROVE  DriverRead'
  BY <1>22, <1>given, <1>fresh, <1>types DEF QueueAdvance
<1>23. ASSUME NEW t \in Turns, ReloadAgent(t)
      PROVE  DriverRead'
  BY <1>23, <1>given, <1>fresh, <1>types, ResumeReads DEF ReloadAgent, ResumeDecided, BeginDriver
<1>24. ASSUME NEW S \in SUBSET Calls, ModelCalls(S)
      PROVE  DriverRead'
  BY <1>24, <1>given, <1>fresh, <1>types DEF ModelCalls
<1>25. ASSUME NEW c \in Calls, NEW d \in Decided, Decide(c, d)
      PROVE  DriverRead'
  BY <1>25, <1>given, <1>fresh, <1>types DEF Decide, Decidable
<1>26. CASE Crash
  BY <1>26, <1>given, <1>fresh, <1>types DEF Crash
<1>27. CASE \/ (\E c \in Calls : ToolSubmit(c))
           \/ (\E c \in Calls : ToolBind(c))
           \/ (\E c \in Calls : ToolPause(c))
           \/ (\E c \in Calls : ToolAbandon(c))
           \/ (\E c \in Calls : ToolResume(c))
           \/ (\E c \in Calls : ToolClaim(c))
           \/ (\E c \in Calls : ToolRefused(c))
           \/ (\E c \in Calls : ToolFinish(c))
           \/ (\E c \in Calls : OpResumeQueue(c))
           \/ (\E c \in Calls : OpCheckActive(c))
           \/ (\E c \in Calls : OpReadGroup(c))
           \/ StopQueue
           \/ StopDone
           \/ RecoverRuns
           \/ RecoverMessages
           \/ RecoverCalls
           \/ StopSession
  <2>1. UNCHANGED <<pc, turn, group, turnOf, approval, bound>>
    BY <1>27
      DEF ToolSubmit, MoveTool, Execute, EndCall, ToolBind, ToolPause, ToolAbandon, Fault,
          ToolResume, ToolClaim, ClaimedStatus, Claimable, ToolRefused, ToolFinish, OpResumeQueue,
          Settle, Remaining, OpCheckActive, OpReadGroup, DecidedGroup, StopQueue, StopDone,
          RecoverRuns, RecoverMessages, RecoverCalls, StopSession, SessionActive, LiveTools
  <2> QED
    BY <2>1, <1>given
<1>28. CASE UNCHANGED vars
  BY <1>28, <1>given DEF vars
<1> QED
  BY <1>1, <1>2, <1>3, <1>4, <1>5, <1>6, <1>7, <1>8, <1>9, <1>10, <1>11, <1>12, <1>13, <1>14,
       <1>15, <1>16, <1>17, <1>18, <1>19, <1>20, <1>21, <1>22, <1>23, <1>24, <1>25, <1>26, <1>27,
       <1>28
  DEF Next, DriverStep, ToolStep, OpStep, StopStep, RecoveryStep

\* What a handler has read was decided.
LEMMA HandlerReadStep == GroupsInv /\ [Next]_vars => HandlerRead'
<1> SUFFICES ASSUME GroupsInv, [Next]_vars PROVE HandlerRead'
  OBVIOUS
<1> USE DEF store, driver, queued, tools, handler, budget, HandlerRead, GroupRead, AllDecided,
      Decided, DriverHasTurn, SavedByTurn, Bound, TurnCalls
<1>given. /\ HandlerRead /\ PauseStory /\ (\A c \in Calls : RestStory(c))
          /\ (\A c \in Calls : ApprovalStory(c)) /\ (\A t \in Turns : GroupStory(t))
  BY DEF GroupsInv, GroupsStory
<1>types. /\ msg \in [Turns -> MessageStatus] /\ saved \in [Turns -> SUBSET Calls]
          /\ tool \in [Calls -> ToolPlace] /\ approval \in [Calls -> ApprovalStatus]
          /\ run \in [Calls -> RunStatus] /\ turnOf \in [Calls -> Turns \cup {NoTurn}]
          /\ bound \subseteq Calls /\ group \subseteq Calls /\ DriverHasTurn /\ SavedByTurn
          /\ (\A c \in Calls : ToolKnowsRun(c)) /\ (\A c \in Calls : ExecutedOnce(c))
          /\ op \in [Calls -> HandlerPlace] /\ opGroup \in [Calls -> SUBSET Calls]
  BY DEF GroupsInv, IInv, TypeOK, StoreTypes, ProcessTypes, FlagTypes, Story, CallStory
<1>fresh. /\ NoTurn \notin Turns
         /\ \A c \in Calls : turnOf[c] \notin Turns =>
              turnOf[c] = NoTurn /\ run[c] = "none" /\ approval[c] = "none" /\ tool[c] = "idle" /\ op[c] = "idle"
  BY Fresh
<1>1. CASE Activate
  BY <1>1, <1>given, <1>fresh, <1>types
    DEF Activate, Exposed, Rebound, Fault, PauseStory, GroupStory, Handling, Ending
<1>2. ASSUME NEW c \in Calls, ToolRequest(c)
      PROVE  HandlerRead'
  BY <1>2, <1>given, <1>fresh, <1>types
    DEF ToolRequest, MoveTool, ApprovalStory, ToolKnowsRun, ExecutedOnce
<1>3. ASSUME NEW c \in Calls, OpResumeQueue(c)
      PROVE  HandlerRead'
  BY <1>3, <1>given, <1>fresh, <1>types DEF OpResumeQueue, Settle, Remaining
<1>4. ASSUME NEW c \in Calls, OpCheckActive(c)
      PROVE  HandlerRead'
  BY <1>4, <1>given, <1>fresh, <1>types DEF OpCheckActive
<1>5. ASSUME NEW c \in Calls, OpReadGroup(c)
      PROVE  HandlerRead'
  BY <1>5, <1>given, <1>fresh, <1>types DEF OpReadGroup, DecidedGroup
<1>6. ASSUME NEW c \in Calls, OpBegin(c)
      PROVE  HandlerRead'
  BY <1>6, <1>given, <1>fresh, <1>types DEF OpBegin, BeginDriver
<1>7. CASE StopAbort
  BY <1>7, <1>given, <1>fresh, <1>types DEF StopAbort, Settle, Abortable
<1>8. ASSUME NEW c \in Calls, StopReject(c)
      PROVE  HandlerRead'
  BY <1>8, <1>given, <1>fresh, <1>types DEF StopReject, Settle, Decidable
<1>9. CASE RecoverApprovals
  BY <1>9, <1>given, <1>fresh, <1>types DEF RecoverApprovals, Unactivated, RestStory
<1>10. CASE RecoverResume
  BY <1>10, <1>given, <1>fresh, <1>types, ResumeReads
    DEF RecoverResume, ResumeDecided, BeginDriver
<1>11. ASSUME NEW t \in Turns, ReloadAgent(t)
      PROVE  HandlerRead'
  BY <1>11, <1>given, <1>fresh, <1>types, ResumeReads DEF ReloadAgent, ResumeDecided, BeginDriver
<1>12. ASSUME NEW S \in SUBSET Calls, ModelCalls(S)
      PROVE  HandlerRead'
  BY <1>12, <1>given, <1>fresh, <1>types DEF ModelCalls, ApprovalStory
<1>13. ASSUME NEW c \in Calls, NEW d \in Decided, Decide(c, d)
      PROVE  HandlerRead'
  BY <1>13, <1>given, <1>fresh, <1>types DEF Decide, Decidable
<1>14. CASE Crash
  BY <1>14, <1>given, <1>fresh, <1>types DEF Crash
<1>15. CASE \/ BeginTurn
           \/ BeginResume
           \/ Interrupt
           \/ RegisterPause
           \/ MarkWaiting
           \/ Wake
           \/ ResumeGroup
           \/ ModelEnd
           \/ ModelCancelled
           \/ SettleCalls
           \/ MarkMessage
           \/ CheckpointCleanup
           \/ Exit
           \/ (\E c \in Calls : ToolSubmit(c))
           \/ (\E c \in Calls : ToolBind(c))
           \/ (\E c \in Calls : ToolPause(c))
           \/ (\E c \in Calls : ToolAbandon(c))
           \/ (\E c \in Calls : ToolResume(c))
           \/ (\E c \in Calls : ToolClaim(c))
           \/ (\E c \in Calls : ToolRefused(c))
           \/ (\E c \in Calls : ToolFinish(c))
           \/ StopQueue
           \/ StopDone
           \/ RecoverRuns
           \/ RecoverMessages
           \/ RecoverCalls
           \/ (\E t \in Turns : StartTurn(t))
           \/ (\E t \in Turns : QueueAdvance(t))
           \/ StopSession
  <2>1. UNCHANGED <<op, opGroup, turnOf, approval, bound>>
    BY <1>15
      DEF BeginTurn, BeginResume, Replayed, HasCheckpoint, Interrupt, Paused, AtRest,
          RegisterPause, MarkWaiting, Fault, Wake, Awake, ResumeGroup, ModelEnd, ModelCancelled,
          SettleCalls, Settle, Unfinished, MarkMessage, CheckpointCleanup, Exit, ToolSubmit,
          MoveTool, Execute, EndCall, ToolBind, ToolPause, ToolAbandon, ToolResume, ToolClaim,
          ClaimedStatus, Claimable, ToolRefused, ToolFinish, StopQueue, StopDone, RecoverRuns,
          RecoverMessages, RecoverCalls, StartTurn, QueueAdvance, StopSession, SessionActive,
          LiveTools
  <2> QED
    BY <2>1, <1>given
<1>16. CASE UNCHANGED vars
  BY <1>16, <1>given DEF vars
<1> QED
  BY <1>1, <1>2, <1>3, <1>4, <1>5, <1>6, <1>7, <1>8, <1>9, <1>10, <1>11, <1>12, <1>13, <1>14,
       <1>15, <1>16
  DEF Next, DriverStep, ToolStep, OpStep, StopStep, RecoveryStep

\* The bound interrupts of the turn are its group.
LEMMA BoundStep == GroupsInv /\ [Next]_vars => BoundStory'
<1> SUFFICES ASSUME GroupsInv, [Next]_vars PROVE BoundStory'
  OBVIOUS
<1> USE DEF store, driver, queued, tools, handler, budget, BoundStory, DriverHasTurn, SavedByTurn,
      Bound, TurnCalls
<1>given. BoundStory /\ PauseStory
  BY DEF GroupsInv, GroupsStory
<1>types. /\ msg \in [Turns -> MessageStatus] /\ saved \in [Turns -> SUBSET Calls]
          /\ tool \in [Calls -> ToolPlace] /\ approval \in [Calls -> ApprovalStatus]
          /\ run \in [Calls -> RunStatus] /\ turnOf \in [Calls -> Turns \cup {NoTurn}]
          /\ bound \subseteq Calls /\ group \subseteq Calls /\ DriverHasTurn /\ SavedByTurn
  BY DEF GroupsInv, IInv, TypeOK, StoreTypes, ProcessTypes, FlagTypes, Story, CallStory
<1>1. CASE BeginTurn
  BY <1>1, <1>given, <1>types DEF BeginTurn
<1>2. CASE BeginResume
  BY <1>2, <1>given, <1>types DEF BeginResume, Replayed, HasCheckpoint
<1>3. CASE Interrupt
  BY <1>3, <1>given, <1>types DEF Interrupt, Paused, AtRest
<1>4. CASE RegisterPause
  BY <1>4, <1>given, <1>types DEF RegisterPause
<1>5. CASE Activate
  BY <1>5, <1>given, <1>types DEF Activate, Exposed, Rebound, Fault, PauseStory, Handling, Ending
<1>6. CASE MarkWaiting
  BY <1>6, <1>given, <1>types DEF MarkWaiting, Fault
<1>7. CASE Wake
  BY <1>7, <1>given, <1>types DEF Wake, Awake
<1>8. CASE ResumeGroup
  BY <1>8, <1>given, <1>types DEF ResumeGroup, Replayed, Fault, AllDecided
<1>9. CASE ModelEnd
  BY <1>9, <1>given, <1>types DEF ModelEnd, Fault, AtRest, Paused
<1>10. CASE ModelCancelled
  BY <1>10, <1>given, <1>types DEF ModelCancelled
<1>11. CASE SettleCalls
  BY <1>11, <1>given, <1>types DEF SettleCalls, Settle, Unfinished
<1>12. CASE MarkMessage
  BY <1>12, <1>given, <1>types DEF MarkMessage
<1>13. CASE CheckpointCleanup
  BY <1>13, <1>given, <1>types DEF CheckpointCleanup, Fault
<1>14. CASE Exit
  BY <1>14, <1>given, <1>types DEF Exit
<1>15. ASSUME NEW c \in Calls, OpBegin(c)
      PROVE  BoundStory'
  BY <1>15, <1>given, <1>types DEF OpBegin, BeginDriver
<1>16. CASE RecoverResume
  BY <1>16, <1>given, <1>types, ResumeReads DEF RecoverResume, ResumeDecided, BeginDriver
<1>17. ASSUME NEW t \in Turns, StartTurn(t)
      PROVE  BoundStory'
  BY <1>17, <1>given, <1>types DEF StartTurn
<1>18. ASSUME NEW t \in Turns, QueueAdvance(t)
      PROVE  BoundStory'
  BY <1>18, <1>given, <1>types DEF QueueAdvance
<1>19. ASSUME NEW t \in Turns, ReloadAgent(t)
      PROVE  BoundStory'
  BY <1>19, <1>given, <1>types, ResumeReads DEF ReloadAgent, ResumeDecided, BeginDriver
<1>20. ASSUME NEW S \in SUBSET Calls, ModelCalls(S)
      PROVE  BoundStory'
  BY <1>20, <1>given, <1>types DEF ModelCalls
<1>21. CASE Crash
  BY <1>21, <1>given, <1>types DEF Crash
<1>22. CASE \/ (\E c \in Calls : ToolSubmit(c))
           \/ (\E c \in Calls : ToolBind(c))
           \/ (\E c \in Calls : ToolRequest(c))
           \/ (\E c \in Calls : ToolPause(c))
           \/ (\E c \in Calls : ToolAbandon(c))
           \/ (\E c \in Calls : ToolResume(c))
           \/ (\E c \in Calls : ToolClaim(c))
           \/ (\E c \in Calls : ToolRefused(c))
           \/ (\E c \in Calls : ToolFinish(c))
           \/ (\E c \in Calls : OpResumeQueue(c))
           \/ (\E c \in Calls : OpCheckActive(c))
           \/ (\E c \in Calls : OpReadGroup(c))
           \/ StopQueue
           \/ StopAbort
           \/ (\E c \in Calls : StopReject(c))
           \/ StopDone
           \/ RecoverRuns
           \/ RecoverApprovals
           \/ RecoverMessages
           \/ RecoverCalls
           \/ (\E c \in Calls, d \in Decided : Decide(c, d))
           \/ StopSession
  <2>1. UNCHANGED <<pc, turn, group, bound, turnOf>>
    BY <1>22
      DEF ToolSubmit, MoveTool, Execute, EndCall, ToolBind, ToolRequest, ToolPause, ToolAbandon,
          Fault, ToolResume, ToolClaim, ClaimedStatus, Claimable, ToolRefused, ToolFinish,
          OpResumeQueue, Settle, Remaining, OpCheckActive, OpReadGroup, DecidedGroup, StopQueue,
          StopAbort, Abortable, StopReject, Decidable, StopDone, RecoverRuns, RecoverApprovals,
          Unactivated, RecoverMessages, RecoverCalls, Decide, StopSession, SessionActive,
          LiveTools
  <2> QED
    BY <2>1, <1>given
<1>23. CASE UNCHANGED vars
  BY <1>23, <1>given DEF vars
<1> QED
  BY <1>1, <1>2, <1>3, <1>4, <1>5, <1>6, <1>7, <1>8, <1>9, <1>10, <1>11, <1>12, <1>13, <1>14,
       <1>15, <1>16, <1>17, <1>18, <1>19, <1>20, <1>21, <1>22, <1>23
  DEF Next, DriverStep, ToolStep, OpStep, StopStep, RecoveryStep

\* A turn with a pending decision may be retained.
LEMMA ResumableStep == GroupsInv /\ [Next]_vars => ResumableStory'
<1> SUFFICES ASSUME GroupsInv, [Next]_vars PROVE ResumableStory'
  OBVIOUS
<1> USE DEF store, driver, queued, tools, handler, budget, ResumableStory, DriverHasTurn,
      SavedByTurn, TurnCalls, Handling, Ending
<1>given. /\ ResumableStory /\ QueueStory /\ MessageStory /\ OutcomeStory /\ ModelStory
          /\ (\A t \in Turns : UnmadeStory(t))
  BY DEF GroupsInv, GroupsStory
<1>types. /\ msg \in [Turns -> MessageStatus] /\ saved \in [Turns -> SUBSET Calls]
          /\ tool \in [Calls -> ToolPlace] /\ approval \in [Calls -> ApprovalStatus]
          /\ run \in [Calls -> RunStatus] /\ turnOf \in [Calls -> Turns \cup {NoTurn}]
          /\ bound \subseteq Calls /\ group \subseteq Calls /\ DriverHasTurn /\ SavedByTurn
          /\ (\A c \in Calls : ToolKnowsRun(c)) /\ (\A c \in Calls : ExecutedOnce(c))
  BY DEF GroupsInv, IInv, TypeOK, StoreTypes, ProcessTypes, FlagTypes, Story, CallStory
<1>fresh. /\ NoTurn \notin Turns
         /\ \A c \in Calls : turnOf[c] \notin Turns =>
              turnOf[c] = NoTurn /\ run[c] = "none" /\ approval[c] = "none" /\ tool[c] = "idle" /\ op[c] = "idle"
  BY Fresh
<1>1. CASE BeginTurn
  BY <1>1, <1>given, <1>fresh, <1>types DEF BeginTurn, MessageStory, UnmadeStory
<1>2. CASE BeginResume
  BY <1>2, <1>given, <1>fresh, <1>types DEF BeginResume, Replayed, HasCheckpoint
<1>3. CASE Interrupt
  BY <1>3, <1>given, <1>fresh, <1>types DEF Interrupt, Paused, AtRest, OutcomeStory
<1>4. CASE RegisterPause
  BY <1>4, <1>given, <1>fresh, <1>types DEF RegisterPause, OutcomeStory
<1>5. CASE Activate
  BY <1>5, <1>given, <1>fresh, <1>types DEF Activate, Exposed, Rebound, Fault, OutcomeStory
<1>6. CASE MarkWaiting
  BY <1>6, <1>given, <1>fresh, <1>types DEF MarkWaiting, Fault
<1>7. CASE Wake
  BY <1>7, <1>given, <1>fresh, <1>types DEF Wake, Awake
<1>8. CASE ResumeGroup
  BY <1>8, <1>given, <1>fresh, <1>types DEF ResumeGroup, Replayed, Fault, AllDecided
<1>9. CASE ModelEnd
  BY <1>9, <1>given, <1>fresh, <1>types
    DEF ModelEnd, Fault, AtRest, Paused, ModelStory, Asking, Live
<1>10. CASE ModelCancelled
  BY <1>10, <1>given, <1>fresh, <1>types DEF ModelCancelled
<1>11. CASE SettleCalls
  BY <1>11, <1>given, <1>fresh, <1>types DEF SettleCalls, Settle, Unfinished
<1>12. CASE MarkMessage
  BY <1>12, <1>given, <1>fresh, <1>types DEF MarkMessage
<1>13. CASE CheckpointCleanup
  BY <1>13, <1>given, <1>fresh, <1>types DEF CheckpointCleanup, Fault
<1>14. CASE Exit
  BY <1>14, <1>given, <1>fresh, <1>types DEF Exit
<1>15. ASSUME NEW c \in Calls, ToolRequest(c)
      PROVE  ResumableStory'
  BY <1>15, <1>given, <1>fresh, <1>types DEF ToolRequest, MoveTool
<1>16. ASSUME NEW c \in Calls, OpBegin(c)
      PROVE  ResumableStory'
  BY <1>16, <1>given, <1>fresh, <1>types DEF OpBegin, BeginDriver
<1>17. CASE StopAbort
  BY <1>17, <1>given, <1>fresh, <1>types DEF StopAbort, Settle, Abortable
<1>18. ASSUME NEW c \in Calls, StopReject(c)
      PROVE  ResumableStory'
  BY <1>18, <1>given, <1>fresh, <1>types DEF StopReject, Settle, Decidable
<1>19. CASE RecoverApprovals
  BY <1>19, <1>given, <1>fresh, <1>types DEF RecoverApprovals, Unactivated
<1>20. CASE RecoverResume
  BY <1>20, <1>given, <1>fresh, <1>types, ResumeReads
    DEF RecoverResume, ResumeDecided, BeginDriver
<1>21. ASSUME NEW t \in Turns, StartTurn(t)
      PROVE  ResumableStory'
  BY <1>21, <1>given, <1>fresh, <1>types DEF StartTurn
<1>22. ASSUME NEW t \in Turns, QueueAdvance(t)
      PROVE  ResumableStory'
  BY <1>22, <1>given, <1>fresh, <1>types DEF QueueAdvance
<1>23. ASSUME NEW t \in Turns, ReloadAgent(t)
      PROVE  ResumableStory'
  BY <1>23, <1>given, <1>fresh, <1>types, ResumeReads DEF ReloadAgent, ResumeDecided, BeginDriver
<1>24. ASSUME NEW S \in SUBSET Calls, ModelCalls(S)
      PROVE  ResumableStory'
  BY <1>24, <1>given, <1>fresh, <1>types DEF ModelCalls
<1>25. ASSUME NEW c \in Calls, NEW d \in Decided, Decide(c, d)
      PROVE  ResumableStory'
  BY <1>25, <1>given, <1>fresh, <1>types DEF Decide, Decidable, Decided
<1>26. CASE Crash
  BY <1>26, <1>given, <1>fresh, <1>types DEF Crash
<1>27. CASE \/ (\E c \in Calls : ToolSubmit(c))
           \/ (\E c \in Calls : ToolBind(c))
           \/ (\E c \in Calls : ToolPause(c))
           \/ (\E c \in Calls : ToolAbandon(c))
           \/ (\E c \in Calls : ToolResume(c))
           \/ (\E c \in Calls : ToolClaim(c))
           \/ (\E c \in Calls : ToolRefused(c))
           \/ (\E c \in Calls : ToolFinish(c))
           \/ (\E c \in Calls : OpResumeQueue(c))
           \/ (\E c \in Calls : OpCheckActive(c))
           \/ (\E c \in Calls : OpReadGroup(c))
           \/ StopQueue
           \/ StopDone
           \/ RecoverRuns
           \/ RecoverMessages
           \/ RecoverCalls
           \/ StopSession
  <2>1. UNCHANGED <<pc, resumable, turn, turnOf, approval, outcome>>
    BY <1>27
      DEF ToolSubmit, MoveTool, Execute, EndCall, ToolBind, ToolPause, ToolAbandon, Fault,
          ToolResume, ToolClaim, ClaimedStatus, Claimable, ToolRefused, ToolFinish, OpResumeQueue,
          Settle, Remaining, OpCheckActive, OpReadGroup, DecidedGroup, StopQueue, StopDone,
          RecoverRuns, RecoverMessages, RecoverCalls, StopSession, SessionActive, LiveTools
  <2> QED
    BY <2>1, <1>given
<1>28. CASE UNCHANGED vars
  BY <1>28, <1>given DEF vars
<1> QED
  BY <1>1, <1>2, <1>3, <1>4, <1>5, <1>6, <1>7, <1>8, <1>9, <1>10, <1>11, <1>12, <1>13, <1>14,
       <1>15, <1>16, <1>17, <1>18, <1>19, <1>20, <1>21, <1>22, <1>23, <1>24, <1>25, <1>26, <1>27,
       <1>28
  DEF Next, DriverStep, ToolStep, OpStep, StopStep, RecoveryStep

\* Nothing is stopped before the first stop request.
LEMMA StopIdleStep == TurnInv /\ [Next]_vars => StopStory'
<1> SUFFICES ASSUME TurnInv, [Next]_vars PROVE StopStory'
  OBVIOUS
<1> USE DEF store, driver, queued, tools, handler, budget, StopStory
<1>given. StopStory
  BY DEF TurnInv, GroupsInv, GroupsStory, TurnStory
<1>types. /\ msg \in [Turns -> MessageStatus] /\ saved \in [Turns -> SUBSET Calls]
          /\ tool \in [Calls -> ToolPlace] /\ approval \in [Calls -> ApprovalStatus]
          /\ run \in [Calls -> RunStatus] /\ turnOf \in [Calls -> Turns \cup {NoTurn}]
          /\ bound \subseteq Calls /\ group \subseteq Calls /\ DriverHasTurn /\ SavedByTurn
          /\ outcome \in Outcome /\ resumable \in BOOLEAN /\ stops \in Nat /\ crashes \in Nat
          /\ faults \in Nat /\ cancelled \in BOOLEAN
  BY DEF TurnInv, GroupsInv, IInv, TypeOK, StoreTypes, ProcessTypes, FlagTypes, Story, CallStory
<1>1. CASE StopQueue
  BY <1>1, <1>given, <1>types DEF StopQueue
<1>2. CASE StopAbort
  BY <1>2, <1>given, <1>types DEF StopAbort, Settle, Abortable
<1>3. CASE StopDone
  BY <1>3, <1>given, <1>types DEF StopDone
<1>4. ASSUME NEW t \in Turns, StartTurn(t)
      PROVE  StopStory'
  BY <1>4, <1>given, <1>types DEF StartTurn
<1>5. CASE StopSession
  BY <1>5, <1>given, <1>types DEF StopSession, SessionActive, LiveTools
<1>6. CASE Crash
  BY <1>6, <1>given, <1>types DEF Crash
<1>7. CASE \/ BeginTurn
           \/ BeginResume
           \/ Interrupt
           \/ RegisterPause
           \/ Activate
           \/ MarkWaiting
           \/ Wake
           \/ ResumeGroup
           \/ ModelEnd
           \/ ModelCancelled
           \/ SettleCalls
           \/ MarkMessage
           \/ CheckpointCleanup
           \/ Exit
           \/ (\E c \in Calls : ToolSubmit(c))
           \/ (\E c \in Calls : ToolBind(c))
           \/ (\E c \in Calls : ToolRequest(c))
           \/ (\E c \in Calls : ToolPause(c))
           \/ (\E c \in Calls : ToolAbandon(c))
           \/ (\E c \in Calls : ToolResume(c))
           \/ (\E c \in Calls : ToolClaim(c))
           \/ (\E c \in Calls : ToolRefused(c))
           \/ (\E c \in Calls : ToolFinish(c))
           \/ (\E c \in Calls : OpResumeQueue(c))
           \/ (\E c \in Calls : OpCheckActive(c))
           \/ (\E c \in Calls : OpReadGroup(c))
           \/ (\E c \in Calls : OpBegin(c))
           \/ (\E c \in Calls : StopReject(c))
           \/ RecoverRuns
           \/ RecoverApprovals
           \/ RecoverMessages
           \/ RecoverCalls
           \/ RecoverResume
           \/ (\E t \in Turns : QueueAdvance(t))
           \/ (\E t \in Turns : ReloadAgent(t))
           \/ (\E S \in SUBSET Calls : ModelCalls(S))
           \/ (\E c \in Calls, d \in Decided : Decide(c, d))
  <2>1. UNCHANGED <<stops, stop>>
    BY <1>7
      DEF BeginTurn, BeginResume, Replayed, HasCheckpoint, Interrupt, Paused, TurnCalls, AtRest,
          RegisterPause, Activate, Exposed, Rebound, Fault, MarkWaiting, Wake, Awake, ResumeGroup,
          AllDecided, ModelEnd, ModelCancelled, SettleCalls, Settle, Unfinished, MarkMessage,
          CheckpointCleanup, Exit, ToolSubmit, MoveTool, Execute, EndCall, ToolBind, ToolRequest,
          ToolPause, ToolAbandon, ToolResume, ToolClaim, ClaimedStatus, Claimable, ToolRefused,
          ToolFinish, OpResumeQueue, Remaining, OpCheckActive, OpReadGroup, DecidedGroup, OpBegin,
          BeginDriver, StopReject, Decidable, RecoverRuns, RecoverApprovals, Unactivated,
          RecoverMessages, RecoverCalls, RecoverResume, ResumeDecided, QueueAdvance, ReloadAgent,
          ModelCalls, Decide
  <2> QED
    BY <2>1, <1>given
<1>8. CASE UNCHANGED vars
  BY <1>8, <1>given DEF vars
<1> QED
  BY <1>1, <1>2, <1>3, <1>4, <1>5, <1>6, <1>7, <1>8
  DEF Next, DriverStep, ToolStep, OpStep, StopStep, RecoveryStep

\* No checkpoint is lost under a pending decision.
LEMMA UncutStep == TurnInv /\ [Next]_vars => \A x \in Calls : Uncut(x)'
<1> SUFFICES ASSUME TurnInv, [Next]_vars, NEW x \in Calls PROVE Uncut(x)'
  OBVIOUS
<1> USE DEF store, driver, queued, tools, handler, budget, Uncut, Stopping, DriverHasTurn,
      SavedByTurn
<1>given. /\ StopStory /\ QueueStory /\ PauseStory /\ ModelStory /\ OutcomeStory /\ ResumableStory
          /\ GroupExposedTogether /\ (\A c \in Calls : Uncut(c))
          /\ (\A c \in Calls : ApprovalStory(c)) /\ (\A t \in Turns : UndecidedStory(t))
          /\ (\A t \in Turns : UnmadeStory(t))
  BY DEF TurnInv, GroupsInv, GroupsStory, TurnStory
<1>types. /\ msg \in [Turns -> MessageStatus] /\ saved \in [Turns -> SUBSET Calls]
          /\ tool \in [Calls -> ToolPlace] /\ approval \in [Calls -> ApprovalStatus]
          /\ run \in [Calls -> RunStatus] /\ turnOf \in [Calls -> Turns \cup {NoTurn}]
          /\ bound \subseteq Calls /\ group \subseteq Calls /\ DriverHasTurn /\ SavedByTurn
          /\ outcome \in Outcome /\ resumable \in BOOLEAN /\ stops \in Nat /\ crashes \in Nat
          /\ faults \in Nat /\ cancelled \in BOOLEAN
  BY DEF TurnInv, GroupsInv, IInv, TypeOK, StoreTypes, ProcessTypes, FlagTypes, Story, CallStory
<1>fresh. /\ NoTurn \notin Turns
         /\ \A c \in Calls : turnOf[c] \notin Turns =>
              turnOf[c] = NoTurn /\ run[c] = "none" /\ approval[c] = "none" /\ tool[c] = "idle" /\ op[c] = "idle"
  BY Fresh DEF TurnInv
<1>1. CASE Interrupt
  BY <1>1, <1>given, <1>fresh, <1>types
    DEF Interrupt, Paused, TurnCalls, AtRest, ModelStory, Asking, Live
<1>2. CASE Activate
  BY <1>2, <1>given, <1>fresh, <1>types
    DEF Activate, Exposed, Rebound, Fault, TurnCalls, PauseStory, Handling
<1>3. CASE CheckpointCleanup
  <2>1. CASE ~(approval[x] = "pending" /\ turn = turnOf[x] /\ (stops = 0 \/ crashes = 0) /\ ~Stopping)
    BY <1>3, <2>1, <1>given, <1>fresh, <1>types DEF CheckpointCleanup, Fault
  <2>2. CASE approval[x] = "pending" /\ turn = turnOf[x] /\ (stops = 0 \/ crashes = 0) /\ ~Stopping
    <3>1. pc = "checkpoint" /\ turn \in Turns
      BY <1>3, <1>types DEF CheckpointCleanup
    <3>2. x \in saved[turn] /\ ~cancelled /\ x \in Bound(turn)
      BY <2>2, <1>given DEF ApprovalStory, Bound, TurnCalls
    <3>3. resumable /\ outcome \notin {"ok", "steered"} /\ outcome # "none" /\ outcome # "cancelled"
      BY <2>2, <3>1, <3>2, <1>given
        DEF ResumableStory, OutcomeStory, QueueStory, Ending, TurnCalls
    <3>4. outcome = "error"
      BY <3>3, <1>types DEF Outcome
    <3>5. \A c \in Bound(turn) : Answered(c)
      BY <2>2, <3>1, <3>2, <1>given DEF UndecidedStory, AllDecided, Decided
    <3>6. Retained
      BY <3>2, <3>3, <3>4, <3>5 DEF Retained, Recoverable, HasCheckpoint, Replayable, Answered
    <3>7. UNCHANGED <<saved, approval, turnOf, turn, cancelled, stop, stops, crashes>>
      BY <1>3, <3>6 DEF CheckpointCleanup
    <3> QED
      BY <3>7, <1>given
  <2> QED
    BY <2>1, <2>2
<1>4. CASE Exit
  BY <1>4, <1>given, <1>fresh, <1>types DEF Exit
<1>5. ASSUME NEW c \in Calls, ToolRequest(c)
      PROVE  Uncut(x)'
  BY <1>5, <1>given, <1>fresh, <1>types DEF ToolRequest, MoveTool
<1>6. ASSUME NEW c \in Calls, OpBegin(c)
      PROVE  Uncut(x)'
  BY <1>6, <1>given, <1>fresh, <1>types DEF OpBegin, BeginDriver
<1>7. CASE StopQueue
  BY <1>7, <1>given, <1>fresh, <1>types DEF StopQueue
<1>8. CASE StopAbort
  BY <1>8, <1>given, <1>fresh, <1>types DEF StopAbort, Settle, Abortable
<1>9. ASSUME NEW c \in Calls, StopReject(c)
      PROVE  Uncut(x)'
  BY <1>9, <1>given, <1>fresh, <1>types DEF StopReject, Settle, Decidable
<1>10. CASE StopDone
  BY <1>10, <1>given, <1>fresh, <1>types DEF StopDone
<1>11. CASE RecoverApprovals
  BY <1>11, <1>given, <1>fresh, <1>types
    DEF RecoverApprovals, Unactivated, TurnCalls, GroupExposedTogether
<1>12. CASE RecoverResume
  BY <1>12, <1>given, <1>fresh, <1>types, ResumeReads
    DEF RecoverResume, ResumeDecided, BeginDriver
<1>13. ASSUME NEW t \in Turns, StartTurn(t)
      PROVE  Uncut(x)'
  BY <1>13, <1>given, <1>fresh, <1>types DEF StartTurn
<1>14. ASSUME NEW t \in Turns, QueueAdvance(t)
      PROVE  Uncut(x)'
  BY <1>14, <1>given, <1>fresh, <1>types DEF QueueAdvance, UnmadeStory
<1>15. ASSUME NEW t \in Turns, ReloadAgent(t)
      PROVE  Uncut(x)'
  BY <1>15, <1>given, <1>fresh, <1>types, ResumeReads DEF ReloadAgent, ResumeDecided, BeginDriver
<1>16. ASSUME NEW S \in SUBSET Calls, ModelCalls(S)
      PROVE  Uncut(x)'
  BY <1>16, <1>given, <1>fresh, <1>types DEF ModelCalls
<1>17. ASSUME NEW c \in Calls, NEW d \in Decided, Decide(c, d)
      PROVE  Uncut(x)'
  BY <1>17, <1>given, <1>fresh, <1>types DEF Decide, Decidable, Decided
<1>18. CASE StopSession
  BY <1>18, <1>given, <1>fresh, <1>types DEF StopSession, SessionActive, LiveTools
<1>19. CASE Crash
  BY <1>19, <1>given, <1>fresh, <1>types DEF Crash, StopStory
<1>20. CASE \/ BeginTurn
           \/ BeginResume
           \/ RegisterPause
           \/ MarkWaiting
           \/ Wake
           \/ ResumeGroup
           \/ ModelEnd
           \/ ModelCancelled
           \/ SettleCalls
           \/ MarkMessage
           \/ (\E c \in Calls : ToolSubmit(c))
           \/ (\E c \in Calls : ToolBind(c))
           \/ (\E c \in Calls : ToolPause(c))
           \/ (\E c \in Calls : ToolAbandon(c))
           \/ (\E c \in Calls : ToolResume(c))
           \/ (\E c \in Calls : ToolClaim(c))
           \/ (\E c \in Calls : ToolRefused(c))
           \/ (\E c \in Calls : ToolFinish(c))
           \/ (\E c \in Calls : OpResumeQueue(c))
           \/ (\E c \in Calls : OpCheckActive(c))
           \/ (\E c \in Calls : OpReadGroup(c))
           \/ RecoverRuns
           \/ RecoverMessages
           \/ RecoverCalls
  <2>1. UNCHANGED <<stops, crashes, stop, approval, saved, turnOf, turn, cancelled>>
    BY <1>20
      DEF BeginTurn, BeginResume, Replayed, HasCheckpoint, RegisterPause, MarkWaiting, Fault,
          Wake, Awake, ResumeGroup, AllDecided, ModelEnd, AtRest, Paused, TurnCalls,
          ModelCancelled, SettleCalls, Settle, Unfinished, MarkMessage, ToolSubmit, MoveTool,
          Execute, EndCall, ToolBind, ToolPause, ToolAbandon, ToolResume, ToolClaim,
          ClaimedStatus, Claimable, ToolRefused, ToolFinish, OpResumeQueue, Remaining,
          OpCheckActive, OpReadGroup, DecidedGroup, RecoverRuns, RecoverMessages, RecoverCalls
  <2> QED
    BY <2>1, <1>given
<1>21. CASE UNCHANGED vars
  BY <1>21, <1>given DEF vars
<1> QED
  BY <1>1, <1>2, <1>3, <1>4, <1>5, <1>6, <1>7, <1>8, <1>9, <1>10, <1>11, <1>12, <1>13, <1>14,
       <1>15, <1>16, <1>17, <1>18, <1>19, <1>20, <1>21
  DEF Next, DriverStep, ToolStep, OpStep, StopStep, RecoveryStep

\* What keeps the conversation busy.
LEMMA BusyStep == TurnInv /\ [Next]_vars => \A x \in Calls : BusyStory(x)'
<1> SUFFICES ASSUME TurnInv, [Next]_vars, NEW x \in Calls PROVE BusyStory(x)'
  OBVIOUS
<1> USE DEF store, driver, queued, tools, handler, budget, BusyStory, Decided, DriverHasTurn,
      SavedByTurn
<1>given. /\ PauseStory /\ DriverRead /\ QueueStory /\ (\A c \in Calls : BusyStory(c))
          /\ (\A c \in Calls : ApprovalStory(c)) /\ (\A c \in Calls : ToolStory(c))
  BY DEF TurnInv, GroupsInv, GroupsStory, TurnStory
<1>types. /\ msg \in [Turns -> MessageStatus] /\ saved \in [Turns -> SUBSET Calls]
          /\ tool \in [Calls -> ToolPlace] /\ approval \in [Calls -> ApprovalStatus]
          /\ run \in [Calls -> RunStatus] /\ turnOf \in [Calls -> Turns \cup {NoTurn}]
          /\ bound \subseteq Calls /\ group \subseteq Calls /\ DriverHasTurn /\ SavedByTurn
          /\ call \in [Calls -> CallStatus] /\ op \in [Calls -> HandlerPlace]
          /\ linked \subseteq Calls /\ (\A c \in Calls : ToolKnowsRun(c)) /\ outcome \in Outcome
          /\ resumable \in BOOLEAN /\ stops \in Nat /\ crashes \in Nat /\ faults \in Nat
          /\ cancelled \in BOOLEAN
  BY DEF TurnInv, GroupsInv, IInv, TypeOK, StoreTypes, ProcessTypes, FlagTypes, Story, CallStory
<1>fresh. /\ NoTurn \notin Turns
         /\ \A c \in Calls : turnOf[c] \notin Turns =>
              turnOf[c] = NoTurn /\ run[c] = "none" /\ approval[c] = "none" /\ tool[c] = "idle" /\ op[c] = "idle"
  BY Fresh DEF TurnInv
<1>1. CASE BeginResume
  <2>1. tool[x] \in {"idle", "paused", "done"} \/ tool'[x] = tool[x] \/ tool'[x] = "resume"
    <3>1. CASE UNCHANGED tool
      BY <3>1
    <3>2. CASE pc' = "model"
      <4>1. /\ pc = "begun" /\ turn \in Turns /\ msg[turn] \in {"waiting_for_approval", "pending"}
            /\ tool' = [c \in Calls |-> IF c \notin saved[turn] THEN tool[c]
                                       ELSE IF c \in group THEN "resume" ELSE "requested"]
        BY <1>1, <3>2, <1>types DEF BeginResume, Replayed
      <4>2. x \in saved[turn] => tool[x] \in {"idle", "paused", "done"}
        BY <4>1, <1>given, <1>types DEF ToolStory, Kept, Away, Handling, Ending
      <4> QED
        BY <4>1, <4>2
    <3> QED
      BY <1>1, <3>1, <3>2 DEF BeginResume
  <2>2. UNCHANGED <<call, turnOf, approval, run, op, server>>
    BY <1>1 DEF BeginResume
  <2> QED
    BY <2>1, <2>2, <1>given
<1>2. CASE Activate
  BY <1>2, <1>given, <1>fresh, <1>types DEF Activate, Exposed, Rebound, Fault, TurnCalls
<1>3. CASE ResumeGroup
  BY <1>3, <1>given, <1>fresh, <1>types
    DEF ResumeGroup, Replayed, Fault, AllDecided, PauseStory, Handling, Replayed
<1>4. CASE SettleCalls
  BY <1>4, <1>given, <1>fresh, <1>types DEF SettleCalls, Settle, Unfinished
<1>5. ASSUME NEW c \in Calls, ToolSubmit(c)
      PROVE  BusyStory(x)'
  BY <1>5, <1>given, <1>fresh, <1>types DEF ToolSubmit, MoveTool, Execute, EndCall
<1>6. ASSUME NEW c \in Calls, ToolBind(c)
      PROVE  BusyStory(x)'
  BY <1>6, <1>given, <1>fresh, <1>types DEF ToolBind, MoveTool, ToolKnowsRun
<1>7. ASSUME NEW c \in Calls, ToolRequest(c)
      PROVE  BusyStory(x)'
  BY <1>7, <1>given, <1>fresh, <1>types DEF ToolRequest, MoveTool, ToolKnowsRun
<1>8. ASSUME NEW c \in Calls, ToolPause(c)
      PROVE  BusyStory(x)'
  BY <1>8, <1>given, <1>fresh, <1>types DEF ToolPause, MoveTool, CallStatus
<1>9. ASSUME NEW c \in Calls, ToolAbandon(c)
      PROVE  BusyStory(x)'
  BY <1>9, <1>given, <1>fresh, <1>types DEF ToolAbandon, MoveTool, EndCall, Fault
<1>10. ASSUME NEW c \in Calls, ToolResume(c)
      PROVE  BusyStory(x)'
  BY <1>10, <1>given, <1>fresh, <1>types DEF ToolResume, MoveTool, EndCall
<1>11. ASSUME NEW c \in Calls, ToolClaim(c)
      PROVE  BusyStory(x)'
  BY <1>11, <1>given, <1>fresh, <1>types
    DEF ToolClaim, MoveTool, EndCall, Execute, ClaimedStatus, Claimable
<1>12. ASSUME NEW c \in Calls, ToolRefused(c)
      PROVE  BusyStory(x)'
  BY <1>12, <1>given, <1>fresh, <1>types DEF ToolRefused, MoveTool, EndCall
<1>13. ASSUME NEW c \in Calls, ToolFinish(c)
      PROVE  BusyStory(x)'
  BY <1>13, <1>given, <1>fresh, <1>types DEF ToolFinish, MoveTool, EndCall, Fault
<1>14. ASSUME NEW c \in Calls, OpResumeQueue(c)
      PROVE  BusyStory(x)'
  BY <1>14, <1>given, <1>fresh, <1>types DEF OpResumeQueue, Settle, Remaining, ApprovalStory
<1>15. ASSUME NEW c \in Calls, OpCheckActive(c)
      PROVE  BusyStory(x)'
  BY <1>15, <1>given, <1>fresh, <1>types DEF OpCheckActive
<1>16. ASSUME NEW c \in Calls, OpReadGroup(c)
      PROVE  BusyStory(x)'
  BY <1>16, <1>given, <1>fresh, <1>types DEF OpReadGroup, DecidedGroup
<1>17. ASSUME NEW c \in Calls, OpBegin(c)
      PROVE  BusyStory(x)'
  BY <1>17, <1>given, <1>fresh, <1>types DEF OpBegin, BeginDriver
<1>18. CASE StopAbort
  BY <1>18, <1>given, <1>fresh, <1>types DEF StopAbort, Settle, Abortable, ApprovalStory
<1>19. ASSUME NEW c \in Calls, StopReject(c)
      PROVE  BusyStory(x)'
  BY <1>19, <1>given, <1>fresh, <1>types DEF StopReject, Settle, Decidable, ApprovalStory
<1>20. CASE RecoverRuns
  BY <1>20, <1>given, <1>fresh, <1>types DEF RecoverRuns
<1>21. CASE RecoverApprovals
  BY <1>21, <1>given, <1>fresh, <1>types DEF RecoverApprovals, Unactivated, TurnCalls
<1>22. CASE RecoverMessages
  BY <1>22, <1>given, <1>fresh, <1>types DEF RecoverMessages
<1>23. CASE RecoverCalls
  BY <1>23, <1>given, <1>fresh, <1>types DEF RecoverCalls, Settle, Waiting
<1>24. CASE RecoverResume
  BY <1>24, <1>given, <1>fresh, <1>types, ResumeReads
    DEF RecoverResume, ResumeDecided, BeginDriver
<1>25. ASSUME NEW t \in Turns, ReloadAgent(t)
      PROVE  BusyStory(x)'
  BY <1>25, <1>given, <1>fresh, <1>types, ResumeReads DEF ReloadAgent, ResumeDecided, BeginDriver
<1>26. ASSUME NEW S \in SUBSET Calls, ModelCalls(S)
      PROVE  BusyStory(x)'
  BY <1>26, <1>given, <1>fresh, <1>types DEF ModelCalls
<1>27. ASSUME NEW c \in Calls, NEW d \in Decided, Decide(c, d)
      PROVE  BusyStory(x)'
  BY <1>27, <1>given, <1>fresh, <1>types DEF Decide, Decidable, ApprovalStory
<1>28. CASE Crash
  BY <1>28, <1>given, <1>fresh, <1>types DEF Crash
<1>29. CASE \/ BeginTurn
           \/ Interrupt
           \/ RegisterPause
           \/ MarkWaiting
           \/ Wake
           \/ ModelEnd
           \/ ModelCancelled
           \/ MarkMessage
           \/ CheckpointCleanup
           \/ Exit
           \/ StopQueue
           \/ StopDone
           \/ (\E t \in Turns : StartTurn(t))
           \/ (\E t \in Turns : QueueAdvance(t))
           \/ StopSession
  <2>1. UNCHANGED <<call, turnOf, approval, tool, run, op, server>>
    BY <1>29
      DEF BeginTurn, Interrupt, Paused, TurnCalls, AtRest, RegisterPause, MarkWaiting, Fault,
          Wake, Awake, ModelEnd, ModelCancelled, MarkMessage, CheckpointCleanup, Exit, StopQueue,
          StopDone, StartTurn, QueueAdvance, StopSession, SessionActive, LiveTools
  <2> QED
    BY <2>1, <1>given
<1>30. CASE UNCHANGED vars
  BY <1>30, <1>given DEF vars
<1> QED
  BY <1>1, <1>2, <1>3, <1>4, <1>5, <1>6, <1>7, <1>8, <1>9, <1>10, <1>11, <1>12, <1>13, <1>14,
       <1>15, <1>16, <1>17, <1>18, <1>19, <1>20, <1>21, <1>22, <1>23, <1>24, <1>25, <1>26, <1>27,
       <1>28, <1>29, <1>30
  DEF Next, DriverStep, ToolStep, OpStep, StopStep, RecoveryStep

\* Without a stop nothing is cancelled.
LEMMA CalmFlagsStep == TurnInv /\ [Next]_vars => CalmFlags'
<1> SUFFICES ASSUME TurnInv, [Next]_vars PROVE CalmFlags'
  OBVIOUS
<1> USE DEF store, driver, queued, tools, handler, budget, CalmFlags, Calm
<1>given. CalmFlags /\ StopStory
  BY DEF TurnInv, GroupsInv, GroupsStory, TurnStory
<1>types. /\ msg \in [Turns -> MessageStatus] /\ saved \in [Turns -> SUBSET Calls]
          /\ tool \in [Calls -> ToolPlace] /\ approval \in [Calls -> ApprovalStatus]
          /\ run \in [Calls -> RunStatus] /\ turnOf \in [Calls -> Turns \cup {NoTurn}]
          /\ bound \subseteq Calls /\ group \subseteq Calls /\ DriverHasTurn /\ SavedByTurn
          /\ outcome \in Outcome /\ resumable \in BOOLEAN /\ stops \in Nat /\ crashes \in Nat
          /\ faults \in Nat /\ cancelled \in BOOLEAN
  BY DEF TurnInv, GroupsInv, IInv, TypeOK, StoreTypes, ProcessTypes, FlagTypes, Story, CallStory
<1>1. CASE BeginResume
  BY <1>1, <1>given, <1>types DEF BeginResume, Replayed, HasCheckpoint
<1>2. CASE Activate
  BY <1>2, <1>given, <1>types DEF Activate, Exposed, Rebound, Fault, TurnCalls
<1>3. CASE MarkWaiting
  BY <1>3, <1>given, <1>types DEF MarkWaiting, Fault
<1>4. CASE ResumeGroup
  BY <1>4, <1>given, <1>types DEF ResumeGroup, Replayed, Fault, AllDecided
<1>5. CASE ModelEnd
  BY <1>5, <1>given, <1>types DEF ModelEnd, Fault, AtRest, Paused, TurnCalls
<1>6. CASE CheckpointCleanup
  BY <1>6, <1>given, <1>types DEF CheckpointCleanup, Fault
<1>7. CASE Exit
  BY <1>7, <1>given, <1>types DEF Exit
<1>8. ASSUME NEW c \in Calls, ToolAbandon(c)
      PROVE  CalmFlags'
  BY <1>8, <1>given, <1>types DEF ToolAbandon, MoveTool, EndCall, Fault
<1>9. ASSUME NEW c \in Calls, ToolFinish(c)
      PROVE  CalmFlags'
  BY <1>9, <1>given, <1>types DEF ToolFinish, MoveTool, EndCall, Fault
<1>10. ASSUME NEW c \in Calls, OpBegin(c)
      PROVE  CalmFlags'
  BY <1>10, <1>given, <1>types DEF OpBegin, BeginDriver
<1>11. CASE StopQueue
  BY <1>11, <1>given, <1>types DEF StopQueue, StopStory
<1>12. CASE RecoverResume
  BY <1>12, <1>given, <1>types, ResumeReads DEF RecoverResume, ResumeDecided, BeginDriver
<1>13. ASSUME NEW t \in Turns, StartTurn(t)
      PROVE  CalmFlags'
  BY <1>13, <1>given, <1>types DEF StartTurn
<1>14. ASSUME NEW t \in Turns, ReloadAgent(t)
      PROVE  CalmFlags'
  BY <1>14, <1>given, <1>types, ResumeReads DEF ReloadAgent, ResumeDecided, BeginDriver
<1>15. CASE StopSession
  BY <1>15, <1>given, <1>types DEF StopSession, SessionActive, LiveTools
<1>16. CASE Crash
  BY <1>16, <1>given, <1>types DEF Crash
<1>17. CASE \/ BeginTurn
           \/ Interrupt
           \/ RegisterPause
           \/ Wake
           \/ ModelCancelled
           \/ SettleCalls
           \/ MarkMessage
           \/ (\E c \in Calls : ToolSubmit(c))
           \/ (\E c \in Calls : ToolBind(c))
           \/ (\E c \in Calls : ToolRequest(c))
           \/ (\E c \in Calls : ToolPause(c))
           \/ (\E c \in Calls : ToolResume(c))
           \/ (\E c \in Calls : ToolClaim(c))
           \/ (\E c \in Calls : ToolRefused(c))
           \/ (\E c \in Calls : OpResumeQueue(c))
           \/ (\E c \in Calls : OpCheckActive(c))
           \/ (\E c \in Calls : OpReadGroup(c))
           \/ StopAbort
           \/ (\E c \in Calls : StopReject(c))
           \/ StopDone
           \/ RecoverRuns
           \/ RecoverApprovals
           \/ RecoverMessages
           \/ RecoverCalls
           \/ (\E t \in Turns : QueueAdvance(t))
           \/ (\E S \in SUBSET Calls : ModelCalls(S))
           \/ (\E c \in Calls, d \in Decided : Decide(c, d))
  <2>1. UNCHANGED <<stops, faults, cancelled, killed>>
    BY <1>17
      DEF BeginTurn, Interrupt, Paused, TurnCalls, AtRest, RegisterPause, Wake, Awake,
          ModelCancelled, SettleCalls, Settle, Unfinished, MarkMessage, ToolSubmit, MoveTool,
          Execute, EndCall, ToolBind, ToolRequest, ToolPause, ToolResume, ToolClaim,
          ClaimedStatus, Claimable, ToolRefused, OpResumeQueue, Remaining, OpCheckActive,
          OpReadGroup, DecidedGroup, StopAbort, Abortable, StopReject, Decidable, StopDone,
          RecoverRuns, RecoverApprovals, Unactivated, RecoverMessages, RecoverCalls, QueueAdvance,
          ModelCalls, Decide
  <2> QED
    BY <2>1, <1>given
<1>18. CASE UNCHANGED vars
  BY <1>18, <1>given DEF vars
<1> QED
  BY <1>1, <1>2, <1>3, <1>4, <1>5, <1>6, <1>7, <1>8, <1>9, <1>10, <1>11, <1>12, <1>13, <1>14,
       <1>15, <1>16, <1>17, <1>18
  DEF Next, DriverStep, ToolStep, OpStep, StopStep, RecoveryStep

\* A turn that waits without a driver.
LEMMA CalmAwayStep == TurnInv /\ [Next]_vars => \A u \in Turns : CalmAway(u)'
<1> SUFFICES ASSUME TurnInv, [Next]_vars, NEW u \in Turns PROVE CalmAway(u)'
  OBVIOUS
<1> USE DEF store, driver, queued, tools, handler, budget, CalmAway, Calm, Away, DriverHasTurn,
      SavedByTurn, TurnCalls, Bound
<1>given. /\ StopStory /\ CalmFlags /\ CalmEnd /\ QueueStory /\ MessageStory /\ OutcomeStory
          /\ PauseStory /\ (\A t \in Turns : CalmAway(t))
  BY DEF TurnInv, GroupsInv, GroupsStory, TurnStory
<1>types. /\ msg \in [Turns -> MessageStatus] /\ saved \in [Turns -> SUBSET Calls]
          /\ tool \in [Calls -> ToolPlace] /\ approval \in [Calls -> ApprovalStatus]
          /\ run \in [Calls -> RunStatus] /\ turnOf \in [Calls -> Turns \cup {NoTurn}]
          /\ bound \subseteq Calls /\ group \subseteq Calls /\ DriverHasTurn /\ SavedByTurn
          /\ op \in [Calls -> HandlerPlace] /\ opGroup \in [Calls -> SUBSET Calls]
          /\ outcome \in Outcome /\ resumable \in BOOLEAN /\ stops \in Nat /\ crashes \in Nat
          /\ faults \in Nat /\ cancelled \in BOOLEAN
  BY DEF TurnInv, GroupsInv, IInv, TypeOK, StoreTypes, ProcessTypes, FlagTypes, Story, CallStory
<1>fresh. /\ NoTurn \notin Turns
         /\ \A c \in Calls : turnOf[c] \notin Turns =>
              turnOf[c] = NoTurn /\ run[c] = "none" /\ approval[c] = "none" /\ tool[c] = "idle" /\ op[c] = "idle"
  BY Fresh DEF TurnInv
<1>1. CASE BeginTurn
  BY <1>1, <1>given, <1>fresh, <1>types DEF BeginTurn, CalmFlags
<1>2. CASE BeginResume
  BY <1>2, <1>given, <1>fresh, <1>types DEF BeginResume, Replayed, HasCheckpoint, CalmFlags
<1>3. CASE Interrupt
  BY <1>3, <1>given, <1>fresh, <1>types DEF Interrupt, Paused, AtRest
<1>4. CASE RegisterPause
  BY <1>4, <1>given, <1>fresh, <1>types DEF RegisterPause
<1>5. CASE Activate
  BY <1>5, <1>given, <1>fresh, <1>types
    DEF Activate, Exposed, Rebound, Fault, PauseStory, Handling
<1>6. CASE MarkWaiting
  BY <1>6, <1>given, <1>fresh, <1>types DEF MarkWaiting, Fault
<1>7. CASE Wake
  BY <1>7, <1>given, <1>fresh, <1>types DEF Wake, Awake
<1>8. CASE ResumeGroup
  BY <1>8, <1>given, <1>fresh, <1>types DEF ResumeGroup, Replayed, Fault, AllDecided
<1>9. CASE ModelEnd
  BY <1>9, <1>given, <1>fresh, <1>types DEF ModelEnd, Fault, AtRest, Paused
<1>10. CASE ModelCancelled
  BY <1>10, <1>given, <1>fresh, <1>types DEF ModelCancelled
<1>11. CASE SettleCalls
  BY <1>11, <1>given, <1>fresh, <1>types DEF SettleCalls, Settle, Unfinished
<1>12. CASE MarkMessage
  BY <1>12, <1>given, <1>fresh, <1>types DEF MarkMessage
<1>13. CASE CheckpointCleanup
  BY <1>13, <1>given, <1>fresh, <1>types
    DEF CheckpointCleanup, Fault, CalmEnd, MessageStory, OutcomeStory, Retained, Recoverable,
        HasCheckpoint, Ending
<1>14. CASE Exit
  BY <1>14, <1>given, <1>fresh, <1>types DEF Exit
<1>15. ASSUME NEW c \in Calls, ToolSubmit(c)
      PROVE  CalmAway(u)'
  BY <1>15, <1>given, <1>fresh, <1>types DEF ToolSubmit, MoveTool, Execute, EndCall
<1>16. ASSUME NEW c \in Calls, ToolBind(c)
      PROVE  CalmAway(u)'
  BY <1>16, <1>given, <1>fresh, <1>types DEF ToolBind, MoveTool
<1>17. ASSUME NEW c \in Calls, ToolRequest(c)
      PROVE  CalmAway(u)'
  BY <1>17, <1>given, <1>fresh, <1>types DEF ToolRequest, MoveTool
<1>18. ASSUME NEW c \in Calls, ToolPause(c)
      PROVE  CalmAway(u)'
  BY <1>18, <1>given, <1>fresh, <1>types DEF ToolPause, MoveTool
<1>19. ASSUME NEW c \in Calls, ToolAbandon(c)
      PROVE  CalmAway(u)'
  BY <1>19, <1>given, <1>fresh, <1>types DEF ToolAbandon, MoveTool, EndCall, Fault
<1>20. ASSUME NEW c \in Calls, ToolResume(c)
      PROVE  CalmAway(u)'
  BY <1>20, <1>given, <1>fresh, <1>types DEF ToolResume, MoveTool, EndCall
<1>21. ASSUME NEW c \in Calls, ToolClaim(c)
      PROVE  CalmAway(u)'
  BY <1>21, <1>given, <1>fresh, <1>types
    DEF ToolClaim, MoveTool, EndCall, Execute, ClaimedStatus, Claimable
<1>22. ASSUME NEW c \in Calls, ToolRefused(c)
      PROVE  CalmAway(u)'
  BY <1>22, <1>given, <1>fresh, <1>types DEF ToolRefused, MoveTool, EndCall
<1>23. ASSUME NEW c \in Calls, ToolFinish(c)
      PROVE  CalmAway(u)'
  BY <1>23, <1>given, <1>fresh, <1>types DEF ToolFinish, MoveTool, EndCall, Fault
<1>24. ASSUME NEW c \in Calls, OpResumeQueue(c)
      PROVE  CalmAway(u)'
  BY <1>24, <1>given, <1>fresh, <1>types DEF OpResumeQueue, Settle, Remaining
<1>25. ASSUME NEW c \in Calls, OpCheckActive(c)
      PROVE  CalmAway(u)'
  BY <1>25, <1>given, <1>fresh, <1>types DEF OpCheckActive
<1>26. ASSUME NEW c \in Calls, OpReadGroup(c)
      PROVE  CalmAway(u)'
  <2>1. opGroup' = [opGroup EXCEPT ![c] = DecidedGroup(turnOf[c])]
        /\ op' = [op EXCEPT ![c] = IF DecidedGroup(turnOf[c]) = {} THEN "idle" ELSE "begin"]
        /\ UNCHANGED <<store, driver, tools, stops, faults>>
    BY <1>26 DEF OpReadGroup
  <2>2. op'[c] = "begin" => opGroup'[c] = Bound(turnOf[c])
    BY <2>1, <1>types DEF DecidedGroup
  <2>3. CalmAway(u)
    BY <1>given
  <2>4. \A d \in Calls : d # c => op'[d] = op[d] /\ opGroup'[d] = opGroup[d]
    BY <2>1, <1>types
  <2>5. \A d \in TurnCalls(u) : op'[d] = "begin" /\ (d # c => opGroup[d] = Bound(u)) => opGroup'[d] = Bound(u)
    BY <2>2, <2>4
  <2>6. UNCHANGED <<store, driver, tools, stops, faults>>
    BY <2>1
  <2>7. \A d \in TurnCalls(u) : d # c => op'[d] = op[d]
    BY <2>4
  <2> QED
    BY <2>3, <2>5, <2>6, <2>7
<1>27. ASSUME NEW c \in Calls, OpBegin(c)
      PROVE  CalmAway(u)'
  BY <1>27, <1>given, <1>fresh, <1>types DEF OpBegin, BeginDriver, QueueStory
<1>28. CASE RecoverMessages
  BY <1>28, <1>given, <1>fresh, <1>types DEF RecoverMessages
<1>29. CASE RecoverResume
  <2>1. ASSUME NEW t \in Turns, ResumeDecided(t)
        PROVE  CalmAway(u)'
    <3>1. /\ pc = "idle" /\ pc' = "begun" /\ turn' = t /\ group' = Bound(t)
          /\ UNCHANGED <<store, stops, faults, tool, op, opGroup>>
      BY <2>1 DEF ResumeDecided, BeginDriver
    <3>2. CalmAway(u) /\ turn = NoTurn
      BY <3>1, <1>given DEF QueueStory
    <3> QED
      BY <3>1, <3>2, <1>fresh
  <2>2. CASE UNCHANGED <<store, driver, queued, tools, handler, budget>>
    BY <2>2, <1>given
  <2> QED
    BY <1>29, <2>1, <2>2 DEF RecoverResume
<1>30. ASSUME NEW t \in Turns, StartTurn(t)
      PROVE  CalmAway(u)'
  BY <1>30, <1>given, <1>fresh, <1>types DEF StartTurn, QueueStory, StopStory
<1>31. ASSUME NEW t \in Turns, QueueAdvance(t)
      PROVE  CalmAway(u)'
  BY <1>31, <1>given, <1>fresh, <1>types DEF QueueAdvance
<1>32. ASSUME NEW t \in Turns, ReloadAgent(t)
      PROVE  CalmAway(u)'
  BY <1>32, <1>given, <1>fresh, <1>types, ResumeReads
    DEF ReloadAgent, ResumeDecided, BeginDriver, QueueStory, Resumable
<1>33. ASSUME NEW S \in SUBSET Calls, ModelCalls(S)
      PROVE  CalmAway(u)'
  BY <1>33, <1>given, <1>fresh, <1>types DEF ModelCalls
<1>34. ASSUME NEW c \in Calls, NEW d \in Decided, Decide(c, d)
      PROVE  CalmAway(u)'
  BY <1>34, <1>given, <1>fresh, <1>types DEF Decide, Decidable
<1>35. CASE StopSession
  BY <1>35, <1>given, <1>fresh, <1>types DEF StopSession, SessionActive, LiveTools
<1>36. CASE Crash
  BY <1>36, <1>given, <1>fresh, <1>types DEF Crash
<1>37. CASE \/ StopQueue
           \/ StopAbort
           \/ (\E c \in Calls : StopReject(c))
           \/ StopDone
           \/ RecoverRuns
           \/ RecoverApprovals
           \/ RecoverCalls
  <2>1. UNCHANGED <<stops, faults, msg, pc, turn, group, bound, turnOf, tool, op, opGroup>>
    BY <1>37
      DEF StopQueue, StopAbort, Settle, Abortable, StopReject, Decidable, StopDone, RecoverRuns,
          RecoverApprovals, Unactivated, RecoverCalls
  <2> QED
    BY <2>1, <1>given
<1>38. CASE UNCHANGED vars
  BY <1>38, <1>given DEF vars
<1> QED
  BY <1>1, <1>2, <1>3, <1>4, <1>5, <1>6, <1>7, <1>8, <1>9, <1>10, <1>11, <1>12, <1>13, <1>14,
       <1>15, <1>16, <1>17, <1>18, <1>19, <1>20, <1>21, <1>22, <1>23, <1>24, <1>25, <1>26, <1>27,
       <1>28, <1>29, <1>30, <1>31, <1>32, <1>33, <1>34, <1>35, <1>36, <1>37, <1>38
  DEF Next, DriverStep, ToolStep, OpStep, StopStep, RecoveryStep

\* What asks is new.
LEMMA CalmAskingStep == TurnInv /\ [Next]_vars => CalmAsking'
<1> SUFFICES ASSUME TurnInv, [Next]_vars PROVE CalmAsking'
  OBVIOUS
<1> USE DEF store, driver, queued, tools, handler, budget, CalmAsking, Calm, DriverHasTurn,
      SavedByTurn, TurnCalls, Asking
<1>given. /\ CalmAsking /\ StopStory /\ QueueStory /\ PauseStory /\ MessageStory /\ DriverRead
          /\ (\A t \in Turns : CalmAway(t)) /\ (\A t \in Turns : UnmadeStory(t))
          /\ (\A t \in Turns : GroupStory(t)) /\ (\A c \in Calls : ToolStory(c))
  BY DEF TurnInv, GroupsInv, GroupsStory, TurnStory
<1>types. /\ msg \in [Turns -> MessageStatus] /\ saved \in [Turns -> SUBSET Calls]
          /\ tool \in [Calls -> ToolPlace] /\ approval \in [Calls -> ApprovalStatus]
          /\ run \in [Calls -> RunStatus] /\ turnOf \in [Calls -> Turns \cup {NoTurn}]
          /\ bound \subseteq Calls /\ group \subseteq Calls /\ DriverHasTurn /\ SavedByTurn
          /\ (\A c \in Calls : ToolKnowsRun(c)) /\ outcome \in Outcome /\ resumable \in BOOLEAN
          /\ stops \in Nat /\ crashes \in Nat /\ faults \in Nat /\ cancelled \in BOOLEAN
  BY DEF TurnInv, GroupsInv, IInv, TypeOK, StoreTypes, ProcessTypes, FlagTypes, Story, CallStory
<1>fresh. /\ NoTurn \notin Turns
         /\ \A c \in Calls : turnOf[c] \notin Turns =>
              turnOf[c] = NoTurn /\ run[c] = "none" /\ approval[c] = "none" /\ tool[c] = "idle" /\ op[c] = "idle"
  BY Fresh DEF TurnInv
<1>1. CASE BeginTurn
  BY <1>1, <1>given, <1>fresh, <1>types DEF BeginTurn, MessageStory, UnmadeStory
<1>2. CASE BeginResume
  <2>1. CASE ~(Calm /\ pc' = "model")
    BY <1>2, <2>1 DEF BeginResume
  <2>2. CASE Calm /\ pc' = "model"
    <3>1. /\ pc = "begun" /\ group # {} /\ turn \in Turns /\ turn' = turn
          /\ msg[turn] \in {"waiting_for_approval", "pending"} /\ saved[turn] # {}
          /\ tool' = [c \in Calls |-> IF c \notin saved[turn] THEN tool[c]
                                     ELSE IF c \in group THEN "resume" ELSE "requested"]
          /\ UNCHANGED <<approval, saved, turnOf>>
      BY <1>2, <2>2, <1>types DEF BeginResume, Replayed, HasCheckpoint
    <3>2. group = Bound(turn) /\ \A c \in TurnCalls(turn) : tool[c] = "idle"
      BY <2>2, <3>1, <1>given DEF CalmAway, Away
    <3>3. \A c \in Calls : turnOf[c] = turn /\ tool'[c] \in {"requested", "paused"} => c \in saved[turn] /\ c \notin group
      BY <3>1, <3>2
    <3>4. saved[turn] = Bound(turn) \/ \A c \in saved[turn] : approval[c] = "preparing"
      BY <3>1, <1>given DEF GroupStory
    <3>5. \A c \in Calls : turnOf[c] = turn /\ tool'[c] \in {"requested", "paused"} => approval[c] = "preparing"
      BY <3>2, <3>3, <3>4
    <3> QED
      BY <2>2, <3>1, <3>5
  <2> QED
    BY <2>1, <2>2
<1>3. CASE Interrupt
  BY <1>3, <1>given, <1>fresh, <1>types DEF Interrupt, Paused, AtRest, Live
<1>4. CASE RegisterPause
  BY <1>4, <1>given, <1>fresh, <1>types DEF RegisterPause
<1>5. CASE Activate
  BY <1>5, <1>given, <1>fresh, <1>types DEF Activate, Exposed, Rebound, Fault
<1>6. CASE MarkWaiting
  BY <1>6, <1>given, <1>fresh, <1>types DEF MarkWaiting, Fault
<1>7. CASE Wake
  BY <1>7, <1>given, <1>fresh, <1>types DEF Wake, Awake
<1>8. CASE ResumeGroup
  BY <1>8, <1>given, <1>fresh, <1>types
    DEF ResumeGroup, Replayed, Fault, AllDecided, PauseStory, ToolStory, Kept, Away, Handling,
        Ending
<1>9. CASE ModelEnd
  BY <1>9, <1>given, <1>fresh, <1>types DEF ModelEnd, Fault, AtRest, Paused
<1>10. CASE ModelCancelled
  BY <1>10, <1>given, <1>fresh, <1>types DEF ModelCancelled
<1>11. CASE SettleCalls
  BY <1>11, <1>given, <1>fresh, <1>types DEF SettleCalls, Settle, Unfinished
<1>12. CASE MarkMessage
  BY <1>12, <1>given, <1>fresh, <1>types DEF MarkMessage
<1>13. CASE CheckpointCleanup
  BY <1>13, <1>given, <1>fresh, <1>types DEF CheckpointCleanup, Fault
<1>14. CASE Exit
  BY <1>14, <1>given, <1>fresh, <1>types DEF Exit
<1>15. ASSUME NEW c \in Calls, ToolSubmit(c)
      PROVE  CalmAsking'
  BY <1>15, <1>given, <1>fresh, <1>types DEF ToolSubmit, MoveTool, Execute, EndCall
<1>16. ASSUME NEW c \in Calls, ToolBind(c)
      PROVE  CalmAsking'
  BY <1>16, <1>given, <1>fresh, <1>types DEF ToolBind, MoveTool
<1>17. ASSUME NEW c \in Calls, ToolRequest(c)
      PROVE  CalmAsking'
  BY <1>17, <1>given, <1>fresh, <1>types DEF ToolRequest, MoveTool
<1>18. ASSUME NEW c \in Calls, ToolPause(c)
      PROVE  CalmAsking'
  BY <1>18, <1>given, <1>fresh, <1>types DEF ToolPause, MoveTool
<1>19. ASSUME NEW c \in Calls, ToolAbandon(c)
      PROVE  CalmAsking'
  BY <1>19, <1>given, <1>fresh, <1>types DEF ToolAbandon, MoveTool, EndCall, Fault
<1>20. ASSUME NEW c \in Calls, ToolResume(c)
      PROVE  CalmAsking'
  BY <1>20, <1>given, <1>fresh, <1>types DEF ToolResume, MoveTool, EndCall
<1>21. ASSUME NEW c \in Calls, ToolClaim(c)
      PROVE  CalmAsking'
  BY <1>21, <1>given, <1>fresh, <1>types
    DEF ToolClaim, MoveTool, EndCall, Execute, ClaimedStatus, Claimable
<1>22. ASSUME NEW c \in Calls, ToolRefused(c)
      PROVE  CalmAsking'
  BY <1>22, <1>given, <1>fresh, <1>types DEF ToolRefused, MoveTool, EndCall
<1>23. ASSUME NEW c \in Calls, ToolFinish(c)
      PROVE  CalmAsking'
  BY <1>23, <1>given, <1>fresh, <1>types DEF ToolFinish, MoveTool, EndCall, Fault
<1>24. ASSUME NEW c \in Calls, OpBegin(c)
      PROVE  CalmAsking'
  BY <1>24, <1>given, <1>fresh, <1>types DEF OpBegin, BeginDriver
<1>25. CASE StopAbort
  BY <1>25, <1>given, <1>fresh, <1>types DEF StopAbort, Settle, Abortable, StopStory
<1>26. ASSUME NEW c \in Calls, StopReject(c)
      PROVE  CalmAsking'
  BY <1>26, <1>given, <1>fresh, <1>types DEF StopReject, Settle, Decidable, StopStory
<1>27. CASE RecoverApprovals
  BY <1>27, <1>given, <1>fresh, <1>types DEF RecoverApprovals, Unactivated, QueueStory
<1>28. CASE RecoverResume
  BY <1>28, <1>given, <1>fresh, <1>types, ResumeReads
    DEF RecoverResume, ResumeDecided, BeginDriver
<1>29. ASSUME NEW t \in Turns, StartTurn(t)
      PROVE  CalmAsking'
  BY <1>29, <1>given, <1>fresh, <1>types DEF StartTurn
<1>30. ASSUME NEW t \in Turns, QueueAdvance(t)
      PROVE  CalmAsking'
  BY <1>30, <1>given, <1>fresh, <1>types DEF QueueAdvance
<1>31. ASSUME NEW t \in Turns, ReloadAgent(t)
      PROVE  CalmAsking'
  BY <1>31, <1>given, <1>fresh, <1>types, ResumeReads DEF ReloadAgent, ResumeDecided, BeginDriver
<1>32. ASSUME NEW S \in SUBSET Calls, ModelCalls(S)
      PROVE  CalmAsking'
  BY <1>32, <1>given, <1>fresh, <1>types DEF ModelCalls, AtRest, Live, Paused
<1>33. ASSUME NEW c \in Calls, NEW d \in Decided, Decide(c, d)
      PROVE  CalmAsking'
  BY <1>33, <1>given, <1>fresh, <1>types DEF Decide, Decidable, Decided
<1>34. CASE StopSession
  BY <1>34, <1>given, <1>fresh, <1>types DEF StopSession, SessionActive, LiveTools
<1>35. CASE Crash
  BY <1>35, <1>given, <1>fresh, <1>types DEF Crash
<1>36. CASE \/ (\E c \in Calls : OpResumeQueue(c))
           \/ (\E c \in Calls : OpCheckActive(c))
           \/ (\E c \in Calls : OpReadGroup(c))
           \/ StopQueue
           \/ StopDone
           \/ RecoverRuns
           \/ RecoverMessages
           \/ RecoverCalls
  <2>1. UNCHANGED <<stops, faults, pc, turn, turnOf, tool, approval, group, saved>>
    BY <1>36
      DEF OpResumeQueue, Settle, Remaining, OpCheckActive, OpReadGroup, DecidedGroup, StopQueue,
          StopDone, RecoverRuns, RecoverMessages, RecoverCalls
  <2> QED
    BY <2>1, <1>given
<1>37. CASE UNCHANGED vars
  BY <1>37, <1>given DEF vars
<1> QED
  BY <1>1, <1>2, <1>3, <1>4, <1>5, <1>6, <1>7, <1>8, <1>9, <1>10, <1>11, <1>12, <1>13, <1>14,
       <1>15, <1>16, <1>17, <1>18, <1>19, <1>20, <1>21, <1>22, <1>23, <1>24, <1>25, <1>26, <1>27,
       <1>28, <1>29, <1>30, <1>31, <1>32, <1>33, <1>34, <1>35, <1>36, <1>37
  DEF Next, DriverStep, ToolStep, OpStep, StopStep, RecoveryStep

\* The pause and the decisions.
LEMMA CalmPauseStep == TurnInv /\ [Next]_vars => CalmPause'
<1> SUFFICES ASSUME TurnInv, [Next]_vars PROVE CalmPause'
  OBVIOUS
<1> USE DEF store, driver, queued, tools, handler, budget, CalmPause, Calm, AllDecided, Decided,
      DriverHasTurn
<1>given. /\ CalmPause /\ CalmAsking /\ CalmFlags /\ StopStory /\ QueueStory /\ PauseStory
          /\ (\A c \in Calls : BusyStory(c))
  BY DEF TurnInv, GroupsInv, GroupsStory, TurnStory
<1>types. /\ msg \in [Turns -> MessageStatus] /\ saved \in [Turns -> SUBSET Calls]
          /\ tool \in [Calls -> ToolPlace] /\ approval \in [Calls -> ApprovalStatus]
          /\ run \in [Calls -> RunStatus] /\ turnOf \in [Calls -> Turns \cup {NoTurn}]
          /\ bound \subseteq Calls /\ group \subseteq Calls /\ DriverHasTurn /\ SavedByTurn
          /\ op \in [Calls -> HandlerPlace] /\ woken \in BOOLEAN /\ paused \subseteq Calls
          /\ (\A c \in Calls : ToolKnowsRun(c)) /\ outcome \in Outcome /\ resumable \in BOOLEAN
          /\ stops \in Nat /\ crashes \in Nat /\ faults \in Nat /\ cancelled \in BOOLEAN
  BY DEF TurnInv, GroupsInv, IInv, TypeOK, StoreTypes, ProcessTypes, FlagTypes, Story, CallStory
<1>fresh. /\ NoTurn \notin Turns
         /\ \A c \in Calls : turnOf[c] \notin Turns =>
              turnOf[c] = NoTurn /\ run[c] = "none" /\ approval[c] = "none" /\ tool[c] = "idle" /\ op[c] = "idle"
  BY Fresh DEF TurnInv
<1>1. CASE BeginTurn
  BY <1>1, <1>given, <1>fresh, <1>types DEF BeginTurn
<1>2. CASE BeginResume
  BY <1>2, <1>given, <1>fresh, <1>types DEF BeginResume, Replayed, HasCheckpoint
<1>3. CASE Interrupt
  BY <1>3, <1>given, <1>fresh, <1>types DEF Interrupt, Paused, TurnCalls, AtRest
<1>4. CASE RegisterPause
  BY <1>4, <1>given, <1>fresh, <1>types DEF RegisterPause
<1>5. CASE Activate
  BY <1>5, <1>given, <1>fresh, <1>types
    DEF Activate, Exposed, Rebound, Fault, TurnCalls, CalmAsking, PauseStory, Handling
<1>6. CASE MarkWaiting
  BY <1>6, <1>given, <1>fresh, <1>types DEF MarkWaiting, Fault
<1>7. CASE Wake
  BY <1>7, <1>given, <1>fresh, <1>types DEF Wake, Awake, CalmFlags, QueueStory
<1>8. CASE ResumeGroup
  BY <1>8, <1>given, <1>fresh, <1>types DEF ResumeGroup, Replayed, Fault
<1>9. CASE ModelEnd
  BY <1>9, <1>given, <1>fresh, <1>types DEF ModelEnd, Fault, AtRest, Paused, TurnCalls
<1>10. CASE ModelCancelled
  BY <1>10, <1>given, <1>fresh, <1>types DEF ModelCancelled
<1>11. CASE SettleCalls
  BY <1>11, <1>given, <1>fresh, <1>types DEF SettleCalls, Settle, Unfinished
<1>12. CASE MarkMessage
  BY <1>12, <1>given, <1>fresh, <1>types DEF MarkMessage
<1>13. CASE CheckpointCleanup
  BY <1>13, <1>given, <1>fresh, <1>types DEF CheckpointCleanup, Fault
<1>14. CASE Exit
  BY <1>14, <1>given, <1>fresh, <1>types DEF Exit
<1>15. ASSUME NEW c \in Calls, ToolRequest(c)
      PROVE  CalmPause'
  BY <1>15, <1>given, <1>fresh, <1>types DEF ToolRequest, MoveTool, ToolKnowsRun
<1>16. ASSUME NEW c \in Calls, ToolAbandon(c)
      PROVE  CalmPause'
  BY <1>16, <1>given, <1>fresh, <1>types DEF ToolAbandon, MoveTool, EndCall, Fault
<1>17. ASSUME NEW c \in Calls, ToolFinish(c)
      PROVE  CalmPause'
  BY <1>17, <1>given, <1>fresh, <1>types DEF ToolFinish, MoveTool, EndCall, Fault
<1>18. ASSUME NEW c \in Calls, OpResumeQueue(c)
      PROVE  CalmPause'
  BY <1>18, <1>given, <1>fresh, <1>types, ZenonT(60)
    DEF OpResumeQueue, Settle, Remaining, CalmAsking, BusyStory, QueueStory
<1>19. ASSUME NEW c \in Calls, OpCheckActive(c)
      PROVE  CalmPause'
  BY <1>19, <1>given, <1>fresh, <1>types DEF OpCheckActive
<1>20. ASSUME NEW c \in Calls, OpReadGroup(c)
      PROVE  CalmPause'
  BY <1>20, <1>given, <1>fresh, <1>types DEF OpReadGroup, DecidedGroup
<1>21. ASSUME NEW c \in Calls, OpBegin(c)
      PROVE  CalmPause'
  BY <1>21, <1>given, <1>fresh, <1>types DEF OpBegin, BeginDriver
<1>22. CASE StopAbort
  BY <1>22, <1>given, <1>fresh, <1>types DEF StopAbort, Settle, Abortable, StopStory
<1>23. ASSUME NEW c \in Calls, StopReject(c)
      PROVE  CalmPause'
  BY <1>23, <1>given, <1>fresh, <1>types DEF StopReject, Settle, Decidable, StopStory
<1>24. CASE RecoverApprovals
  BY <1>24, <1>given, <1>fresh, <1>types DEF RecoverApprovals, Unactivated, TurnCalls, QueueStory
<1>25. CASE RecoverResume
  BY <1>25, <1>given, <1>fresh, <1>types, ResumeReads
    DEF RecoverResume, ResumeDecided, BeginDriver
<1>26. ASSUME NEW t \in Turns, StartTurn(t)
      PROVE  CalmPause'
  BY <1>26, <1>given, <1>fresh, <1>types DEF StartTurn
<1>27. ASSUME NEW t \in Turns, QueueAdvance(t)
      PROVE  CalmPause'
  BY <1>27, <1>given, <1>fresh, <1>types DEF QueueAdvance
<1>28. ASSUME NEW t \in Turns, ReloadAgent(t)
      PROVE  CalmPause'
  BY <1>28, <1>given, <1>fresh, <1>types, ResumeReads DEF ReloadAgent, ResumeDecided, BeginDriver
<1>29. ASSUME NEW c \in Calls, NEW d \in Decided, Decide(c, d)
      PROVE  CalmPause'
  BY <1>29, <1>given, <1>fresh, <1>types DEF Decide, Decidable
<1>30. CASE StopSession
  BY <1>30, <1>given, <1>fresh, <1>types DEF StopSession, SessionActive, LiveTools
<1>31. CASE Crash
  BY <1>31, <1>given, <1>fresh, <1>types DEF Crash
<1>32. CASE \/ (\E c \in Calls : ToolSubmit(c))
           \/ (\E c \in Calls : ToolBind(c))
           \/ (\E c \in Calls : ToolPause(c))
           \/ (\E c \in Calls : ToolResume(c))
           \/ (\E c \in Calls : ToolClaim(c))
           \/ (\E c \in Calls : ToolRefused(c))
           \/ StopQueue
           \/ StopDone
           \/ RecoverRuns
           \/ RecoverMessages
           \/ RecoverCalls
           \/ (\E S \in SUBSET Calls : ModelCalls(S))
  <2>1. UNCHANGED <<stops, faults, pc, paused, group, woken, approval, op>>
    BY <1>32
      DEF ToolSubmit, MoveTool, Execute, EndCall, ToolBind, ToolPause, ToolResume, ToolClaim,
          ClaimedStatus, Claimable, ToolRefused, StopQueue, StopDone, RecoverRuns,
          RecoverMessages, RecoverCalls, Settle, ModelCalls
  <2> QED
    BY <2>1, <1>given
<1>33. CASE UNCHANGED vars
  BY <1>33, <1>given DEF vars
<1> QED
  BY <1>1, <1>2, <1>3, <1>4, <1>5, <1>6, <1>7, <1>8, <1>9, <1>10, <1>11, <1>12, <1>13, <1>14,
       <1>15, <1>16, <1>17, <1>18, <1>19, <1>20, <1>21, <1>22, <1>23, <1>24, <1>25, <1>26, <1>27,
       <1>28, <1>29, <1>30, <1>31, <1>32, <1>33
  DEF Next, DriverStep, ToolStep, OpStep, StopStep, RecoveryStep

\* A failed turn has lost its checkpoint.
LEMMA CalmEndStep == TurnInv /\ [Next]_vars => CalmEnd'
<1> SUFFICES ASSUME TurnInv, [Next]_vars PROVE CalmEnd'
  OBVIOUS
<1> USE DEF store, driver, queued, tools, handler, budget, CalmEnd, Calm, DriverHasTurn, Handling,
      Ending
<1>given. CalmEnd /\ CalmPause /\ CalmFlags /\ QueueStory /\ OutcomeStory
  BY DEF TurnInv, GroupsInv, GroupsStory, TurnStory
<1>types. /\ msg \in [Turns -> MessageStatus] /\ saved \in [Turns -> SUBSET Calls]
          /\ tool \in [Calls -> ToolPlace] /\ approval \in [Calls -> ApprovalStatus]
          /\ run \in [Calls -> RunStatus] /\ turnOf \in [Calls -> Turns \cup {NoTurn}]
          /\ bound \subseteq Calls /\ group \subseteq Calls /\ DriverHasTurn /\ SavedByTurn
          /\ queue \in {"none", "open", "cleared"} /\ outcome \in Outcome /\ resumable \in BOOLEAN
          /\ stops \in Nat /\ crashes \in Nat /\ faults \in Nat /\ cancelled \in BOOLEAN
  BY DEF TurnInv, GroupsInv, IInv, TypeOK, StoreTypes, ProcessTypes, FlagTypes, Story, CallStory
<1>fresh. /\ NoTurn \notin Turns
         /\ \A c \in Calls : turnOf[c] \notin Turns =>
              turnOf[c] = NoTurn /\ run[c] = "none" /\ approval[c] = "none" /\ tool[c] = "idle" /\ op[c] = "idle"
  BY Fresh DEF TurnInv
<1>1. CASE BeginTurn
  BY <1>1, <1>given, <1>fresh, <1>types DEF BeginTurn
<1>2. CASE BeginResume
  BY <1>2, <1>given, <1>fresh, <1>types DEF BeginResume, Replayed, HasCheckpoint, CalmFlags
<1>3. CASE Interrupt
  BY <1>3, <1>given, <1>fresh, <1>types DEF Interrupt, Paused, TurnCalls, AtRest
<1>4. CASE RegisterPause
  BY <1>4, <1>given, <1>fresh, <1>types DEF RegisterPause, CalmFlags, QueueStory
<1>5. CASE Activate
  BY <1>5, <1>given, <1>fresh, <1>types DEF Activate, Exposed, Rebound, Fault, TurnCalls
<1>6. CASE MarkWaiting
  BY <1>6, <1>given, <1>fresh, <1>types DEF MarkWaiting, Fault
<1>7. CASE Wake
  BY <1>7, <1>given, <1>fresh, <1>types DEF Wake, Awake, OutcomeStory, QueueStory
<1>8. CASE ResumeGroup
  BY <1>8, <1>given, <1>fresh, <1>types DEF ResumeGroup, Replayed, Fault, AllDecided, CalmPause
<1>9. CASE ModelEnd
  BY <1>9, <1>given, <1>fresh, <1>types DEF ModelEnd, Fault, AtRest, Paused, TurnCalls
<1>10. CASE ModelCancelled
  BY <1>10, <1>given, <1>fresh, <1>types DEF ModelCancelled
<1>11. CASE SettleCalls
  BY <1>11, <1>given, <1>fresh, <1>types DEF SettleCalls, Settle, Unfinished
<1>12. CASE MarkMessage
  BY <1>12, <1>given, <1>fresh, <1>types DEF MarkMessage
<1>13. CASE CheckpointCleanup
  BY <1>13, <1>given, <1>fresh, <1>types DEF CheckpointCleanup, Fault
<1>14. CASE Exit
  BY <1>14, <1>given, <1>fresh, <1>types DEF Exit
<1>15. ASSUME NEW c \in Calls, ToolAbandon(c)
      PROVE  CalmEnd'
  BY <1>15, <1>given, <1>fresh, <1>types DEF ToolAbandon, MoveTool, EndCall, Fault
<1>16. ASSUME NEW c \in Calls, ToolFinish(c)
      PROVE  CalmEnd'
  BY <1>16, <1>given, <1>fresh, <1>types DEF ToolFinish, MoveTool, EndCall, Fault
<1>17. ASSUME NEW c \in Calls, OpBegin(c)
      PROVE  CalmEnd'
  BY <1>17, <1>given, <1>fresh, <1>types DEF OpBegin, BeginDriver
<1>18. CASE RecoverApprovals
  BY <1>18, <1>given, <1>fresh, <1>types DEF RecoverApprovals, Unactivated, TurnCalls, QueueStory
<1>19. CASE RecoverResume
  BY <1>19, <1>given, <1>fresh, <1>types, ResumeReads
    DEF RecoverResume, ResumeDecided, BeginDriver
<1>20. ASSUME NEW t \in Turns, StartTurn(t)
      PROVE  CalmEnd'
  BY <1>20, <1>given, <1>fresh, <1>types DEF StartTurn
<1>21. ASSUME NEW t \in Turns, QueueAdvance(t)
      PROVE  CalmEnd'
  BY <1>21, <1>given, <1>fresh, <1>types DEF QueueAdvance
<1>22. ASSUME NEW t \in Turns, ReloadAgent(t)
      PROVE  CalmEnd'
  BY <1>22, <1>given, <1>fresh, <1>types, ResumeReads DEF ReloadAgent, ResumeDecided, BeginDriver
<1>23. CASE StopSession
  BY <1>23, <1>given, <1>fresh, <1>types DEF StopSession, SessionActive, LiveTools
<1>24. CASE Crash
  BY <1>24, <1>given, <1>fresh, <1>types DEF Crash
<1>25. CASE \/ (\E c \in Calls : ToolSubmit(c))
           \/ (\E c \in Calls : ToolBind(c))
           \/ (\E c \in Calls : ToolRequest(c))
           \/ (\E c \in Calls : ToolPause(c))
           \/ (\E c \in Calls : ToolResume(c))
           \/ (\E c \in Calls : ToolClaim(c))
           \/ (\E c \in Calls : ToolRefused(c))
           \/ (\E c \in Calls : OpResumeQueue(c))
           \/ (\E c \in Calls : OpCheckActive(c))
           \/ (\E c \in Calls : OpReadGroup(c))
           \/ StopQueue
           \/ StopAbort
           \/ (\E c \in Calls : StopReject(c))
           \/ StopDone
           \/ RecoverRuns
           \/ RecoverMessages
           \/ RecoverCalls
           \/ (\E S \in SUBSET Calls : ModelCalls(S))
           \/ (\E c \in Calls, d \in Decided : Decide(c, d))
  <2>1. UNCHANGED <<stops, faults, pc, outcome, saved, turn>>
    BY <1>25
      DEF ToolSubmit, MoveTool, Execute, EndCall, ToolBind, ToolRequest, ToolPause, ToolResume,
          ToolClaim, ClaimedStatus, Claimable, ToolRefused, OpResumeQueue, Settle, Remaining,
          OpCheckActive, OpReadGroup, DecidedGroup, StopQueue, StopAbort, Abortable, StopReject,
          Decidable, StopDone, RecoverRuns, RecoverMessages, RecoverCalls, ModelCalls, Decide
  <2> QED
    BY <2>1, <1>given
<1>26. CASE UNCHANGED vars
  BY <1>26, <1>given DEF vars
<1> QED
  BY <1>1, <1>2, <1>3, <1>4, <1>5, <1>6, <1>7, <1>8, <1>9, <1>10, <1>11, <1>12, <1>13, <1>14,
       <1>15, <1>16, <1>17, <1>18, <1>19, <1>20, <1>21, <1>22, <1>23, <1>24, <1>25, <1>26
  DEF Next, DriverStep, ToolStep, OpStep, StopStep, RecoveryStep

---------------------------------------------------------------------------
(* The invariants hold *)

\* The initial states have the invariant.
LEMMA StartsInGroups == Init => TurnInv
<1> SUFFICES ASSUME Init PROVE TurnInv
  OBVIOUS
<1> USE DEF Init
<1>1. IInv
  <2>1. TypeOK
    BY DEF TypeOK, StoreTypes, ProcessTypes, FlagTypes, RunStatus, ApprovalStatus, CallStatus,
          MessageStatus,
           ServerStep, DriverPlace, ToolPlace, Outcome, HandlerPlace
  <2>2. Story
    BY DEF Story, CallStory, ExecutedOnce, FreshIsUntouched, ToolKnowsRun, SavedByTurn,
          DriverHasTurn
  <2> QED
    BY <2>1, <2>2 DEF IInv
<1>2. /\ QueueStory /\ OutcomeStory /\ MessageStory /\ PauseStory /\ ModelStory /\ DriverRead /\ HandlerRead
      /\ BoundStory /\ ResumableStory
  BY DEF QueueStory, OutcomeStory, MessageStory, PauseStory, ModelStory, DriverRead, HandlerRead,
        BoundStory,
         ResumableStory, Handling, Ending
<1>3. StartStory /\ GroupExposedTogether /\ ResumedWhenDecided
  BY DEF StartStory, GroupExposedTogether, ResumedWhenDecided
<1>4. \A c \in Calls : RestStory(c) /\ ToolStory(c) /\ ApprovalStory(c) /\ SavedStory(c)
  BY DEF RestStory, ToolStory, ApprovalStory, SavedStory
<1>5. \A t \in Turns : UnmadeStory(t) /\ GroupStory(t) /\ UndecidedStory(t)
  BY NoTurnAssumption DEF UnmadeStory, GroupStory, UndecidedStory, AllDecided, Bound
<1>6. StopStory /\ CalmFlags /\ CalmAsking /\ CalmPause /\ CalmEnd
  BY DEF StopStory, CalmFlags, CalmAsking, CalmPause, CalmEnd, Ending
<1>7. \A c \in Calls : Uncut(c) /\ BusyStory(c)
  BY DEF Uncut, BusyStory
<1>8. \A t \in Turns : CalmAway(t)
  BY DEF CalmAway
<1> QED
  BY <1>1, <1>2, <1>3, <1>4, <1>5, <1>6, <1>7, <1>8 DEF TurnInv, GroupsInv, GroupsStory, TurnStory

\* Every step keeps it.
LEMMA GroupsStep == TurnInv /\ [Next]_vars => TurnInv'
<1> SUFFICES ASSUME TurnInv, [Next]_vars PROVE TurnInv'
  OBVIOUS
<1>1. GroupsInv /\ IInv /\ TypeOK
  BY DEF TurnInv, GroupsInv, IInv
<1>2. IInv'
  BY <1>1, TypeStep, StoryStep DEF IInv
<1>3. /\ QueueStory' /\ OutcomeStory' /\ MessageStory' /\ PauseStory' /\ ModelStory' /\ DriverRead' /\ HandlerRead'
      /\ BoundStory' /\ ResumableStory' /\ StartStory' /\ GroupExposedTogether' /\ ResumedWhenDecided'
  BY <1>1, QueueStep, OutcomeStep, MessageStep, PauseStep, ModelStep, DriverReadStep,
       HandlerReadStep, BoundStep,
     ResumableStep, StartStep, ExposedStep, ResumedStep
<1>4. (\A c \in Calls : RestStory(c) /\ ToolStory(c) /\ ApprovalStory(c) /\ SavedStory(c))'
  <2>1. \A c \in Calls : RestStory(c)' /\ ToolStory(c)' /\ ApprovalStory(c)' /\ SavedStory(c)'
    BY <1>1, RestStep, ToolStoryStep, ApprovalStep, SavedStep
  <2> QED
    BY <2>1
<1>5. (\A t \in Turns : UnmadeStory(t) /\ GroupStory(t) /\ UndecidedStory(t))'
  <2>1. \A t \in Turns : UnmadeStory(t)' /\ GroupStory(t)' /\ UndecidedStory(t)'
    BY <1>1, UnmadeStep, GroupStep, UndecidedStep
  <2> QED
    BY <2>1
<1>6. StopStory' /\ CalmFlags' /\ CalmAsking' /\ CalmPause' /\ CalmEnd'
  BY StopIdleStep, CalmFlagsStep, CalmAskingStep, CalmPauseStep, CalmEndStep
<1>7. (\A c \in Calls : Uncut(c) /\ BusyStory(c))'
  <2>1. \A c \in Calls : Uncut(c)' /\ BusyStory(c)'
    BY UncutStep, BusyStep
  <2> QED
    BY <2>1
<1>8. (\A t \in Turns : CalmAway(t))'
  <2>1. \A t \in Turns : CalmAway(t)'
    BY CalmAwayStep
  <2> QED
    BY <2>1
<1> QED
  BY <1>2, <1>3, <1>4, <1>5, <1>6, <1>7, <1>8 DEF TurnInv, GroupsInv, GroupsStory, TurnStory

\* The invariant that the theorems below follow from.
THEOREM GroupsInvariant == Spec => []TurnInv
<1>1. Init => TurnInv
  BY StartsInGroups
<1>2. TurnInv /\ [Next]_vars => TurnInv'
  BY GroupsStep
<1> QED
  BY <1>1, <1>2, PTL DEF Spec

\* An operation that can be decided has no sibling that is still being prepared, and a tool
\* resumes only when every operation of its group is decided.
THEOREM GroupsActTogether == Spec => []GroupActsTogether
<1>1. TurnInv => GroupActsTogether
  BY DEF TurnInv, GroupsInv, GroupsStory, GroupActsTogether
<1> QED
  BY <1>1, GroupsInvariant, PTL

\* What is shown for a decision can be carried out.
THEOREM PendingCanResume == Spec => []PendingIsResumable
<1>1. TurnInv => PendingIsResumable
  BY DEF TurnInv, TurnStory, Uncut, Stopping, PendingIsResumable
<1> QED
  BY <1>1, GroupsInvariant, PTL

\* The driver that waits for a decided group was woken, or is about to be.
THEOREM WaiterWakes == Spec => []WaiterIsWoken
<1>1. TurnInv => WaiterIsWoken
  <2> SUFFICES ASSUME TurnInv, stops = 0, faults = 0, pc = "waiting", AllDecided(group)
               PROVE  woken \/ cancelled \/ \E c \in group : op[c] = "decided"
    BY DEF WaiterIsWoken
  <2>1. /\ paused \subseteq group
        /\ paused = {} => woken
        /\ \A c \in group : c \in paused => (approval[c] \in Decided => op[c] = "decided")
    BY DEF TurnInv, TurnStory, CalmPause, Calm
  <2> QED
    BY <2>1 DEF AllDecided
<1> QED
  BY <1>1, GroupsInvariant, PTL

\* A conversation at rest is busy only with an operation that awaits its decision.
THEOREM BusyAwaits == Spec => []BusyIsAwaiting
<1>1. TurnInv => BusyIsAwaiting
  <2> SUFFICES ASSUME TurnInv, Quiet, NEW c \in Calls, call[c] \in {"running", "approval_required"}
               PROVE  run[c] = "approval_required"
    BY DEF BusyIsAwaiting, SessionBusy
  <2>1. tool[c] \in {"idle", "paused", "done"} /\ op[c] = "idle" /\ server = "up"
    BY DEF Quiet, LiveTools, Live
  <2> QED
    BY <2>1 DEF TurnInv, TurnStory, BusyStory
<1> QED
  BY <1>1, GroupsInvariant, PTL

---------------------------------------------------------------------------
(* The explanations beside the approvals *)

First(a) == Of(a, "first")
Again(a) == Of(a, "again")

\* The registry names who is at work and not cancelled.
RegistryOf(a) ==
  /\ \A kind \in Kinds :
       Of(a, kind) \in {"check", "erase", "queued", "reviewing", "writing"} /\ <<a, kind>> \notin called =>
         registered[a] = kind
  /\ registered[a] = "first" \/ <<a, "first">> \in called => First(a) \in {"queued", "reviewing", "writing", "leaving"}
  /\ asked[a] = "none" => First(a) = "idle" /\ Again(a) = "idle"
  /\ Again(a) \notin {"asked", "skipped"}
RegistryStory == \A a \in Asked : RegistryOf(a)

\* Who will end "working": the decision that is to take it back, the first explanation unless it
\* is cancelled before it writes, or the request to explain again that cancelled it.
AnswerOf(a) ==
  /\ review[a] = "pending" /\ a \notin unanswered =>
       \/ decider[a] \in {"cancel", "erase"}
       \/ asked[a] = "pending" /\ \/ First(a) \in {"asked", "skipped", "writing"}
                                  \/ First(a) \in {"queued", "reviewing"} /\ <<a, "first">> \notin called
                                  \/ Again(a) \in {"check", "erase"}
  /\ Again(a) \in {"queued", "reviewing", "writing"} => review[a] # "pending"
AnswerStory == \A a \in Asked : AnswerOf(a)

ReviewerStory == IsFiniteSet(Reviewing) /\ Cardinality(Reviewing) <= MaxReviews

ExplanationInv == ExplanationTypes /\ RegistryStory /\ AnswerStory /\ ReviewerStory

---------------------------------------------------------------------------
\* A worker is an approval with one of the two kinds of review.
LEMMA WorkersOf == /\ \A t \in Workers : t[1] \in Asked /\ t[2] \in Kinds /\ t = <<t[1], t[2]>>
                   /\ \A a \in Asked : \A kind \in Kinds : <<a, kind>> \in Workers
                   /\ "first" \in Kinds /\ "again" \in Kinds
BY DEF Workers, Kinds

Places == {"idle", "asked", "skipped", "read", "check", "erase", "queued", "reviewing", "writing", "leaving"}

\* One worker moves.
LEMMA Moved ==
  ASSUME ExplanationTypes, NEW t \in Workers, NEW place \in Places, explainer' = [explainer EXCEPT ![t] = place]
  PROVE  /\ explainer' \in [Workers -> Places]
         /\ \A x \in Asked, kind \in Kinds :
              explainer'[<<x, kind>>] = IF t[1] = x /\ t[2] = kind THEN place ELSE explainer[<<x, kind>>]
<1>1. explainer \in [Workers -> Places] /\ explainer' = [explainer EXCEPT ![t] = place]
  BY DEF ExplanationTypes, Places
<1>2. explainer' \in [Workers -> Places] /\ \A u \in Workers : explainer'[u] = IF u = t THEN place ELSE explainer[u]
  BY <1>1
<1>3. \A x \in Asked, kind \in Kinds : <<x, kind>> \in Workers /\ (<<x, kind>> = t <=> t[1] = x /\ t[2] = kind)
  BY WorkersOf
<1> QED
  BY <1>2, <1>3

\* A registration cancels whoever was registered, and nobody else.
LEMMA Registers ==
  ASSUME ExplanationTypes, NEW t \in Workers, registerApprovalExplanation(t)
  PROVE  /\ registered' \in [Asked -> Kinds \cup {"none"}] /\ called' \subseteq Workers /\ called \subseteq called'
         /\ \A x \in Asked : registered'[x] = IF x = t[1] THEN t[2] ELSE registered[x]
         /\ \A x \in Asked, kind \in Kinds :
              <<x, kind>> \in called' <=> <<x, kind>> \in called \/ (x = t[1] /\ registered[x] = kind)
<1>1. /\ registered \in [Asked -> Kinds \cup {"none"}] /\ called \subseteq Workers /\ t[1] \in Asked /\ t[2] \in Kinds
      /\ registered' = [registered EXCEPT ![t[1]] = t[2]]
      /\ called' = IF registered[t[1]] = "none" THEN called ELSE called \cup {<<t[1], registered[t[1]]>>}
  BY WorkersOf DEF ExplanationTypes, registerApprovalExplanation
<1>2. registered' \in [Asked -> Kinds \cup {"none"}] /\ \A x \in Asked : registered'[x] = IF x = t[1] THEN t[2] ELSE registered[x]
  BY <1>1
<1>3. CASE registered[t[1]] = "none"
  BY <1>1, <1>2, <1>3 DEF Kinds
<1>4. CASE registered[t[1]] # "none"
  <2>1. <<t[1], registered[t[1]]>> \in Workers /\ called' = called \cup {<<t[1], registered[t[1]]>>}
    BY <1>1, <1>4, WorkersOf
  <2>2. called' \subseteq Workers /\ called \subseteq called'
    <3> DEFINE w == <<t[1], registered[t[1]]>>
    <3>1. w \in Workers /\ called' = called \cup {w} /\ called \subseteq Workers
      BY <1>1, <2>1
    <3> HIDE DEF w
    <3> QED
      BY <3>1
  <2>3. ASSUME NEW x \in Asked, NEW kind \in Kinds
        PROVE  <<x, kind>> \in called' <=> <<x, kind>> \in called \/ (x = t[1] /\ registered[x] = kind)
    BY <2>1
  <2> QED
    BY <1>2, <2>2, <2>3
<1> QED
  BY <1>3, <1>4

\* A worker that leaves takes its own registration with it, never that of another.
LEMMA Clears ==
  ASSUME ExplanationTypes, NEW t \in Workers,
         registered' = IF registered[t[1]] = t[2] THEN [registered EXCEPT ![t[1]] = "none"] ELSE registered
  PROVE  /\ registered' \in [Asked -> Kinds \cup {"none"}]
         /\ \A x \in Asked : registered'[x] = IF x = t[1] /\ registered[x] = t[2] THEN "none" ELSE registered[x]
<1>1. registered \in [Asked -> Kinds \cup {"none"}] /\ t[1] \in Asked
  BY WorkersOf DEF ExplanationTypes
<1> QED
  BY <1>1

\* What a worker writes takes the place of "working" only while the approval is pending.
LEMMA Tells ==
  ASSUME ExplanationTypes, NEW a \in Asked,
         review' = IF asked[a] = "pending" THEN [review EXCEPT ![a] = "told"] ELSE review
  PROVE  /\ review' \in [Asked -> {"", "pending", "told"}]
         /\ \A x \in Asked : review'[x] = IF x = a /\ asked[a] = "pending" THEN "told" ELSE review[x]
BY DEF ExplanationTypes


\* Every step keeps the registry to those who are at work.
LEMMA RegistryStep == ExplanationInv /\ [ExplanationNext]_explanationVars => \A x \in Asked : RegistryOf(x)'
<1> SUFFICES ASSUME ExplanationInv, [ExplanationNext]_explanationVars, NEW x \in Asked PROVE RegistryOf(x)'
  OBVIOUS
<1> USE WorkersOf DEF Of, First, Again, Kinds
<1>given. ExplanationTypes /\ /\ asked \in [Asked -> {"none", "pending", "decided"}] /\ review \in [Asked -> {"", "pending", "told"}]
           /\ explainer \in [Workers -> {"idle", "asked", "skipped", "read", "check", "erase", "queued", "reviewing", "writing", "leaving"}]
           /\ registered \in [Asked -> Kinds \cup {"none"}] /\ called \subseteq Workers
           /\ decider \in [Asked -> {"none", "cancel", "erase", "done"}] /\ unanswered \subseteq Asked /\ RegistryOf(x)
  BY DEF ExplanationInv, RegistryStory, AnswerStory, ExplanationTypes
<1>1. ASSUME NEW a \in Asked, Submit(a) PROVE RegistryOf(x)'
  BY <1>1, <1>given DEF Submit, At, RegistryOf
<1>2. ASSUME NEW a \in Asked, DecideAsked(a) PROVE RegistryOf(x)'
  BY <1>2, <1>given DEF DecideAsked, RegistryOf
<1>3. ASSUME NEW a \in Asked, cancelApprovalExplanation(a) PROVE RegistryOf(x)'
  <2>1. UNCHANGED <<asked, explainer>> /\ (registered'[x] = registered[x] \/ (a = x /\ registered'[x] = "none"))
    BY <1>3, <1>given, ZenonT(60) DEF cancelApprovalExplanation
  <2>2. \A kind \in Kinds : <<x, kind>> \in called' <=> <<x, kind>> \in called \/ (a = x /\ registered[x] = kind)
    <3>1. CASE registered[a] = "none"
      BY <1>3, <3>1 DEF cancelApprovalExplanation
    <3>2. CASE registered[a] # "none"
      BY <1>3, <3>2 DEF cancelApprovalExplanation
    <3> QED
      BY <3>1, <3>2
  <2>3. a = x => registered'[x] = "none"
    BY <1>3, <1>given DEF cancelApprovalExplanation
  <2> QED
    BY <2>1, <2>2, <2>3, <1>given DEF RegistryOf
<1>4. ASSUME NEW a \in Asked, UpdateRunAIReview(a) PROVE RegistryOf(x)'
  BY <1>4, <1>given DEF UpdateRunAIReview, RegistryOf
<1>5. ASSUME NEW a \in Asked, EraseFails(a) PROVE RegistryOf(x)'
  BY <1>5, <1>given DEF EraseFails, Trouble, RegistryOf
<1>6. ASSUME NEW a \in Asked, AskAgain(a) PROVE RegistryOf(x)'
  BY <1>6, <1>given DEF AskAgain, At, RegistryOf
<1>7. ASSUME NEW a \in Asked, RetryApprovalExplanation(a) PROVE RegistryOf(x)'
  BY <1>7, <1>given DEF RetryApprovalExplanation, At, registerApprovalExplanation, RegistryOf
<1>8. ASSUME NEW a \in Asked, CheckAgain(a) PROVE RegistryOf(x)'
  BY <1>8, <1>given DEF CheckAgain, At, RegistryOf
<1>9. ASSUME NEW a \in Asked, EraseReview(a) PROVE RegistryOf(x)'
  <2>1. CASE <<a, "again">> \in called
    BY <1>9, <2>1, <1>given, ZenonT(60) DEF EraseReview, At, RegistryOf
  <2>2. CASE <<a, "again">> \notin called
    <3>1. explainer' = [explainer EXCEPT ![<<a, "again">>] = "queued"] /\ review' = [review EXCEPT ![a] = ""] /\ explainer[<<a, "again">>] = "erase"
          /\ UNCHANGED <<asked, registered, called, decider, unanswered>>
      BY <1>9, <2>2 DEF EraseReview, At
    <3>2. \A kind \in Kinds : explainer'[<<x, kind>>] = IF a = x /\ "again" = kind THEN "queued" ELSE explainer[<<x, kind>>]
      BY <3>1, <1>given, Moved DEF Places
    <3>3. review'[x] = IF x = a THEN "" ELSE review[x]
      BY <3>1, <1>given
    <3> QED
      BY <3>1, <3>2, <3>3, <2>2, <1>given DEF RegistryOf
  <2> QED
    BY <2>1, <2>2
<1>10. ASSUME NEW a \in Asked, ClientLeaves(a) PROVE RegistryOf(x)'
  BY <1>10, <1>given DEF ClientLeaves, RegistryOf
<1>11. ASSUME NEW t \in Workers, startPendingApprovalExplanation(t) PROVE RegistryOf(x)'
  <2>1. CASE Cardinality(Placed) < MaxWaiting
    <3>1. explainer' = [explainer EXCEPT ![t] = "queued"] /\ registerApprovalExplanation(t) /\ explainer[<<t[1], t[2]>>] = "asked"
          /\ UNCHANGED <<asked, review, decider, unanswered>>
      BY <1>11, <2>1 DEF startPendingApprovalExplanation, At
    <3>2. \A kind \in Kinds : explainer'[<<x, kind>>] = IF t[1] = x /\ t[2] = kind THEN "queued" ELSE explainer[<<x, kind>>]
      BY <3>1, <1>given, Moved, ZenonT(60) DEF Places
    <3>3. /\ registered'[x] = IF x = t[1] THEN t[2] ELSE registered[x]
          /\ \A kind \in Kinds : <<x, kind>> \in called' <=> <<x, kind>> \in called \/ (x = t[1] /\ registered[x] = kind)
      BY <3>1, <1>given, Registers
    <3> QED
      BY <3>1, <3>2, <3>3, <1>given DEF RegistryOf
  <2>2. CASE ~(Cardinality(Placed) < MaxWaiting)
    <3>1. explainer' = [explainer EXCEPT ![t] = "skipped"] /\ explainer[<<t[1], t[2]>>] = "asked" /\ UNCHANGED <<asked, review, registered, called, decider, unanswered>>
      BY <1>11, <2>2 DEF startPendingApprovalExplanation, At
    <3>2. \A kind \in Kinds : explainer'[<<x, kind>>] = IF t[1] = x /\ t[2] = kind THEN "skipped" ELSE explainer[<<x, kind>>]
      BY <3>1, <1>given, Moved, ZenonT(60) DEF Places
    <3> QED
      BY <3>1, <3>2, <1>given DEF RegistryOf
  <2> QED
    BY <2>1, <2>2
<1>12. ASSUME NEW t \in Workers, SkipExplanation(t) PROVE RegistryOf(x)'
  BY <1>12, <1>given DEF SkipExplanation, At, UpdatePendingApprovalExplanation, RegistryOf
<1>13. ASSUME NEW t \in Workers, TakeReviewer(t) PROVE RegistryOf(x)'
  BY <1>13, <1>given DEF TakeReviewer, At, RegistryOf
<1>14. ASSUME NEW t \in Workers, GiveUpQueue(t) PROVE RegistryOf(x)'
  BY <1>14, <1>given DEF GiveUpQueue, At, RegistryOf
<1>15. ASSUME NEW t \in Workers, Review(t) PROVE RegistryOf(x)'
  BY <1>15, <1>given DEF Review, At, RegistryOf
<1>16. ASSUME NEW t \in Workers, PersistReview(t) PROVE RegistryOf(x)'
  BY <1>16, <1>given DEF PersistReview, At, UpdatePendingApprovalExplanation, RegistryOf
<1>17. ASSUME NEW t \in Workers, PersistFails(t) PROVE RegistryOf(x)'
  BY <1>17, <1>given DEF PersistFails, At, Trouble, RegistryOf
<1>18. ASSUME NEW t \in Workers, Leave(t) PROVE RegistryOf(x)'
  <2>1. explainer' = [explainer EXCEPT ![t] = "idle"] /\ registered' = (IF registered[t[1]] = t[2] THEN [registered EXCEPT ![t[1]] = "none"] ELSE registered)
        /\ called' = called \ {t} /\ explainer[<<t[1], t[2]>>] = "leaving"
        /\ UNCHANGED <<asked, review, decider, unanswered>>
    BY <1>18 DEF Leave, At, clearApprovalExplanation
  <2>2. \A kind \in Kinds : explainer'[<<x, kind>>] = IF t[1] = x /\ t[2] = kind THEN "idle" ELSE explainer[<<x, kind>>]
    BY <2>1, <1>given, Moved DEF Places
  <2>3. registered'[x] = IF x = t[1] /\ registered[x] = t[2] THEN "none" ELSE registered[x]
    BY <2>1, <1>given, Clears
  <2>4. \A kind \in Kinds : <<x, kind>> \in called' <=> <<x, kind>> \in called /\ ~(t[1] = x /\ t[2] = kind)
    BY <2>1
  <2> QED
    BY <2>1, <2>2, <2>3, <2>4, <1>given, ZenonT(60) DEF RegistryOf
<1>19. CASE RestartExplanations
  BY <1>19, <1>given DEF RestartExplanations, Trouble, RegistryOf
<1>20. CASE UNCHANGED explanationVars
  BY <1>20, <1>given DEF explanationVars, RegistryOf
<1> QED
  BY <1>1, <1>2, <1>3, <1>4, <1>5, <1>6, <1>7, <1>8, <1>9, <1>10, <1>11, <1>12, <1>13, <1>14, <1>15, <1>16, <1>17, <1>18, <1>19, <1>20 DEF ExplanationNext


\* Every step keeps the answers to what was asked.
LEMMA AnswerStep == ExplanationInv /\ [ExplanationNext]_explanationVars => \A x \in Asked : AnswerOf(x)'
<1> SUFFICES ASSUME ExplanationInv, [ExplanationNext]_explanationVars, NEW x \in Asked PROVE AnswerOf(x)'
  OBVIOUS
<1> USE WorkersOf DEF Of, First, Again, Kinds
<1>given. ExplanationTypes /\ /\ asked \in [Asked -> {"none", "pending", "decided"}] /\ review \in [Asked -> {"", "pending", "told"}]
           /\ explainer \in [Workers -> {"idle", "asked", "skipped", "read", "check", "erase", "queued", "reviewing", "writing", "leaving"}]
           /\ registered \in [Asked -> Kinds \cup {"none"}] /\ called \subseteq Workers
           /\ decider \in [Asked -> {"none", "cancel", "erase", "done"}] /\ unanswered \subseteq Asked /\ RegistryOf(x) /\ AnswerOf(x)
  BY DEF ExplanationInv, RegistryStory, AnswerStory, ExplanationTypes
<1>1. ASSUME NEW a \in Asked, Submit(a) PROVE AnswerOf(x)'
  BY <1>1, <1>given DEF Submit, At, AnswerOf, RegistryOf
<1>2. ASSUME NEW a \in Asked, DecideAsked(a) PROVE AnswerOf(x)'
  BY <1>2, <1>given DEF DecideAsked, AnswerOf, RegistryOf
<1>3. ASSUME NEW a \in Asked, cancelApprovalExplanation(a) PROVE AnswerOf(x)'
  BY <1>3, <1>given, ZenonT(60) DEF cancelApprovalExplanation, AnswerOf, RegistryOf
<1>4. ASSUME NEW a \in Asked, UpdateRunAIReview(a) PROVE AnswerOf(x)'
  BY <1>4, <1>given DEF UpdateRunAIReview, AnswerOf, RegistryOf
<1>5. ASSUME NEW a \in Asked, EraseFails(a) PROVE AnswerOf(x)'
  BY <1>5, <1>given DEF EraseFails, Trouble, AnswerOf, RegistryOf
<1>6. ASSUME NEW a \in Asked, AskAgain(a) PROVE AnswerOf(x)'
  BY <1>6, <1>given DEF AskAgain, At, AnswerOf, RegistryOf
<1>7. ASSUME NEW a \in Asked, RetryApprovalExplanation(a) PROVE AnswerOf(x)'
  BY <1>7, <1>given DEF RetryApprovalExplanation, At, registerApprovalExplanation, AnswerOf, RegistryOf
<1>8. ASSUME NEW a \in Asked, CheckAgain(a) PROVE AnswerOf(x)'
  BY <1>8, <1>given DEF CheckAgain, At, AnswerOf, RegistryOf
<1>9. ASSUME NEW a \in Asked, EraseReview(a) PROVE AnswerOf(x)'
  <2>1. CASE <<a, "again">> \in called
    BY <1>9, <2>1, <1>given, ZenonT(60) DEF EraseReview, At, AnswerOf, RegistryOf
  <2>2. CASE <<a, "again">> \notin called
    <3>1. explainer' = [explainer EXCEPT ![<<a, "again">>] = "queued"] /\ review' = [review EXCEPT ![a] = ""] /\ explainer[<<a, "again">>] = "erase"
          /\ UNCHANGED <<asked, registered, called, decider, unanswered>>
      BY <1>9, <2>2 DEF EraseReview, At
    <3>2. \A kind \in Kinds : explainer'[<<x, kind>>] = IF a = x /\ "again" = kind THEN "queued" ELSE explainer[<<x, kind>>]
      BY <3>1, <1>given, Moved DEF Places
    <3>3. review'[x] = IF x = a THEN "" ELSE review[x]
      BY <3>1, <1>given
    <3> QED
      BY <3>1, <3>2, <3>3, <2>2, <1>given DEF AnswerOf, RegistryOf
  <2> QED
    BY <2>1, <2>2
<1>10. ASSUME NEW a \in Asked, ClientLeaves(a) PROVE AnswerOf(x)'
  BY <1>10, <1>given DEF ClientLeaves, AnswerOf, RegistryOf
<1>11. ASSUME NEW t \in Workers, startPendingApprovalExplanation(t) PROVE AnswerOf(x)'
  <2>1. CASE Cardinality(Placed) < MaxWaiting
    <3>1. explainer' = [explainer EXCEPT ![t] = "queued"] /\ registerApprovalExplanation(t) /\ explainer[<<t[1], t[2]>>] = "asked"
          /\ UNCHANGED <<asked, review, decider, unanswered>>
      BY <1>11, <2>1 DEF startPendingApprovalExplanation, At
    <3>2. \A kind \in Kinds : explainer'[<<x, kind>>] = IF t[1] = x /\ t[2] = kind THEN "queued" ELSE explainer[<<x, kind>>]
      BY <3>1, <1>given, Moved, ZenonT(60) DEF Places
    <3>3. /\ registered'[x] = IF x = t[1] THEN t[2] ELSE registered[x]
          /\ \A kind \in Kinds : <<x, kind>> \in called' <=> <<x, kind>> \in called \/ (x = t[1] /\ registered[x] = kind)
      BY <3>1, <1>given, Registers
    <3> QED
      BY <3>1, <3>2, <3>3, <1>given DEF AnswerOf, RegistryOf
  <2>2. CASE ~(Cardinality(Placed) < MaxWaiting)
    <3>1. explainer' = [explainer EXCEPT ![t] = "skipped"] /\ explainer[<<t[1], t[2]>>] = "asked" /\ UNCHANGED <<asked, review, registered, called, decider, unanswered>>
      BY <1>11, <2>2 DEF startPendingApprovalExplanation, At
    <3>2. \A kind \in Kinds : explainer'[<<x, kind>>] = IF t[1] = x /\ t[2] = kind THEN "skipped" ELSE explainer[<<x, kind>>]
      BY <3>1, <1>given, Moved, ZenonT(60) DEF Places
    <3> QED
      BY <3>1, <3>2, <1>given DEF AnswerOf, RegistryOf
  <2> QED
    BY <2>1, <2>2
<1>12. ASSUME NEW t \in Workers, SkipExplanation(t) PROVE AnswerOf(x)'
  <2>1. explainer' = [explainer EXCEPT ![t] = "idle"] /\ UNCHANGED <<asked, registered, called, decider, unanswered>>
        /\ explainer[<<t[1], t[2]>>] = "skipped"
    BY <1>12 DEF SkipExplanation, At
  <2>2. \A kind \in Kinds : explainer'[<<x, kind>>] = IF t[1] = x /\ t[2] = kind THEN "idle" ELSE explainer[<<x, kind>>]
    BY <2>1, <1>given, Moved, ZenonT(60) DEF Places
  <2>3. \/ review'[x] = IF x = t[1] /\ asked[x] = "pending" THEN "told" ELSE review[x]
        \/ t[2] = "again" /\ review'[x] = review[x]
    <3>1. t[1] \in Asked
      OBVIOUS
    <3>2. review' = (IF asked[t[1]] = "pending" THEN [review EXCEPT ![t[1]] = "told"] ELSE review) \/ (t[2] = "again" /\ UNCHANGED review)
      BY <1>12 DEF SkipExplanation, UpdatePendingApprovalExplanation
    <3> QED
      BY <3>1, <3>2, <1>given, Tells
  <2> QED
    BY <2>1, <2>2, <2>3, <1>given DEF AnswerOf, RegistryOf
<1>13. ASSUME NEW t \in Workers, TakeReviewer(t) PROVE AnswerOf(x)'
  BY <1>13, <1>given DEF TakeReviewer, At, AnswerOf, RegistryOf
<1>14. ASSUME NEW t \in Workers, GiveUpQueue(t) PROVE AnswerOf(x)'
  BY <1>14, <1>given DEF GiveUpQueue, At, AnswerOf, RegistryOf
<1>15. ASSUME NEW t \in Workers, Review(t) PROVE AnswerOf(x)'
  BY <1>15, <1>given DEF Review, At, AnswerOf, RegistryOf
<1>16. ASSUME NEW t \in Workers, PersistReview(t) PROVE AnswerOf(x)'
  <2>1. explainer' = [explainer EXCEPT ![t] = "leaving"] /\ UNCHANGED <<asked, registered, called, decider, unanswered>>
        /\ explainer[<<t[1], t[2]>>] = "writing"
    BY <1>16 DEF PersistReview, At
  <2>2. \A kind \in Kinds : explainer'[<<x, kind>>] = IF t[1] = x /\ t[2] = kind THEN "leaving" ELSE explainer[<<x, kind>>]
    BY <2>1, <1>given, Moved DEF Places
  <2>3. \/ review'[x] = IF x = t[1] /\ asked[x] = "pending" THEN "told" ELSE review[x]
        \/ t[2] = "again" /\ review'[x] = review[x]
    <3>1. t[1] \in Asked
      OBVIOUS
    <3>2. review' = (IF asked[t[1]] = "pending" THEN [review EXCEPT ![t[1]] = "told"] ELSE review) \/ (t[2] = "again" /\ UNCHANGED review)
      BY <1>16 DEF PersistReview, UpdatePendingApprovalExplanation
    <3> QED
      BY <3>1, <3>2, <1>given, Tells
  <2> QED
    BY <2>1, <2>2, <2>3, <1>given DEF AnswerOf, RegistryOf
<1>17. ASSUME NEW t \in Workers, PersistFails(t) PROVE AnswerOf(x)'
  <2>1. PICK place \in Places : place \in {"idle", "leaving"} /\ explainer' = [explainer EXCEPT ![t] = place]
    BY <1>17 DEF PersistFails, At, Places
  <2>2. explainer[<<t[1], t[2]>>] \in {"writing", "skipped"} /\ unanswered' = unanswered \cup {t[1]}
        /\ UNCHANGED <<asked, review, registered, called, decider>>
    BY <1>17 DEF PersistFails, At
  <2>3. \A kind \in Kinds : explainer'[<<x, kind>>] = IF t[1] = x /\ t[2] = kind THEN place ELSE explainer[<<x, kind>>]
    <3>1. explainer' = [explainer EXCEPT ![t] = place]
      BY <2>1
    <3> QED
      BY <3>1, <1>given, Moved, ZenonT(60)
  <2> QED
    BY <2>1, <2>2, <2>3, <1>given DEF AnswerOf, RegistryOf
<1>18. ASSUME NEW t \in Workers, Leave(t) PROVE AnswerOf(x)'
  BY <1>18, <1>given DEF Leave, At, clearApprovalExplanation, AnswerOf, RegistryOf
<1>19. CASE RestartExplanations
  BY <1>19, <1>given DEF RestartExplanations, Trouble, AnswerOf, RegistryOf
<1>20. CASE UNCHANGED explanationVars
  BY <1>20, <1>given DEF explanationVars, AnswerOf
<1> QED
  BY <1>1, <1>2, <1>3, <1>4, <1>5, <1>6, <1>7, <1>8, <1>9, <1>10, <1>11, <1>12, <1>13, <1>14, <1>15, <1>16, <1>17, <1>18, <1>19, <1>20 DEF ExplanationNext


\* Every step keeps the types.
LEMMA TypesStep == ExplanationInv /\ [ExplanationNext]_explanationVars => ExplanationTypes'
<1> SUFFICES ASSUME ExplanationInv, [ExplanationNext]_explanationVars PROVE ExplanationTypes'
  OBVIOUS
<1> USE WorkersOf DEF Of, First, Again, Kinds
<1>given. ExplanationTypes /\ /\ asked \in [Asked -> {"none", "pending", "decided"}] /\ review \in [Asked -> {"", "pending", "told"}]
           /\ explainer \in [Workers -> {"idle", "asked", "skipped", "read", "check", "erase", "queued", "reviewing", "writing", "leaving"}]
           /\ registered \in [Asked -> Kinds \cup {"none"}] /\ called \subseteq Workers
           /\ decider \in [Asked -> {"none", "cancel", "erase", "done"}] /\ unanswered \subseteq Asked
  BY DEF ExplanationInv, RegistryStory, AnswerStory, ExplanationTypes
<1>1. ASSUME NEW a \in Asked, Submit(a) PROVE ExplanationTypes'
  BY <1>1, <1>given DEF Submit, At, ExplanationTypes
<1>2. ASSUME NEW a \in Asked, DecideAsked(a) PROVE ExplanationTypes'
  BY <1>2, <1>given DEF DecideAsked, ExplanationTypes
<1>3. ASSUME NEW a \in Asked, cancelApprovalExplanation(a) PROVE ExplanationTypes'
  <2>1. UNCHANGED <<asked, review, explainer>> /\ unanswered' \subseteq Asked /\ decider' \in [Asked -> {"none", "cancel", "erase", "done"}]
        /\ registered' \in [Asked -> Kinds \cup {"none"}]
    BY <1>3, <1>given, ZenonT(60) DEF cancelApprovalExplanation
  <2>2. called' \subseteq Workers
    <3>1. CASE registered[a] = "none"
      BY <1>3, <3>1, <1>given DEF cancelApprovalExplanation
    <3>2. CASE registered[a] # "none"
      <4> DEFINE w == <<a, registered[a]>>
      <4>1. w \in Workers /\ called' = called \cup {w} /\ called \subseteq Workers
        BY <1>3, <3>2, <1>given DEF cancelApprovalExplanation
      <4> HIDE DEF w
      <4> QED
        BY <4>1
    <3> QED
      BY <3>1, <3>2
  <2> QED
    BY <2>1, <2>2, <1>given DEF ExplanationTypes
<1>4. ASSUME NEW a \in Asked, UpdateRunAIReview(a) PROVE ExplanationTypes'
  BY <1>4, <1>given DEF UpdateRunAIReview, ExplanationTypes
<1>5. ASSUME NEW a \in Asked, EraseFails(a) PROVE ExplanationTypes'
  BY <1>5, <1>given DEF EraseFails, Trouble, ExplanationTypes
<1>6. ASSUME NEW a \in Asked, AskAgain(a) PROVE ExplanationTypes'
  BY <1>6, <1>given DEF AskAgain, At, ExplanationTypes
<1>7. ASSUME NEW a \in Asked, RetryApprovalExplanation(a) PROVE ExplanationTypes'
  <2>1. explainer' = [explainer EXCEPT ![<<a, "again">>] = "check"] /\ registerApprovalExplanation(<<a, "again">>) /\ UNCHANGED <<asked, review, decider, unanswered>>
    BY <1>7 DEF RetryApprovalExplanation, At
  <2>2. <<a, "again">> \in Workers /\ "check" \in Places
    BY DEF Places
  <2>3. explainer' \in [Workers -> Places]
    BY <2>1, <2>2, <1>given, Moved
  <2>4. registered' \in [Asked -> Kinds \cup {"none"}] /\ called' \subseteq Workers
    BY <2>1, <2>2, <1>given, Registers
  <2> QED
    BY <2>1, <2>3, <2>4, <1>given DEF ExplanationTypes, Places
<1>8. ASSUME NEW a \in Asked, CheckAgain(a) PROVE ExplanationTypes'
  BY <1>8, <1>given DEF CheckAgain, At, ExplanationTypes
<1>9. ASSUME NEW a \in Asked, EraseReview(a) PROVE ExplanationTypes'
  <2>1. UNCHANGED <<asked, registered, called, decider>> /\ \E place \in Places : explainer' = [explainer EXCEPT ![<<a, "again">>] = place]
    BY <1>9 DEF EraseReview, At, Places
  <2>2. review' \in [Asked -> {"", "pending", "told"}] /\ unanswered' \subseteq Asked
    <3>1. /\ review' = review \/ review' = [review EXCEPT ![a] = ""]
          /\ unanswered' = unanswered \/ unanswered' = unanswered \cup {a}
      BY <1>9 DEF EraseReview
    <3> QED
      BY <3>1, <1>given, ZenonT(60)
  <2> QED
    <3>1. PICK place \in Places : explainer' = [explainer EXCEPT ![<<a, "again">>] = place]
      BY <2>1
    <3>2. explainer' \in [Workers -> Places]
      BY <3>1, <1>given, Moved
    <3> QED
      BY <2>1, <2>2, <3>2, <1>given DEF ExplanationTypes, Places
<1>10. ASSUME NEW a \in Asked, ClientLeaves(a) PROVE ExplanationTypes'
  BY <1>10, <1>given, ZenonT(60) DEF ClientLeaves, ExplanationTypes
<1>11. ASSUME NEW t \in Workers, startPendingApprovalExplanation(t) PROVE ExplanationTypes'
  <2>1. UNCHANGED <<asked, review, decider, unanswered>> /\ \E place \in Places : explainer' = [explainer EXCEPT ![t] = place]
    BY <1>11 DEF startPendingApprovalExplanation, At, Places
  <2>2. registerApprovalExplanation(t) \/ UNCHANGED <<registered, called>>
    BY <1>11 DEF startPendingApprovalExplanation, At
  <2>3. explainer' \in [Workers -> Places]
    <3>1. PICK place \in Places : explainer' = [explainer EXCEPT ![t] = place]
      BY <2>1
    <3> QED
      BY <3>1, <1>given, Moved
  <2>4. registered' \in [Asked -> Kinds \cup {"none"}] /\ called' \subseteq Workers
    BY <2>2, <1>given, Registers
  <2> QED
    BY <2>1, <2>3, <2>4, <1>given DEF ExplanationTypes, Places
<1>12. ASSUME NEW t \in Workers, SkipExplanation(t) PROVE ExplanationTypes'
  BY <1>12, <1>given DEF SkipExplanation, At, UpdatePendingApprovalExplanation, ExplanationTypes
<1>13. ASSUME NEW t \in Workers, TakeReviewer(t) PROVE ExplanationTypes'
  BY <1>13, <1>given DEF TakeReviewer, At, ExplanationTypes
<1>14. ASSUME NEW t \in Workers, GiveUpQueue(t) PROVE ExplanationTypes'
  BY <1>14, <1>given DEF GiveUpQueue, At, ExplanationTypes
<1>15. ASSUME NEW t \in Workers, Review(t) PROVE ExplanationTypes'
  BY <1>15, <1>given DEF Review, At, ExplanationTypes
<1>16. ASSUME NEW t \in Workers, PersistReview(t) PROVE ExplanationTypes'
  BY <1>16, <1>given DEF PersistReview, At, UpdatePendingApprovalExplanation, ExplanationTypes
<1>17. ASSUME NEW t \in Workers, PersistFails(t) PROVE ExplanationTypes'
  BY <1>17, <1>given DEF PersistFails, At, Trouble, ExplanationTypes
<1>18. ASSUME NEW t \in Workers, Leave(t) PROVE ExplanationTypes'
  BY <1>18, <1>given DEF Leave, At, clearApprovalExplanation, ExplanationTypes
<1>19. CASE RestartExplanations
  BY <1>19, <1>given DEF RestartExplanations, Trouble, ExplanationTypes
<1>20. CASE UNCHANGED explanationVars
  BY <1>20, <1>given DEF explanationVars, ExplanationTypes
<1> QED
  BY <1>1, <1>2, <1>3, <1>4, <1>5, <1>6, <1>7, <1>8, <1>9, <1>10, <1>11, <1>12, <1>13, <1>14, <1>15, <1>16, <1>17, <1>18, <1>19, <1>20 DEF ExplanationNext


\* Every step keeps the number of reviewers under the limit of the semaphore.
LEMMA ReviewersStep == ExplanationInv /\ [ExplanationNext]_explanationVars => ReviewerStory'
<1> SUFFICES ASSUME ExplanationInv, [ExplanationNext]_explanationVars PROVE ReviewerStory'
  OBVIOUS
<1> USE WorkersOf DEF Of, First, Again, Kinds
<1>given. ExplanationTypes /\ /\ asked \in [Asked -> {"none", "pending", "decided"}] /\ review \in [Asked -> {"", "pending", "told"}]
           /\ explainer \in [Workers -> {"idle", "asked", "skipped", "read", "check", "erase", "queued", "reviewing", "writing", "leaving"}]
           /\ registered \in [Asked -> Kinds \cup {"none"}] /\ called \subseteq Workers
           /\ decider \in [Asked -> {"none", "cancel", "erase", "done"}] /\ unanswered \subseteq Asked /\ ReviewerStory
  BY DEF ExplanationInv, RegistryStory, AnswerStory, ExplanationTypes
<1>fewer. (\A u \in Workers : explainer'[u] = "reviewing" => explainer[u] = "reviewing") => ReviewerStory'
  <2> SUFFICES ASSUME \A u \in Workers : explainer'[u] = "reviewing" => explainer[u] = "reviewing" PROVE ReviewerStory'
    OBVIOUS
  <2>1. Reviewing' \subseteq Reviewing
    BY DEF Reviewing
  <2>2. /\ IsFiniteSet(Reviewing') /\ Cardinality(Reviewing') <= Cardinality(Reviewing)
        /\ Cardinality(Reviewing) \in Nat /\ Cardinality(Reviewing') \in Nat
    BY <1>given, <2>1, FS_Subset, FS_CardinalityType DEF ReviewerStory
  <2>3. MaxReviews \in Nat /\ Cardinality(Reviewing) <= MaxReviews
    BY <1>given, ExplanationConstants DEF ReviewerStory
  <2>4. Cardinality(Reviewing') <= MaxReviews
    BY <2>2, <2>3
  <2> QED
    BY <2>2, <2>4 DEF ReviewerStory
<1>1. ASSUME NEW a \in Asked, Submit(a) PROVE ReviewerStory'
  <2>1. \A u \in Workers : explainer'[u] = "reviewing" => explainer[u] = "reviewing"
    BY <1>1, <1>given DEF Submit, At
  <2> QED
    BY <2>1, <1>fewer
<1>2. ASSUME NEW a \in Asked, DecideAsked(a) PROVE ReviewerStory'
  <2>1. \A u \in Workers : explainer'[u] = "reviewing" => explainer[u] = "reviewing"
    BY <1>2, <1>given DEF DecideAsked
  <2> QED
    BY <2>1, <1>fewer
<1>3. ASSUME NEW a \in Asked, cancelApprovalExplanation(a) PROVE ReviewerStory'
  <2>1. \A u \in Workers : explainer'[u] = "reviewing" => explainer[u] = "reviewing"
    BY <1>3, <1>given DEF cancelApprovalExplanation
  <2> QED
    BY <2>1, <1>fewer
<1>4. ASSUME NEW a \in Asked, UpdateRunAIReview(a) PROVE ReviewerStory'
  <2>1. \A u \in Workers : explainer'[u] = "reviewing" => explainer[u] = "reviewing"
    BY <1>4, <1>given DEF UpdateRunAIReview
  <2> QED
    BY <2>1, <1>fewer
<1>5. ASSUME NEW a \in Asked, EraseFails(a) PROVE ReviewerStory'
  <2>1. \A u \in Workers : explainer'[u] = "reviewing" => explainer[u] = "reviewing"
    BY <1>5, <1>given DEF EraseFails
  <2> QED
    BY <2>1, <1>fewer
<1>6. ASSUME NEW a \in Asked, AskAgain(a) PROVE ReviewerStory'
  <2>1. \A u \in Workers : explainer'[u] = "reviewing" => explainer[u] = "reviewing"
    BY <1>6, <1>given DEF AskAgain, At
  <2> QED
    BY <2>1, <1>fewer
<1>7. ASSUME NEW a \in Asked, RetryApprovalExplanation(a) PROVE ReviewerStory'
  <2>1. \A u \in Workers : explainer'[u] = "reviewing" => explainer[u] = "reviewing"
    BY <1>7, <1>given DEF RetryApprovalExplanation, At
  <2> QED
    BY <2>1, <1>fewer
<1>8. ASSUME NEW a \in Asked, CheckAgain(a) PROVE ReviewerStory'
  <2>1. \A u \in Workers : explainer'[u] = "reviewing" => explainer[u] = "reviewing"
    BY <1>8, <1>given DEF CheckAgain, At
  <2> QED
    BY <2>1, <1>fewer
<1>9. ASSUME NEW a \in Asked, EraseReview(a) PROVE ReviewerStory'
  <2>1. \A u \in Workers : explainer'[u] = "reviewing" => explainer[u] = "reviewing"
    BY <1>9, <1>given, ZenonT(60) DEF EraseReview, At
  <2> QED
    BY <2>1, <1>fewer
<1>10. ASSUME NEW a \in Asked, ClientLeaves(a) PROVE ReviewerStory'
  <2>1. \A u \in Workers : explainer'[u] = "reviewing" => explainer[u] = "reviewing"
    BY <1>10, <1>given DEF ClientLeaves
  <2> QED
    BY <2>1, <1>fewer
<1>11. ASSUME NEW t \in Workers, startPendingApprovalExplanation(t) PROVE ReviewerStory'
  <2>1. \A u \in Workers : explainer'[u] = "reviewing" => explainer[u] = "reviewing"
    BY <1>11, <1>given, ZenonT(60) DEF startPendingApprovalExplanation, At
  <2> QED
    BY <2>1, <1>fewer
<1>12. ASSUME NEW t \in Workers, SkipExplanation(t) PROVE ReviewerStory'
  <2>1. \A u \in Workers : explainer'[u] = "reviewing" => explainer[u] = "reviewing"
    BY <1>12, <1>given DEF SkipExplanation, At
  <2> QED
    BY <2>1, <1>fewer
<1>13. ASSUME NEW t \in Workers, TakeReviewer(t) PROVE ReviewerStory'
  <2>1. /\ Cardinality(Reviewing) < MaxReviews /\ explainer' = [explainer EXCEPT ![t] = "reviewing"] /\ explainer[t] = "queued"
    BY <1>13 DEF TakeReviewer, At
  <2>2. Reviewing' = Reviewing \cup {t} /\ t \notin Reviewing
    BY <2>1, <1>given, ZenonT(60) DEF Reviewing
  <2>3. Cardinality(Reviewing) \in Nat
    BY <1>given, FS_CardinalityType DEF ReviewerStory
  <2>4. IsFiniteSet(Reviewing') /\ Cardinality(Reviewing') = Cardinality(Reviewing) + 1
    BY <2>2, <1>given, FS_AddElement DEF ReviewerStory
  <2>5. MaxReviews \in Nat /\ Cardinality(Reviewing') <= MaxReviews
    BY <2>1, <2>3, <2>4, ExplanationConstants
  <2> QED
    BY <2>4, <2>5 DEF ReviewerStory
<1>14. ASSUME NEW t \in Workers, GiveUpQueue(t) PROVE ReviewerStory'
  <2>1. \A u \in Workers : explainer'[u] = "reviewing" => explainer[u] = "reviewing"
    BY <1>14, <1>given DEF GiveUpQueue, At
  <2> QED
    BY <2>1, <1>fewer
<1>15. ASSUME NEW t \in Workers, Review(t) PROVE ReviewerStory'
  <2>1. \A u \in Workers : explainer'[u] = "reviewing" => explainer[u] = "reviewing"
    BY <1>15, <1>given DEF Review, At
  <2> QED
    BY <2>1, <1>fewer
<1>16. ASSUME NEW t \in Workers, PersistReview(t) PROVE ReviewerStory'
  <2>1. \A u \in Workers : explainer'[u] = "reviewing" => explainer[u] = "reviewing"
    BY <1>16, <1>given DEF PersistReview, At
  <2> QED
    BY <2>1, <1>fewer
<1>17. ASSUME NEW t \in Workers, PersistFails(t) PROVE ReviewerStory'
  <2>1. \A u \in Workers : explainer'[u] = "reviewing" => explainer[u] = "reviewing"
    BY <1>17, <1>given DEF PersistFails, At
  <2> QED
    BY <2>1, <1>fewer
<1>18. ASSUME NEW t \in Workers, Leave(t) PROVE ReviewerStory'
  <2>1. \A u \in Workers : explainer'[u] = "reviewing" => explainer[u] = "reviewing"
    BY <1>18, <1>given DEF Leave, At
  <2> QED
    BY <2>1, <1>fewer
<1>19. CASE RestartExplanations
  <2>1. \A u \in Workers : explainer'[u] = "reviewing" => explainer[u] = "reviewing"
    BY <1>19, <1>given DEF RestartExplanations
  <2> QED
    BY <2>1, <1>fewer
<1>20. CASE UNCHANGED explanationVars
  BY <1>20, <1>given DEF explanationVars, ReviewerStory, Reviewing
<1> QED
  BY <1>1, <1>2, <1>3, <1>4, <1>5, <1>6, <1>7, <1>8, <1>9, <1>10, <1>11, <1>12, <1>13, <1>14, <1>15, <1>16, <1>17, <1>18, <1>19, <1>20 DEF ExplanationNext


\* Nothing is asked at the start.
LEMMA StartsUnasked == ExplanationInit => ExplanationInv
<1> SUFFICES ASSUME ExplanationInit PROVE ExplanationInv
  OBVIOUS
<1> USE WorkersOf DEF Of, First, Again, Kinds
<1>1. ExplanationTypes
  BY DEF ExplanationInit, ExplanationTypes
<1>2. RegistryStory /\ AnswerStory
  BY DEF ExplanationInit, RegistryStory, RegistryOf, AnswerStory, AnswerOf
<1>3. Reviewing = {}
  BY DEF ExplanationInit, Reviewing
<1>4. ReviewerStory
  BY <1>3, FS_EmptySet, ExplanationConstants DEF ReviewerStory
<1> QED
  BY <1>1, <1>2, <1>4 DEF ExplanationInv

\* Every step keeps the inductive invariant.
LEMMA ExplanationStep == ExplanationInv /\ [ExplanationNext]_explanationVars => ExplanationInv'
BY TypesStep, RegistryStep, AnswerStep, ReviewersStep DEF ExplanationInv, RegistryStory, AnswerStory

\* The stories imply that reviews are answered.
LEMMA StoriesAnswer == ExplanationInv => ReviewsAreAnswered
<1> SUFFICES ASSUME ExplanationInv PROVE ReviewsAreAnswered
  OBVIOUS
<1>1. ASSUME NEW t \in Workers \ called, explainer[t] \in {"check", "erase", "queued", "reviewing", "writing"}
      PROVE  registered[t[1]] = t[2]
  BY <1>1, WorkersOf DEF ExplanationInv, RegistryStory, RegistryOf, Of
<1>2. ASSUME NEW a \in Asked, review[a] = "pending", a \notin unanswered, decider[a] \notin {"cancel", "erase"}
      PROVE  asked[a] = "pending" /\ \E kind \in Kinds :
               Of(a, kind) \in {"asked", "skipped", "check", "erase", "queued", "reviewing", "writing"}
  BY <1>2 DEF ExplanationInv, AnswerStory, AnswerOf, First, Again, Kinds
<1> QED
  BY <1>1, <1>2 DEF ReviewsAreAnswered, ExplanationInv, ReviewerStory

\* A decision reaches whoever explains, and "working" is shown only while somebody will end it
\* (startPendingApprovalExplanation, cancelApprovalExplanation, RetryApprovalExplanation).
THEOREM ReviewsAnswered == ExplanationSpec => []ReviewsAreAnswered
BY StartsUnasked, ExplanationStep, StoriesAnswer, PTL DEF ExplanationSpec
=============================================================================
