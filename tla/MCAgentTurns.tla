---------------------------- MODULE MCAgentTurns ----------------------------
(* Small instances, for TLC, of what the turns of an Agent must come to and  *)
(* be told: approvals that are decided around crashes, or stopped and met by *)
(* failures; the row of the conversation, the context of its model calls,    *)
(* its plan, and the skills it loads.  A behaviour is one of a single        *)
(* concern: the concerns share no state but the approvals' own.              *)
EXTENDS ApprovalContinuation, Conversations, ChatContext, AgentPlan, SkillRegistry

CONSTANTS c1, c2, t1, t2, n1, n2, n3

VARIABLE concern  \* what this behaviour is about

\* One skill alone, two in either order of their paths, one whose name is taken.
Uploads == {<<n1>>, <<n1, n2>>, <<n2, n3>>}

\* The tasks of an older version: up to three, of every status.
OldTasks == UNION {[1..n -> {"pending", "in_progress", "completed"}] : n \in 0..3}

\* bound: crashes meet two calls of one turn, without stops and failures; stops and failures
\* meet two turns with a call each time, without crashes.
Within ==
  IF concern = "crashes" THEN stops' = 0 /\ faults' = 0 /\ msg'[t2] = "none"
  ELSE crashes' = 0 /\ call'[c2] = "none"

TurnsInit ==
  /\ Init /\ ConversationInit /\ ContextInit /\ PlanInit /\ SkillInit
  /\ concern \in {"crashes", "stops", "conversation", "context", "plan", "skills"}
  \* One beginning of a plan is enough for the others.
  /\ concern # "plan" => plan = NoPlan

TurnsNext ==
  /\ UNCHANGED concern
  /\ \/ concern \in {"crashes", "stops"} /\ Next /\ Within /\ UNCHANGED <<conversationVars, contextVars, planVars, skillVars>>
     \/ concern = "conversation" /\ ConversationNext /\ UNCHANGED <<vars, contextVars, planVars, skillVars>>
     \/ concern = "context" /\ ContextNext /\ UNCHANGED <<vars, conversationVars, planVars, skillVars>>
     \/ concern = "plan" /\ PlanNext /\ UNCHANGED <<vars, conversationVars, contextVars, skillVars>>
     \/ concern = "skills" /\ SkillNext /\ UNCHANGED <<vars, conversationVars, contextVars, planVars>>

TurnsSpec ==
  /\ TurnsInit /\ [][TurnsNext]_<<vars, conversationVars, contextVars, planVars, skillVars, concern>>
  /\ Fairness

\* A stop request ends the turn it cancels (CancelledTurnEnds).  Without stops, whatever the
\* process survives, a decided group is fed back to its turn (DecidedGroupContinues).
TurnsGoOn == CancelledTurnEnds /\ (concern = "crashes" => DecidedGroupContinues)

\* What belongs to one conversation stays its own while requests and turns overlap: its row
\* and title, the context of its model calls, and its plan.
ConversationIsWhole ==
  /\ concern = "conversation" => ConversationIsKept
  /\ concern = "context" => ContextIsWhole
  /\ concern = "plan" => PlanIsKept
=============================================================================
