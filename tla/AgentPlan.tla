----------------------------- MODULE AgentPlan -----------------------------
(* The plan of a conversation: an ordered sequence of steps that the Agent   *)
(* creates, works through and revises, and the plans converted from the      *)
(* files of the tasks an older version kept.                                 *)
EXTENDS Naturals, Sequences, FiniteSets

CONSTANTS
  MaxSteps,     \* 8: titles a plan is created or revised with
  MaxEditions,  \* bound: plans created and revisions
  TaskLists     \* statuses of the old tasks, in the order of their numbers

ASSUME PlanConstants ==
  /\ MaxSteps \in Nat \ {0, 1} /\ MaxEditions \in Nat
  /\ TaskLists \subseteq Seq({"pending", "in_progress", "completed"})

VARIABLES
  plan,      \* agent_plans and agent_plan_steps: each step with the edition that named it
  editions,  \* plans created and revisions accepted
  ended      \* history: the steps of this plan that were ended, in the order of the calls

planVars == <<plan, editions, ended>>

NoPlan == [status |-> "none", steps |-> <<>>]

\* n new steps: the first one is begun.
Titled(edition, n) ==
  [i \in 1..n |-> [title |-> edition, status |-> IF i = 1 THEN "in_progress" ELSE "pending"]]

\* The number of the step in progress, 0 if there is none.
CurrentStep(p) ==
  LET current == {i \in 1..Len(p.steps) : p.steps[i].status = "in_progress"} IN
  IF current = {} THEN 0 ELSE CHOOSE i \in current : \A j \in current : i <= j

EndedStep(s) == s.status \in {"completed", "skipped"}

\* The ended steps before the first that is not.
Settled(p) ==
  CHOOSE n \in 0..Len(p.steps) :
    /\ \A i \in 1..n : EndedStep(p.steps[i])
    /\ n < Len(p.steps) => ~EndedStep(p.steps[n + 1])

-----------------------------------------------------------------------------
\* Finished tasks first, then the others, of which the first is begun.
migrateAgentPlans(tasks) ==
  LET finished == Cardinality({i \in DOMAIN tasks : tasks[i] = "completed"})
      others == Len(tasks) - finished
  IN IF tasks = <<>> THEN NoPlan
     ELSE [status |-> IF others = 0 THEN "completed" ELSE "active",
           steps |-> [i \in 1..finished |-> [title |-> 0, status |-> "completed"]] \o Titled(0, others)]

\* A new plan replaces the previous one.
CreateAgentPlan(n) ==
  /\ editions < MaxEditions /\ n \in 2..MaxSteps
  /\ editions' = editions + 1
  /\ plan' = [status |-> "active", steps |-> Titled(editions', n)]
  /\ ended' = <<>>

\* Only the current step ends; the first pending step is begun.
TransitionStep(number, status) ==
  /\ number # 0 /\ number = CurrentStep(plan)
  /\ LET steps == [plan.steps EXCEPT ![number].status = status]
         pending == {i \in 1..Len(steps) : steps[i].status = "pending"}
         next == CHOOSE i \in pending : \A j \in pending : i <= j
     IN /\ plan' = IF pending = {} THEN [status |-> "completed", steps |-> steps]
                   ELSE [status |-> "active", steps |-> [steps EXCEPT ![next].status = "in_progress"]]
        /\ ended' = Append(ended, steps[number])
  /\ UNCHANGED editions

ReviseRemaining(n) ==
  /\ editions < MaxEditions /\ n \in 1..MaxSteps
  /\ plan.status = "active"
  /\ editions' = editions + 1
  /\ plan' = [plan EXCEPT !.steps = SubSeq(@, 1, Settled(plan)) \o Titled(editions', n)]
  /\ UNCHANGED ended

-----------------------------------------------------------------------------
PlanInit ==
  /\ plan \in {NoPlan} \cup {migrateAgentPlans(tasks) : tasks \in TaskLists}
  /\ editions = 0 /\ ended = SubSeq(plan.steps, 1, Settled(plan))

PlanNext ==
  \/ \E n \in 1..MaxSteps : CreateAgentPlan(n) \/ ReviseRemaining(n)
  \/ \E status \in {"completed", "skipped"} : \E number \in 1..Len(plan.steps) : TransitionStep(number, status)

PlanSpec == PlanInit /\ [][PlanNext]_planVars

\* However a plan was converted, revised and worked through: it begins with exactly the
\* steps that were ended, in that order and as they were ended; one step is in progress
\* and only pending ones follow, unless the plan is completed.
PlanIsKept ==
  LET n == Len(ended)
      open == SubSeq(plan.steps, n + 1, Len(plan.steps))
  IN /\ SubSeq(plan.steps, 1, n) = ended
     /\ \A i \in DOMAIN open : open[i].status = IF i = 1 THEN "in_progress" ELSE "pending"
     /\ plan.status = IF plan.steps = <<>> THEN "none" ELSE IF open = <<>> THEN "completed" ELSE "active"
=============================================================================
