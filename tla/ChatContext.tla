---------------------------- MODULE ChatContext ----------------------------
(* What a model call is told of a conversation: the rows of chat_messages,   *)
(* the turns built of them, the stored summary that replaces the oldest of   *)
(* them, its compression within a turn or by the operator, the pruning of    *)
(* failed turns, and turns that wait for an approval while rows follow.      *)
EXTENDS Naturals, FiniteSets, FiniteSetsExt

CONSTANTS
  MaxTurns,     \* bound: user messages of the conversation
  MaxOutputs,   \* bound: rows of tools and of reasoning
  MaxFailures,  \* bound: failed writes of the database, failed resumptions and restarts
  Preserve      \* contextCompressionPreserveTurns

ASSUME ContextConstants ==
  /\ MaxTurns \in Nat \ {0} /\ MaxOutputs \in Nat /\ MaxFailures \in Nat
  /\ Preserve \in Nat \ {0}

VARIABLES
  rows,        \* chat_messages: id (the order of the rows), turn and role
  status,      \* the status of the user row of each turn, "none" before it is written
  summary,     \* chat_context_summaries: its boundary and the rows it tells of
  query,        \* the active session: a turn or a compression, with its context
  checkpoint,  \* the contexts saved for turns that paused
  undecided,   \* turns with a tool call that waits for a decision
  left,        \* history: unfinished turns that others followed
  lastRow, failures

contextVars == <<rows, status, summary, query, checkpoint, undecided, left, lastRow, failures>>

Questions      == 1..MaxTurns
NoSummary  == [through |-> 0, covers |-> {}]
NoContext  == [covered |-> {}, kept |-> [q \in {} |-> {}]]
Idle       == [kind |-> "none", turn |-> 0, context |-> NoContext, boundary |-> 0, settled |-> FALSE, fresh |-> FALSE]
Ids(R)     == {r.id : r \in R}
Question(t) == CHOOSE r \in rows : r.turn = t /\ r.role = "user"

-----------------------------------------------------------------------------
(* Building the context. *)

\* The rows up to the next user message in the set Q of user messages.
Following(R, Q, q) ==
  {r \in R : r.id >= q.id /\ \A other \in Q : other.id > q.id => r.id < other.id}

\* Failed turns with neither a tool row nor visible text, whatever the next message is.
excludedChatTurns(R, st) ==
  LET questions == {r \in R : r.role = "user"} IN
  UNION {Following(R, questions, q) : q \in
    {u \in questions : st[u.turn] = "failed"
                       /\ \A r \in Following(R, questions, u) : r.role \notin {"tool", "assistant"}}}

\* The foreign key of the summary protects its boundary: the statement fails.
Removable(R, st) == summary.through \notin Ids(excludedChatTurns(R, st))
Pruned(R, st)    == R \ excludedChatTurns(R, st)

\* Rows a context is built of: the message of an unfinished turn is not one of them.
ListChatContextMessages(R) ==
  {r \in R : r.role = "user" => status[r.turn] \in {"completed", "failed"}}

\* The user messages of prepared turns, with the rows of each.
preparedTurns(history) ==
  LET questions == {r \in history : r.role = "user"}
      groups == [id \in Ids(questions) |->
                   Ids(Following(history, questions, CHOOSE q \in questions : q.id = id))]
      spoken == {q.id : q \in {u \in questions : ~(status[u.turn] = "failed" /\ groups[u.id] = {u.id})}}
  IN [id \in spoken |-> groups[id]]

\* The members of S with at least n greater ones.
AllBut(n, S) == {s \in S : Cardinality({u \in S : u > s}) >= n}

\* modelTurnBoundaryID of the last turn that is not preserved.
BoundaryOf(kept) ==
  IF Cardinality(DOMAIN kept) > Preserve THEN Max(kept[Max(AllBut(Preserve, DOMAIN kept))]) ELSE 0

\* A summary counts only while its boundary is part of the history.
buildModelContext(R) ==
  LET history == ListChatContextMessages(R)
      known == summary.through \in Ids(history)
  IN [covered |-> IF known THEN summary.covers ELSE {},
      kept |-> preparedTurns({r \in history : known => r.id > summary.through})]

\* Mutant: the message of the turn itself is counted among the preserved ones.
WithoutCurrent(hasCurrent) == Preserve

\* How many user messages stay: the one of the turn itself on top of the preserved ones.
retain(hasCurrent) == Preserve + (IF hasCurrent THEN 1 ELSE 0)

\* The summary tells of what it is made of, the messages after it stay.
splitContextForSummary(context, hasCurrent) ==
  LET source == AllBut(retain(hasCurrent), DOMAIN context.kept) IN
  [ok |-> source # {},
   context |-> [covered |-> context.covered \cup UNION {context.kept[q] : q \in source},
                kept |-> [q \in DOMAIN context.kept \ source |-> context.kept[q]]]]

-----------------------------------------------------------------------------
(* Questions. *)

Fails == failures < MaxFailures /\ failures' = failures + 1

\* A message is taken when no call of the conversation is unsettled.  The turn prunes,
\* reads the history and the summary, and appends its message as pending.
QueryWithAttachments(t) ==
  /\ query = Idle /\ undecided = {}
  /\ status[t] = "none" /\ \A u \in 1..(t - 1) : status[u] # "none"
  /\ Removable(rows, status)
  /\ LET pruned == Pruned(rows, status)
         context == buildModelContext(pruned)
         id == lastRow + 1
     IN /\ rows' = pruned \cup {[id |-> id, turn |-> t, role |-> "user"]}
        /\ query' = [kind |-> "turn", turn |-> t, boundary |-> BoundaryOf(context.kept), settled |-> FALSE, fresh |-> TRUE,
                    context |-> [context EXCEPT !.kept = [q \in DOMAIN @ \cup {id} |-> IF q = id THEN {id} ELSE @[q]]]]
        /\ lastRow' = id
  /\ status' = [status EXCEPT ![t] = "pending"]
  /\ left' = left \cup {u \in Questions : status[u] \in {"pending", "waiting_for_approval"}}
  /\ UNCHANGED <<summary, checkpoint, undecided, failures>>

Running == query.kind = "turn" /\ status[query.turn] = "pending"

\* A tool call, or reasoning, becomes a row and part of the next model call.
Output(role) ==
  /\ Running /\ Cardinality({r \in rows : r.role \in {"tool", "reasoning"}}) < MaxOutputs
  /\ rows' = rows \cup {[id |-> lastRow + 1, turn |-> query.turn, role |-> role]}
  /\ lastRow' = lastRow + 1
  /\ query' = [query EXCEPT !.context.kept[Max(DOMAIN query.context.kept)] = @ \cup {lastRow + 1}]
  /\ UNCHANGED <<status, summary, checkpoint, undecided, left, failures>>

\* BeforeModelRewriteState above the threshold: at most one attempt in a turn, and the
\* turn goes on with the context it has when the summary is not made, or when it is
\* stored and the answer of the store is lost.
BeforeModelRewriteState ==
  /\ Running /\ query.boundary # 0 /\ ~query.settled
  /\ LET split == splitContextForSummary(query.context, TRUE)
         saved == [through |-> query.boundary, covers |-> split.context.covered]
     IN \/ /\ split.ok /\ summary' = saved
           /\ query' = [query EXCEPT !.settled = TRUE, !.context = split.context]
           /\ UNCHANGED failures
        \/ /\ split.ok /\ Fails /\ summary' = saved
           /\ query' = [query EXCEPT !.settled = TRUE]
        \/ /\ query' = [query EXCEPT !.settled = TRUE]
           /\ UNCHANGED <<summary, failures>>
  /\ UNCHANGED <<rows, status, checkpoint, undecided, left, lastRow>>

\* The turn stops at a tool call that needs an approval and keeps its driver.
Pause ==
  /\ Running /\ \E r \in rows : r.turn = query.turn /\ r.role = "tool"
  /\ status' = [status EXCEPT ![query.turn] = "waiting_for_approval"]
  /\ checkpoint' = [checkpoint EXCEPT ![query.turn] = query.context]
  /\ undecided' = undecided \cup {query.turn}
  /\ UNCHANGED <<rows, summary, query, left, lastRow, failures>>

\* The decision and what follows of it end the tool call.
ToolCallEnds(t) ==
  /\ t \in undecided /\ undecided' = undecided \ {t}
  /\ UNCHANGED <<rows, status, summary, query, checkpoint, left, lastRow, failures>>

\* The driver that waited goes on.
Continue ==
  /\ query.kind = "turn" /\ status[query.turn] = "waiting_for_approval" /\ query.turn \notin undecided
  /\ status' = [status EXCEPT ![query.turn] = "pending"]
  /\ UNCHANGED <<rows, summary, query, checkpoint, undecided, left, lastRow, failures>>

\* A new driver takes the messages from the checkpoint and its boundary from the history.
ResumeAgentApprovals(t) ==
  /\ query = Idle /\ t \notin undecided
  /\ checkpoint[t] # NoContext /\ status[t] \in {"pending", "waiting_for_approval"}
  /\ Removable(rows, status)
  /\ LET pruned == Pruned(rows, status) IN
     /\ rows' = pruned
     /\ query' = [kind |-> "turn", turn |-> t, boundary |-> BoundaryOf(buildModelContext(pruned).kept),
                 context |-> checkpoint[t], settled |-> FALSE, fresh |-> FALSE]
  /\ status' = [status EXCEPT ![t] = "pending"]
  /\ UNCHANGED <<summary, checkpoint, undecided, left, lastRow, failures>>

\* The turn ended; its checkpoint goes with it, and its status may stay unwritten.
EndTurn(result) ==
  /\ query' = Idle /\ checkpoint' = [checkpoint EXCEPT ![query.turn] = NoContext]
  /\ \/ status' = [status EXCEPT ![query.turn] = result] /\ UNCHANGED failures
     \/ status' = status /\ Fails
  /\ UNCHANGED <<summary, undecided, left>>

\* The answer is stored, or the operator steered the turn with whatever it had said.
Answer ==
  /\ Running /\ EndTurn("completed")
  /\ rows' = rows \cup {[id |-> lastRow + 1, turn |-> query.turn, role |-> "assistant"]}
  /\ lastRow' = lastRow + 1

Steer == Running /\ EndTurn("completed") /\ UNCHANGED <<rows, lastRow>>

\* A failed turn prunes; what cannot be removed is left for the next turn.
Fail ==
  /\ query.kind = "turn" /\ EndTurn("failed")
  /\ rows' = IF Removable(rows, status') THEN Pruned(rows, status') ELSE rows
  /\ UNCHANGED lastRow

PruneFails ==
  /\ query.kind = "turn" /\ Fails
  /\ query' = Idle /\ checkpoint' = [checkpoint EXCEPT ![query.turn] = NoContext]
  /\ status' = [status EXCEPT ![query.turn] = "failed"]
  /\ UNCHANGED <<rows, summary, undecided, left, lastRow>>

\* An error of a turn that can be resumed: marked as failed, pruned, and waiting again.
Retain ==
  /\ Running /\ checkpoint[query.turn] # NoContext /\ Fails
  /\ LET failed == [status EXCEPT ![query.turn] = "failed"] IN
     rows' = IF Removable(rows, failed) THEN Pruned(rows, failed) ELSE rows
  /\ status' = [status EXCEPT ![query.turn] = "waiting_for_approval"]
  /\ query' = Idle
  /\ UNCHANGED <<summary, checkpoint, undecided, left, lastRow>>

-----------------------------------------------------------------------------
(* The operator, and restarts. *)

\* The compression holds the session: a message that comes meanwhile is refused.
CompressContext ==
  /\ query = Idle
  /\ LET context == buildModelContext(rows) IN
     /\ BoundaryOf(context.kept) # 0
     /\ query' = [kind |-> "compress", turn |-> 0, context |-> context, boundary |-> BoundaryOf(context.kept),
                 settled |-> FALSE, fresh |-> FALSE]
  /\ UNCHANGED <<rows, status, summary, checkpoint, undecided, left, lastRow, failures>>

ForceSummary ==
  /\ query.kind = "compress" /\ query' = Idle
  /\ LET split == splitContextForSummary(query.context, FALSE) IN
     \/ split.ok /\ summary' = [through |-> query.boundary, covers |-> split.context.covered]
     \/ UNCHANGED summary
  /\ UNCHANGED <<rows, status, checkpoint, undecided, left, lastRow, failures>>

\* FailPendingChatMessages keeps the turns a checkpoint can resume, then the failed ones
\* are pruned.  A server that cannot prune does not start.
RestartContext ==
  LET failed == [t \in Questions |-> IF status[t] = "pending" /\ checkpoint[t] = NoContext THEN "failed" ELSE status[t]] IN
  /\ query # Idle \/ failed # status
  /\ Removable(rows, failed) /\ Fails
  /\ status' = failed /\ rows' = Pruned(rows, failed) /\ query' = Idle
  /\ UNCHANGED <<summary, checkpoint, undecided, left, lastRow>>

ContextInit ==
  /\ rows = {} /\ status = [t \in Questions |-> "none"] /\ summary = NoSummary
  /\ query = Idle /\ checkpoint = [t \in Questions |-> NoContext]
  /\ undecided = {} /\ left = {} /\ lastRow = 0 /\ failures = 0

ContextNext ==
  \/ \E t \in Questions : QueryWithAttachments(t) \/ ToolCallEnds(t) \/ ResumeAgentApprovals(t)
  \/ \E role \in {"tool", "reasoning"} : Output(role)
  \/ BeforeModelRewriteState \/ Pause \/ Continue
  \/ Answer \/ Steer \/ Fail \/ PruneFails \/ Retain
  \/ CompressContext \/ ForceSummary \/ RestartContext

ContextSpec == ContextInit /\ [][ContextNext]_contextVars

-----------------------------------------------------------------------------
(* Properties. *)

ContextTypes ==
  /\ \A r \in rows : r.id \in 1..lastRow /\ r.turn \in Questions /\ r.role \in {"user", "tool", "reasoning", "assistant"}
  /\ status \in [Questions -> {"none", "pending", "waiting_for_approval", "completed", "failed"}]
  /\ summary.through \in 0..lastRow /\ summary.covers \subseteq 1..lastRow
  /\ query.kind \in {"none", "turn", "compress"} /\ query.turn \in 0..MaxTurns
  /\ undecided \subseteq Questions /\ left \subseteq Questions /\ failures \in 0..MaxFailures

\* A model call is told every earlier row of the conversation exactly once: by the summary,
\* or word by word with its own question, in both cases whatever was compressed before,
\* failed, was pruned or steered; and the last turns that ended are told word by word.  The
\* stored summary tells of exactly the rows up to its boundary, and that is a row no prune
\* will want to remove: the foreign key would refuse every later turn.  All this as long as
\* the conversation did not go on while an earlier turn was unfinished.
ContextIsWhole ==
  /\ ContextTypes
  /\ left = {} =>
    /\ \A r \in rows : r.id <= summary.through <=> r.id \in summary.covers
    /\ summary # NoSummary => \E r \in rows \ excludedChatTurns(rows, status) : r.id = summary.through
    /\ query.kind = "turn" /\ query.fresh =>
         LET context == query.context
             Told(r) == {q \in DOMAIN context.kept : r.id \in context.kept[q]}
         IN /\ \A r \in rows :
                 IF r.id \in context.covered THEN Told(r) = {}
                 ELSE Told(r) = {Question(r.turn).id}
            /\ failures = 0 /\ context.covered # {} => Cardinality(DOMAIN context.kept) > Preserve
=============================================================================
