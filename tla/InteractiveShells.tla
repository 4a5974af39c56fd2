-------------------------- MODULE InteractiveShells --------------------------
(***************************************************************************)
(* The life of interactive shells (service shellRegistry and its callers): *)
(* admission, the start of a connection generation, its end, close,        *)
(* reconnection of an operator's terminal, shutdown and restart.  A        *)
(* section of the code under lifecycleMu is one action.  An Agent's shell  *)
(* has a row in the database, an operator's terminal lives in memory only. *)
(***************************************************************************)
EXTENDS Integers, FiniteSets

CONSTANTS
  Shells,          \* shells that may be opened, of an Agent or an operator
  OperatorShells,  \* the terminals an operator opens
  HostOf,          \* the host each is on
  MaxActive,       \* maxActiveSSHShells
  MaxPerHost,      \* maxActiveSSHShellsPerHost
  MaxGenerations   \* bound: the connections one shell makes

ASSUME ShellAssumption == IsFiniteSet(Shells) /\ OperatorShells \subseteq Shells
ASSUME CapacityAssumption == MaxActive \in Nat /\ MaxPerHost \in Nat /\ MaxGenerations \in Nat \ {0}

VARIABLES
  shell,       \* sshShellState: status, why it ended, close reason, generation, session
  registered,  \* shellRegistry.states
  starter,     \* the call that prepares a generation: where it is, which one
  runner,      \* runSSHShell of a generation
  connected,   \* generations whose transport is open
  cancelled,   \* generations whose own context was cancelled
  resizing,    \* the session a call of ResizeSSHShell holds, 0 when there is none
  rows,        \* status in ssh_shell_sessions
  workers,     \* shellRegistry.workers
  closed,      \* shellRegistry.closed
  done         \* shellRegistry.done is closed

shellVars == <<shell, registered, starter, runner, connected, cancelled, resizing, rows,
               workers, closed, done>>

---------------------------------------------------------------------------
Active      == {"starting", "running", "stopping"}
Ended       == {"completed", "closed", "failed", "interrupted"}
AgentShells == Shells \ OperatorShells
Generations == 1..MaxGenerations
NoCall      == [at |-> "none", gen |-> 0]
Unopened    == [status |-> "none", why |-> "", reason |-> "", gen |-> 0, session |-> 0,
                finished |-> FALSE]

Reconnectable(s) ==
  s \in OperatorShells /\ shell[s].status = "failed" /\ shell[s].why = "lost"

Others(s) == {t \in registered \ {s} : shell[t].status \in Active}
Admitted(s) ==
  /\ Cardinality(Others(s)) < MaxActive
  /\ Cardinality({t \in Others(s) : HostOf[t] = HostOf[s]}) < MaxPerHost

\* The context of a generation is a child of the registry's.
Cancelled(s, g) == closed \/ g \in cancelled[s]

\* What can fail when a shell's history is finalised; memory does not fail.
Faults(s) == IF s \in AgentShells THEN {"none", "events", "row"} ELSE {"none"}

\* A write of the row; an operator's terminal has none.
WriteRow(s, status) == rows' = IF s \in AgentShells THEN [rows EXCEPT ![s] = status] ELSE rows

\* finishSSHShellLocked: nothing for another generation, or one that is finished,
\* unless the shell is being closed for good.
Finish(s, g, status, why, remove) ==
  IF shell[s].gen # g \/ (shell[s].finished /\ status # "closed")
  THEN UNCHANGED <<shell, registered, rows, cancelled>>
  ELSE \E fault \in Faults(s) :
    LET kept == fault = "none"
        end  == [shell[s] EXCEPT !.status = IF kept THEN status ELSE "failed",
                                 !.why = IF kept THEN why ELSE "persistence_failed",
                                 !.session = 0, !.finished = TRUE]
        retained == ~remove /\ s \in OperatorShells /\ end.status = "failed" /\ end.why = "lost"
    IN /\ shell' = [shell EXCEPT ![s] = end]
       /\ IF fault = "row" THEN UNCHANGED rows ELSE WriteRow(s, end.status)
       /\ registered' = IF retained THEN registered ELSE registered \ {s}
       /\ cancelled' = [cancelled EXCEPT ![s] = @ \cup {g}]

StarterForgotten(s) == starter' = [starter EXCEPT ![s] = NoCall] /\ workers' = workers  \* mutant: without Done
StarterLeaves(s) == starter' = [starter EXCEPT ![s] = NoCall] /\ workers' = workers - 1

---------------------------------------------------------------------------
\* openInteractiveShell: capacity is reserved and the row created before connecting.
OpenShell(s) ==
  /\ ~closed /\ shell[s].status = "none" /\ rows[s] = "none" /\ starter[s] = NoCall
  /\ Admitted(s)
  /\ shell' = [shell EXCEPT ![s] = [Unopened EXCEPT !.status = "starting", !.gen = 1]]
  /\ registered' = registered \cup {s} /\ WriteRow(s, "starting")
  /\ starter' = [starter EXCEPT ![s] = [at |-> "opening", gen |-> 1]]
  /\ workers' = workers + 1
  /\ UNCHANGED <<runner, connected, cancelled, resizing, closed, done>>

\* beginReconnect: a generation is reserved under the lock of the registry.
BeginReconnect(s) ==
  /\ ~closed /\ s \in registered /\ Reconnectable(s) /\ Admitted(s)
  /\ starter[s] = NoCall /\ shell[s].gen < MaxGenerations
  /\ shell' = [shell EXCEPT ![s] = [Unopened EXCEPT !.status = "starting", !.gen = shell[s].gen + 1]]
  /\ starter' = [starter EXCEPT ![s] = [at |-> "reserved", gen |-> shell[s].gen + 1]]
  /\ workers' = workers + 1
  /\ UNCHANGED <<registered, runner, connected, cancelled, resizing, rows, closed, done>>

\* ReconnectOperatorSSHShell takes the lock again: the shell may have been closed.
ConfirmReconnect(s) ==
  /\ starter[s].at = "reserved"
  /\ IF shell[s].gen = starter[s].gen /\ shell[s].status = "starting" /\ ~shell[s].finished
     THEN starter' = [starter EXCEPT ![s].at = "opening"] /\ UNCHANGED <<cancelled, workers>>
     ELSE /\ StarterLeaves(s)
          /\ cancelled' = [cancelled EXCEPT ![s] = @ \cup {starter[s].gen}]
  /\ UNCHANGED <<shell, registered, runner, connected, resizing, rows, closed, done>>

\* The host is resolved, a slot acquired and the connection made, or one of them fails.
TransportAnswers(s) ==
  /\ starter[s].at = "opening"
  /\ \/ /\ starter' = [starter EXCEPT ![s].at = "opened"]
        /\ connected' = [connected EXCEPT ![s] = @ \cup {starter[s].gen}]
     \/ starter' = [starter EXCEPT ![s].at = "failing"] /\ UNCHANGED connected
  /\ UNCHANGED <<shell, registered, runner, cancelled, resizing, rows, workers, closed, done>>

UseConnection(s, g) ==
  /\ shell' = [shell EXCEPT ![s] = [@ EXCEPT !.session = g, !.status = "running"]]
  /\ WriteRow(s, "running")
  /\ runner' = [runner EXCEPT ![s] = [at |-> "waiting", gen |-> g]]
  /\ starter' = [starter EXCEPT ![s] = NoCall]
  /\ UNCHANGED connected

LeaveOpen(s, g) ==  \* mutant: a connection that is not wanted any more stays open
  starter' = [starter EXCEPT ![s].at = "failing"] /\ UNCHANGED <<shell, rows, runner, connected>>
DropConnection(s, g) ==
  /\ connected' = [connected EXCEPT ![s] = @ \ {g}]
  /\ starter' = [starter EXCEPT ![s].at = "failing"]
  /\ UNCHANGED <<shell, rows, runner>>

\* startInteractiveShellGeneration after the connection: only the generation that is
\* still starting and not cancelled gets it, once its row says so.
StartGeneration(s) ==
  LET g     == starter[s].gen
      valid == shell[s].gen = g /\ shell[s].status = "starting" /\ ~Cancelled(s, g)
  IN /\ starter[s].at = "opened"
     /\ \/ valid /\ UseConnection(s, g)
        \/ (valid => s \in AgentShells) /\ DropConnection(s, g)
     /\ workers' = workers  \* with the connection goes a worker, for the preparation
     /\ UNCHANGED <<registered, cancelled, resizing, closed, done>>

\* failSSHShellStart; the first generation is removed, a lost terminal retained.
FailStart(s) ==
  LET g      == starter[s].gen
      remove == g = 1
      reason == shell[s].reason
  IN /\ starter[s].at = "failing"
     /\ IF shell[s].gen # g \/ shell[s].finished
        THEN UNCHANGED <<shell, registered, rows, cancelled>>
        ELSE CASE reason = "requested_close" -> Finish(s, g, "closed", reason, remove)
               [] reason = "persistence_failed" -> Finish(s, g, "failed", reason, remove)
               [] reason = "" /\ closed -> Finish(s, g, "interrupted", "service_stopped", remove)
               [] reason = "" /\ ~closed ->
                    Finish(s, g, "failed", IF remove THEN "start_failed" ELSE "lost", remove)
     /\ StarterLeaves(s)
     /\ UNCHANGED <<runner, connected, resizing, closed, done>>

---------------------------------------------------------------------------
NotCancelled(s) == UNCHANGED cancelled  \* mutant: the transport is not told
CancelCurrent(s) == cancelled' = [cancelled EXCEPT ![s] = @ \cup {shell[s].gen}]

\* CloseSSHShell: a running shell is told to stop and ends with its transport; one
\* that is starting, or lost and retained, ends at once.
CloseShell(s) ==
  LET before  == shell[s].status
      closing == [shell[s] EXCEPT !.reason = "requested_close", !.status = "stopping"]
  IN /\ s \in registered /\ (before \in {"running", "starting"} \/ Reconnectable(s))
     /\ \/ /\ before = "running"
           /\ shell' = [shell EXCEPT ![s] = closing]
           /\ (WriteRow(s, "stopping") \/ UNCHANGED rows)
           /\ CancelCurrent(s)
           /\ UNCHANGED registered
        \/ before # "running" /\ Finish(s, shell[s].gen, "closed", "requested_close", TRUE)
     /\ UNCHANGED <<starter, runner, connected, resizing, workers, closed, done>>

\* The writer of the shell's events gives up: the generation is cancelled.
PersistenceFails(s) ==
  /\ s \in registered \cap AgentShells /\ shell[s].status \in Active
  /\ shell' = [shell EXCEPT ![s].reason = IF @ = "" THEN "persistence_failed" ELSE @]
  /\ CancelCurrent(s)
  /\ shell[s].reason = "" \/ shell[s].gen \notin cancelled[s]
  /\ UNCHANGED <<registered, starter, runner, connected, resizing, rows, workers, closed, done>>

\* Wait returns: the remote end exits, is killed, or is lost; also after a cancellation,
\* which closes the session.
TransportEnds(s) ==
  /\ runner[s].at = "waiting"
  /\ \E result \in {"exit", "signal", "lost"} : runner' = [runner EXCEPT ![s].at = result]
  /\ connected' = [connected EXCEPT ![s] = @ \ {runner[s].gen}]
  /\ UNCHANGED <<shell, registered, starter, cancelled, resizing, rows, workers, closed, done>>

\* runSSHShell after Wait: why the shell ended depends on what was asked of it.
EndShell(s) ==
  LET g      == runner[s].gen
      result == runner[s].at
      reason == shell[s].reason
  IN /\ result \in {"exit", "signal", "lost"}
     /\ IF shell[s].gen # g \/ shell[s].session # g
        THEN UNCHANGED <<shell, registered, rows, cancelled>>
        ELSE CASE reason = "requested_close" -> Finish(s, g, "closed", reason, FALSE)
               [] reason = "persistence_failed" -> Finish(s, g, "failed", reason, FALSE)
               [] reason = "" /\ Cancelled(s, g) ->
                    Finish(s, g, "interrupted", "service_stopped", FALSE)
               [] reason = "" /\ ~Cancelled(s, g) ->
                    Finish(s, g, IF result = "exit" THEN "completed" ELSE "failed", result, FALSE)
     /\ runner' = [runner EXCEPT ![s] = NoCall] /\ workers' = workers - 1
     /\ UNCHANGED <<starter, connected, resizing, closed, done>>

\* ResizeSSHShell and other calls use the session they saw, outside the lock.
BeginResize(s) ==
  /\ s \in registered \cap AgentShells /\ resizing[s] = 0
  /\ shell[s].status = "running" /\ shell[s].session # 0
  /\ resizing' = [resizing EXCEPT ![s] = shell[s].session]
  /\ UNCHANGED <<shell, registered, starter, runner, connected, cancelled, rows, workers, closed, done>>

EndResizeUnchecked(s) ==  \* mutant: the size is saved without a look at the session
  /\ resizing[s] # 0 /\ resizing' = [resizing EXCEPT ![s] = 0] /\ WriteRow(s, "running")
  /\ UNCHANGED <<shell, registered, starter, runner, connected, cancelled, workers, closed, done>>

\* The size is saved only while the session is the one that was resized.
EndResize(s) ==
  /\ resizing[s] # 0 /\ resizing' = [resizing EXCEPT ![s] = 0]
  /\ \/ UNCHANGED rows
     \/ shell[s].session = resizing[s] /\ shell[s].status = "running" /\ WriteRow(s, "running")
  /\ UNCHANGED <<shell, registered, starter, runner, connected, cancelled, workers, closed, done>>

---------------------------------------------------------------------------
\* shutdown: no new work, every context cancelled.
ShutShells ==
  /\ ~closed /\ closed' = TRUE
  /\ UNCHANGED <<shell, registered, starter, runner, connected, cancelled, resizing, rows, workers, done>>

ShellsDone ==
  /\ closed /\ ~done /\ workers = 0 /\ done' = TRUE
  /\ UNCHANGED <<shell, registered, starter, runner, connected, cancelled, resizing, rows, workers, closed>>

AfterRestart(status) == IF status \in Active THEN "interrupted" ELSE status

ShellInit ==
  /\ shell = [s \in Shells |-> Unopened] /\ registered = {}
  /\ starter = [s \in Shells |-> NoCall] /\ runner = [s \in Shells |-> NoCall]
  /\ connected = [s \in Shells |-> {}] /\ cancelled = [s \in Shells |-> {}]
  /\ resizing = [s \in Shells |-> 0] /\ rows = [s \in Shells |-> "none"]
  /\ workers = 0 /\ closed = FALSE /\ done = FALSE

\* The process ends, in order or not, and starts again: InterruptActiveSSHShells.
RestartShells ==
  /\ registered # {} \/ closed
  /\ shell' = [s \in Shells |-> Unopened] /\ registered' = {}
  /\ starter' = [s \in Shells |-> NoCall] /\ runner' = [s \in Shells |-> NoCall]
  /\ connected' = [s \in Shells |-> {}] /\ cancelled' = [s \in Shells |-> {}]
  /\ resizing' = [s \in Shells |-> 0]
  /\ rows' = [s \in Shells |-> AfterRestart(rows[s])]
  /\ workers' = 0 /\ closed' = FALSE /\ done' = FALSE

Prepare(s) == ConfirmReconnect(s) \/ TransportAnswers(s) \/ StartGeneration(s) \/ FailStart(s)

ShellNext ==
  \/ \E s \in Shells :
       \/ OpenShell(s) \/ BeginReconnect(s) \/ Prepare(s) \/ CloseShell(s) \/ PersistenceFails(s)
       \/ TransportEnds(s) \/ EndShell(s) \/ BeginResize(s) \/ EndResize(s)
  \/ ShutShells \/ ShellsDone \/ RestartShells

ShellSpec == ShellInit /\ [][ShellNext]_shellVars

\* Goroutines run; opening a connection has a timeout, and a session that is closed
\* returns from Wait.
ShellDuty(s, k) ==
  CASE k = 1 -> Prepare(s) [] k = 2 -> EndShell(s) [] k = 3 -> EndResize(s)
    [] OTHER -> runner[s].at = "waiting" /\ Cancelled(s, runner[s].gen) /\ TransportEnds(s)
ShellFairness == (\A s \in Shells, k \in 1..4 : WF_shellVars(ShellDuty(s, k))) /\ WF_shellVars(ShellsDone)

---------------------------------------------------------------------------
Causes == {"", "requested_close", "persistence_failed", "service_stopped", "start_failed", "exit", "signal", "lost"}
ShellRecord == [status : {"none"} \cup Active \cup Ended, why : Causes,
                reason : {"", "requested_close", "persistence_failed"},
                gen : Nat, session : Nat, finished : BOOLEAN]

Starters == {s \in Shells : starter[s] # NoCall}
Runners  == {s \in Shells : runner[s] # NoCall}

ShellTypes ==
  /\ shell \in [Shells -> ShellRecord] /\ registered \subseteq Shells
  /\ starter \in [Shells -> [at : {"none", "reserved", "opening", "opened", "failing"}, gen : Nat]]
  /\ runner \in [Shells -> [at : {"none", "waiting", "exit", "signal", "lost"}, gen : Nat]]
  /\ connected \in [Shells -> SUBSET Nat] /\ cancelled \in [Shells -> SUBSET Nat]
  /\ resizing \in [Shells -> Nat]
  /\ rows \in [Shells -> {"none"} \cup Active \cup Ended]
  /\ workers = Cardinality(Starters) + Cardinality(Runners)
  /\ closed \in BOOLEAN /\ done \in BOOLEAN

Connecting == {s \in registered : shell[s].status \in {"starting", "running"}}

\* However close, loss, reconnection and shutdown interleave, an open connection is of the
\* current generation and of a goroutine that will close it, and shutdown reports the end
\* only when there is none; new shells and reconnections of retained ones never exceed the
\* limits together.
ConnectionsAreOwned ==
  /\ \A s \in Shells : \A g \in connected[s] :
       /\ g = shell[s].gen
       /\ \/ starter[s] = [at |-> "opened", gen |-> g]
          \/ runner[s] = [at |-> "waiting", gen |-> g]
  /\ done => \A s \in Shells : connected[s] = {} /\ starter[s] = NoCall /\ runner[s] = NoCall
  /\ Cardinality(Connecting) <= MaxActive
  /\ \A h \in {HostOf[s] : s \in Shells} : Cardinality({s \in Connecting : HostOf[s] = h}) <= MaxPerHost

\* The history of a shell that ended is final: no call that began before its end, and
\* no restart, writes its row again.
EndedRowsStay == [][\A s \in Shells : rows[s] \in Ended => rows'[s] = rows[s]]_shellVars

\* What must come to an end: a shell that is asked to close, the shutdown.
ShellEnding(s) == shell[s].status = "stopping"
ShellsClosing  == closed /\ ~done
=============================================================================
