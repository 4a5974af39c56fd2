----------------------------- MODULE SshTunnels -----------------------------
(***************************************************************************)
(* SSH tunnels (sshtunnel.Manager): each tunnel has a worker that serves a *)
(* connection, drains it when it is lost, reconnects, and finishes when    *)
(* the tunnel's context is cancelled by a stop, an edit or the shutdown.   *)
(* An edit stops a tunnel, starts another and restores the first one under *)
(* its old id when that fails.  Instances are the tunnel objects; several  *)
(* of them may have had the same id.                                       *)
(***************************************************************************)
EXTENDS Integers, FiniteSets

CONSTANTS
  Instances,  \* bound: the objects alive or still referred to at a time
  NoInstance,   \* no object
  TunnelIds     \* bound: ids in use at a time

ASSUME InstanceAssumption == NoInstance \notin Instances /\ TunnelIds \subseteq Nat \ {0}

VARIABLES
  tunnel,       \* of each object: id, status, context, operation, done
  worker,       \* where its goroutine is: start, run, reconnect or finish
  socket,       \* whether a generation of it is open: client and listener
  relay,        \* its forwarded connection
  states,       \* Manager.states
  view,         \* the last event published about each id
  editing,      \* a call of Replace
  stopping,     \* a call of Stop
  managerClosed,
  managerDone

tunnelVars == <<tunnel, worker, socket, relay, states, view, editing, stopping,
                managerClosed, managerDone>>

---------------------------------------------------------------------------
Free == [id |-> 0, status |-> "none", cancelled |-> FALSE, operation |-> "none",
         done |-> FALSE]
NoEdit == [at |-> "none", of |-> NoInstance, by |-> NoInstance, id |-> 0]
NoStop == [at |-> "none", of |-> NoInstance]

Gone(i) == tunnel[i].cancelled \/ managerClosed
Unused == {i \in Instances : worker[i] = "none" /\ i \notin {editing.of, editing.by, stopping.of}}

\* ids.New: an id that no object has.
NewIds == TunnelIds \ ({tunnel[i].id : i \in Instances} \cup {editing.id})

Move(i, from, to) == worker[i] = from /\ worker' = [worker EXCEPT ![i] = to]
OpenSocket(i)  == socket' = [socket EXCEPT ![i] = TRUE]
CloseSocket(i) == socket' = [socket EXCEPT ![i] = FALSE]
Publish(i, status) == view' = [view EXCEPT ![tunnel[i].id] = status]

\* transition: a change of a tunnel that is not cancelled, published with it.
Transition(i, status) ==
  /\ tunnel' = [tunnel EXCEPT ![i].status = status]
  /\ Publish(i, status)

---------------------------------------------------------------------------
\* start up to the connection: of a call of the operator or the Agent, or of an edit.
Allocate(i, id) ==
  /\ tunnel' = [tunnel EXCEPT ![i] = [Free EXCEPT !.id = id]]
  /\ worker' = [worker EXCEPT ![i] = "opening"]

StartTunnel ==
  /\ ~managerClosed
  /\ \E i \in Unused, id \in NewIds : Allocate(i, id)
  /\ UNCHANGED <<socket, relay, states, view, editing, stopping, managerClosed, managerDone>>

\* openRuntime: authenticate and listen; a failure leaves nothing open.
OpenRuntime(i) ==
  /\ \/ Move(i, "opening", "opened") /\ OpenSocket(i)
     \/ Move(i, "opening", "refused") /\ UNCHANGED socket
  /\ UNCHANGED <<tunnel, relay, states, view, editing, stopping, managerClosed, managerDone>>

\* start after the connection: the tunnel is registered and published, unless the
\* service is closing, the caller is gone or the id is taken.
RegisterTunnel(i) ==
  LET id == tunnel[i].id
  IN /\ \/ /\ ~Gone(i) /\ states[id] = NoInstance
           /\ Move(i, "opened", "serving") /\ Transition(i, "running")
           /\ states' = [states EXCEPT ![id] = i]
           /\ UNCHANGED socket
        \/ Move(i, "opened", "refused") /\ CloseSocket(i) /\ UNCHANGED <<tunnel, states, view>>
     /\ UNCHANGED <<relay, editing, stopping, managerClosed, managerDone>>

\* A start that failed returns to its caller; an edit looks at it itself.
StartRefused(i) ==
  /\ i # editing.by /\ Move(i, "refused", "none")
  /\ tunnel' = [tunnel EXCEPT ![i] = Free]
  /\ UNCHANGED <<socket, relay, states, view, editing, stopping, managerClosed, managerDone>>

---------------------------------------------------------------------------
\* accept and forward: a connection is tracked until either side or the runtime closes it.
Accept(i) ==
  /\ worker[i] = "serving" /\ socket[i] /\ ~relay[i] /\ relay' = [relay EXCEPT ![i] = TRUE]
  /\ UNCHANGED <<tunnel, worker, socket, states, view, editing, stopping, managerClosed, managerDone>>

EndForward(i) ==
  /\ relay[i] /\ relay' = [relay EXCEPT ![i] = FALSE]
  /\ UNCHANGED <<tunnel, worker, socket, states, view, editing, stopping, managerClosed, managerDone>>

\* serve returns: the listener or the client failed, or the context ended; then
\* runtime.close closes the client, the listener and the tracked connections.
EndServe(i) ==
  /\ Move(i, "serving", "draining") /\ CloseSocket(i)
  /\ UNCHANGED <<tunnel, relay, states, view, editing, stopping, managerClosed, managerDone>>

\* run after the workers of the generation: retry, or finish.
Drained(i) ==
  /\ ~relay[i]
  /\ \/ Gone(i) /\ Move(i, "draining", "finishing") /\ UNCHANGED <<tunnel, view>>
     \/ ~Gone(i) /\ Move(i, "draining", "waiting") /\ Transition(i, "retrying")
  /\ UNCHANGED <<socket, relay, states, editing, stopping, managerClosed, managerDone>>

\* reconnect: the delay of an attempt ends, with its timer or earlier by a Retry.
EndDelay(i) ==
  /\ \/ Gone(i) /\ Move(i, "waiting", "finishing")
     \/ Move(i, "waiting", "reconnecting")
  /\ UNCHANGED <<tunnel, socket, relay, states, view, editing, stopping, managerClosed, managerDone>>

\* The settings are resolved and the runtime opened, for as long as the context lives.
Reconnect(i) ==
  /\ \/ Gone(i) /\ Move(i, "reconnecting", "finishing") /\ UNCHANGED socket
     \/ ~Gone(i) /\ Move(i, "reconnecting", "waiting") /\ UNCHANGED socket
     \/ ~Gone(i) /\ Move(i, "reconnecting", "reconnected") /\ OpenSocket(i)
  /\ UNCHANGED <<tunnel, relay, states, view, editing, stopping, managerClosed, managerDone>>

\* The new runtime serves, unless the tunnel was stopped meanwhile.
UseRuntime(i) ==
  /\ \/ /\ ~Gone(i) /\ Move(i, "reconnected", "serving")
        /\ Transition(i, "running") /\ UNCHANGED socket
     \/ Gone(i) /\ Move(i, "reconnected", "finishing") /\ CloseSocket(i) /\ UNCHANGED <<tunnel, view>>
  /\ UNCHANGED <<relay, states, editing, stopping, managerClosed, managerDone>>

\* finish: the entry is removed and the end published before done is closed.
FinishTunnel(i) ==
  /\ Move(i, "finishing", "none")
  /\ tunnel' = [tunnel EXCEPT ![i] = [@ EXCEPT !.status = "stopped", !.cancelled = TRUE, !.done = TRUE]]
  /\ states' = [states EXCEPT ![tunnel[i].id] = IF @ = i THEN NoInstance ELSE @]
  /\ Publish(i, "removed")
  /\ UNCHANGED <<socket, relay, editing, stopping, managerClosed, managerDone>>

---------------------------------------------------------------------------
Unlocked(i) == [tunnel EXCEPT ![i].operation = "none"]
Unlock(i) == tunnel' = Unlocked(i)

\* Under the operation's lock: the context is cancelled and the status published.
StopFor(i, operation) ==
  /\ tunnel' = [tunnel EXCEPT ![i] = [@ EXCEPT !.status = "stopping", !.cancelled = TRUE,
                                               !.operation = operation]]
  /\ Publish(i, "stopping")

\* Stop and its wait for the operation of the tunnel that the id means now.
StopTunnel ==
  /\ stopping = NoStop
  /\ \E i \in Instances : /\ states[tunnel[i].id] = i
                          /\ stopping' = [at |-> "locking", of |-> i]
  /\ UNCHANGED <<tunnel, worker, socket, relay, states, view, editing, managerClosed, managerDone>>

\* Another tunnel may have the id; a tunnel that stops already is not published again.
LockStop ==
  LET i == stopping.of
  IN /\ stopping.at = "locking" /\ tunnel[i].operation = "none"
     /\ IF states[tunnel[i].id] # i
        THEN stopping' = NoStop /\ UNCHANGED <<tunnel, view>>  \* not found
        ELSE /\ stopping' = [stopping EXCEPT !.at = "waiting"]
             /\ IF tunnel[i].status \in {"stopping", "stopped"}
                THEN /\ tunnel' = [tunnel EXCEPT ![i] = [@ EXCEPT !.cancelled = TRUE, !.operation = "stop"]]
                     /\ UNCHANGED view
                ELSE StopFor(i, "stop")
     /\ UNCHANGED <<worker, socket, relay, states, editing, managerClosed, managerDone>>

\* The call returns when the worker is done, or when its context ends.
EndStop ==
  /\ stopping.at = "waiting"
  /\ Unlock(stopping.of) /\ stopping' = NoStop
  /\ UNCHANGED <<worker, socket, relay, states, view, editing, managerClosed, managerDone>>

---------------------------------------------------------------------------
\* Replace
EditTunnel ==
  /\ editing = NoEdit /\ ~managerClosed
  /\ \E i \in Instances : /\ states[tunnel[i].id] = i
                          /\ editing' = [NoEdit EXCEPT !.at = "locking", !.of = i]
  /\ UNCHANGED <<tunnel, worker, socket, relay, states, view, stopping, managerClosed, managerDone>>

LockEdit ==
  LET i == editing.of
  IN /\ editing.at = "locking" /\ tunnel[i].operation = "none"
     /\ IF states[tunnel[i].id] # i \/ tunnel[i].status # "running"
        THEN editing' = NoEdit /\ UNCHANGED <<tunnel, view>>
        ELSE /\ editing' = [editing EXCEPT !.at = "waiting", !.id = tunnel[i].id]
             /\ StopFor(i, "edit")
     /\ UNCHANGED <<worker, socket, relay, states, stopping, managerClosed, managerDone>>

\* mutant: the replacement is started without waiting for the worker
NotAwaited(i) == TRUE
Stopped(i) == tunnel[i].done

\* The tunnel has stopped: start the replacement.  The wait also ends with the context
\* of the call; then nothing is started or restored.
StartReplacement ==
  /\ editing.at = "waiting"
  /\ \/ /\ Stopped(editing.of)
        /\ \E i \in Unused, id \in NewIds :
             /\ tunnel' = [tunnel EXCEPT ![i] = [Free EXCEPT !.id = id]]
             /\ worker' = [worker EXCEPT ![i] = IF managerClosed THEN "refused" ELSE "opening"]
             /\ editing' = [editing EXCEPT !.at = "starting", !.by = i]
     \/ Unlock(editing.of) /\ editing' = NoEdit /\ UNCHANGED worker
  /\ UNCHANGED <<socket, relay, states, view, stopping, managerClosed, managerDone>>

\* The replacement was refused: the first tunnel is started again, under its id.
Restore ==
  /\ editing.at = "starting" /\ worker[editing.by] = "refused" /\ ~managerClosed
  /\ tunnel' = [tunnel EXCEPT ![editing.by] = [Free EXCEPT !.id = editing.id]]
  /\ worker' = [worker EXCEPT ![editing.by] = "opening"]
  /\ editing' = [editing EXCEPT !.at = "restoring"]
  /\ UNCHANGED <<socket, relay, states, view, stopping, managerClosed, managerDone>>

\* Replace returns: a start succeeded, or the last one failed.
EndEdit ==
  LET i == editing.by
  IN /\ editing.at \in {"starting", "restoring"}
     /\ \/ /\ worker[i] = "refused" /\ (editing.at = "restoring" \/ managerClosed)
           /\ tunnel' = [Unlocked(editing.of) EXCEPT ![i] = Free]
           /\ worker' = [worker EXCEPT ![i] = "none"]
        \/ /\ worker[i] \notin {"opening", "opened", "refused"}
           /\ Unlock(editing.of) /\ UNCHANGED worker
     /\ editing' = NoEdit
     /\ UNCHANGED <<socket, relay, states, view, stopping, managerClosed, managerDone>>

---------------------------------------------------------------------------
\* Close: admission ends, all contexts are cancelled; done when every worker is.
CloseManager ==
  /\ ~managerClosed /\ managerClosed' = TRUE
  /\ UNCHANGED <<tunnel, worker, socket, relay, states, view, editing, stopping, managerDone>>

ManagerDone ==
  /\ managerClosed /\ ~managerDone /\ editing = NoEdit
  /\ \A i \in Instances : worker[i] = "none"
  /\ managerDone' = TRUE
  /\ UNCHANGED <<tunnel, worker, socket, relay, states, view, editing, stopping, managerClosed>>

TunnelInit ==
  /\ tunnel = [i \in Instances |-> Free] /\ worker = [i \in Instances |-> "none"]
  /\ socket = [i \in Instances |-> FALSE] /\ relay = [i \in Instances |-> FALSE]
  /\ states = [id \in TunnelIds \cup {0} |-> NoInstance]
  /\ view = [id \in TunnelIds \cup {0} |-> "removed"]
  /\ editing = NoEdit /\ stopping = NoStop /\ managerClosed = FALSE /\ managerDone = FALSE

Run(i) ==
  \/ OpenRuntime(i) \/ RegisterTunnel(i) \/ StartRefused(i) \/ Drained(i) \/ EndDelay(i)
  \/ Reconnect(i) \/ UseRuntime(i) \/ FinishTunnel(i)
Calls == LockStop \/ EndStop \/ LockEdit \/ StartReplacement \/ Restore \/ EndEdit

TunnelNext ==
  \/ \E i \in Instances : Run(i) \/ Accept(i) \/ EndForward(i) \/ EndServe(i)
  \/ StartTunnel \/ StopTunnel \/ EditTunnel \/ Calls \/ CloseManager \/ ManagerDone

TunnelSpec == TunnelInit /\ [][TunnelNext]_tunnelVars

\* Goroutines run; opening a runtime has a timeout and is cancelled with the context,
\* and what a closed runtime tracked ends.
TunnelDuty(i, k) ==
  CASE k = 1 -> Run(i) [] k = 2 -> ~socket[i] /\ EndForward(i) [] OTHER -> Gone(i) /\ EndServe(i)
TunnelFairness ==
  /\ \A i \in Instances, k \in 1..3 : WF_tunnelVars(TunnelDuty(i, k))
  /\ WF_tunnelVars(Calls) /\ WF_tunnelVars(ManagerDone)

---------------------------------------------------------------------------
TunnelRecord == [id : TunnelIds \cup {0},
  status : {"none", "running", "retrying", "stopping", "stopped"}, cancelled : BOOLEAN,
  operation : {"none", "stop", "edit"}, done : BOOLEAN]
EditRecord == [at : {"none", "locking", "waiting", "starting", "restoring"},
  of : Instances \cup {NoInstance}, by : Instances \cup {NoInstance}, id : TunnelIds \cup {0}]

TunnelTypes ==
  /\ tunnel \in [Instances -> TunnelRecord]
  /\ worker \in [Instances -> {"none", "opening", "opened", "refused", "serving", "draining", "waiting",
                               "reconnecting", "reconnected", "finishing"}]
  /\ socket \in [Instances -> BOOLEAN] /\ relay \in [Instances -> BOOLEAN]
  /\ states \in [TunnelIds \cup {0} -> Instances \cup {NoInstance}]
  /\ view \in [TunnelIds \cup {0} -> {"running", "retrying", "stopping", "removed"}]
  /\ editing \in EditRecord
  /\ stopping \in [at : {"none", "locking", "waiting"}, of : Instances \cup {NoInstance}]
  /\ managerClosed \in BOOLEAN /\ managerDone \in BOOLEAN

Busy(i) == socket[i] \/ relay[i]

\* Whatever is lost, retried, stopped, edited or shut down: a tunnel that is done has
\* nothing open, and neither has the manager; an edit never opens a replacement beside
\* the tunnel it replaces, whose ports it may want; and a page that follows the events
\* knows exactly the tunnels there are, each with its status.
TunnelsAreTrue ==
  /\ \A i \in Instances : tunnel[i].done \/ managerDone => ~Busy(i)
  /\ editing.at \in {"starting", "restoring"} => ~Busy(editing.of)
  /\ \A id \in TunnelIds :
       IF states[id] = NoInstance THEN view[id] = "removed"
       ELSE view[id] = tunnel[states[id]].status

\* What must come to an end: a tunnel that is told to stop, a call of Replace that waits
\* for one, the shutdown.
TunnelEnding(i) == tunnel[i].status = "stopping"
TunnelsClosing  == editing # NoEdit \/ (managerClosed /\ ~managerDone)
=============================================================================
