------------------------- MODULE Connections_proofs --------------------------
(***************************************************************************)
(* Proofs about SshTunnels, for any tunnel objects and any ids, about      *)
(* ConnectionCatalogue, for any hosts, proxies, operations and revisions,  *)
(* about McpConnections, for any number of links, about ModelRuntime, for  *)
(* any providers, requests and imports, and about the components of        *)
(* connections side by side.                                               *)
(*                                                                         *)
(* TunnelsAreTrue compares what is open, what is published and what the    *)
(* manager lists.  What is inductive is the place of each worker: it says  *)
(* which of the socket and the forwarded connection may exist, and that    *)
(* the manager lists a tunnel exactly while its worker is between its      *)
(* registration and its end.                                               *)
(*                                                                         *)
(* ApprovedConnectionOnly compares what an approved operation connects to  *)
(* with what was approved.  What is inductive is what each hop it has read *)
(* says of the rows: as long as their revisions are those it read, they    *)
(* name the same jump host and the same proxy.                             *)
(*                                                                         *)
(* ServesSavedSettings and RuntimeServesSaved compare what serves with     *)
(* what is saved.  What is inductive is what an attempt to connect, and a  *)
(* reload, has read so far: as long as nobody is about to cancel the one   *)
(* or to begin the other again, it is what the rows say.                   *)
(***************************************************************************)
EXTENDS MCConnections, Shells_proofs, RemoteFiles_proofs, FiniteSetTheorems, TLAPS

---------------------------------------------------------------------------
(* The inductive invariant of tunnels *)

\* A worker between registration and end.
Working(i) == worker[i] \in {"serving", "draining", "waiting", "reconnecting", "reconnected", "finishing"}

\* What is open, by the place of the worker.
Place(i) ==
  /\ socket[i] => worker[i] \in {"opened", "serving", "reconnected"}
  /\ relay[i] => worker[i] \in {"serving", "draining"}
  /\ tunnel[i].done => worker[i] = "none"
  /\ worker[i] # "none" => tunnel[i].id \in TunnelIds
PlaceStory == \A i \in Instances : Place(i)

\* The manager lists the tunnels at work, each under its id.
ListStory ==
  /\ \A i \in Instances : Working(i) => states[tunnel[i].id] = i
  /\ \A id \in TunnelIds \cup {0}, i \in Instances : states[id] = i => tunnel[i].id = id /\ Working(i)

\* What was published of each id.
ViewStory ==
  \A id \in TunnelIds : /\ states[id] = NoInstance => view[id] = "removed"
                        /\ \A i \in Instances : states[id] = i => view[id] = tunnel[i].status

\* The tunnel that is replaced has ended before another is started.
EditStory ==
  /\ editing.at = "none" => editing = NoEdit
  /\ editing.at # "none" => editing.of \in Instances
  /\ editing.at \in {"waiting", "starting", "restoring"} => editing.id \in TunnelIds
  /\ editing.at \in {"starting", "restoring"} =>
       editing.by \in Instances /\ editing.by # editing.of /\ worker[editing.of] = "none"
StopStory == stopping.at # "none" => stopping.of \in Instances

ManagerDoneStory == managerDone => managerClosed /\ editing = NoEdit /\ \A i \in Instances : worker[i] = "none"

TunnelInv ==
  /\ TunnelTypes /\ PlaceStory /\ ListStory /\ ViewStory
  /\ EditStory /\ StopStory /\ ManagerDoneStory

---------------------------------------------------------------------------
(* A step of one tunnel *)

\* Nothing of the others changes that the stories speak of.
OnlyWorkerMoves(i) ==
  \A j \in Instances \ {i} :
    /\ worker'[j] = worker[j] /\ socket'[j] = socket[j] /\ relay'[j] = relay[j]
    /\ tunnel'[j].id = tunnel[j].id /\ tunnel'[j].status = tunnel[j].status
    /\ tunnel'[j].done = tunnel[j].done

\* A tunnel that stays in the list, or out of it, and publishes its changes while it is in.
LEMMA OneMoved ==
  ASSUME TunnelTypes, PlaceStory, ListStory, ViewStory, NEW i \in Instances, OnlyWorkerMoves(i),
         Place(i)', Working(i)' <=> Working(i), Working(i) => tunnel'[i].id = tunnel[i].id,
         tunnel'[i].id \in TunnelIds \cup {0}, states' = states,
         \/ view' = view /\ (Working(i) => tunnel'[i].status = tunnel[i].status)
         \/ Working(i) /\ view' = [view EXCEPT ![tunnel[i].id] = tunnel'[i].status]
  PROVE  PlaceStory' /\ ListStory' /\ ViewStory'
<1>1. PlaceStory'
  BY DEF PlaceStory, Place, OnlyWorkerMoves
<1>2. \A j \in Instances : /\ Working(j)' <=> Working(j)
                           /\ Working(j) => tunnel'[j].id = tunnel[j].id
  BY DEF OnlyWorkerMoves, Working
<1>3. ListStory'
  BY <1>2 DEF ListStory
<1>4. ViewStory'
  <2>1. ASSUME NEW id \in TunnelIds PROVE (states[id] = NoInstance => view[id] = "removed")'
    <3>1. CASE view' = view
      BY <3>1 DEF ViewStory
    <3>2. CASE Working(i) /\ view' = [view EXCEPT ![tunnel[i].id] = tunnel'[i].status]
      <4>1. states[tunnel[i].id] # NoInstance
        BY <3>2, InstanceAssumption DEF ListStory
      <4> QED
        BY <3>2, <4>1 DEF ViewStory, TunnelTypes
    <3> QED
      BY <3>1, <3>2
  <2>2. ASSUME NEW id \in TunnelIds, NEW j \in Instances, states[id] = j
        PROVE  view'[id] = tunnel'[j].status
    <3>1. tunnel[j].id = id /\ Working(j) /\ view[id] = tunnel[j].status
      BY <2>2 DEF ListStory, ViewStory
    <3>2. CASE j = i
      BY <3>1, <3>2 DEF TunnelTypes
    <3>3. CASE j # i
      <4>1. tunnel'[j].status = tunnel[j].status
        BY <3>3 DEF OnlyWorkerMoves
      <4>2. Working(i) => tunnel[i].id # id
        BY <2>2, <3>3 DEF ListStory
      <4> QED
        BY <3>1, <4>1, <4>2 DEF TunnelTypes
    <3> QED
      BY <3>2, <3>3
  <2> QED
    BY <2>1, <2>2 DEF ViewStory
<1> QED
  BY <1>1, <1>3, <1>4

\* What a step of a worker leaves alone: the calls and the manager.
CallsStay(i) ==
  /\ UNCHANGED <<editing, stopping, managerClosed, managerDone>>
  /\ \A j \in Instances \ {i} : worker'[j] = worker[j]
  /\ worker[i] = "none" => worker'[i] = "none"

LEMMA CallsKept ==
  ASSUME EditStory, StopStory, ManagerDoneStory, NEW i \in Instances, CallsStay(i)
  PROVE  EditStory' /\ StopStory' /\ ManagerDoneStory'
<1>1. \A j \in Instances : worker[j] = "none" => worker'[j] = "none"
  BY DEF CallsStay
<1>2. EditStory'
  BY <1>1 DEF EditStory, CallsStay
<1> QED
  BY <1>1, <1>2 DEF StopStory, ManagerDoneStory, CallsStay

---------------------------------------------------------------------------
(* The invariant is inductive *)

LEMMA TunnelInvInit == TunnelInit => TunnelInv
<1> SUFFICES ASSUME TunnelInit PROVE TunnelInv
  OBVIOUS
<1>1. TunnelTypes
  BY DEF TunnelInit, TunnelTypes, Free, NoEdit, NoStop, TunnelRecord, EditRecord
<1>2. PlaceStory
  BY DEF TunnelInit, PlaceStory, Place, Free
<1>3. ListStory /\ ViewStory
  BY InstanceAssumption DEF TunnelInit, ListStory, ViewStory, Working
<1>4. EditStory /\ StopStory /\ ManagerDoneStory
  BY DEF TunnelInit, EditStory, StopStory, ManagerDoneStory, NoEdit, NoStop
<1> QED
  BY <1>1, <1>2, <1>3, <1>4 DEF TunnelInv

\* The steps of a worker that keep its tunnel in the list, or out of it.
LEMMA WorkerInv ==
  ASSUME TunnelInv, NEW i \in Instances,
         \/ OpenRuntime(i) \/ Accept(i) \/ EndForward(i) \/ EndServe(i)
         \/ EndDelay(i) \/ Reconnect(i)
  PROVE  TunnelInv'
<1> USE DEF TunnelInv
<1>1. UNCHANGED <<tunnel, states, view, editing, stopping, managerClosed, managerDone>>
  BY DEF OpenRuntime, Accept, EndForward, EndServe, EndDelay, Reconnect
<1>2. /\ worker' \in [Instances -> {"none", "opening", "opened", "refused", "serving", "draining", "waiting",
                                    "reconnecting", "reconnected", "finishing"}]
      /\ socket' \in [Instances -> BOOLEAN] /\ relay' \in [Instances -> BOOLEAN]
      /\ \A j \in Instances \ {i} : worker'[j] = worker[j] /\ socket'[j] = socket[j] /\ relay'[j] = relay[j]
  BY DEF OpenRuntime, Accept, EndForward, EndServe, EndDelay, Reconnect, Move, OpenSocket, CloseSocket, TunnelTypes
<1>3. Place(i)
  BY DEF PlaceStory
<1>4. (worker[i] = "none" => worker'[i] = "none") /\ (Working(i)' <=> Working(i)) /\ Place(i)'
  <2>1. CASE OpenRuntime(i)
    BY <2>1, <1>1, <1>3 DEF OpenRuntime, Move, OpenSocket, Place, Working, TunnelTypes
  <2>2. CASE Accept(i)
    BY <2>2, <1>1, <1>3 DEF Accept, Place, Working, TunnelTypes
  <2>3. CASE EndForward(i)
    BY <2>3, <1>1, <1>3 DEF EndForward, Place, Working, TunnelTypes
  <2>4. CASE EndServe(i)
    BY <2>4, <1>1, <1>3 DEF EndServe, Move, CloseSocket, Place, Working, TunnelTypes
  <2>5. CASE EndDelay(i)
    BY <2>5, <1>1, <1>3 DEF EndDelay, Move, Place, Working, TunnelTypes
  <2>6. CASE Reconnect(i)
    BY <2>6, <1>1, <1>3 DEF Reconnect, Move, OpenSocket, Place, Working, TunnelTypes
  <2> QED
    BY <2>1, <2>2, <2>3, <2>4, <2>5, <2>6
<1>5. TunnelTypes'
  BY <1>1, <1>2 DEF TunnelTypes
<1>6. OnlyWorkerMoves(i) /\ CallsStay(i)
  BY <1>1, <1>2, <1>4 DEF OnlyWorkerMoves, CallsStay
<1>7. tunnel'[i].id \in TunnelIds \cup {0}
  BY <1>1 DEF TunnelTypes, TunnelRecord
<1> QED
  BY <1>1, <1>4, <1>5, <1>6, <1>7, OneMoved, CallsKept

\* A change of status, of a tunnel that is in the list, is published.
LEMMA Transited ==
  ASSUME TunnelTypes, NEW i \in Instances, NEW status \in {"running", "retrying"}, Transition(i, status)
  PROVE  /\ tunnel' \in [Instances -> TunnelRecord]
         /\ tunnel'[i].id = tunnel[i].id /\ tunnel'[i].status = status /\ tunnel'[i].done = tunnel[i].done
         /\ \A j \in Instances \ {i} : tunnel'[j] = tunnel[j]
         /\ view' = [view EXCEPT ![tunnel[i].id] = status]
         /\ view' \in [TunnelIds \cup {0} -> {"running", "retrying", "stopping", "removed"}]
<1>1. tunnel' = [tunnel EXCEPT ![i].status = status] /\ view' = [view EXCEPT ![tunnel[i].id] = status]
  BY DEF Transition, Publish
<1>2. view' \in [TunnelIds \cup {0} -> {"running", "retrying", "stopping", "removed"}]
  BY <1>1 DEF TunnelTypes
<1> QED
  BY <1>1, <1>2 DEF TunnelTypes, TunnelRecord

LEMMA DrainedInv ==
  ASSUME TunnelInv, NEW i \in Instances, Drained(i) \/ UseRuntime(i)
  PROVE  TunnelInv'
<1> USE DEF TunnelInv
<1>1. UNCHANGED <<relay, states, editing, stopping, managerClosed, managerDone>>
  BY DEF Drained, UseRuntime
<1>2. /\ worker' \in [Instances -> {"none", "opening", "opened", "refused", "serving", "draining", "waiting",
                                    "reconnecting", "reconnected", "finishing"}]
      /\ socket' \in [Instances -> BOOLEAN]
      /\ \A j \in Instances \ {i} : worker'[j] = worker[j] /\ socket'[j] = socket[j]
      /\ Working(i) /\ Working(i)'
  BY DEF Drained, UseRuntime, Move, CloseSocket, TunnelTypes, Working
<1>3. \/ UNCHANGED <<tunnel, view>>
      \/ \E status \in {"running", "retrying"} : Transition(i, status)
  BY DEF Drained, UseRuntime
<1>4. /\ tunnel' \in [Instances -> TunnelRecord]
      /\ tunnel'[i].id = tunnel[i].id /\ tunnel'[i].done = tunnel[i].done
      /\ \A j \in Instances \ {i} : tunnel'[j] = tunnel[j]
      /\ \/ view' = view /\ tunnel'[i].status = tunnel[i].status
         \/ view' = [view EXCEPT ![tunnel[i].id] = tunnel'[i].status]
      /\ view' \in [TunnelIds \cup {0} -> {"running", "retrying", "stopping", "removed"}]
  <2>1. CASE UNCHANGED <<tunnel, view>>
    BY <2>1 DEF TunnelTypes
  <2>2. CASE \E status \in {"running", "retrying"} : Transition(i, status)
    BY <2>2, Transited
  <2> QED
    BY <1>3, <2>1, <2>2
<1>5. Place(i)'
  <2>1. Place(i)
    BY DEF PlaceStory
  <2>2. socket'[i] => worker'[i] \in {"opened", "serving", "reconnected"}
    BY <2>1, <1>2 DEF Drained, UseRuntime, Move, CloseSocket, TunnelTypes, Place
  <2>3. relay'[i] => worker'[i] \in {"serving", "draining"}
    BY <2>1, <1>1 DEF Drained, UseRuntime, Move, TunnelTypes, Place
  <2>4. ~tunnel'[i].done /\ tunnel'[i].id \in TunnelIds
    BY <2>1, <1>2, <1>4 DEF Place, Working
  <2> QED
    BY <2>2, <2>3, <2>4 DEF Place
<1>6. TunnelTypes'
  BY <1>1, <1>2, <1>4 DEF TunnelTypes
<1>7. OnlyWorkerMoves(i) /\ CallsStay(i)
  BY <1>1, <1>2, <1>4 DEF OnlyWorkerMoves, CallsStay, Working
<1>8. tunnel'[i].id \in TunnelIds \cup {0}
  BY <1>4 DEF TunnelTypes, TunnelRecord
<1> QED
  BY <1>1, <1>2, <1>4, <1>5, <1>6, <1>7, <1>8, OneMoved, CallsKept

\* A tunnel object that is taken, or given back, is in no list.
LEMMA ObjectInv ==
  ASSUME TunnelTypes, PlaceStory, ListStory, ViewStory, NEW i \in Instances, NEW id \in TunnelIds \cup {0},
         ~Working(i), ~socket[i], ~relay[i],
         NEW to \in {"none", "opening", "refused"}, to # "none" => id \in TunnelIds,
         \A j \in Instances \ {i} :
           tunnel'[j].id = tunnel[j].id /\ tunnel'[j].status = tunnel[j].status /\ tunnel'[j].done = tunnel[j].done,
         tunnel'[i] = [Free EXCEPT !.id = id], worker' = [worker EXCEPT ![i] = to],
         UNCHANGED <<socket, relay, states, view>>
  PROVE  PlaceStory' /\ ListStory' /\ ViewStory'
<1>1. worker'[i] = to /\ \A j \in Instances \ {i} : worker'[j] = worker[j]
  BY DEF TunnelTypes
<1>2. tunnel'[i].id = id /\ ~tunnel'[i].done
  BY DEF Free
<1>3. Place(i)' /\ ~Working(i)'
  BY <1>1, <1>2 DEF Place, Working
<1>4. OnlyWorkerMoves(i)
  BY <1>1 DEF OnlyWorkerMoves
<1> QED
  BY <1>2, <1>3, <1>4, OneMoved

\* Objects at rest have nothing open.
LEMMA IdleWorkers ==
  ASSUME PlaceStory, NEW i \in Instances, worker[i] \in {"none", "opening", "refused"}
  PROVE  ~Working(i) /\ ~socket[i] /\ ~relay[i]
BY DEF PlaceStory, Place, Working

LEMMA AllocatedTypes ==
  ASSUME TunnelTypes, NEW i \in Instances, NEW id \in TunnelIds \cup {0}, NEW to \in {"none", "opening", "refused"},
         NEW was \in [Instances -> TunnelRecord],
         tunnel' = [was EXCEPT ![i] = [Free EXCEPT !.id = id]], worker' = [worker EXCEPT ![i] = to],
         UNCHANGED <<socket, relay, states, view>>
  PROVE  /\ tunnel' \in [Instances -> TunnelRecord] /\ tunnel'[i] = [Free EXCEPT !.id = id]
         /\ \A j \in Instances \ {i} : tunnel'[j] = was[j]
         /\ worker' \in [Instances -> {"none", "opening", "opened", "refused", "serving", "draining", "waiting",
                                       "reconnecting", "reconnected", "finishing"}]
BY DEF TunnelTypes, TunnelRecord, Free

LEMMA StartTunnelInv ==
  ASSUME TunnelInv, StartTunnel
  PROVE  TunnelInv'
<1> USE DEF TunnelInv
<1>1. PICK i \in Unused, id \in NewIds : Allocate(i, id)
  BY DEF StartTunnel
<1>2. /\ i \in Instances /\ worker[i] = "none" /\ i \notin {editing.of, editing.by, stopping.of} /\ id \in TunnelIds
      /\ ~managerClosed /\ UNCHANGED <<socket, relay, states, view, editing, stopping, managerClosed, managerDone>>
      /\ tunnel' = [tunnel EXCEPT ![i] = [Free EXCEPT !.id = id]] /\ worker' = [worker EXCEPT ![i] = "opening"]
  BY <1>1 DEF Unused, NewIds, StartTunnel, Allocate
<1>3. PlaceStory' /\ ListStory' /\ ViewStory'
  BY <1>2, AllocatedTypes, IdleWorkers, ObjectInv, ZenonT(60) DEF TunnelTypes
<1>4. TunnelTypes'
  BY <1>2, AllocatedTypes DEF TunnelTypes
<1>5. EditStory'
  BY <1>2 DEF EditStory, TunnelTypes
<1>6. StopStory' /\ ManagerDoneStory'
  BY <1>2 DEF StopStory, ManagerDoneStory
<1> QED
  BY <1>3, <1>4, <1>5, <1>6

\* Free is the record of no id.
LEMMA FreeHasNoId == Free = [Free EXCEPT !.id = 0]
BY DEF Free

LEMMA RefusedInv ==
  ASSUME TunnelInv, NEW i \in Instances, StartRefused(i)
  PROVE  TunnelInv'
<1> USE DEF TunnelInv
<1>1. /\ worker[i] = "refused" /\ i # editing.by
      /\ UNCHANGED <<socket, relay, states, view, editing, stopping, managerClosed, managerDone>>
      /\ tunnel' = [tunnel EXCEPT ![i] = [Free EXCEPT !.id = 0]] /\ worker' = [worker EXCEPT ![i] = "none"]
  BY FreeHasNoId DEF StartRefused, Move
<1>2. PlaceStory' /\ ListStory' /\ ViewStory'
  BY <1>1, AllocatedTypes, IdleWorkers, ObjectInv, ZenonT(60) DEF TunnelTypes
<1>3. TunnelTypes'
  BY <1>1, AllocatedTypes DEF TunnelTypes
<1>4. CallsStay(i)
  BY <1>1 DEF CallsStay, TunnelTypes
<1> QED
  BY <1>2, <1>3, <1>4, CallsKept

\* A tunnel enters the list and the view together, where its id was free.
LEMMA RegisterInv ==
  ASSUME TunnelInv, NEW i \in Instances, RegisterTunnel(i)
  PROVE  TunnelInv'
<1> USE DEF TunnelInv
<1> DEFINE id == tunnel[i].id
<1>1. worker[i] = "opened" /\ Place(i) /\ UNCHANGED <<relay, editing, stopping, managerClosed, managerDone>>
  BY DEF RegisterTunnel, Move, PlaceStory
<1>2. id \in TunnelIds /\ ~tunnel[i].done /\ ~relay[i] /\ ~Working(i)
  BY <1>1 DEF Place, Working
<1>3. CASE /\ worker' = [worker EXCEPT ![i] = "refused"] /\ socket' = [socket EXCEPT ![i] = FALSE]
           /\ UNCHANGED <<tunnel, states, view>>
  <2>1. Place(i)' /\ ~Working(i)'
    BY <1>1, <1>2, <1>3 DEF Place, Working, TunnelTypes
  <2>2. OnlyWorkerMoves(i) /\ CallsStay(i)
    BY <1>1, <1>3 DEF OnlyWorkerMoves, CallsStay, TunnelTypes
  <2>3. TunnelTypes'
    BY <1>1, <1>3 DEF TunnelTypes
  <2> QED
    BY <1>2, <1>3, <2>1, <2>2, <2>3, OneMoved, CallsKept
<1>4. CASE /\ worker' = [worker EXCEPT ![i] = "serving"] /\ socket' = socket
           /\ Transition(i, "running") /\ states[id] = NoInstance /\ states' = [states EXCEPT ![id] = i]
  <2>1. /\ tunnel' \in [Instances -> TunnelRecord]
        /\ tunnel'[i].id = id /\ tunnel'[i].status = "running" /\ ~tunnel'[i].done
        /\ \A j \in Instances \ {i} : tunnel'[j] = tunnel[j]
        /\ view' = [view EXCEPT ![id] = "running"]
        /\ view' \in [TunnelIds \cup {0} -> {"running", "retrying", "stopping", "removed"}]
    BY <1>2, <1>4, Transited
  <2>2. /\ worker'[i] = "serving" /\ \A j \in Instances \ {i} : worker'[j] = worker[j]
        /\ states'[id] = i /\ \A other \in (TunnelIds \cup {0}) \ {id} : states'[other] = states[other]
    BY <1>2, <1>4 DEF TunnelTypes
  <2> HIDE DEF id
  <2>3. TunnelTypes'
    BY <1>1, <1>2, <1>4, <2>1 DEF TunnelTypes
  <2>4. PlaceStory'
    <3>1. Place(i)'
      BY <1>2, <2>1, <2>2, <1>1 DEF Place
    <3> QED
      BY <1>1, <1>4, <2>1, <2>2, <3>1 DEF PlaceStory, Place
  <2>5. ListStory'
    <3>1. ASSUME NEW j \in Instances, Working(j)' PROVE states'[tunnel'[j].id] = j
      <4>1. CASE j = i
        BY <2>1, <2>2, <4>1
      <4>2. CASE j # i
        <5>1. Working(j) /\ tunnel'[j] = tunnel[j]
          BY <2>1, <2>2, <3>1, <4>2 DEF Working
        <5>2. states[tunnel[j].id] = j /\ tunnel[j].id \in TunnelIds \cup {0}
          BY <5>1 DEF ListStory, TunnelTypes, TunnelRecord
        <5>3. tunnel[j].id # id
          BY <1>4, <5>2, InstanceAssumption DEF id
        <5> QED
          BY <2>2, <5>1, <5>2, <5>3
      <4> QED
        BY <4>1, <4>2
    <3>2. ASSUME NEW other \in TunnelIds \cup {0}, NEW j \in Instances, states'[other] = j
          PROVE  tunnel'[j].id = other /\ Working(j)'
      <4>1. CASE other = id
        BY <2>1, <2>2, <3>2, <4>1 DEF Working
      <4>2. CASE other # id
        <5>1. tunnel[j].id = other /\ Working(j)
          BY <2>2, <3>2, <4>2 DEF ListStory
        <5> QED
          BY <1>2, <2>1, <2>2, <5>1 DEF Working
      <4> QED
        BY <4>1, <4>2
    <3> QED
      BY <3>1, <3>2 DEF ListStory
  <2>6. ViewStory'
    <3>1. \A other \in TunnelIds \ {id} : view'[other] = view[other]
      BY <2>1 DEF TunnelTypes
    <3>2. view'[id] = "running"
      BY <1>2, <2>1 DEF TunnelTypes, id
    <3>3. \A other \in TunnelIds \ {id} : states[other] # i
      BY <1>2 DEF ListStory
    <3> QED
      BY <2>1, <2>2, <3>1, <3>2, <3>3, InstanceAssumption DEF ViewStory
  <2>7. CallsStay(i)
    BY <1>1, <2>2 DEF CallsStay
  <2> QED
    BY <2>3, <2>4, <2>5, <2>6, <2>7, CallsKept
<1> QED
  BY <1>3, <1>4 DEF RegisterTunnel, Move, CloseSocket

\* A tunnel leaves the list and the view together.
LEMMA FinishInv ==
  ASSUME TunnelInv, NEW i \in Instances, FinishTunnel(i)
  PROVE  TunnelInv'
<1> USE DEF TunnelInv
<1> DEFINE id == tunnel[i].id
<1>1. /\ worker[i] = "finishing" /\ worker' = [worker EXCEPT ![i] = "none"] /\ Place(i) /\ Working(i)
      /\ UNCHANGED <<socket, relay, editing, stopping, managerClosed, managerDone>>
  BY DEF FinishTunnel, Move, PlaceStory, Working
<1>2. id \in TunnelIds /\ states[id] = i /\ ~socket[i] /\ ~relay[i]
  BY <1>1 DEF Place, ListStory
<1>3. /\ tunnel' \in [Instances -> TunnelRecord] /\ tunnel'[i].id = id
      /\ \A j \in Instances \ {i} : tunnel'[j] = tunnel[j]
  <2> DEFINE now == [tunnel[i] EXCEPT !.status = "stopped", !.cancelled = TRUE, !.done = TRUE]
  <2>1. tunnel[i] \in TunnelRecord
    BY DEF TunnelTypes
  <2>2. now \in TunnelRecord /\ now.id = id
    BY <2>1 DEF TunnelRecord
  <2>3. tunnel' = [tunnel EXCEPT ![i] = now]
    BY DEF FinishTunnel
  <2> HIDE DEF now, id
  <2> QED
    BY <2>2, <2>3 DEF TunnelTypes
<1>4. states' = [states EXCEPT ![id] = NoInstance] /\ view' = [view EXCEPT ![id] = "removed"]
  <2>1. states' = [states EXCEPT ![tunnel[i].id] = IF states[tunnel[i].id] = i THEN NoInstance ELSE states[tunnel[i].id]]
    BY DEF FinishTunnel
  <2> QED
    BY <1>2, <2>1 DEF FinishTunnel, Publish
<1>5. /\ worker'[i] = "none" /\ \A j \in Instances \ {i} : worker'[j] = worker[j]
      /\ states'[id] = NoInstance /\ \A other \in (TunnelIds \cup {0}) \ {id} : states'[other] = states[other]
      /\ view'[id] = "removed" /\ \A other \in TunnelIds \ {id} : view'[other] = view[other]
  BY <1>1, <1>2, <1>4 DEF TunnelTypes
<1> HIDE DEF id
<1>6. TunnelTypes'
  BY <1>1, <1>3, <1>4 DEF TunnelTypes
<1>7. PlaceStory'
  <2>1. Place(i)'
    BY <1>1, <1>2, <1>5 DEF Place
  <2> QED
    BY <1>1, <1>3, <1>5, <2>1 DEF PlaceStory, Place
<1>8. ListStory'
  <2>1. ASSUME NEW j \in Instances, Working(j)' PROVE states'[tunnel'[j].id] = j
    <3>1. j # i /\ Working(j) /\ tunnel'[j] = tunnel[j]
      BY <1>3, <1>5, <2>1 DEF Working
    <3>2. states[tunnel[j].id] = j /\ tunnel[j].id \in TunnelIds \cup {0}
      BY <3>1 DEF ListStory, TunnelTypes, TunnelRecord
    <3>3. tunnel[j].id # id
      BY <1>2, <3>1, <3>2
    <3> QED
      BY <1>5, <3>1, <3>2, <3>3
  <2>2. ASSUME NEW other \in TunnelIds \cup {0}, NEW j \in Instances, states'[other] = j
        PROVE  tunnel'[j].id = other /\ Working(j)'
    <3>1. other # id /\ states[other] = j
      BY <1>5, <2>2, InstanceAssumption
    <3>2. tunnel[j].id = other /\ Working(j)
      BY <3>1 DEF ListStory
    <3>3. j # i
      BY <3>1, <3>2 DEF id
    <3> QED
      BY <1>3, <1>5, <3>2, <3>3 DEF Working
  <2> QED
    BY <2>1, <2>2 DEF ListStory
<1>9. ViewStory'
  <2>1. \A other \in TunnelIds \ {id} : states[other] # i
    BY DEF ListStory, id
  <2> QED
    BY <1>3, <1>5, <2>1, InstanceAssumption DEF ViewStory
<1>10. CallsStay(i)
  BY <1>1, <1>5 DEF CallsStay
<1> QED
  BY <1>6, <1>7, <1>8, <1>9, <1>10, CallsKept

\* The calls of the operator: they change the record of a tunnel, whose worker stays.
LEMMA Changed ==
  ASSUME TunnelTypes, PlaceStory, ListStory, ViewStory, NEW i \in Instances, NEW now \in TunnelRecord,
         now.id = tunnel[i].id, now.done = tunnel[i].done, tunnel' = [tunnel EXCEPT ![i] = now],
         UNCHANGED <<worker, socket, relay, states>>,
         \/ view' = view /\ now.status = tunnel[i].status
         \/ states[tunnel[i].id] = i /\ now.status = "stopping" /\ view' = [view EXCEPT ![tunnel[i].id] = "stopping"]
  PROVE  /\ tunnel' \in [Instances -> TunnelRecord]
         /\ view' \in [TunnelIds \cup {0} -> {"running", "retrying", "stopping", "removed"}]
         /\ PlaceStory' /\ ListStory' /\ ViewStory'
<1>1. /\ tunnel' \in [Instances -> TunnelRecord] /\ tunnel'[i] = now
      /\ \A j \in Instances \ {i} : tunnel'[j] = tunnel[j]
  BY DEF TunnelTypes
<1>2. view' \in [TunnelIds \cup {0} -> {"running", "retrying", "stopping", "removed"}]
  BY DEF TunnelTypes
<1>3. Place(i)' /\ (Working(i)' <=> Working(i))
  BY <1>1 DEF PlaceStory, Place, Working
<1>4. OnlyWorkerMoves(i)
  BY <1>1 DEF OnlyWorkerMoves
<1>5. tunnel[i].id \in TunnelIds \cup {0}
  BY DEF TunnelTypes, TunnelRecord
<1>6. states[tunnel[i].id] = i => Working(i)
  BY <1>5 DEF ListStory
<1> QED
  BY <1>1, <1>2, <1>3, <1>4, <1>5, <1>6, OneMoved

LEMMA StopForChanges ==
  ASSUME TunnelTypes, PlaceStory, ListStory, ViewStory, NEW i \in Instances, NEW operation \in {"stop", "edit"},
         StopFor(i, operation), states[tunnel[i].id] = i, UNCHANGED <<worker, socket, relay, states>>
  PROVE  /\ tunnel' \in [Instances -> TunnelRecord]
         /\ view' \in [TunnelIds \cup {0} -> {"running", "retrying", "stopping", "removed"}]
         /\ PlaceStory' /\ ListStory' /\ ViewStory'
<1> DEFINE now == [tunnel[i] EXCEPT !.status = "stopping", !.cancelled = TRUE, !.operation = operation]
<1>1. tunnel[i] \in TunnelRecord
  BY DEF TunnelTypes
<1>2. now \in TunnelRecord /\ now.id = tunnel[i].id /\ now.done = tunnel[i].done /\ now.status = "stopping"
  BY <1>1 DEF TunnelRecord
<1>3. tunnel' = [tunnel EXCEPT ![i] = now] /\ view' = [view EXCEPT ![tunnel[i].id] = "stopping"]
  BY DEF StopFor, Publish
<1> HIDE DEF now
<1> QED
  BY <1>2, <1>3, Changed

LEMMA UnlockChanges ==
  ASSUME TunnelTypes, PlaceStory, ListStory, ViewStory, NEW i \in Instances, Unlock(i),
         UNCHANGED <<worker, socket, relay, states, view>>
  PROVE  /\ tunnel' \in [Instances -> TunnelRecord]
         /\ PlaceStory' /\ ListStory' /\ ViewStory'
<1> DEFINE now == [tunnel[i] EXCEPT !.operation = "none"]
<1>1. tunnel[i] \in TunnelRecord
  BY DEF TunnelTypes
<1>2. now \in TunnelRecord /\ now.id = tunnel[i].id /\ now.done = tunnel[i].done /\ now.status = tunnel[i].status
  BY <1>1 DEF TunnelRecord
<1>3. tunnel' = [tunnel EXCEPT ![i] = now]
  BY DEF Unlock, Unlocked
<1> HIDE DEF now
<1> QED
  BY <1>2, <1>3, Changed

LEMMA StopInv ==
  ASSUME TunnelInv, StopTunnel \/ LockStop \/ EndStop
  PROVE  TunnelInv'
<1> USE DEF TunnelInv
<1>1. /\ UNCHANGED <<worker, socket, relay, states, editing, managerClosed, managerDone>>
      /\ stopping' \in [at : {"none", "locking", "waiting"}, of : Instances \cup {NoInstance}] /\ StopStory'
  BY DEF StopTunnel, LockStop, EndStop, NoStop, StopStory, TunnelTypes
<1>2. /\ tunnel' \in [Instances -> TunnelRecord]
      /\ view' \in [TunnelIds \cup {0} -> {"running", "retrying", "stopping", "removed"}]
      /\ PlaceStory' /\ ListStory' /\ ViewStory'
  <2>1. CASE UNCHANGED <<tunnel, view>>
    BY <1>1, <2>1 DEF TunnelTypes, PlaceStory, Place, ListStory, Working, ViewStory
  <2> DEFINE i == stopping.of
  <2>2. CASE EndStop
    <3>1. i \in Instances /\ Unlock(i) /\ view' = view
      BY <2>2 DEF EndStop, StopStory
    <3> QED
      BY <1>1, <3>1, UnlockChanges DEF TunnelTypes
  <2>3. CASE LockStop /\ states[tunnel[i].id] = i
    <3>1. i \in Instances
      BY <2>3 DEF LockStop, StopStory
    <3>2. CASE StopFor(i, "stop")
      BY <1>1, <2>3, <3>1, <3>2, StopForChanges
    <3>3. CASE tunnel' = [tunnel EXCEPT ![i] = [tunnel[i] EXCEPT !.cancelled = TRUE, !.operation = "stop"]] /\ view' = view
      <4> DEFINE now == [tunnel[i] EXCEPT !.cancelled = TRUE, !.operation = "stop"]
      <4>1. tunnel[i] \in TunnelRecord
        BY <3>1 DEF TunnelTypes
      <4>2. now \in TunnelRecord /\ now.id = tunnel[i].id /\ now.done = tunnel[i].done /\ now.status = tunnel[i].status
        BY <4>1 DEF TunnelRecord
      <4>3. tunnel' = [tunnel EXCEPT ![i] = now]
        BY <3>3
      <4> HIDE DEF now, i
      <4> QED
        BY <1>1, <3>1, <3>3, <4>2, <4>3, Changed
    <3> QED
      BY <2>3, <3>2, <3>3 DEF LockStop
  <2> QED
    BY <2>1, <2>2, <2>3 DEF StopTunnel, LockStop
<1>3. TunnelTypes'
  BY <1>1, <1>2 DEF TunnelTypes
<1>4. EditStory' /\ ManagerDoneStory'
  BY <1>1 DEF EditStory, ManagerDoneStory
<1> QED
  BY <1>1, <1>2, <1>3, <1>4

LEMMA LockEditInv ==
  ASSUME TunnelInv, EditTunnel \/ LockEdit
  PROVE  TunnelInv'
<1> USE DEF TunnelInv
<1> DEFINE i == editing.of
<1>1. UNCHANGED <<worker, socket, relay, states, stopping, managerClosed, managerDone>> /\ ~managerDone
  <2>1. UNCHANGED <<worker, socket, relay, states, stopping, managerClosed, managerDone>>
    BY DEF EditTunnel, LockEdit
  <2>2. ~managerClosed \/ editing.at = "locking"
    BY DEF EditTunnel, LockEdit
  <2>3. NoEdit.at = "none"
    BY DEF NoEdit
  <2> QED
    BY <2>1, <2>2, <2>3 DEF ManagerDoneStory
<1>2. CASE LockEdit /\ states[tunnel[i].id] = i /\ StopFor(i, "edit")
           /\ editing' = [editing EXCEPT !.at = "waiting", !.id = tunnel[i].id]
  <2>1. i \in Instances
    BY <1>2 DEF LockEdit, EditStory
  <2>2. tunnel[i].id \in TunnelIds
    BY <1>2, <2>1 DEF ListStory, PlaceStory, Place, Working, TunnelTypes, TunnelRecord
  <2>3. editing' \in EditRecord /\ editing'.at = "waiting" /\ editing'.of = i /\ editing'.id \in TunnelIds
    BY <1>2, <2>2 DEF TunnelTypes, EditRecord
  <2>4. /\ tunnel' \in [Instances -> TunnelRecord]
        /\ view' \in [TunnelIds \cup {0} -> {"running", "retrying", "stopping", "removed"}]
        /\ PlaceStory' /\ ListStory' /\ ViewStory'
    BY <1>1, <1>2, <2>1, StopForChanges
  <2>5. TunnelTypes'
    BY <1>1, <2>3, <2>4 DEF TunnelTypes
  <2>6. EditStory'
    BY <2>1, <2>3 DEF EditStory
  <2> QED
    BY <1>1, <2>4, <2>5, <2>6 DEF StopStory, ManagerDoneStory
<1>3. CASE /\ UNCHANGED <<tunnel, view>>
           /\ \/ editing' = NoEdit
              \/ \E j \in Instances : editing' = [NoEdit EXCEPT !.at = "locking", !.of = j]
  <2>1. editing' \in EditRecord /\ EditStory'
    <3>1. CASE editing' = NoEdit
      BY <3>1 DEF NoEdit, EditRecord, EditStory
    <3>2. ASSUME NEW j \in Instances, editing' = [NoEdit EXCEPT !.at = "locking", !.of = j]
          PROVE  editing' \in EditRecord /\ EditStory'
      <4>1. editing' = [at |-> "locking", of |-> j, by |-> NoInstance, id |-> 0]
        BY <3>2 DEF NoEdit
      <4> QED
        BY <4>1 DEF EditRecord, EditStory
    <3> QED
      BY <1>3, <3>1, <3>2
  <2>2. TunnelTypes'
    BY <1>1, <1>3, <2>1 DEF TunnelTypes
  <2> QED
    BY <1>1, <1>3, <2>1, <2>2, ZenonT(60) DEF PlaceStory, Place, ListStory, Working, ViewStory, StopStory, ManagerDoneStory
<1> QED
  BY <1>2, <1>3 DEF EditTunnel, LockEdit

\* The tunnel to be replaced is done, so its worker has left; an unused object takes its place.
LEMMA ReplacementInv ==
  ASSUME TunnelInv, StartReplacement
  PROVE  TunnelInv'
<1> USE DEF TunnelInv
<1>1. /\ editing.at = "waiting" /\ editing.of \in Instances /\ editing.id \in TunnelIds /\ ~managerDone
      /\ UNCHANGED <<socket, relay, states, view, stopping, managerClosed, managerDone>>
  <2>1. editing.at = "waiting" /\ UNCHANGED <<socket, relay, states, view, stopping, managerClosed, managerDone>>
    BY DEF StartReplacement
  <2>2. ~managerDone
    BY <2>1 DEF ManagerDoneStory, NoEdit
  <2> QED
    BY <2>1, <2>2 DEF EditStory
<1>2. ASSUME NEW i \in Unused, NEW id \in NewIds, Stopped(editing.of),
             tunnel' = [tunnel EXCEPT ![i] = [Free EXCEPT !.id = id]],
             worker' = [worker EXCEPT ![i] = IF managerClosed THEN "refused" ELSE "opening"],
             editing' = [editing EXCEPT !.at = "starting", !.by = i]
      PROVE  TunnelInv'
  <2> DEFINE to == IF managerClosed THEN "refused" ELSE "opening"
  <2>1. to \in {"none", "opening", "refused"} /\ worker' = [worker EXCEPT ![i] = to]
    BY <1>2
  <2>2. i \in Instances /\ worker[i] = "none" /\ i # editing.of /\ id \in TunnelIds
    BY DEF Unused, NewIds
  <2> HIDE DEF to
  <2>3. PlaceStory' /\ ListStory' /\ ViewStory'
    BY <1>1, <1>2, <2>1, <2>2, AllocatedTypes, IdleWorkers, ObjectInv, ZenonT(60) DEF TunnelTypes
  <2>4. worker[editing.of] = "none"
    BY <1>1, <1>2 DEF Stopped, PlaceStory, Place
  <2>5. /\ editing' \in EditRecord /\ editing'.at = "starting" /\ editing'.of = editing.of
        /\ editing'.by = i /\ editing'.id = editing.id
    <3>1. editing \in EditRecord
      BY DEF TunnelTypes
    <3> QED
      BY <1>2, <2>2, <3>1 DEF EditRecord
  <2>6. TunnelTypes'
    BY <1>1, <1>2, <2>1, <2>2, <2>5, AllocatedTypes DEF TunnelTypes
  <2>7. worker'[editing.of] = "none"
    BY <1>1, <2>1, <2>2, <2>4 DEF TunnelTypes
  <2>8. EditStory'
    BY <1>1, <2>2, <2>5, <2>7 DEF EditStory
  <2> QED
    BY <1>1, <2>3, <2>6, <2>8 DEF StopStory, ManagerDoneStory
<1>3. CASE Unlock(editing.of) /\ editing' = NoEdit /\ UNCHANGED worker
  <2>1. tunnel' \in [Instances -> TunnelRecord] /\ PlaceStory' /\ ListStory' /\ ViewStory'
    BY <1>1, <1>3, UnlockChanges
  <2>2. editing' \in EditRecord /\ EditStory'
    BY <1>3 DEF NoEdit, EditRecord, EditStory
  <2>3. TunnelTypes'
    BY <1>1, <1>3, <2>1, <2>2 DEF TunnelTypes
  <2> QED
    BY <1>1, <2>1, <2>2, <2>3 DEF StopStory, ManagerDoneStory
<1> QED
  BY <1>2, <1>3 DEF StartReplacement

LEMMA RestoreInv ==
  ASSUME TunnelInv, Restore
  PROVE  TunnelInv'
<1> USE DEF TunnelInv
<1> DEFINE i == editing.by
<1>1. /\ editing.at = "starting" /\ worker[i] = "refused" /\ ~managerClosed
      /\ tunnel' = [tunnel EXCEPT ![i] = [Free EXCEPT !.id = editing.id]]
      /\ worker' = [worker EXCEPT ![i] = "opening"] /\ editing' = [editing EXCEPT !.at = "restoring"]
      /\ UNCHANGED <<socket, relay, states, view, stopping, managerClosed, managerDone>>
  BY DEF Restore
<1>2. /\ i \in Instances /\ i # editing.of /\ worker[editing.of] = "none"
      /\ editing.of \in Instances /\ editing.id \in TunnelIds
  BY <1>1 DEF EditStory
<1>3. /\ editing' \in EditRecord /\ editing'.at = "restoring" /\ editing'.of = editing.of
      /\ editing'.by = i /\ editing'.id = editing.id
  <2>1. editing \in EditRecord
    BY DEF TunnelTypes
  <2> QED
    BY <1>1, <2>1 DEF EditRecord
<1> HIDE DEF i
<1>4. PlaceStory' /\ ListStory' /\ ViewStory'
  <2>1. ~Working(i) /\ ~socket[i] /\ ~relay[i]
    BY <1>1, <1>2, IdleWorkers
  <2>2. tunnel'[i] = [Free EXCEPT !.id = editing.id] /\ \A j \in Instances \ {i} : tunnel'[j] = tunnel[j]
    BY <1>1, <1>2, AllocatedTypes DEF TunnelTypes
  <2> DEFINE to == "opening"
             id == editing.id
  <2>3. /\ to \in {"none", "opening", "refused"} /\ worker' = [worker EXCEPT ![i] = to]
        /\ id \in TunnelIds /\ tunnel'[i] = [Free EXCEPT !.id = id]
        /\ \A j \in Instances \ {i} : tunnel'[j].id = tunnel[j].id /\ tunnel'[j].status = tunnel[j].status
                                     /\ tunnel'[j].done = tunnel[j].done
    BY <1>1, <1>2, <2>2
  <2> HIDE DEF to, id
  <2> QED
    BY <1>1, <1>2, <2>1, <2>3, ObjectInv
<1>5. TunnelTypes'
  BY <1>1, <1>2, <1>3, AllocatedTypes DEF TunnelTypes
<1>6. worker'[editing.of] = "none"
  BY <1>1, <1>2 DEF TunnelTypes
<1>7. EditStory'
  BY <1>2, <1>3, <1>6 DEF EditStory
<1> QED
  BY <1>1, <1>4, <1>5, <1>7 DEF StopStory, ManagerDoneStory

LEMMA EndEditInv ==
  ASSUME TunnelInv, EndEdit
  PROVE  TunnelInv'
<1> USE DEF TunnelInv
<1> DEFINE i == editing.by
<1>1. /\ editing.at \in {"starting", "restoring"} /\ editing' = NoEdit
      /\ UNCHANGED <<socket, relay, states, view, stopping, managerClosed, managerDone>>
  BY DEF EndEdit
<1>2. i \in Instances /\ editing.of \in Instances /\ ~managerDone
  <2>1. NoEdit.at = "none"
    BY DEF NoEdit
  <2>2. ~managerDone
    BY <1>1, <2>1 DEF ManagerDoneStory
  <2> QED
    BY <1>1, <2>2 DEF EditStory
<1>3. editing' \in EditRecord /\ EditStory'
  BY <1>1 DEF NoEdit, EditRecord, EditStory
<1>4. CASE /\ worker[i] = "refused" /\ worker' = [worker EXCEPT ![i] = "none"]
           /\ tunnel' = [Unlocked(editing.of) EXCEPT ![i] = Free]
  <2> DEFINE was == Unlocked(editing.of)
  <2>1. /\ was \in [Instances -> TunnelRecord]
        /\ \A j \in Instances : was[j].id = tunnel[j].id /\ was[j].status = tunnel[j].status /\ was[j].done = tunnel[j].done
    <3> DEFINE now == [tunnel[editing.of] EXCEPT !.operation = "none"]
    <3>1. tunnel[editing.of] \in TunnelRecord
      BY <1>2 DEF TunnelTypes
    <3>2. /\ now \in TunnelRecord /\ now.id = tunnel[editing.of].id
          /\ now.status = tunnel[editing.of].status /\ now.done = tunnel[editing.of].done
      BY <3>1 DEF TunnelRecord
    <3>3. was = [tunnel EXCEPT ![editing.of] = now]
      BY DEF Unlocked
    <3> HIDE DEF now, was
    <3> QED
      BY <1>2, <3>2, <3>3 DEF TunnelTypes
  <2>2. tunnel' = [was EXCEPT ![i] = [Free EXCEPT !.id = 0]]
    BY <1>4, FreeHasNoId
  <2> HIDE DEF was, i
  <2>3. /\ tunnel' \in [Instances -> TunnelRecord] /\ tunnel'[i] = [Free EXCEPT !.id = 0]
        /\ \A j \in Instances \ {i} : tunnel'[j] = was[j]
        /\ worker' \in [Instances -> {"none", "opening", "opened", "refused", "serving", "draining", "waiting",
                                      "reconnecting", "reconnected", "finishing"}]
    BY <1>1, <1>2, <1>4, <2>1, <2>2, AllocatedTypes
  <2>4. ~Working(i) /\ ~socket[i] /\ ~relay[i]
    BY <1>2, <1>4, IdleWorkers
  <2>5. PlaceStory' /\ ListStory' /\ ViewStory'
    <3>1. \A j \in Instances \ {i} :
            tunnel'[j].id = tunnel[j].id /\ tunnel'[j].status = tunnel[j].status /\ tunnel'[j].done = tunnel[j].done
      BY <2>1, <2>3
    <3> DEFINE to == "none"
    <3>2. to \in {"none", "opening", "refused"} /\ worker' = [worker EXCEPT ![i] = to] /\ ~(to # "none")
      BY <1>4
    <3> HIDE DEF to
    <3> QED
      BY <1>1, <1>2, <2>3, <2>4, <3>1, <3>2, ObjectInv
  <2>6. TunnelTypes'
    BY <1>1, <1>3, <2>3 DEF TunnelTypes
  <2> QED
    BY <1>1, <1>2, <1>3, <2>5, <2>6 DEF StopStory, ManagerDoneStory
<1>5. CASE Unlock(editing.of) /\ UNCHANGED worker
  <2>1. tunnel' \in [Instances -> TunnelRecord] /\ PlaceStory' /\ ListStory' /\ ViewStory'
    BY <1>1, <1>2, <1>5, UnlockChanges
  <2>2. TunnelTypes'
    BY <1>1, <1>3, <1>5, <2>1 DEF TunnelTypes
  <2> QED
    BY <1>1, <1>2, <1>3, <2>1, <2>2 DEF StopStory, ManagerDoneStory
<1> QED
  BY <1>4, <1>5 DEF EndEdit

LEMMA TunnelInvStep == TunnelInv /\ [TunnelNext]_tunnelVars => TunnelInv'
<1> SUFFICES ASSUME TunnelInv, [TunnelNext]_tunnelVars PROVE TunnelInv'
  OBVIOUS
<1>1. ASSUME UNCHANGED <<tunnel, worker, socket, relay, states, view, editing, stopping>>,
             managerClosed' \in BOOLEAN, managerDone' \in BOOLEAN, ManagerDoneStory'
      PROVE  TunnelInv'
  BY <1>1 DEF TunnelInv, TunnelTypes, PlaceStory, Place, ListStory, Working, ViewStory, EditStory, StopStory
<1>2. CASE CloseManager
  BY <1>1, <1>2 DEF CloseManager, TunnelInv, TunnelTypes, ManagerDoneStory
<1>3. CASE ManagerDone
  BY <1>1, <1>3 DEF ManagerDone, TunnelInv, TunnelTypes, ManagerDoneStory
<1>4. CASE UNCHANGED tunnelVars
  BY <1>1, <1>4 DEF tunnelVars, TunnelInv, TunnelTypes, ManagerDoneStory
<1>5. ASSUME NEW i \in Instances, Run(i) PROVE TunnelInv'
  BY <1>5, WorkerInv, DrainedInv, RegisterInv, RefusedInv, FinishInv DEF Run
<1>6. CASE Calls
  BY <1>6, StopInv, LockEditInv, ReplacementInv, RestoreInv, EndEditInv DEF Calls
<1> QED
  BY <1>2, <1>3, <1>4, <1>5, <1>6, WorkerInv, StartTunnelInv, StopInv, LockEditInv DEF TunnelNext

---------------------------------------------------------------------------
(* What follows *)

LEMMA IInvTrue == TunnelInv => TunnelsAreTrue
<1> SUFFICES ASSUME TunnelInv PROVE TunnelsAreTrue
  OBVIOUS
<1> USE DEF TunnelInv
<1>1. \A i \in Instances : worker[i] = "none" => ~Busy(i)
  BY DEF PlaceStory, Place, Busy
<1>2. \A i \in Instances : tunnel[i].done \/ managerDone => worker[i] = "none"
  BY DEF PlaceStory, Place, ManagerDoneStory
<1>3. editing.at \in {"starting", "restoring"} => ~Busy(editing.of)
  BY <1>1 DEF EditStory
<1>4. ASSUME NEW id \in TunnelIds
      PROVE  IF states[id] = NoInstance THEN view[id] = "removed" ELSE view[id] = tunnel[states[id]].status
  <2>1. states[id] \in Instances \cup {NoInstance}
    BY DEF TunnelTypes
  <2> QED
    BY <2>1 DEF ViewStory
<1> QED
  BY <1>1, <1>2, <1>3, <1>4 DEF TunnelsAreTrue

\* The state of the manager keeps its type, for any objects and ids.
THEOREM TunnelTypesHold == TunnelSpec => []TunnelTypes
<1>1. TunnelInv => TunnelTypes
  BY DEF TunnelInv
<1> QED
  BY TunnelInvInit, TunnelInvStep, <1>1, PTL DEF TunnelSpec

\* A tunnel that is done, and a manager that is, has closed its socket and its forwarded
\* connections; Replace opens nothing beside the tunnel it replaces; and who follows the
\* events of sshtunnel.Manager knows the tunnels there are and their statuses.
THEOREM TunnelsTrue == TunnelSpec => []TunnelsAreTrue
BY TunnelInvInit, TunnelInvStep, IInvTrue, PTL DEF TunnelSpec

---------------------------------------------------------------------------
(* The inductive invariant of the catalogue *)

DigestHop == [host : Hosts, rev : Nat, proxyRev : Nat]
ConnHop   == [host : Hosts, rev : Nat, proxyRev : Nat, proxy : Proxies \cup {NoProxy}, agent : BOOLEAN]
HostRecord  == [rev : Nat, jump : Hosts \cup {NoHost}, proxy : Proxies \cup {NoProxy}, agent : BOOLEAN, shell : Seq(DigestHop)]
ProxyRecord == [rev : Nat, ssh : BOOLEAN]
OpPlaces == {"idle", "over", "asked", "waiting", "probing", "running"} \cup Resolving
OpRecord == [at : OpPlaces, agent : BOOLEAN, script : BOOLEAN, conn : Seq(ConnHop), next : Hosts \cup {NoHost},
             shell : Seq(DigestHop), digest : Seq(DigestHop)]

RowTypes ==
  /\ hosts \in [Hosts -> HostRecord] /\ proxies \in [Proxies -> ProxyRecord]
  /\ op \in OpRecord /\ clock \in Nat \ {0} /\ whole \in BOOLEAN /\ overtaken \in BOOLEAN

\* No row is younger than the clock: a revision never returns.
ClockStory ==
  /\ \A h \in Hosts : hosts[h].rev <= clock
  /\ \A p \in Proxies : proxies[p].rev <= clock

\* A hop was read from a row, and is its content for as long as the row keeps that revision.
HopFrom(hop) ==
  /\ hop.rev \in 1..clock /\ hop.proxyRev <= clock
  /\ hop.proxy = NoProxy => hop.proxyRev = 0
  /\ hosts[hop.host].rev = hop.rev => hosts[hop.host].proxy = hop.proxy /\ hosts[hop.host].agent = hop.agent
ReadStory ==
  /\ \A i \in 1..Len(op.conn) :
       /\ HopFrom(op.conn[i])
       /\ op.conn[i].proxy # NoProxy /\ op.conn[i].proxyRev = 0 => i = Len(op.conn)
       /\ \A j \in 1..Len(op.conn) : i # j => op.conn[i].host # op.conn[j].host
  /\ Len(op.conn) <= MaxJumps + 1
  /\ op.at \in Resolving /\ op.conn = <<>> => op.next = Target

\* So is what the request was bound to, and an Agent's request was given access to it.
BoundTo(bound) ==
  /\ bound.rev \in 1..clock /\ bound.proxyRev <= clock
  /\ hosts[bound.host].rev = bound.rev =>
       /\ hosts[bound.host].proxy # NoProxy <=> bound.proxyRev # 0
       /\ op.agent => hosts[bound.host].agent
  /\ \A i \in 1..Len(op.conn) :
       op.conn[i].host = bound.host /\ op.conn[i].rev = bound.rev =>
         /\ op.conn[i].proxy # NoProxy <=> bound.proxyRev # 0
         /\ op.agent => op.conn[i].agent
BindingStory ==
  /\ \A i \in 1..Len(op.digest) : BoundTo(op.digest[i])
  /\ op.digest = <<>> <=> op.at \in {"idle", "over", "binding"}

\* A row that is not the bound one now will not be it again, nor be read as it.
CatalogueGone(bound) ==
  /\ \/ hosts[bound.host].rev # bound.rev
     \/ hosts[bound.host].proxy # NoProxy /\ proxies[hosts[bound.host].proxy].rev # bound.proxyRev
  /\ \A i \in 1..Len(op.conn) :
       op.conn[i].host = bound.host /\ op.conn[i].rev = bound.rev =>
         /\ op.conn[i].proxyRev # bound.proxyRev
         /\ op.conn[i].proxyRev = 0 => proxies[op.conn[i].proxy].rev # bound.proxyRev
WholeStory == op.digest # <<>> /\ ~whole => \E i \in 1..Len(op.digest) : CatalogueGone(op.digest[i])

\* The connection that was verified.
VerifiedStory ==
  /\ op.at \in {"probing", "running"} => Digest(op.conn) = op.digest /\ whole /\ AccessGiven
  /\ op.at = "running" => op.shell \in {<<>>, op.digest} /\ (op.script => op.shell = op.digest)

ConnectionInv ==
  RowTypes /\ ClockStory /\ ReadStory /\ BindingStory /\ WholeStory /\ VerifiedStory

---------------------------------------------------------------------------
(* What the catalogue does to a connection *)

\* A row keeps its content, is deleted, or gets a revision that nobody has seen.
CatalogueMoves ==
  /\ clock' \in Nat \ {0} /\ clock <= clock'
  /\ hosts' \in [Hosts -> HostRecord] /\ proxies' \in [Proxies -> ProxyRecord]
  /\ \A h \in Hosts :
       \/ hosts'[h].rev = hosts[h].rev /\ hosts'[h].proxy = hosts[h].proxy /\ hosts'[h].agent = hosts[h].agent
       \/ hosts'[h].rev = 0 \/ (hosts'[h].rev = clock' /\ clock < clock')
  /\ \A p \in Proxies :
       proxies'[p].rev = proxies[p].rev \/ proxies'[p].rev = 0 \/ (proxies'[p].rev = clock' /\ clock < clock')
  /\ op' = op /\ whole' \in BOOLEAN /\ (whole => whole') /\ overtaken' \in BOOLEAN

\* The hops of the connection and of the digest have their types.
LEMMA HopTypes ==
  ASSUME RowTypes
  PROVE  /\ \A i \in 1..Len(op.conn) : op.conn[i] \in ConnHop
         /\ \A i \in 1..Len(op.digest) : op.digest[i] \in DigestHop
         /\ Len(op.conn) \in Nat /\ Len(op.digest) \in Nat
         /\ op.conn \in Seq(ConnHop) /\ op.digest \in Seq(DigestHop)
<1>1. op.conn \in Seq(ConnHop) /\ op.digest \in Seq(DigestHop)
  BY DEF RowTypes, OpRecord
<1> QED
  BY <1>1

\* The digest keeps the hops, without what it does not bind.
LEMMA DigestHops ==
  ASSUME NEW conn \in Seq(ConnHop)
  PROVE  /\ Digest(conn) \in Seq(DigestHop) /\ Len(Digest(conn)) = Len(conn) /\ DOMAIN Digest(conn) = 1..Len(conn)
         /\ \A i \in 1..Len(conn) : /\ Digest(conn)[i].host = conn[i].host /\ Digest(conn)[i].rev = conn[i].rev
                                    /\ Digest(conn)[i].proxyRev = conn[i].proxyRev
<1>1. Len(conn) \in Nat /\ DOMAIN conn = 1..Len(conn) /\ \A i \in 1..Len(conn) : conn[i] \in ConnHop
  OBVIOUS
<1>2. Digest(conn) = [i \in 1..Len(conn) |-> HopOf(conn[i].host, conn[i].rev, conn[i].proxyRev)]
  BY <1>1 DEF Digest
<1>3. \A i \in 1..Len(conn) : HopOf(conn[i].host, conn[i].rev, conn[i].proxyRev) \in DigestHop
  BY <1>1 DEF HopOf, ConnHop, DigestHop
<1>4. \A i \in 1..Len(conn) : Digest(conn)[i] = HopOf(conn[i].host, conn[i].rev, conn[i].proxyRev)
  BY <1>2
<1>5. Digest(conn) \in Seq(DigestHop) /\ Len(Digest(conn)) = Len(conn) /\ DOMAIN Digest(conn) = 1..Len(conn)
  BY <1>1, <1>2, <1>3
<1> QED
  BY <1>4, <1>5 DEF HopOf

\* The types of the fields of the rows.
LEMMA RowFields ==
  ASSUME RowTypes
  PROVE  /\ \A h \in Hosts : hosts[h].rev \in Nat /\ hosts[h].proxy \in Proxies \cup {NoProxy} /\ hosts[h].agent \in BOOLEAN
         /\ \A p \in Proxies : proxies[p].rev \in Nat
         /\ \A i \in 1..Len(op.conn) : /\ op.conn[i].host \in Hosts /\ op.conn[i].rev \in Nat /\ op.conn[i].proxyRev \in Nat
                                       /\ op.conn[i].proxy \in Proxies \cup {NoProxy} /\ op.conn[i].agent \in BOOLEAN
         /\ \A i \in 1..Len(op.digest) : op.digest[i].host \in Hosts /\ op.digest[i].rev \in Nat /\ op.digest[i].proxyRev \in Nat
         /\ clock \in Nat
<1>1. \A h \in Hosts : hosts[h] \in HostRecord
  BY DEF RowTypes
<1>2. \A p \in Proxies : proxies[p] \in ProxyRecord
  BY DEF RowTypes
<1> QED
  BY <1>1, <1>2, HopTypes DEF HostRecord, ProxyRecord, ConnHop, DigestHop, RowTypes

\* A hop stays what was read, whatever the catalogue does.
LEMMA HopStays ==
  ASSUME RowTypes, CatalogueMoves, NEW hop \in ConnHop, HopFrom(hop)
  PROVE  HopFrom(hop)'
<1>1. /\ hop.host \in Hosts /\ hop.rev \in 1..clock /\ hop.proxyRev \in Nat /\ hop.proxyRev <= clock
      /\ clock \in Nat /\ clock' \in Nat /\ clock <= clock' /\ hosts[hop.host].rev \in Nat
  BY RowFields DEF ConnHop, HopFrom, CatalogueMoves
<1>2. hosts'[hop.host].rev = hop.rev =>
        hosts[hop.host].rev = hop.rev /\ hosts'[hop.host].proxy = hosts[hop.host].proxy /\ hosts'[hop.host].agent = hosts[hop.host].agent
  BY <1>1 DEF CatalogueMoves
<1> QED
  BY <1>1, <1>2 DEF HopFrom

\* So does all that is known of the connection of an operation.
LEMMA ConnectionStays == ASSUME ConnectionInv, CatalogueMoves PROVE ConnectionInv'
<1> USE DEF ConnectionInv
<1>1. op' = op
  BY DEF CatalogueMoves
<1>2. RowTypes'
  BY DEF CatalogueMoves, RowTypes
<1>3. ClockStory'
  <2>1. ASSUME NEW h \in Hosts PROVE hosts'[h].rev <= clock'
    BY RowFields DEF CatalogueMoves, ClockStory
  <2>2. ASSUME NEW p \in Proxies PROVE proxies'[p].rev <= clock'
    BY RowFields DEF CatalogueMoves, ClockStory
  <2> QED
    BY <2>1, <2>2 DEF ClockStory
<1>4. ASSUME NEW i \in 1..Len(op.conn), HopFrom(op.conn[i]) PROVE HopFrom(op.conn[i])'
  <2>1. op.conn[i] \in ConnHop
    BY HopTypes
  <2>2. ASSUME NEW hop \in ConnHop, hop = op.conn[i], HopFrom(hop)' PROVE HopFrom(op.conn[i])'
    BY <2>2, <1>1 DEF HopFrom
  <2> QED
    BY <2>1, <2>2, <1>4, HopStays
<1>5. ReadStory'
  BY <1>1, <1>4 DEF ReadStory
<1>6. ASSUME NEW i \in 1..Len(op.digest), BoundTo(op.digest[i]) PROVE BoundTo(op.digest[i])'
  <2>1. PICK b \in DigestHop : b = op.digest[i]
    BY HopTypes
  <2>2. /\ b.host \in Hosts /\ b.rev \in Nat /\ b.proxyRev \in Nat /\ clock \in Nat /\ clock' \in Nat
        /\ hosts[b.host].rev \in Nat /\ clock <= clock'
    BY <2>1, RowFields DEF DigestHop, CatalogueMoves
  <2>3. b.rev \in 1..clock /\ b.proxyRev <= clock
    BY <1>6, <2>1 DEF BoundTo
  <2>4. b.rev \in 1..clock' /\ b.proxyRev <= clock'
    BY <2>2, <2>3
  <2>5. hosts'[b.host].rev = b.rev =>
          hosts[b.host].rev = b.rev /\ hosts'[b.host].proxy = hosts[b.host].proxy /\ hosts'[b.host].agent = hosts[b.host].agent
    BY <2>2, <2>3 DEF CatalogueMoves
  <2>6. hosts'[b.host].rev = b.rev =>
          /\ hosts'[b.host].proxy # NoProxy <=> b.proxyRev # 0
          /\ op.agent => hosts'[b.host].agent
    BY <1>6, <2>1, <2>5 DEF BoundTo
  <2> QED
    BY <1>1, <1>6, <2>1, <2>4, <2>6 DEF BoundTo
<1>7. BindingStory'
  BY <1>1, <1>6 DEF BindingStory
<1>8. ASSUME NEW i \in 1..Len(op.digest), CatalogueGone(op.digest[i]) PROVE CatalogueGone(op.digest[i])'
  <2> DEFINE b == op.digest[i]
  <2>1. b.rev \in 1..clock /\ b.proxyRev \in 0..clock /\ b.host \in Hosts /\ BoundTo(b)
    BY RowFields DEF BindingStory, BoundTo
  <2>2. \/ hosts'[b.host].rev # b.rev
        \/ hosts'[b.host].proxy # NoProxy /\ proxies'[hosts'[b.host].proxy].rev # b.proxyRev
    <3>1. CASE hosts'[b.host].rev # b.rev
      BY <3>1
    <3>2. CASE hosts'[b.host].rev = b.rev
      <4>1. hosts[b.host].rev = b.rev /\ hosts'[b.host].proxy = hosts[b.host].proxy
        BY <2>1, <3>2, RowFields, SMTT(30) DEF CatalogueMoves
      <4>2. hosts[b.host].proxy \in Proxies /\ proxies[hosts[b.host].proxy].rev # b.proxyRev /\ b.proxyRev # 0
        BY <1>8, <2>1, <4>1, RowFields DEF CatalogueGone, BoundTo
      <4>3. proxies'[hosts[b.host].proxy].rev # b.proxyRev
        BY <2>1, <4>2, RowFields, SMTT(30) DEF CatalogueMoves
      <4> QED
        BY <4>1, <4>2, <4>3, CatalogueAssumption
    <3> QED
      BY <3>1, <3>2
  <2>3. ASSUME NEW j \in 1..Len(op.conn), op.conn[j].host = b.host, op.conn[j].rev = b.rev, op.conn[j].proxyRev = 0
        PROVE  proxies'[op.conn[j].proxy].rev # b.proxyRev
    <3>1. b.proxyRev # 0 /\ proxies[op.conn[j].proxy].rev # b.proxyRev
      BY <1>8, <2>3 DEF CatalogueGone
    <3>2. op.conn[j].proxy \in Proxies
      BY <2>1, <2>3, <3>1, RowFields DEF BoundTo
    <3> QED
      BY <2>1, <3>1, <3>2, RowFields, SMTT(30) DEF CatalogueMoves
  <2> QED
    BY <1>1, <1>8, <2>2, <2>3 DEF CatalogueGone
<1>9. WholeStory'
  BY <1>1, <1>8 DEF WholeStory, CatalogueMoves, RowTypes
<1>10. VerifiedStory'
  BY <1>1 DEF VerifiedStory, AccessGiven, Digest, HopOf, CatalogueMoves, RowTypes
<1> QED
  BY <1>2, <1>3, <1>5, <1>7, <1>9, <1>10

---------------------------------------------------------------------------
(* The steps of the operation *)

\* The rows, as far as a connection depends on them, stay.
RowsStay ==
  /\ \A h \in Hosts : hosts'[h].rev = hosts[h].rev /\ hosts'[h].proxy = hosts[h].proxy /\ hosts'[h].agent = hosts[h].agent
  /\ hosts' \in [Hosts -> HostRecord] /\ UNCHANGED <<proxies, clock, overtaken>>

\* The types of the fields of an operation.
LEMMA OpFields ==
  ASSUME RowTypes
  PROVE  /\ op.at \in OpPlaces /\ op.agent \in BOOLEAN /\ op.script \in BOOLEAN /\ op.conn \in Seq(ConnHop)
         /\ op.next \in Hosts \cup {NoHost} /\ op.shell \in Seq(DigestHop) /\ op.digest \in Seq(DigestHop)
BY DEF RowTypes, OpRecord

\* The clock stands still when the rows do.
LEMMA ClockStays == ASSUME ClockStory, RowsStay PROVE ClockStory'
BY DEF ClockStory, RowsStay

\* A step that forgets the connection it read, or keeps it, and what the request is bound to.
LEMMA ForgetKeeps ==
  ASSUME ConnectionInv, RowsStay, op' \in OpRecord, whole' = whole, NoHost \notin Hosts,
         op'.conn = <<>>, op'.digest = op.digest, op'.agent = op.agent,
         op'.at \in Resolving => op'.next = Target, op'.at \notin {"probing", "running"},
         op'.at \in {"idle", "over", "binding"} <=> op.digest = <<>>
  PROVE  ConnectionInv'
<1> USE DEF ConnectionInv
<1>1. RowTypes' /\ ClockStory'
  BY ClockStays DEF RowsStay, RowTypes
<1>2. ReadStory' /\ VerifiedStory'
  BY CatalogueAssumption DEF ReadStory, VerifiedStory
<1>3. ASSUME NEW i \in 1..Len(op.digest) PROVE BoundTo(op.digest[i])' /\ (CatalogueGone(op.digest[i]) => CatalogueGone(op.digest[i])')
  <2>1. /\ op.digest[i].host \in Hosts /\ BoundTo(op.digest[i]) /\ op.digest'[i] = op.digest[i] /\ op.conn' = <<>>
        /\ op.agent' = op.agent
    BY <1>3, RowFields DEF BindingStory
  <2> QED
    BY <2>1, RowFields, SMTT(30) DEF BoundTo, CatalogueGone, RowsStay
<1>4. BindingStory' /\ WholeStory'
  BY <1>3 DEF BindingStory, WholeStory
<1> QED
  BY <1>1, <1>2, <1>4

\* A refused operation is over and bound to nothing.
LEMMA RefuseKeeps == ASSUME ConnectionInv, RowsStay, Refuse PROVE ConnectionInv'
<1> USE DEF ConnectionInv
<1>1. /\ op' = [at |-> "over", agent |-> FALSE, script |-> FALSE, conn |-> <<>>, next |-> NoHost, shell |-> <<>>, digest |-> <<>>]
      /\ whole' = FALSE
  BY DEF Refuse, NoOp
<1>2. op' \in OpRecord
  BY <1>1 DEF OpRecord, OpPlaces
<1>3. RowTypes' /\ ClockStory'
  BY <1>1, <1>2, ClockStays DEF RowsStay, RowTypes
<1>4. op'.conn = <<>> /\ op'.digest = <<>> /\ op'.at = "over"
  BY <1>1
<1>5. ReadStory' /\ BindingStory' /\ WholeStory' /\ VerifiedStory'
  BY <1>4, CatalogueAssumption DEF ReadStory, BindingStory, WholeStory, VerifiedStory, Resolving
<1> QED
  BY <1>3, <1>5

\* A new operation has read nothing.
LEMMA SubmitKeeps == ASSUME ConnectionInv, Submit PROVE ConnectionInv'
<1> USE DEF ConnectionInv
<1>1. PICK agent \in BOOLEAN, script \in BOOLEAN :
        op' = [[op EXCEPT !.at = "binding", !.conn = <<>>, !.next = Target, !.shell = <<>>] EXCEPT !.agent = agent, !.script = script]
  BY DEF Submit, Resolve
<1>2. op.at = "idle" /\ UNCHANGED <<hosts, proxies, clock, overtaken, whole>> /\ op.digest = <<>>
  BY DEF Submit, BindingStory
<1>3. /\ op' \in OpRecord /\ op'.conn = <<>> /\ op'.digest = <<>> /\ op'.at = "binding" /\ op'.next = Target
  <2>1. <<>> \in Seq(ConnHop) /\ <<>> \in Seq(DigestHop) /\ "binding" \in OpPlaces /\ Target \in Hosts
    BY CatalogueAssumption DEF OpPlaces, Resolving
  <2> QED
    BY <1>1, <1>2, <2>1 DEF RowTypes, OpRecord
<1>4. RowTypes' /\ ClockStory'
  BY <1>2, <1>3 DEF RowTypes, ClockStory
<1>5. ReadStory' /\ BindingStory' /\ WholeStory' /\ VerifiedStory'
  BY <1>3, CatalogueAssumption DEF ReadStory, BindingStory, WholeStory, VerifiedStory
<1> QED
  BY <1>4, <1>5

\* Approve, Authorize and StartRun.
LEMMA AgainKeeps == ASSUME ConnectionInv, Approve \/ Authorize \/ StartRun PROVE ConnectionInv'
<1> USE DEF ConnectionInv
<1>1. RowsStay
  BY DEF Approve, Authorize, StartRun, RowsStay, RowTypes
<1>2. CASE Refuse
  BY <1>1, <1>2, RefuseKeeps
<1>3. CASE ~Refuse
  <2>1. whole' = whole /\ op.at \in {"asked", "authorizing", "waiting"}
    BY <1>3 DEF Approve, Authorize, StartRun
  <2>2. \/ \E at \in {"authorizing", "verifying"} : op' = [op EXCEPT !.at = at, !.conn = <<>>, !.next = Target, !.shell = <<>>]
        \/ op' = [op EXCEPT !.at = "waiting", !.conn = <<>>, !.shell = <<>>]
    BY <1>3 DEF Approve, Authorize, StartRun, Resolve
  <2>3. op.digest # <<>>
    BY <2>1 DEF BindingStory
  <2>4. /\ op' \in OpRecord /\ op'.conn = <<>> /\ op'.digest = op.digest /\ op'.agent = op.agent
        /\ op'.at \in {"authorizing", "verifying", "waiting"} /\ (op'.at # "waiting" => op'.next = Target)
    <3>1. /\ <<>> \in Seq(ConnHop) /\ <<>> \in Seq(DigestHop) /\ {"authorizing", "verifying", "waiting"} \subseteq OpPlaces
          /\ Target \in Hosts
      BY CatalogueAssumption DEF OpPlaces, Resolving
    <3>2. ASSUME NEW at \in {"authorizing", "verifying"}, op' = [op EXCEPT !.at = at, !.conn = <<>>, !.next = Target, !.shell = <<>>]
          PROVE  /\ op' \in OpRecord /\ op'.conn = <<>> /\ op'.digest = op.digest /\ op'.agent = op.agent
                 /\ op'.at = at /\ op'.next = Target
      BY <3>1, <3>2 DEF RowTypes, OpRecord
    <3>3. ASSUME op' = [op EXCEPT !.at = "waiting", !.conn = <<>>, !.shell = <<>>]
          PROVE  /\ op' \in OpRecord /\ op'.conn = <<>> /\ op'.digest = op.digest /\ op'.agent = op.agent /\ op'.at = "waiting"
      BY <3>1, <3>3 DEF RowTypes, OpRecord
    <3> QED
      BY <2>2, <3>2, <3>3
  <2> QED
    BY <1>1, <2>1, <2>3, <2>4, ForgetKeeps, CatalogueAssumption DEF Resolving
<1> QED
  BY <1>2, <1>3

\* A hop that is read is what its row is now.
LEMMA ReadHostKeeps == ASSUME ConnectionInv, ReadHost PROVE ConnectionInv'
<1> USE DEF ConnectionInv
<1>1. RowsStay
  BY DEF ReadHost, RowsStay, RowTypes
<1>2. CASE Refuse
  BY <1>1, <1>2, RefuseKeeps
<1>3. CASE ~Refuse
  <2>1. /\ op.at \in Resolving /\ op.next # NoHost /\ ~ProxyUnread /\ HostThere(op.next) /\ Len(op.conn) <= MaxJumps
        /\ \A i \in DOMAIN op.conn : op.conn[i].host # op.next
        /\ op' = [op EXCEPT !.conn = Append(@, Hop(op.next)), !.next = hosts[op.next].jump,
                            !.shell = IF op.conn = <<>> THEN hosts[op.next].shell ELSE @]
        /\ UNCHANGED <<hosts, proxies, clock, overtaken, whole>>
    BY <1>3 DEF ReadHost
  <2>2. /\ op.next \in Hosts /\ hosts[op.next] \in HostRecord /\ hosts[op.next].rev # 0
    BY <2>1, OpFields DEF RowTypes, HostThere
  <2>3. PICK hop \in ConnHop :
        /\ hop = Hop(op.next) /\ hop.host = op.next /\ hop.rev = hosts[op.next].rev /\ hop.proxyRev = 0
        /\ hop.proxy = hosts[op.next].proxy /\ hop.agent = hosts[op.next].agent
    <3>1. /\ Hop(op.next) \in ConnHop /\ Hop(op.next).host = op.next /\ Hop(op.next).rev = hosts[op.next].rev
          /\ Hop(op.next).proxyRev = 0 /\ Hop(op.next).proxy = hosts[op.next].proxy /\ Hop(op.next).agent = hosts[op.next].agent
      BY <2>2 DEF Hop, ConnHop, HostRecord
    <3> QED
      BY <3>1
  <2>4. /\ op' \in OpRecord /\ op'.conn = Append(op.conn, hop) /\ op'.at = op.at /\ op'.digest = op.digest /\ op'.agent = op.agent
    <3>1. Append(op.conn, hop) \in Seq(ConnHop) /\ hosts[op.next].shell \in Seq(DigestHop) /\ hosts[op.next].jump \in Hosts \cup {NoHost}
      BY <2>2, OpFields DEF HostRecord
    <3>2. PICK stored \in Seq(DigestHop), jump \in Hosts \cup {NoHost} :
            op' = [op EXCEPT !.conn = Append(op.conn, hop), !.next = jump, !.shell = stored]
      BY <2>1, <2>3, <3>1, OpFields
    <3> QED
      BY <3>1, <3>2 DEF RowTypes, OpRecord
  <2>5. /\ Len(op'.conn) = Len(op.conn) + 1 /\ op'.conn[Len(op.conn) + 1] = hop /\ Len(op.conn) \in Nat
        /\ (\A i \in 1..Len(op.conn) : op'.conn[i] = op.conn[i]) /\ op'.conn # <<>>
        /\ \A i \in 1..Len(op.conn) : op.conn[i].host # hop.host
    BY <2>1, <2>3, <2>4, OpFields
  <2>6. \A i \in 1..Len(op'.conn) : i \in 1..Len(op.conn) \/ i = Len(op.conn) + 1
    BY <2>5
  <2>7. RowTypes' /\ ClockStory'
    BY <2>1, <2>4 DEF RowTypes, ClockStory
  <2>8. ReadStory'
    <3>1. HopFrom(hop)'
      <4>1. hosts[op.next].rev \in 1..clock
        BY <2>2, RowFields DEF ClockStory
      <4> QED
        BY <2>1, <2>3, <4>1, RowFields DEF HopFrom
    <3>2. ASSUME NEW i \in 1..Len(op.conn)
          PROVE  HopFrom(op.conn[i])' /\ ~(op.conn[i].proxy # NoProxy /\ op.conn[i].proxyRev = 0)
      <4>1. HopFrom(op.conn[i])'
        BY <2>1, <2>5, <3>2 DEF ReadStory, HopFrom
      <4>2. op.conn[i].proxy # NoProxy /\ op.conn[i].proxyRev = 0 => i = Len(op.conn)
        BY <3>2 DEF ReadStory
      <4>3. op.conn # <<>>
        BY <3>2
      <4> QED
        BY <4>1, <4>2, <4>3, <2>1 DEF ProxyUnread, LastHop
    <3>3. ASSUME NEW i \in 1..Len(op'.conn)
          PROVE  /\ HopFrom(op.conn[i])'
                 /\ op'.conn[i].proxy # NoProxy /\ op'.conn[i].proxyRev = 0 => i = Len(op'.conn)
      <4>1. CASE i \in 1..Len(op.conn)
        BY <4>1, <3>2, <2>5
      <4>2. CASE i = Len(op.conn) + 1
        BY <4>2, <3>1, <2>5 DEF HopFrom
      <4> QED
        BY <4>1, <4>2, <2>6
    <3>4. \A i, j \in 1..Len(op'.conn) : i # j => op'.conn[i].host # op'.conn[j].host
      BY <2>5, <2>6 DEF ReadStory
    <3>5. Len(op'.conn) <= MaxJumps + 1
      BY <2>1, <2>5, CatalogueAssumption
    <3> QED
      BY <3>3, <3>4, <3>5, <2>5 DEF ReadStory
  <2>9. ASSUME NEW i \in 1..Len(op.digest) PROVE BoundTo(op.digest[i])' /\ (CatalogueGone(op.digest[i]) => CatalogueGone(op.digest[i])')
    <3>1. /\ op.digest[i].host \in Hosts /\ BoundTo(op.digest[i]) /\ op'.digest[i] = op.digest[i]
      BY <2>4, <2>9, RowFields DEF BindingStory
    <3>2. BoundTo(op.digest[i])'
      BY <3>1, <2>1, <2>2, <2>3, <2>4, <2>5, <2>6, SMTT(30) DEF BoundTo
    <3>3. CatalogueGone(op.digest[i]) => CatalogueGone(op.digest[i])'
      <4> SUFFICES ASSUME CatalogueGone(op.digest[i]) PROVE CatalogueGone(op.digest[i])'
        OBVIOUS
      <4>1. ASSUME NEW j \in 1..Len(op'.conn), op'.conn[j].host = op.digest[i].host, op'.conn[j].rev = op.digest[i].rev
            PROVE  /\ op'.conn[j].proxyRev # op.digest[i].proxyRev
                   /\ op'.conn[j].proxyRev = 0 => proxies[op'.conn[j].proxy].rev # op.digest[i].proxyRev
        <5>1. CASE j \in 1..Len(op.conn)
          BY <4>1, <5>1, <2>5 DEF CatalogueGone
        <5>2. CASE j = Len(op.conn) + 1
          <6>1. op'.conn[j] = hop
            BY <5>2, <2>5
          <6> QED
            BY <4>1, <6>1, <3>1, <2>3, ZenonT(60) DEF CatalogueGone, BoundTo
        <5> QED
          BY <5>1, <5>2, <2>6
      <4> QED
        BY <4>1, <3>1, <2>1, ZenonT(60) DEF CatalogueGone
    <3> QED
      BY <3>2, <3>3
  <2>10. BindingStory' /\ WholeStory'
    BY <2>1, <2>4, <2>9 DEF BindingStory, WholeStory
  <2>11. VerifiedStory'
    BY <2>1, <2>4 DEF VerifiedStory, Resolving
  <2> QED
    BY <2>7, <2>8, <2>10, <2>11
<1> QED
  BY <1>2, <1>3

\* The proxy of the last hop is read: a request whose binding is gone does not read it as bound.
LEMMA ReadProxyKeeps == ASSUME ConnectionInv, ReadProxy PROVE ConnectionInv'
<1> USE DEF ConnectionInv
<1>1. RowsStay
  BY DEF ReadProxy, RowsStay, RowTypes
<1>2. CASE Refuse
  BY <1>1, <1>2, RefuseKeeps
<1>3. CASE ~Refuse
  <2>1. /\ op.at \in Resolving /\ op.conn # <<>> /\ LastHop.proxy # NoProxy /\ LastHop.proxyRev = 0 /\ Usable(LastHop.proxy)
        /\ op' = [op EXCEPT !.conn[Len(op.conn)].proxyRev = proxies[LastHop.proxy].rev]
        /\ UNCHANGED <<hosts, proxies, clock, overtaken, whole>>
    BY <1>3 DEF ReadProxy, ProxyUnread
  <2>2. PICK n \in 1..Len(op.conn) : n = Len(op.conn)
    <3>1. op.conn \in Seq(ConnHop)
      BY OpFields
    <3> QED
      BY <3>1, <2>1
  <2>3. PICK old \in ConnHop : old = op.conn[n] /\ old = LastHop
    BY <2>2, HopTypes DEF LastHop
  <2>4. PICK rev \in Nat : rev = proxies[old.proxy].rev /\ rev # 0 /\ rev <= clock /\ old.proxy \in Proxies
    <3>1. old.proxy \in Proxies
      BY <2>1, <2>3 DEF ConnHop
    <3>2. proxies[old.proxy].rev \in Nat /\ proxies[old.proxy].rev # 0 /\ proxies[old.proxy].rev <= clock
      BY <2>1, <2>3, <3>1, RowFields DEF Usable, ProxyThere, ClockStory
    <3> QED
      BY <3>1, <3>2
  <2>5. PICK hop \in ConnHop :
          /\ hop = [old EXCEPT !.proxyRev = rev]
          /\ hop.host = old.host /\ hop.rev = old.rev /\ hop.proxy = old.proxy /\ hop.agent = old.agent /\ hop.proxyRev = rev
    <3>1. /\ [old EXCEPT !.proxyRev = rev] \in ConnHop
          /\ [old EXCEPT !.proxyRev = rev].host = old.host /\ [old EXCEPT !.proxyRev = rev].rev = old.rev
          /\ [old EXCEPT !.proxyRev = rev].proxy = old.proxy /\ [old EXCEPT !.proxyRev = rev].agent = old.agent
          /\ [old EXCEPT !.proxyRev = rev].proxyRev = rev
      BY DEF ConnHop
    <3> QED
      BY <3>1
  <2>6. op' = [op EXCEPT !.conn = [op.conn EXCEPT ![n] = hop]]
    BY <2>1, <2>2, <2>3, <2>4, <2>5 DEF RowTypes, OpRecord
  <2>7. PICK conn \in Seq(ConnHop) :
          /\ conn = [op.conn EXCEPT ![n] = hop] /\ Len(conn) = Len(op.conn) /\ conn[n] = hop
          /\ \A i \in 1..Len(op.conn) : i # n => conn[i] = op.conn[i]
    <3>1. op.conn \in Seq(ConnHop) /\ n \in 1..Len(op.conn)
      BY OpFields
    <3>2. DOMAIN op.conn = 1..Len(op.conn) /\ Len(op.conn) \in Nat
      BY <3>1
    <3> DEFINE conn0 == [op.conn EXCEPT ![n] = hop]
    <3>3. conn0 \in Seq(ConnHop) /\ Len(conn0) = Len(op.conn)
      BY <3>1, <3>2
    <3>4. conn0[n] = hop /\ \A i \in 1..Len(op.conn) : i # n => conn0[i] = op.conn[i]
      BY <3>2
    <3> HIDE DEF conn0
    <3>5. \E conn \in Seq(ConnHop) :
            /\ conn = conn0 /\ Len(conn) = Len(op.conn) /\ conn[n] = hop
            /\ \A i \in 1..Len(op.conn) : i # n => conn[i] = op.conn[i]
      BY <3>3, <3>4
    <3> QED
      BY <3>5 DEF conn0
  <2>8. /\ op' \in OpRecord /\ op'.conn = conn /\ op'.at = op.at /\ op'.digest = op.digest /\ op'.agent = op.agent
        /\ Len(op'.conn) = Len(op.conn) /\ op'.conn[n] = hop /\ op'.conn # <<>>
        /\ \A i \in 1..Len(op.conn) : i # n => op'.conn[i] = op.conn[i]
    <3>1. op' = [op EXCEPT !.conn = conn] /\ op \in OpRecord
      BY <2>6, <2>7 DEF RowTypes
    <3>2. op' \in OpRecord /\ op'.conn = conn /\ op'.at = op.at /\ op'.digest = op.digest /\ op'.agent = op.agent
      BY <3>1, <2>7 DEF OpRecord
    <3>3. Len(op.conn) # 0 /\ Len(<<>>) = 0
      BY <2>2, OpFields
    <3> QED
      BY <3>2, <3>3, <2>7
  <2>9. RowTypes' /\ ClockStory'
    BY <2>1, <2>8 DEF RowTypes, ClockStory
  <2>10. \A i \in 1..Len(op.conn) : op'.conn[i].host = op.conn[i].host /\ op'.conn[i].rev = op.conn[i].rev
           /\ op'.conn[i].proxy = op.conn[i].proxy /\ op'.conn[i].agent = op.conn[i].agent
           /\ (i # n => op'.conn[i].proxyRev = op.conn[i].proxyRev) /\ (i = n => op'.conn[i].proxyRev = rev)
    BY <2>3, <2>5, <2>8
  <2>11. ReadStory'
    <3>1. ASSUME NEW i \in 1..Len(op.conn) PROVE HopFrom(op.conn[i])'
      <4>1. HopFrom(op.conn[i])
        BY <3>1 DEF ReadStory
      <4>2. op.conn[n].proxy # NoProxy
        BY <2>1, <2>3
      <4> QED
        BY <4>1, <4>2, <2>1, <2>4, <2>10 DEF HopFrom
    <3>2. ASSUME NEW i \in 1..Len(op.conn), op'.conn[i].proxy # NoProxy, op'.conn[i].proxyRev = 0 PROVE i = Len(op'.conn)
      BY <3>2, <2>2, <2>4, <2>8, <2>10 DEF ReadStory
    <3>3. \A i, j \in 1..Len(op.conn) : i # j => op'.conn[i].host # op'.conn[j].host
      BY <2>10 DEF ReadStory
    <3> QED
      BY <3>1, <3>2, <3>3, <2>8 DEF ReadStory
  <2>12. ASSUME NEW i \in 1..Len(op.digest) PROVE BoundTo(op.digest[i])' /\ (CatalogueGone(op.digest[i]) => CatalogueGone(op.digest[i])')
    <3>1. /\ op.digest[i].host \in Hosts /\ BoundTo(op.digest[i]) /\ op'.digest[i] = op.digest[i]
      BY <2>8, <2>12, RowFields DEF BindingStory
    <3>2. BoundTo(op.digest[i])'
      BY <3>1, <2>1, <2>8, <2>10, SMTT(30) DEF BoundTo
    <3>3. CatalogueGone(op.digest[i]) => CatalogueGone(op.digest[i])'
      <4> SUFFICES ASSUME CatalogueGone(op.digest[i]) PROVE CatalogueGone(op.digest[i])'
        OBVIOUS
      <4>1. ASSUME NEW j \in 1..Len(op.conn), op'.conn[j].host = op.digest[i].host, op'.conn[j].rev = op.digest[i].rev
            PROVE  /\ op'.conn[j].proxyRev # op.digest[i].proxyRev
                   /\ op'.conn[j].proxyRev = 0 => proxies[op'.conn[j].proxy].rev # op.digest[i].proxyRev
        <5>1. CASE j # n
          BY <4>1, <5>1, <2>8 DEF CatalogueGone
        <5>2. CASE j = n
          <6>1. op.conn[n].host = op.digest[i].host /\ op.conn[n].rev = op.digest[i].rev /\ op.conn[n].proxyRev = 0
                /\ op.conn[n].proxy = old.proxy
            BY <4>1, <5>2, <2>1, <2>3, <2>10
          <6>2. rev # op.digest[i].proxyRev
            BY <6>1, <2>4 DEF CatalogueGone
          <6> QED
            BY <6>2, <5>2, <2>4, <2>10
        <5> QED
          BY <5>1, <5>2
      <4>2. \A j \in 1..Len(op'.conn) :
               op'.conn[j].host = op'.digest[i].host /\ op'.conn[j].rev = op'.digest[i].rev =>
                 /\ op'.conn[j].proxyRev # op'.digest[i].proxyRev
                 /\ op'.conn[j].proxyRev = 0 => proxies'[op'.conn[j].proxy].rev # op'.digest[i].proxyRev
        <5>1. Len(op'.conn) = Len(op.conn) /\ op'.digest[i] = op.digest[i] /\ proxies' = proxies
          BY <2>1, <2>8
        <5>2. ASSUME NEW j \in 1..Len(op'.conn), op'.conn[j].host = op'.digest[i].host, op'.conn[j].rev = op'.digest[i].rev
              PROVE  /\ op'.conn[j].proxyRev # op'.digest[i].proxyRev
                     /\ op'.conn[j].proxyRev = 0 => proxies'[op'.conn[j].proxy].rev # op'.digest[i].proxyRev
          <6>1. j \in 1..Len(op.conn) /\ op'.conn[j].host = op.digest[i].host /\ op'.conn[j].rev = op.digest[i].rev
            BY <5>1, <5>2
          <6>2. /\ op'.conn[j].proxyRev # op.digest[i].proxyRev
                /\ op'.conn[j].proxyRev = 0 => proxies[op'.conn[j].proxy].rev # op.digest[i].proxyRev
            BY <6>1, <4>1
          <6> QED
            BY <6>2, <5>1
        <5> QED
          BY <5>2
      <4>3. \/ hosts'[op'.digest[i].host].rev # op'.digest[i].rev
            \/ /\ hosts'[op'.digest[i].host].proxy # NoProxy
               /\ proxies'[hosts'[op'.digest[i].host].proxy].rev # op'.digest[i].proxyRev
        BY <3>1, <2>1 DEF CatalogueGone
      <4> QED
        BY <4>2, <4>3 DEF CatalogueGone
    <3> QED
      BY <3>2, <3>3
  <2>13. BindingStory' /\ WholeStory'
    BY <2>1, <2>8, <2>12 DEF BindingStory, WholeStory
  <2>14. VerifiedStory'
    BY <2>1, <2>8 DEF VerifiedStory, Resolving
  <2> QED
    BY <2>9, <2>11, <2>13, <2>14
<1> QED
  BY <1>2, <1>3

\* The request is bound to what was read, whether or not the catalogue is still that.
LEMMA BindKeeps == ASSUME ConnectionInv, Bind PROVE ConnectionInv'
<1> USE DEF ConnectionInv
<1>1. RowsStay
  BY DEF Bind, RowsStay, RowTypes
<1>2. CASE Refuse
  BY <1>1, <1>2, RefuseKeeps
<1>3. CASE ~Refuse
  <2>1. /\ op.at = "binding" /\ op.next = NoHost /\ ~ProxyUnread /\ AccessGiven
        /\ UNCHANGED <<hosts, proxies, clock, overtaken>> /\ whole' = CurrentNow(Digest(op.conn))
    BY <1>3 DEF Bind, Resolved
  <2>2. PICK at \in {"waiting", "asked"} : op' = [op EXCEPT !.at = at, !.digest = Digest(op.conn), !.conn = <<>>, !.shell = <<>>]
    BY <1>3 DEF Bind
  <2>3. PICK digest \in Seq(DigestHop) :
          /\ digest = Digest(op.conn) /\ Len(digest) = Len(op.conn) /\ DOMAIN digest = 1..Len(op.conn)
          /\ \A i \in 1..Len(op.conn) : /\ digest[i].host = op.conn[i].host /\ digest[i].rev = op.conn[i].rev
                                        /\ digest[i].proxyRev = op.conn[i].proxyRev
    BY OpFields, DigestHops
  <2>4. /\ op' \in OpRecord /\ op'.at = at /\ op'.digest = digest /\ op'.conn = <<>> /\ op'.agent = op.agent
    <3>1. <<>> \in Seq(ConnHop) /\ <<>> \in Seq(DigestHop) /\ at \in OpPlaces
      BY DEF OpPlaces
    <3> QED
      BY <2>2, <2>3, <3>1 DEF RowTypes, OpRecord
  <2>5. op.conn # <<>>
    BY <2>1, CatalogueAssumption DEF ReadStory, Resolving
  <2>6. Len(digest) \in Nat /\ digest # <<>>
    BY <2>3, <2>5, OpFields
  <2>7. RowTypes' /\ ClockStory'
    BY <1>1, <2>1, <2>4, ClockStays DEF RowTypes, CurrentNow
  <2>8. ReadStory' /\ VerifiedStory'
    BY <2>4, CatalogueAssumption DEF ReadStory, VerifiedStory, Resolving
  <2>9. ASSUME NEW i \in 1..Len(digest)
        PROVE  /\ digest[i].rev \in 1..clock /\ digest[i].proxyRev <= clock
               /\ hosts[digest[i].host].rev = digest[i].rev =>
                    /\ hosts[digest[i].host].proxy # NoProxy <=> digest[i].proxyRev # 0
                    /\ op.agent => hosts[digest[i].host].agent
    <3>1. i \in 1..Len(op.conn) /\ HopFrom(op.conn[i])
      BY <2>3, <2>9 DEF ReadStory
    <3>2. op.conn[i].proxy # NoProxy <=> op.conn[i].proxyRev # 0
      <4>1. op.conn[i].proxy = NoProxy => op.conn[i].proxyRev = 0
        BY <3>1 DEF HopFrom
      <4>2. ~(op.conn[i].proxy # NoProxy /\ op.conn[i].proxyRev = 0)
        BY <3>1, <2>1, <2>5 DEF ReadStory, ProxyUnread, LastHop
      <4> QED
        BY <4>1, <4>2
    <3>3. op.agent => op.conn[i].agent
      BY <3>1, <2>1, OpFields DEF AccessGiven
    <3> QED
      BY <3>1, <3>2, <3>3, <2>3 DEF HopFrom
  <2>10. BindingStory'
    BY <2>1, <2>4, <2>6, <2>9 DEF BindingStory, BoundTo
  <2>11. WholeStory'
    <3> SUFFICES ASSUME ~CurrentNow(digest) PROVE \E i \in 1..Len(op'.digest) : CatalogueGone(op.digest[i])'
      BY <2>1, <2>3 DEF WholeStory
    <3>1. PICK i \in 1..Len(digest) :
            \/ hosts[digest[i].host].rev # digest[i].rev
            \/ hosts[digest[i].host].proxy # NoProxy /\ proxies[hosts[digest[i].host].proxy].rev # digest[i].proxyRev
      BY <2>3 DEF CurrentNow
    <3> QED
      BY <3>1, <2>1, <2>4 DEF CatalogueGone
  <2> QED
    BY <2>7, <2>8, <2>10, <2>11
<1> QED
  BY <1>2, <1>3

\* A step that leaves the connection, and what the request is bound to, as they are.
LEMMA HeldKeeps ==
  ASSUME ConnectionInv, RowsStay, op' \in OpRecord, op'.conn = op.conn, op'.digest = op.digest,
         op'.agent = op.agent, whole' = whole, op.digest # <<>>, op'.at \in {"probing", "running"}, VerifiedStory'
  PROVE  ConnectionInv'
<1> USE DEF ConnectionInv
<1>1. RowTypes' /\ ClockStory'
  BY ClockStays DEF RowTypes, RowsStay
<1>2. ASSUME NEW i \in 1..Len(op.conn) PROVE HopFrom(op.conn[i])'
  BY <1>2, RowFields DEF ReadStory, HopFrom, RowsStay
<1>3. ReadStory'
  BY <1>2 DEF ReadStory, Resolving
<1>4. ASSUME NEW i \in 1..Len(op.digest) PROVE BoundTo(op.digest[i])' /\ (CatalogueGone(op.digest[i]) => CatalogueGone(op.digest[i])')
  <2>1. op.digest[i].host \in Hosts /\ BoundTo(op.digest[i])
    BY <1>4, RowFields DEF BindingStory
  <2> QED
    BY <2>1, SMTT(30) DEF BoundTo, CatalogueGone, RowsStay
<1>5. BindingStory' /\ WholeStory'
  BY <1>4 DEF BindingStory, WholeStory
<1> QED
  BY <1>1, <1>3, <1>5

\* What was verified is what was approved: the same rows, and all of them at one moment.
LEMMA VerifyKeeps == ASSUME ConnectionInv, Verify PROVE ConnectionInv'
<1> USE DEF ConnectionInv
<1>1. RowsStay
  BY DEF Verify, RowsStay, RowTypes
<1>2. CASE Refuse
  BY <1>1, <1>2, RefuseKeeps
<1>3. CASE ~Refuse
  <2>1. /\ op.at = "verifying" /\ Digest(op.conn) = op.digest /\ whole' = whole
        /\ op' = [op EXCEPT !.at = IF op.script /\ StoredShell = <<>> THEN "probing" ELSE "running", !.shell = StoredShell]
    BY <1>3 DEF Verify, SameConnection, Resolved
  <2>2. op.digest # <<>> /\ StoredShell \in {<<>>, op.digest} /\ StoredShell \in Seq(DigestHop)
    BY <2>1, OpFields DEF BindingStory, Resolving, StoredShell
  <2>3. /\ op' \in OpRecord /\ op'.conn = op.conn /\ op'.digest = op.digest /\ op'.agent = op.agent
        /\ op'.at \in {"probing", "running"} /\ op'.shell = StoredShell /\ op'.script = op.script
        /\ (op'.at = "running" /\ op.script => StoredShell # <<>>)
    <3>1. {"probing", "running"} \subseteq OpPlaces
      BY DEF OpPlaces
    <3> QED
      BY <2>1, <2>2, <3>1 DEF RowTypes, OpRecord
  <2>4. /\ Len(op.digest) = Len(op.conn)
        /\ \A i \in 1..Len(op.conn) : /\ op.digest[i].host = op.conn[i].host /\ op.digest[i].rev = op.conn[i].rev
                                      /\ op.digest[i].proxyRev = op.conn[i].proxyRev
    BY <2>1, OpFields, DigestHops
  <2>5. whole
    <3> SUFFICES ASSUME ~whole PROVE FALSE
      OBVIOUS
    <3>1. PICK i \in 1..Len(op.digest) : CatalogueGone(op.digest[i])
      BY <2>2 DEF WholeStory
    <3> QED
      BY <3>1, <2>4 DEF CatalogueGone
  <2>6. AccessGiven
    <3>1. \A i \in 1..Len(op.conn) : op.agent => op.conn[i].agent
      BY <2>4 DEF BindingStory, BoundTo
    <3> QED
      BY <3>1, OpFields DEF AccessGiven
  <2>7. VerifiedStory'
    <3>1. Digest(op.conn)' = op.digest' /\ AccessGiven'
      BY <2>1, <2>3, <2>6 DEF Digest, AccessGiven
    <3> QED
      BY <3>1, <2>1, <2>2, <2>3, <2>5 DEF VerifiedStory
  <2> QED
    BY <1>1, <2>1, <2>2, <2>3, <2>7, HeldKeeps
<1> QED
  BY <1>2, <1>3

\* The probe of the shell runs on the verified connection.
LEMMA ProbeKeeps == ASSUME ConnectionInv, Probe PROVE ConnectionInv'
<1> USE DEF ConnectionInv
<1>1. op.digest \in Seq(DigestHop) /\ op.digest # <<>> /\ op.at = "probing" /\ Target \in Hosts
  BY OpFields, CatalogueAssumption DEF Probe, BindingStory
<1>2. RowsStay
  <2>1. UNCHANGED <<proxies, clock, overtaken>> /\ (hosts' = hosts \/ hosts' = [hosts EXCEPT ![Target].shell = op.digest])
    BY DEF Probe
  <2>2. hosts[Target] \in HostRecord
    BY <1>1 DEF RowTypes
  <2>3. [hosts[Target] EXCEPT !.shell = op.digest] \in HostRecord
    BY <1>1, <2>2 DEF HostRecord
  <2>4. \A h \in Hosts : [hosts EXCEPT ![Target].shell = op.digest][h] =
                           IF h = Target THEN [hosts[Target] EXCEPT !.shell = op.digest] ELSE hosts[h]
    BY <1>1 DEF RowTypes
  <2>5. /\ [hosts[Target] EXCEPT !.shell = op.digest].rev = hosts[Target].rev
        /\ [hosts[Target] EXCEPT !.shell = op.digest].proxy = hosts[Target].proxy
        /\ [hosts[Target] EXCEPT !.shell = op.digest].agent = hosts[Target].agent
    BY <2>2 DEF HostRecord
  <2>6. [hosts EXCEPT ![Target].shell = op.digest] \in [Hosts -> HostRecord]
    BY <1>1, <2>3 DEF RowTypes
  <2> QED
    BY <2>1, <2>4, <2>5, <2>6 DEF RowsStay, RowTypes
<1>3. CASE Refuse
  BY <1>2, <1>3, RefuseKeeps
<1>4. CASE ~Refuse
  <2>1. op' = [op EXCEPT !.at = "running", !.shell = op.digest] /\ whole' = whole
    BY <1>4 DEF Probe
  <2>2. /\ op' \in OpRecord /\ op'.conn = op.conn /\ op'.digest = op.digest /\ op'.agent = op.agent
        /\ op'.at = "running" /\ op'.shell = op.digest
    <3>1. "running" \in OpPlaces
      BY DEF OpPlaces
    <3> QED
      BY <1>1, <2>1, <3>1 DEF RowTypes, OpRecord
  <2>3. VerifiedStory'
    <3>1. Digest(op.conn)' = op.digest' /\ AccessGiven'
      BY <1>1, <2>2 DEF VerifiedStory, Digest, AccessGiven
    <3> QED
      BY <3>1, <1>1, <2>1, <2>2 DEF VerifiedStory
  <2> QED
    BY <1>1, <1>2, <2>1, <2>2, <2>3, HeldKeeps
<1> QED
  BY <1>3, <1>4

\* An operation that is over is bound to nothing.
LEMMA FinishKeeps == ASSUME ConnectionInv, FinishRun PROVE ConnectionInv'
<1>1. RowsStay /\ Refuse
  BY DEF ConnectionInv, FinishRun, RowsStay, RowTypes
<1> QED
  BY <1>1, RefuseKeeps

---------------------------------------------------------------------------
(* The catalogue's own steps *)

\* A row made from a form.
LEMMA HostRowFields ==
  ASSUME NEW form \in HostForm, NEW rev \in Nat
  PROVE  /\ HostRow(form, rev) \in HostRecord /\ HostRow(form, rev).rev = rev
         /\ HostRow(form, rev).jump = form.jump /\ HostRow(form, rev).proxy = form.proxy
<1>1. <<>> \in Seq(DigestHop)
  OBVIOUS
<1> QED
  BY <1>1 DEF HostRow, HostForm, HostRecord

\* To save a host gives its row a revision nobody has seen.
LEMMA SaveHostMoves == ASSUME RowTypes, SaveHost PROVE CatalogueMoves
<1>1. PICK form \in HostForms :
        /\ clock' = clock + 1 /\ hosts' = [hosts EXCEPT ![form.host] = HostRow(form, clock + 1)]
        /\ UNCHANGED <<proxies, op>> /\ overtaken' = (overtaken \/ ~Resolves(form.host)') /\ SeenWhole
  BY DEF SaveHost
<1>2. form \in HostForm /\ form.host \in Hosts /\ clock \in Nat
  BY CatalogueAssumption DEF HostForm, RowTypes
<1>3. HostRow(form, clock + 1) \in HostRecord /\ HostRow(form, clock + 1).rev = clock + 1
  BY <1>2, HostRowFields
<1>4. /\ hosts' \in [Hosts -> HostRecord] /\ hosts'[form.host] = HostRow(form, clock + 1)
      /\ \A h \in Hosts : h # form.host => hosts'[h] = hosts[h]
  BY <1>1, <1>2, <1>3 DEF RowTypes
<1>5. whole' \in BOOLEAN /\ (whole => whole')
  BY <1>1 DEF SeenWhole
<1> QED
  BY <1>1, <1>2, <1>3, <1>4, <1>5 DEF CatalogueMoves, RowTypes

\* To delete a host takes its revision away.
LEMMA DeleteHostMoves == ASSUME RowTypes, DeleteHost PROVE CatalogueMoves
<1>1. PICK h \in Hosts :
        /\ hosts' = [hosts EXCEPT ![h].rev = 0, ![h].jump = NoHost, ![h].proxy = NoProxy, ![h].shell = <<>>]
        /\ overtaken' = (overtaken \/ \E user \in Hosts \ {h} : HostThere(user) /\ hosts[user].jump = h)
        /\ UNCHANGED <<proxies, clock, op>> /\ SeenWhole
  BY DEF DeleteHost
<1>2. PICK row \in HostRecord : row = [hosts[h] EXCEPT !.rev = 0, !.jump = NoHost, !.proxy = NoProxy, !.shell = <<>>] /\ row.rev = 0
  <2>1. hosts[h] \in HostRecord /\ <<>> \in Seq(DigestHop)
    BY DEF RowTypes
  <2>2. /\ [hosts[h] EXCEPT !.rev = 0, !.jump = NoHost, !.proxy = NoProxy, !.shell = <<>>] \in HostRecord
        /\ [hosts[h] EXCEPT !.rev = 0, !.jump = NoHost, !.proxy = NoProxy, !.shell = <<>>].rev = 0
    BY <2>1 DEF HostRecord
  <2> QED
    BY <2>2
<1>3. hosts' = [hosts EXCEPT ![h] = row]
  BY <1>1, <1>2 DEF RowTypes
<1>4. /\ hosts' \in [Hosts -> HostRecord] /\ hosts'[h] = row
      /\ \A other \in Hosts : other # h => hosts'[other] = hosts[other]
  BY <1>2, <1>3 DEF RowTypes
<1>5. whole' \in BOOLEAN /\ (whole => whole')
  BY <1>1 DEF SeenWhole
<1> QED
  BY <1>1, <1>2, <1>4, <1>5 DEF CatalogueMoves, RowTypes

\* To save a proxy gives its row a revision nobody has seen.
LEMMA SaveProxyMoves == ASSUME RowTypes, SaveProxy PROVE CatalogueMoves
<1>1. PICK p \in Proxies, ssh \in BOOLEAN :
        /\ clock' = clock + 1 /\ proxies' = [proxies EXCEPT ![p] = [rev |-> clock + 1, ssh |-> ssh]]
        /\ UNCHANGED <<hosts, overtaken, op>> /\ SeenWhole
  BY DEF SaveProxy
<1>2. /\ proxies' \in [Proxies -> ProxyRecord] /\ proxies'[p].rev = clock + 1
      /\ \A q \in Proxies : q # p => proxies'[q] = proxies[q]
  BY <1>1 DEF RowTypes, ProxyRecord
<1>3. whole' \in BOOLEAN /\ (whole => whole')
  BY <1>1 DEF SeenWhole
<1> QED
  BY <1>1, <1>2, <1>3 DEF CatalogueMoves, RowTypes

\* To delete a proxy takes its revision away.
LEMMA DeleteProxyMoves == ASSUME RowTypes, DeleteProxy PROVE CatalogueMoves
<1>1. PICK p \in Proxies :
        /\ proxies' = [proxies EXCEPT ![p].rev = IF Deletable(p) THEN 0 ELSE @]
        /\ UNCHANGED <<hosts, clock, overtaken, op>> /\ SeenWhole
  BY DEF DeleteProxy
<1>2. /\ proxies' \in [Proxies -> ProxyRecord] /\ proxies'[p].rev \in {0, proxies[p].rev}
      /\ \A q \in Proxies : q # p => proxies'[q] = proxies[q]
  BY <1>1 DEF RowTypes, ProxyRecord
<1>3. whole' \in BOOLEAN /\ (whole => whole')
  BY <1>1 DEF SeenWhole
<1> QED
  BY <1>1, <1>2, <1>3 DEF CatalogueMoves, RowTypes

\* The rows after an import: those of the package, and the others as they were.
LEMMA PackageRows ==
  ASSUME RowTypes, NEW package \in Packages, NEW rev \in Nat
  PROVE  /\ HostsWith(package, rev) \in [Hosts -> HostRecord]
         /\ ProxiesWith(package, rev) \in [Proxies -> ProxyRecord]
         /\ \A h \in Hosts \ ImportedHosts(package) : HostsWith(package, rev)[h] = hosts[h]
         /\ \A p \in Proxies \ ImportedProxies(package) : ProxiesWith(package, rev)[p] = proxies[p]
         /\ \A h \in Hosts \cap ImportedHosts(package) :
              \E form \in package.hosts : form \in HostForm /\ HostsWith(package, rev)[h] = HostRow(form, rev)
         /\ \A p \in Proxies \cap ImportedProxies(package) : ProxiesWith(package, rev)[p].rev = rev
<1>1. package.hosts \subseteq HostForm /\ package.proxies \subseteq ProxyForm
  BY CatalogueAssumption
<1>2. ASSUME NEW h \in Hosts \cap ImportedHosts(package)
      PROVE  \E form \in package.hosts : form \in HostForm /\ HostsWith(package, rev)[h] = HostRow(form, rev)
  <2>1. \E form \in package.hosts : form.host = h
    BY DEF ImportedHosts
  <2>2. PICK form \in package.hosts : form = CHOOSE one \in package.hosts : one.host = h
    BY <2>1
  <2> QED
    BY <1>1, <2>2 DEF HostsWith
<1>3. ASSUME NEW p \in Proxies \cap ImportedProxies(package)
      PROVE  ProxiesWith(package, rev)[p].rev = rev /\ ProxiesWith(package, rev)[p] \in ProxyRecord
  <2>1. \E form \in package.proxies : form.proxy = p
    BY DEF ImportedProxies
  <2>2. PICK form \in package.proxies : form = CHOOSE one \in package.proxies : one.proxy = p
    BY <2>1
  <2> QED
    BY <1>1, <2>2 DEF ProxiesWith, ProxyForm, ProxyRecord
<1>4. ASSUME NEW h \in Hosts \ ImportedHosts(package) PROVE HostsWith(package, rev)[h] = hosts[h]
  BY DEF HostsWith
<1>5. ASSUME NEW p \in Proxies \ ImportedProxies(package) PROVE ProxiesWith(package, rev)[p] = proxies[p]
  BY DEF ProxiesWith
<1>6. HostsWith(package, rev) \in [Hosts -> HostRecord]
  <2>1. \A h \in Hosts : HostsWith(package, rev)[h] \in HostRecord
    BY <1>2, <1>4, HostRowFields DEF RowTypes
  <2> QED
    BY <2>1 DEF HostsWith
<1>7. ProxiesWith(package, rev) \in [Proxies -> ProxyRecord]
  <2>1. \A p \in Proxies : ProxiesWith(package, rev)[p] \in ProxyRecord
    BY <1>3, <1>5 DEF RowTypes
  <2> QED
    BY <2>1 DEF ProxiesWith
<1> QED
  BY <1>2, <1>3, <1>4, <1>5, <1>6, <1>7

\* A package gives all the rows it writes a new revision.
LEMMA ApplyPackageMoves == ASSUME RowTypes, ApplyPackage PROVE CatalogueMoves
<1>1. PICK package \in Packages :
        /\ UNCHANGED <<overtaken, op>>
        /\ \/ /\ clock' = clock + 1 /\ SeenWhole
              /\ hosts' = HostsWith(package, clock + 1) /\ proxies' = ProxiesWith(package, clock + 1)
           \/ UNCHANGED <<hosts, proxies, clock, whole>>
  BY DEF ApplyPackage
<1>2. CASE UNCHANGED <<hosts, proxies, clock, whole>>
  BY <1>1, <1>2 DEF CatalogueMoves, RowTypes
<1>3. CASE /\ clock' = clock + 1 /\ SeenWhole
           /\ hosts' = HostsWith(package, clock + 1) /\ proxies' = ProxiesWith(package, clock + 1)
  <2>1. clock \in Nat /\ clock + 1 \in Nat
    BY DEF RowTypes
  <2>2. hosts' \in [Hosts -> HostRecord] /\ proxies' \in [Proxies -> ProxyRecord]
    BY <1>3, <2>1, PackageRows
  <2>3. ASSUME NEW h \in Hosts PROVE hosts'[h] = hosts[h] \/ hosts'[h].rev = clock + 1
    BY <1>3, <2>1, PackageRows, HostRowFields
  <2>4. ASSUME NEW p \in Proxies PROVE proxies'[p] = proxies[p] \/ proxies'[p].rev = clock + 1
    BY <1>3, <2>1, PackageRows
  <2>5. whole' \in BOOLEAN /\ (whole => whole')
    BY <1>3 DEF SeenWhole
  <2> QED
    BY <1>1, <1>3, <2>1, <2>2, <2>3, <2>4, <2>5 DEF CatalogueMoves, RowTypes
<1> QED
  BY <1>1, <1>2, <1>3

\* A request that only checks writes no row.
LEMMA AskedMoves ==
  ASSUME RowTypes, AskToSave \/ AskToDelete \/ AskToDeleteProxy \/ ReadPackage
  PROVE  CatalogueMoves /\ UNCHANGED <<hosts, proxies, overtaken>>
<1>1. UNCHANGED <<hosts, proxies, clock, overtaken, op, whole>>
  BY DEF AskToSave, AskToDelete, AskToDeleteProxy, ReadPackage, Asked
<1> QED
  BY <1>1 DEF CatalogueMoves, RowTypes

---------------------------------------------------------------------------
(* The invariant, and what it implies *)

\* What the first shell was bound to is a sequence of hops.
LEMMA FirstConnectionTyped == FirstConnection \in Seq(DigestHop)
<1> DEFINE hop(h) == HopOf(h, 1, IF FirstProxy[h] = NoProxy THEN 0 ELSE 1)
<1>1. \A h \in Hosts : hop(h) \in DigestHop
  BY DEF HopOf, DigestHop
<1>2. Target \in Hosts /\ (FirstJump[Target] # NoHost => FirstJump[Target] \in Hosts)
  BY CatalogueAssumption
<1> HIDE DEF hop
<1>3. FirstJump[Target] = NoHost => <<hop(Target)>> \in Seq(DigestHop)
  BY <1>1, <1>2
<1>4. FirstJump[Target] # NoHost => <<hop(Target), hop(FirstJump[Target])>> \in Seq(DigestHop)
  BY <1>1, <1>2
<1> QED
  BY <1>3, <1>4 DEF hop, FirstConnection

\* No operation has read anything at the start.
LEMMA ConnectionInvAtFirst == ASSUME CatalogueInit PROVE ConnectionInv
<1>1. PICK stored \in {<<>>, FirstConnection} :
        hosts = [h \in Hosts |-> [rev |-> 1, jump |-> FirstJump[h], proxy |-> FirstProxy[h], agent |-> TRUE,
                                  shell |-> IF h = Target THEN stored ELSE <<>>]]
  BY DEF CatalogueInit
<1>2. stored \in Seq(DigestHop) /\ <<>> \in Seq(DigestHop) /\ <<>> \in Seq(ConnHop)
  <2>1. <<>> \in Seq(DigestHop) /\ <<>> \in Seq(ConnHop)
    OBVIOUS
  <2> QED
    BY <1>1, <2>1, FirstConnectionTyped
<1>3. hosts \in [Hosts -> HostRecord]
  BY <1>1, <1>2, CatalogueAssumption DEF HostRecord
<1>4. proxies \in [Proxies -> ProxyRecord]
  BY DEF CatalogueInit, ProxyRecord
<1>5. op \in OpRecord /\ op.at = "idle" /\ op.conn = <<>> /\ op.digest = <<>>
  <2>1. op = NoOp /\ "idle" \in OpPlaces
    BY DEF CatalogueInit, OpPlaces
  <2> QED
    BY <1>2, <2>1 DEF NoOp, OpRecord
<1>6. RowTypes
  <2>1. clock \in Nat \ {0}
    BY DEF CatalogueInit
  <2>2. whole \in BOOLEAN /\ overtaken \in BOOLEAN
    BY DEF CatalogueInit
  <2> QED
    BY <1>3, <1>4, <1>5, <2>1, <2>2, Zenon DEF RowTypes
<1>7. ClockStory
  BY <1>1 DEF CatalogueInit, ClockStory
<1>8. Len(<<>>) = 0 /\ MaxJumps \in Nat
  BY CatalogueAssumption
<1>9. ReadStory /\ BindingStory /\ WholeStory /\ VerifiedStory
  BY <1>5, <1>8 DEF ReadStory, BindingStory, WholeStory, VerifiedStory, Resolving
<1> QED
  BY <1>6, <1>7, <1>9 DEF ConnectionInv

\* All that the catalogue does moves rows in one of the ways above.
LEMMA CatalogueStepMoves ==
  ASSUME RowTypes,
         \/ AskToSave \/ SaveHost \/ AskToDelete \/ DeleteHost \/ SaveProxy \/ AskToDeleteProxy \/ DeleteProxy
         \/ ReadPackage \/ ApplyPackage
  PROVE  CatalogueMoves
BY SaveHostMoves, DeleteHostMoves, SaveProxyMoves, DeleteProxyMoves, ApplyPackageMoves, AskedMoves

\* Every step keeps what is known of a connection.
LEMMA ConnectionInvStep == ASSUME ConnectionInv, [CatalogueNext]_catalogueVars PROVE ConnectionInv'
<1>1. RowTypes
  BY DEF ConnectionInv
<1>2. CASE UNCHANGED catalogueVars
  <2>1. CatalogueMoves
    BY <1>1, <1>2 DEF CatalogueMoves, RowTypes, catalogueVars
  <2> QED
    BY <2>1, ConnectionStays
<1>3. CASE \/ AskToSave \/ SaveHost \/ AskToDelete \/ DeleteHost \/ SaveProxy \/ AskToDeleteProxy \/ DeleteProxy
           \/ ReadPackage \/ ApplyPackage
  BY <1>1, <1>3, CatalogueStepMoves, ConnectionStays
<1>4. CASE \/ Submit \/ ReadHost \/ ReadProxy \/ Bind \/ Approve \/ Authorize \/ StartRun \/ Verify \/ Probe \/ FinishRun
  BY <1>4, SubmitKeeps, ReadHostKeeps, ReadProxyKeeps, BindKeeps, AgainKeeps, VerifyKeeps, ProbeKeeps, FinishKeeps
<1> QED
  BY <1>2, <1>3, <1>4 DEF CatalogueNext

\* Whatever is saved, deleted and imported while an operation on a host is submitted, waits for
\* its approval and resolves its connection again, it runs over the connection that was approved.
THEOREM ApprovedConnection == CatalogueSpec => []ApprovedConnectionOnly
<1>1. CatalogueInit => ConnectionInv
  BY ConnectionInvAtFirst
<1>2. ConnectionInv /\ [CatalogueNext]_catalogueVars => ConnectionInv'
  BY ConnectionInvStep
<1>3. ConnectionInv => ApprovedConnectionOnly
  <2> SUFFICES ASSUME ConnectionInv, op.at = "running" PROVE ApprovedConnectionOnly
    BY DEF ApprovedConnectionOnly
  <2>1. DOMAIN op.conn = 1..Len(op.conn)
    BY OpFields DEF ConnectionInv
  <2> QED
    BY <2>1 DEF ConnectionInv, ReadStory, VerifiedStory, ApprovedConnectionOnly
<1> QED
  BY <1>1, <1>2, <1>3, PTL DEF CatalogueSpec

---------------------------------------------------------------------------
(* References *)

\* An operation deletes no row and changes no reference.
LEMMA OperationKeepsRows ==
  ASSUME RowTypes,
         Submit \/ ReadHost \/ ReadProxy \/ Bind \/ Approve \/ Authorize \/ StartRun \/ Verify \/ Probe \/ FinishRun
  PROVE  /\ UNCHANGED <<proxies, overtaken>>
         /\ \A h \in Hosts : hosts'[h].rev = hosts[h].rev /\ hosts'[h].jump = hosts[h].jump /\ hosts'[h].proxy = hosts[h].proxy
<1>1. CASE Probe
  <2>1. UNCHANGED <<proxies, overtaken>> /\ (hosts' = hosts \/ hosts' = [hosts EXCEPT ![Target].shell = op.digest])
    BY <1>1 DEF Probe
  <2>2. Target \in Hosts /\ hosts[Target] \in HostRecord
    BY CatalogueAssumption DEF RowTypes
  <2>3. \A h \in Hosts : [hosts EXCEPT ![Target].shell = op.digest][h] =
                           IF h = Target THEN [hosts[Target] EXCEPT !.shell = op.digest] ELSE hosts[h]
    BY <2>2 DEF RowTypes
  <2>4. /\ [hosts[Target] EXCEPT !.shell = op.digest].rev = hosts[Target].rev
        /\ [hosts[Target] EXCEPT !.shell = op.digest].jump = hosts[Target].jump
        /\ [hosts[Target] EXCEPT !.shell = op.digest].proxy = hosts[Target].proxy
    BY <2>2 DEF HostRecord
  <2> QED
    BY <2>1, <2>3, <2>4
<1>2. CASE Submit \/ ReadHost \/ ReadProxy \/ Bind \/ Approve \/ Authorize \/ StartRun \/ Verify \/ FinishRun
  BY <1>2 DEF Submit, ReadHost, ReadProxy, Bind, Approve, Authorize, StartRun, Verify, FinishRun
<1> QED
  BY <1>1, <1>2

\* A step of the catalogue that leaves a reference dangling is one that did not look again.
LEMMA ReferencesStep ==
  ASSUME RowTypes, ReferencesResolve, [CatalogueNext]_catalogueVars
  PROVE  ReferencesResolve'
<1> SUFFICES ASSUME ~overtaken', NEW user \in Hosts, HostThere(user)' PROVE Resolves(user)'
  BY DEF ReferencesResolve
<1>1. /\ \A h \in Hosts : hosts[h] \in HostRecord /\ hosts[h].jump \in Hosts \cup {NoHost} /\ hosts[h].proxy \in Proxies \cup {NoProxy}
      /\ \A p \in Proxies : proxies[p] \in ProxyRecord
      /\ clock \in Nat /\ NoHost \notin Hosts /\ NoProxy \notin Proxies
  BY CatalogueAssumption DEF RowTypes, HostRecord
<1>2. ~overtaken => \A h \in Hosts : HostThere(h) => Resolves(h)
  BY DEF ReferencesResolve
<1>3. CASE UNCHANGED catalogueVars
  BY <1>2, <1>3 DEF catalogueVars, Resolves, HostThere, ProxyThere
<1>4. CASE AskToSave \/ AskToDelete \/ AskToDeleteProxy \/ ReadPackage
  BY <1>2, <1>4, AskedMoves DEF Resolves, HostThere, ProxyThere
<1>5. CASE Submit \/ ReadHost \/ ReadProxy \/ Bind \/ Approve \/ Authorize \/ StartRun \/ Verify \/ Probe \/ FinishRun
  <2>1. /\ UNCHANGED <<proxies, overtaken>>
        /\ \A h \in Hosts : hosts'[h].rev = hosts[h].rev /\ hosts'[h].jump = hosts[h].jump /\ hosts'[h].proxy = hosts[h].proxy
    BY <1>5, OperationKeepsRows
  <2> QED
    BY <1>1, <1>2, <2>1 DEF Resolves, HostThere, ProxyThere
<1>6. CASE SaveHost
  <2>1. PICK form \in HostForms :
          /\ hosts' = [hosts EXCEPT ![form.host] = HostRow(form, clock + 1)]
          /\ proxies' = proxies /\ overtaken' = (overtaken \/ ~Resolves(form.host)')
    BY <1>6 DEF SaveHost
  <2>2. form \in HostForm /\ form.host \in Hosts /\ clock + 1 \in Nat
    BY <1>1, CatalogueAssumption DEF HostForm
  <2>3. hosts'[form.host].rev = clock + 1 /\ \A h \in Hosts : h # form.host => hosts'[h] = hosts[h]
    BY <2>1, <2>2, HostRowFields DEF RowTypes
  <2>4. CASE user = form.host
    BY <2>1, <2>4
  <2>5. CASE user # form.host
    <3>1. ~overtaken /\ hosts'[user] = hosts[user] /\ hosts[user].rev # 0
      <4>1. ~overtaken
        BY <2>1, Zenon
      <4>2. hosts'[user] = hosts[user] /\ hosts'[user].rev # 0
        BY <2>3, <2>5 DEF HostThere
      <4> QED
        BY <4>1, <4>2
    <3>2. Resolves(user)
      BY <1>2, <3>1 DEF HostThere
    <3>3. \A h \in Hosts : hosts[h].rev # 0 => hosts'[h].rev # 0
      BY <1>1, <2>2, <2>3
    <3> QED
      BY <1>1, <2>1, <3>1, <3>2, <3>3 DEF Resolves, HostThere, ProxyThere
  <2> QED
    BY <2>4, <2>5
<1>7. CASE DeleteHost
  <2>1. PICK h \in Hosts :
          /\ hosts' = [hosts EXCEPT ![h].rev = 0, ![h].jump = NoHost, ![h].proxy = NoProxy, ![h].shell = <<>>]
          /\ overtaken' = (overtaken \/ \E one \in Hosts \ {h} : HostThere(one) /\ hosts[one].jump = h)
          /\ proxies' = proxies
    BY <1>7 DEF DeleteHost
  <2>2. hosts'[h].rev = 0 /\ \A one \in Hosts : one # h => hosts'[one] = hosts[one]
    <3>1. hosts'[h] = [hosts[h] EXCEPT !.rev = 0, !.jump = NoHost, !.proxy = NoProxy, !.shell = <<>>]
      BY <2>1 DEF RowTypes
    <3>2. hosts'[h].rev = 0
      BY <1>1, <3>1 DEF HostRecord
    <3> QED
      BY <2>1, <3>2 DEF RowTypes
  <2>3. user # h /\ hosts[user].jump # h
    BY <2>1, <2>2 DEF HostThere
  <2> QED
    BY <1>1, <1>2, <2>1, <2>2, <2>3, ZenonT(60) DEF Resolves, HostThere, ProxyThere
<1>8. CASE SaveProxy
  <2>1. PICK p \in Proxies, ssh \in BOOLEAN :
          proxies' = [proxies EXCEPT ![p] = [rev |-> clock + 1, ssh |-> ssh]] /\ UNCHANGED <<hosts, overtaken>>
    BY <1>8 DEF SaveProxy
  <2>2. \A q \in Proxies : proxies[q].rev # 0 => proxies'[q].rev # 0
    BY <1>1, <2>1 DEF RowTypes
  <2> QED
    BY <1>1, <1>2, <2>1, <2>2 DEF Resolves, HostThere, ProxyThere
<1>9. CASE DeleteProxy
  <2>1. PICK p \in Proxies :
          proxies' = [proxies EXCEPT ![p].rev = IF Deletable(p) THEN 0 ELSE @] /\ UNCHANGED <<hosts, overtaken>>
    BY <1>9 DEF DeleteProxy
  <2>2. \A q \in Proxies : proxies'[q].rev = IF q = p /\ Deletable(p) THEN 0 ELSE proxies[q].rev
    BY <1>1, <2>1 DEF RowTypes, ProxyRecord
  <2> QED
    BY <1>1, <1>2, <2>1, <2>2 DEF Resolves, HostThere, ProxyThere, Deletable, UsesProxy
<1>10. CASE ApplyPackage
  <2>1. PICK package \in Packages :
          /\ overtaken' = overtaken
          /\ \/ /\ Applicable(package)
                /\ hosts' = HostsWith(package, clock + 1) /\ proxies' = ProxiesWith(package, clock + 1)
             \/ UNCHANGED <<hosts, proxies>>
    BY <1>10 DEF ApplyPackage
  <2>2. CASE UNCHANGED <<hosts, proxies>>
    BY <1>2, <2>1, <2>2 DEF Resolves, HostThere, ProxyThere
  <2>3. CASE /\ Applicable(package)
             /\ hosts' = HostsWith(package, clock + 1) /\ proxies' = ProxiesWith(package, clock + 1)
    <3>1. 1 \in Nat /\ clock + 1 \in Nat /\ clock + 1 # 0 /\ 1 # 0
      BY <1>1
    <3>2. \A h \in Hosts : (hosts'[h].rev # 0 <=> HostsWith(package, 1)[h].rev # 0) /\ (hosts[h].rev # 0 => hosts'[h].rev # 0)
      <4> TAKE h \in Hosts
      <4>1. CASE h \in ImportedHosts(package)
        BY <2>3, <3>1, <4>1, PackageRows, HostRowFields
      <4>2. CASE h \notin ImportedHosts(package)
        BY <2>3, <3>1, <4>2, PackageRows
      <4> QED
        BY <4>1, <4>2
    <3>3. \A p \in Proxies : (proxies'[p].rev # 0 <=> ProxiesWith(package, 1)[p].rev # 0) /\ (proxies[p].rev # 0 => proxies'[p].rev # 0)
      <4> TAKE p \in Proxies
      <4>1. CASE p \in ImportedProxies(package)
        BY <2>3, <3>1, <4>1, PackageRows
      <4>2. CASE p \notin ImportedProxies(package)
        BY <2>3, <3>1, <4>2, PackageRows
      <4> QED
        BY <4>1, <4>2
    <3>4. CASE user \notin ImportedHosts(package)
      <4>1. hosts'[user] = hosts[user]
        BY <2>3, <3>1, <3>4, PackageRows
      <4> QED
        BY <1>1, <1>2, <2>1, <3>2, <3>3, <4>1 DEF Resolves, HostThere, ProxyThere
    <3>5. CASE user \in ImportedHosts(package)
      <4>1. PICK form \in package.hosts : form \in HostForm /\ hosts'[user] = HostRow(form, clock + 1)
        BY <2>3, <3>1, <3>5, PackageRows
      <4>2. hosts'[user].jump = form.jump /\ hosts'[user].proxy = form.proxy
        BY <3>1, <4>1, HostRowFields
      <4>3. form.jump \in Hosts \cup {NoHost} /\ form.proxy \in Proxies \cup {NoProxy}
        BY <4>1 DEF HostForm
      <4>4. /\ form.proxy # NoProxy => ProxiesWith(package, 1)[form.proxy].rev # 0
            /\ form.jump # NoHost => HostsWith(package, 1)[form.jump].rev # 0
        BY <2>3, <4>1 DEF Applicable
      <4> QED
        BY <3>2, <3>3, <4>2, <4>3, <4>4 DEF Resolves, HostThere, ProxyThere
    <3> QED
      BY <3>4, <3>5
  <2> QED
    BY <2>1, <2>2, <2>3
<1> QED
  BY <1>3, <1>4, <1>5, <1>6, <1>7, <1>8, <1>9, <1>10 DEF CatalogueNext

\* Nothing that a host refers to is deleted, and an import leaves nothing dangling, but for the
\* two writes that rely on an earlier check: for any hosts, proxies, forms and packages.
THEOREM ReferencesAlwaysResolve == CatalogueSpec => []ReferencesResolve
<1>1. CatalogueInit => ConnectionInv /\ ReferencesResolve
  <2> SUFFICES ASSUME CatalogueInit PROVE ReferencesResolve
    BY ConnectionInvAtFirst
  <2>1. \A h \in Hosts : hosts[h].rev = 1 /\ hosts[h].jump = FirstJump[h] /\ hosts[h].proxy = FirstProxy[h]
    BY DEF CatalogueInit
  <2>2. \A p \in Proxies : proxies[p].rev = 1
    BY DEF CatalogueInit
  <2>3. \A h \in Hosts : FirstJump[h] \in Hosts \cup {NoHost} /\ FirstProxy[h] \in Proxies \cup {NoProxy}
    BY CatalogueAssumption
  <2> QED
    BY <2>1, <2>2, <2>3 DEF ReferencesResolve, Resolves, HostThere, ProxyThere
<1>2. ConnectionInv /\ ReferencesResolve /\ [CatalogueNext]_catalogueVars => ConnectionInv' /\ ReferencesResolve'
  BY ConnectionInvStep, ReferencesStep DEF ConnectionInv
<1> QED
  BY <1>1, <1>2, PTL DEF CatalogueSpec

---------------------------------------------------------------------------
(* The connections to an MCP server *)

\* A generation that can still be current was reserved with what is saved; if it is no test,
\* the entry is its own and the server is there and enabled.  A session that is lost or over
\* is closed.  The flow that is looked up belongs to a generation that still has it.
LinkStory(g) ==
  /\ link[g].kind = "unused" => link[g].at = "ended"
  /\ InActive(g) /\ ~link[g].cancelled =>
       /\ link[g].asSaved /\ link[g].granted
       /\ link[g].kind # "test" => entry.gen = g /\ saved.there /\ saved.enabled
  /\ link[g].at \in {"watched", "lost"} => link[g].kind # "test"
  /\ link[g].at \in {"ended", "lost"} => ~link[g].open
  /\ flowOf = g => link[g].kind # "unused" /\ link[g].asSaved /\ link[g].flow \in {"running", "published"}

EntryStory ==
  /\ entry.status = "ready" =>
       /\ entry.gen \in Links /\ ~mcpShut
       /\ link[entry.gen].kind # "test" /\ link[entry.gen].at \in {"watched", "lost"} /\ ~link[entry.gen].cancelled
  /\ saved.tokens # "older"

McpInv == McpTypes /\ (\A g \in Links : LinkStory(g)) /\ EntryStory

LEMMA UnreservedLink ==
  /\ Unreserved \in LinkRecord /\ Unreserved.kind = "unused" /\ Unreserved.at = "ended" /\ ~Unreserved.open
  /\ Unreserved.flow = "none"
BY DEF Unreserved, LinkRecord

\* What a section that goes through all generations makes of one of them.
LEMMA OneCancelled ==
  ASSUME NEW old \in LinkRecord
  PROVE  LET new == [old EXCEPT !.cancelled = TRUE, !.stopped = TRUE]
         IN  /\ new \in LinkRecord /\ new.kind = old.kind /\ new.at = old.at /\ new.open = old.open
             /\ new.flow = old.flow /\ new.asSaved = old.asSaved /\ new.cancelled
BY DEF LinkRecord

LEMMA OneFlowCut ==
  ASSUME NEW old \in LinkRecord, NEW stopped \in BOOLEAN, NEW flow \in {"none", "running", "published", "withdrawn", "done"}
  PROVE  LET new == [old EXCEPT !.stopped = stopped, !.flow = flow]
         IN  /\ new \in LinkRecord /\ new.kind = old.kind /\ new.at = old.at /\ new.open = old.open
             /\ new.asSaved = old.asSaved /\ new.granted = old.granted /\ new.cancelled = old.cancelled
BY DEF LinkRecord

LEMMA OneOutdated ==
  ASSUME NEW old \in LinkRecord, NEW granted \in BOOLEAN
  PROVE  LET new == [old EXCEPT !.asSaved = FALSE, !.granted = granted]
         IN  new \in LinkRecord /\ new.kind = old.kind /\ new.at = old.at /\ new.open = old.open
BY DEF LinkRecord

\* What the sections that go through all generations make of them.
LEMMA Cancels ==
  ASSUME NEW old \in [Links -> LinkRecord]
  PROVE  /\ CancelledLinks(old) \in [Links -> LinkRecord]
         /\ \A g \in Links :
              /\ CancelledLinks(old)[g].kind = old[g].kind /\ CancelledLinks(old)[g].at = old[g].at
              /\ CancelledLinks(old)[g].open = old[g].open /\ CancelledLinks(old)[g].flow = old[g].flow
              /\ CancelledLinks(old)[g].asSaved = old[g].asSaved /\ (InActive(g) => CancelledLinks(old)[g].cancelled)
<1> DEFINE new(g) == IF InActive(g) THEN [old[g] EXCEPT !.cancelled = TRUE, !.stopped = TRUE] ELSE old[g]
<1>1. ASSUME NEW g \in Links
      PROVE  /\ new(g) \in LinkRecord /\ new(g).kind = old[g].kind /\ new(g).at = old[g].at /\ new(g).open = old[g].open
             /\ new(g).flow = old[g].flow /\ new(g).asSaved = old[g].asSaved /\ (InActive(g) => new(g).cancelled)
  BY OneCancelled
<1>2. CancelledLinks(old) = [g \in Links |-> new(g)]
  BY DEF CancelledLinks
<1> HIDE DEF new
<1> QED
  BY <1>1, <1>2

LEMMA CancelsFlow ==
  ASSUME NEW old \in [Links -> LinkRecord]
  PROVE  /\ FlowCancelled(old) \in [Links -> LinkRecord]
         /\ \A g \in Links :
              /\ FlowCancelled(old)[g].kind = old[g].kind /\ FlowCancelled(old)[g].at = old[g].at
              /\ FlowCancelled(old)[g].open = old[g].open /\ FlowCancelled(old)[g].asSaved = old[g].asSaved
              /\ FlowCancelled(old)[g].granted = old[g].granted /\ FlowCancelled(old)[g].cancelled = old[g].cancelled
<1> DEFINE after(g) == IF old[g].flow = "published" THEN "withdrawn" ELSE old[g].flow
           new(g) == IF g = flowOf THEN [old[g] EXCEPT !.stopped = TRUE, !.flow = after(g)] ELSE old[g]
<1>1. ASSUME NEW g \in Links
      PROVE  /\ new(g) \in LinkRecord /\ new(g).kind = old[g].kind /\ new(g).at = old[g].at /\ new(g).open = old[g].open
             /\ new(g).asSaved = old[g].asSaved /\ new(g).granted = old[g].granted /\ new(g).cancelled = old[g].cancelled
  <2>1. old[g] \in LinkRecord
    OBVIOUS
  <2>2. after(g) \in {"none", "running", "published", "withdrawn", "done"}
    BY <2>1 DEF LinkRecord
  <2> HIDE DEF after
  <2> QED
    BY <2>1, <2>2, OneFlowCut, ZenonT(60)
<1>2. FlowCancelled(old) = [g \in Links |-> new(g)]
  BY DEF FlowCancelled
<1> HIDE DEF new
<1> QED
  BY <1>1, <1>2

LEMMA Outdates ==
  ASSUME NEW old \in [Links -> LinkRecord], NEW cleared \in BOOLEAN
  PROVE  /\ Outdated(old, cleared) \in [Links -> LinkRecord]
         /\ \A g \in Links : /\ Outdated(old, cleared)[g].kind = old[g].kind /\ Outdated(old, cleared)[g].at = old[g].at
                             /\ Outdated(old, cleared)[g].open = old[g].open
<1> DEFINE kept(g) == old[g].granted /\ ~cleared
           new(g)  == IF InActive(g) THEN [old[g] EXCEPT !.asSaved = FALSE, !.granted = kept(g)] ELSE old[g]
<1>1. ASSUME NEW g \in Links
      PROVE  new(g) \in LinkRecord /\ new(g).kind = old[g].kind /\ new(g).at = old[g].at /\ new(g).open = old[g].open
  <2>1. old[g] \in LinkRecord
    OBVIOUS
  <2>2. kept(g) \in BOOLEAN
    BY <2>1 DEF LinkRecord
  <2> HIDE DEF kept
  <2> QED
    BY <2>1, <2>2, OneOutdated
<1>2. Outdated(old, cleared) = [g \in Links |-> new(g)]
  BY DEF Outdated
<1> HIDE DEF new
<1> QED
  BY <1>1, <1>2

\* Every generation that could be current is cancelled, and the entry offers nothing.
Withdraws(g) ==
  /\ link'[g].kind = link[g].kind /\ link'[g].at = link[g].at /\ link'[g].open = link[g].open
  /\ InActive(g) => link'[g].cancelled
KeepsFlow(g) == link'[g].asSaved = link[g].asSaved /\ link'[g].flow = link[g].flow

LEMMA AllWithdrawn ==
  ASSUME McpInv, McpTypes', \A g \in Links : Withdraws(g),
         flowOf' = NoLink \/ (flowOf' = flowOf /\ \A g \in Links : KeepsFlow(g)),
         entry'.status # "ready", saved'.tokens # "older"
  PROVE  McpInv'
<1>1. \A g \in Links : LinkStory(g)'
  <2>1. TAKE g \in Links
  <2>2. InActive(g)' <=> InActive(g)
    BY DEF Withdraws, InActive
  <2>3. NoLink # g
    BY DEF NoLink, Links
  <2> QED
    BY <2>2, <2>3 DEF McpInv, LinkStory, Withdraws, KeepsFlow
<1>2. EntryStory'
  BY DEF EntryStory
<1> QED
  BY <1>1, <1>2 DEF McpInv

\* A generation begins and the others are withdrawn.
LEMMA OneBegun ==
  ASSUME McpInv, McpTypes', NEW g \in Links, \A d \in Links \ {g} : Withdraws(d),
         link'[g].kind # "unused", link'[g].at = "opening", link'[g].asSaved, link'[g].granted,
         flowOf' = NoLink \/ (flowOf' = g /\ link'[g].flow = "running"),
         entry'.gen = g, entry'.status # "ready", saved' = saved, saved.there, saved.enabled
  PROVE  McpInv'
<1>1. \A d \in Links \ {g} : LinkStory(d)'
  <2>1. TAKE d \in Links \ {g}
  <2>2. InActive(d)' <=> InActive(d)
    BY DEF Withdraws, InActive
  <2>3. NoLink # d
    BY DEF NoLink, Links
  <2> QED
    BY <2>2, <2>3 DEF McpInv, LinkStory, Withdraws
<1>2. LinkStory(g)'
  BY DEF LinkStory, NoLink, Links
<1>3. EntryStory'
  BY DEF McpInv, EntryStory
<1> QED
  BY <1>1, <1>2, <1>3 DEF McpInv

\* Nothing changes but who is stopped and what becomes of the flows.
LEMMA OnlyFlows ==
  ASSUME McpInv, McpTypes', flowOf' = NoLink, UNCHANGED <<saved, entry, mcpShut>>,
         \A g \in Links : /\ link'[g].kind = link[g].kind /\ link'[g].at = link[g].at /\ link'[g].open = link[g].open
                          /\ link'[g].asSaved = link[g].asSaved /\ link'[g].granted = link[g].granted
                          /\ link'[g].cancelled = link[g].cancelled
  PROVE  McpInv'
<1>1. \A g \in Links : LinkStory(g)'
  <2>1. TAKE g \in Links
  <2>2. InActive(g)' <=> InActive(g)
    BY DEF InActive
  <2>3. NoLink # g
    BY DEF NoLink, Links
  <2> QED
    BY <2>2, <2>3 DEF McpInv, LinkStory
<1>2. EntryStory'
  BY DEF McpInv, EntryStory
<1> QED
  BY <1>1, <1>2 DEF McpInv

\* One generation moves; the entry changes only when it was its own.
LEMMA OneMoves ==
  ASSUME McpInv, McpTypes', NEW g \in Links, NEW new, link' = [link EXCEPT ![g] = new],
         saved'.there = saved.there, saved'.enabled = saved.enabled, flowOf' = flowOf \/ flowOf' = NoLink,
         entry' = entry \/ entry.gen = g, LinkStory(g)', EntryStory'
  PROVE  McpInv'
<1>1. \A d \in Links \ {g} : LinkStory(d)'
  <2>1. TAKE d \in Links \ {g}
  <2>2. link'[d] = link[d]
    BY DEF McpInv, McpTypes
  <2>3. InActive(d)' <=> InActive(d)
    BY <2>2 DEF InActive
  <2>4. NoLink # d
    BY DEF NoLink, Links
  <2> QED
    BY <2>2, <2>3, <2>4 DEF McpInv, LinkStory
<1> QED
  BY <1>1 DEF McpInv

---------------------------------------------------------------------------
\* Disconnect, after the generations were outdated or not.
LEMMA Disconnects ==
  ASSUME McpInv, NEW old \in [Links -> LinkRecord], NEW status, Disconnected(old, status),
         \A g \in Links : old[g].kind = link[g].kind /\ old[g].at = link[g].at /\ old[g].open = link[g].open,
         status \in {"disconnected", "disabled"}, flowOf' = NoLink, saved' \in SavedRecord, saved'.tokens # "older",
         call' = call, changes' \in 0..MaxChanges, asks' \in BOOLEAN, UNCHANGED <<flowsShut, mcpShut>>
  PROVE  McpInv'
<1> DEFINE cut == FlowCancelled(old)
<1>1. /\ cut \in [Links -> LinkRecord]
      /\ \A g \in Links : cut[g].kind = link[g].kind /\ cut[g].at = link[g].at /\ cut[g].open = link[g].open
  BY CancelsFlow
<1>2. link' = CancelledLinks(cut)
  BY DEF Disconnected
<1> HIDE DEF cut
<1>3. link' \in [Links -> LinkRecord] /\ \A g \in Links : Withdraws(g)
  BY <1>1, <1>2, Cancels DEF Withdraws
<1>4. entry' \in EntryRecord /\ entry'.status # "ready"
  BY DEF Disconnected, McpInv, McpTypes, EntryStory, EntryRecord
<1>5. McpTypes'
  BY <1>3, <1>4 DEF McpInv, McpTypes
<1> QED
  BY <1>3, <1>4, <1>5, AllWithdrawn

LEMMA ChangeCounts == ASSUME McpTypes, Change PROVE changes' \in 0..MaxChanges
BY McpAssumption DEF McpTypes, Change

LEMMA SaveKeeps ==
  ASSUME McpInv, NEW enabled \in BOOLEAN, NEW newUrl \in BOOLEAN, SaveServer(enabled, newUrl) PROVE McpInv'
<1> DEFINE status == IF enabled THEN "disconnected" ELSE "disabled"
<1>1. saved' \in SavedRecord /\ saved'.tokens # "older"
  BY DEF SaveServer, McpInv, McpTypes, SavedRecord, EntryStory
<1>2. link \in [Links -> LinkRecord] /\ changes' \in 0..MaxChanges /\ asks \in BOOLEAN
  BY ChangeCounts DEF SaveServer, McpInv, McpTypes
<1>3. /\ Outdated(link, newUrl) \in [Links -> LinkRecord]
      /\ \A g \in Links : /\ Outdated(link, newUrl)[g].kind = link[g].kind /\ Outdated(link, newUrl)[g].at = link[g].at
                          /\ Outdated(link, newUrl)[g].open = link[g].open
  BY <1>2, Outdates
<1>4. /\ Disconnected(Outdated(link, newUrl), status) /\ flowOf' = NoLink /\ call' = call /\ asks' = (enabled \/ asks)
      /\ UNCHANGED <<flowsShut, mcpShut>>
  BY DEF SaveServer
<1>5. status \in {"disconnected", "disabled"} /\ asks' \in BOOLEAN
  BY <1>4
<1> HIDE DEF status
<1> QED
  BY <1>1, <1>2, <1>3, <1>4, <1>5, Disconnects

LEMMA ClearKeeps == ASSUME McpInv, ClearOAuth PROVE McpInv'
<1> DEFINE status == IF saved.enabled THEN "disconnected" ELSE "disabled"
<1>1. saved' \in SavedRecord /\ saved'.tokens # "older"
  BY DEF ClearOAuth, McpInv, McpTypes, SavedRecord
<1>2. link \in [Links -> LinkRecord] /\ changes' \in 0..MaxChanges /\ asks \in BOOLEAN /\ saved.enabled \in BOOLEAN
  BY ChangeCounts DEF ClearOAuth, McpInv, McpTypes, SavedRecord
<1>3. /\ Outdated(link, TRUE) \in [Links -> LinkRecord]
      /\ \A g \in Links : /\ Outdated(link, TRUE)[g].kind = link[g].kind /\ Outdated(link, TRUE)[g].at = link[g].at
                          /\ Outdated(link, TRUE)[g].open = link[g].open
  BY <1>2, Outdates
<1>4. /\ Disconnected(Outdated(link, TRUE), status) /\ flowOf' = NoLink /\ call' = call /\ asks' = (saved.enabled \/ asks)
      /\ UNCHANGED <<flowsShut, mcpShut>>
  BY DEF ClearOAuth
<1>5. status \in {"disconnected", "disabled"} /\ asks' \in BOOLEAN
  BY <1>2, <1>4
<1> HIDE DEF status
<1> QED
  BY <1>1, <1>2, <1>3, <1>4, <1>5, Disconnects

LEMMA DisableKeeps == ASSUME McpInv, DisableServer PROVE McpInv'
<1>1. saved' \in SavedRecord /\ saved'.tokens # "older"
  BY DEF DisableServer, McpInv, McpTypes, SavedRecord, EntryStory
<1>2. link \in [Links -> LinkRecord] /\ changes' \in 0..MaxChanges /\ asks \in BOOLEAN
  BY ChangeCounts DEF DisableServer, McpInv, McpTypes
<1>3. /\ Disconnected(link, "disabled") /\ flowOf' = NoLink /\ call' = call /\ asks' = asks
      /\ UNCHANGED <<flowsShut, mcpShut>>
  BY DEF DisableServer
<1> QED
  BY <1>1, <1>2, <1>3, Disconnects

LEMMA NothingEntered == NoEntry \in EntryRecord /\ NoEntry.status # "ready" /\ NoEntry.gen = NoLink
BY DEF NoEntry, EntryRecord

LEMMA DeleteServerKeeps == ASSUME McpInv, DeleteServer PROVE McpInv'
<1> DEFINE cut == FlowCancelled(link)
<1>1. /\ cut \in [Links -> LinkRecord]
      /\ \A g \in Links : cut[g].kind = link[g].kind /\ cut[g].at = link[g].at /\ cut[g].open = link[g].open
  BY CancelsFlow DEF McpInv, McpTypes
<1>2. link' = CancelledLinks(cut) /\ entry' = NoEntry /\ flowOf' = NoLink
  BY DEF DeleteServer
<1> HIDE DEF cut
<1>3. link' \in [Links -> LinkRecord] /\ \A g \in Links : Withdraws(g)
  BY <1>1, <1>2, Cancels DEF Withdraws
<1>4. entry' \in EntryRecord /\ entry'.status # "ready" /\ saved' \in SavedRecord /\ saved'.tokens # "older"
  BY <1>2, NothingEntered DEF DeleteServer, SavedRecord
<1>5. McpTypes'
  BY <1>2, <1>3, <1>4, ChangeCounts DEF DeleteServer, McpInv, McpTypes
<1> QED
  BY <1>2, <1>3, <1>4, <1>5, AllWithdrawn

LEMMA ShutMcpKeeps == ASSUME McpInv, ShutMcp PROVE McpInv'
<1>1. link' = CancelledLinks(link) /\ link \in [Links -> LinkRecord] /\ entry' = NoEntry /\ flowOf' = flowOf
  BY DEF ShutMcp, McpInv, McpTypes
<1>2. link' \in [Links -> LinkRecord] /\ \A g \in Links : Withdraws(g) /\ KeepsFlow(g)
  BY <1>1, Cancels DEF Withdraws, KeepsFlow
<1>3. entry' \in EntryRecord /\ entry'.status # "ready" /\ saved'.tokens # "older"
  BY <1>1, NothingEntered DEF ShutMcp, McpInv, EntryStory
<1>4. McpTypes'
  BY <1>1, <1>2, <1>3 DEF ShutMcp, McpInv, McpTypes
<1> QED
  BY <1>1, <1>2, <1>3, <1>4, AllWithdrawn

LEMMA ShutFlowsKeeps == ASSUME McpInv, ShutFlows PROVE McpInv'
<1> DEFINE after(g) == IF link[g].flow = "published" THEN "withdrawn" ELSE link[g].flow
           ends(g)  == (flowOf = g) \/ link[g].stopped
           new(g)   == [link[g] EXCEPT !.flow = after(g), !.stopped = ends(g)]
<1>1. link \in [Links -> LinkRecord] /\ link' = [g \in Links |-> new(g)]
  BY DEF ShutFlows, McpInv, McpTypes
<1>2. ASSUME NEW g \in Links
      PROVE  /\ new(g) \in LinkRecord /\ new(g).kind = link[g].kind /\ new(g).at = link[g].at /\ new(g).open = link[g].open
             /\ new(g).asSaved = link[g].asSaved /\ new(g).granted = link[g].granted /\ new(g).cancelled = link[g].cancelled
  <2>1. link[g] \in LinkRecord
    BY <1>1
  <2>2. after(g) \in {"none", "running", "published", "withdrawn", "done"} /\ ends(g) \in BOOLEAN
    BY <2>1 DEF LinkRecord
  <2>3. PICK end \in BOOLEAN, flow \in {"none", "running", "published", "withdrawn", "done"} :
          new(g) = [link[g] EXCEPT !.stopped = end, !.flow = flow]
    <3>1. new(g) = [link[g] EXCEPT !.stopped = ends(g), !.flow = after(g)]
      BY <2>1 DEF LinkRecord
    <3> HIDE DEF new, ends, after
    <3> QED
      BY <2>2, <3>1
  <2> DEFINE other == [link[g] EXCEPT !.stopped = end, !.flow = flow]
  <2>4. /\ other \in LinkRecord /\ other.kind = link[g].kind /\ other.at = link[g].at /\ other.open = link[g].open
        /\ other.asSaved = link[g].asSaved /\ other.granted = link[g].granted /\ other.cancelled = link[g].cancelled
    BY <2>1, <2>3 DEF LinkRecord
  <2>5. new(g) = other
    BY <2>3
  <2> HIDE DEF other, new
  <2> QED
    BY <2>4, <2>5
<1> HIDE DEF new
<1>3. link' \in [Links -> LinkRecord]
  BY <1>1, <1>2
<1>4. McpTypes'
  BY <1>3 DEF ShutFlows, McpInv, McpTypes
<1>5. \A g \in Links : /\ link'[g].kind = link[g].kind /\ link'[g].at = link[g].at /\ link'[g].open = link[g].open
                       /\ link'[g].asSaved = link[g].asSaved /\ link'[g].granted = link[g].granted
                       /\ link'[g].cancelled = link[g].cancelled
  BY <1>1, <1>2
<1> QED
  BY <1>4, <1>5, OnlyFlows DEF ShutFlows

LEMMA EnableKeeps == ASSUME McpInv, EnableServer PROVE McpInv'
<1>1. saved' \in SavedRecord /\ saved'.tokens = saved.tokens /\ saved'.there /\ saved'.enabled
  BY DEF EnableServer, McpInv, McpTypes, SavedRecord
<1>2. McpTypes'
  BY <1>1, ChangeCounts DEF EnableServer, McpInv, McpTypes
<1>3. \A g \in Links : LinkStory(g)'
  <2>1. TAKE g \in Links
  <2> QED
    BY <1>1 DEF EnableServer, McpInv, LinkStory, InActive
<1> QED
  BY <1>1, <1>2, <1>3 DEF EnableServer, McpInv, EntryStory

LEMMA AskReconnectKeeps == ASSUME McpInv, AskReconnect PROVE McpInv'
<1>1. McpTypes'
  BY ChangeCounts DEF AskReconnect, McpInv, McpTypes
<1>2. \A g \in Links : LinkStory(g)'
  BY DEF AskReconnect, McpInv, LinkStory, InActive
<1> QED
  BY <1>1, <1>2 DEF AskReconnect, McpInv, EntryStory

---------------------------------------------------------------------------
\* The record of a generation as it begins.
LEMMA Fresh ==
  ASSUME McpInv, NEW kind \in {"connect", "authorize", "test"}
  PROVE  LET new == [Unreserved EXCEPT !.kind = kind, !.asSaved = TRUE, !.granted = TRUE,
                       !.oauth = saved.tokens # "none", !.at = "opening", !.flow = IF kind = "authorize" THEN "running" ELSE "none"]
         IN  /\ new \in LinkRecord /\ new.kind = kind /\ new.asSaved /\ new.granted /\ new.at = "opening" /\ ~new.cancelled
             /\ ~new.open /\ new.flow = IF kind = "authorize" THEN "running" ELSE "none"
<1> DEFINE oauth == saved.tokens # "none"
           flow  == IF kind = "authorize" THEN "running" ELSE "none"
<1>1. oauth \in BOOLEAN /\ flow \in {"none", "running"}
  OBVIOUS
<1> HIDE DEF oauth, flow
<1>2. LET new == [Unreserved EXCEPT !.kind = kind, !.asSaved = TRUE, !.granted = TRUE,
                       !.oauth = oauth, !.at = "opening", !.flow = flow]
         IN  /\ new \in LinkRecord /\ new.kind = kind /\ new.asSaved /\ new.granted /\ new.at = "opening" /\ ~new.cancelled
             /\ ~new.open /\ new.flow = flow
  BY <1>1 DEF Unreserved, LinkRecord
<1> QED
  BY <1>2 DEF oauth, flow

\* What a reservation makes of all the generations.
LEMMA Begins ==
  ASSUME McpInv, NEW old \in [Links -> LinkRecord], NEW g \in Links, NEW kind \in {"connect", "authorize", "test"},
         link' = Begun(old, g, kind)
  PROVE  /\ link' \in [Links -> LinkRecord]
         /\ link'[g].kind = kind /\ link'[g].asSaved /\ link'[g].granted /\ link'[g].at = "opening" /\ ~link'[g].cancelled
         /\ ~link'[g].open /\ link'[g].flow = IF kind = "authorize" THEN "running" ELSE "none"
         /\ kind = "test" => \A d \in Links \ {g} : link'[d] = old[d]
         /\ kind # "test" => \A d \in Links \ {g} : link'[d] = CancelledLinks(old)[d]
<1> DEFINE new == [Unreserved EXCEPT !.kind = kind, !.asSaved = TRUE, !.granted = TRUE,
                       !.oauth = saved.tokens # "none", !.at = "opening", !.flow = IF kind = "authorize" THEN "running" ELSE "none"]
           before == IF kind = "test" THEN old ELSE CancelledLinks(old)
<1>1. /\ new \in LinkRecord /\ new.kind = kind /\ new.asSaved /\ new.granted /\ new.at = "opening" /\ ~new.cancelled
      /\ ~new.open /\ new.flow = IF kind = "authorize" THEN "running" ELSE "none"
  BY Fresh
<1>2. before \in [Links -> LinkRecord]
  BY Cancels
<1>3. link' = [before EXCEPT ![g] = new]
  BY DEF Begun
<1> HIDE DEF new
<1>4. link' \in [Links -> LinkRecord] /\ link'[g] = new /\ \A d \in Links \ {g} : link'[d] = before[d]
  <2> HIDE DEF before
  <2> QED
    BY <1>1, <1>2, <1>3
<1> QED
  BY <1>1, <1>4

LEMMA ReconnectKeeps ==
  ASSUME McpInv, NEW g \in Links, NEW begins \in BOOLEAN, ReconnectServer(g, begins) PROVE McpInv'
<1> DEFINE cut == FlowCancelled(link)
<1>1. /\ cut \in [Links -> LinkRecord]
      /\ \A d \in Links : /\ cut[d].kind = link[d].kind /\ cut[d].at = link[d].at /\ cut[d].open = link[d].open
                          /\ cut[d].asSaved = link[d].asSaved /\ cut[d].granted = link[d].granted
                          /\ cut[d].cancelled = link[d].cancelled
  BY CancelsFlow DEF McpInv, McpTypes
<1> HIDE DEF cut
<1>2. CASE ~(saved.there /\ saved.enabled)
  <2>1. UNCHANGED <<saved, entry, link, flowOf, call, changes, flowsShut, mcpShut>> /\ asks' = FALSE
    BY <1>2 DEF ReconnectServer
  <2>2. McpTypes' /\ \A d \in Links : LinkStory(d)'
    BY <2>1 DEF McpInv, McpTypes, LinkStory, InActive
  <2> QED
    BY <2>1, <2>2 DEF McpInv, EntryStory
<1>3. CASE saved.there /\ saved.enabled /\ ~begins
  <2>1. UNCHANGED <<saved, entry, call, changes, flowsShut, mcpShut>> /\ asks' = FALSE /\ flowOf' = NoLink /\ link' = cut
    BY <1>3 DEF ReconnectServer, cut
  <2>2. McpTypes'
    BY <1>1, <2>1 DEF McpInv, McpTypes
  <2> QED
    BY <1>1, <2>1, <2>2, OnlyFlows
<1>4. CASE saved.there /\ saved.enabled /\ begins
  <2>1. /\ UNCHANGED <<saved, call, changes, flowsShut, mcpShut>> /\ asks' = FALSE /\ flowOf' = NoLink
        /\ link' = Begun(cut, g, "connect") /\ entry' = [gen |-> g, status |-> "connecting"]
    BY <1>4 DEF ReconnectServer, cut
  <2>2. /\ link' \in [Links -> LinkRecord]
        /\ link'[g].kind = "connect" /\ link'[g].asSaved /\ link'[g].granted /\ link'[g].at = "opening"
        /\ \A d \in Links \ {g} : link'[d] = CancelledLinks(cut)[d]
    BY <1>1, <2>1, Begins
  <2>3. \A d \in Links \ {g} : Withdraws(d)
    BY <1>1, <2>2, Cancels DEF Withdraws
  <2>4. entry' \in EntryRecord /\ entry'.gen = g /\ entry'.status # "ready"
    BY <2>1 DEF EntryRecord
  <2>5. McpTypes'
    BY <2>1, <2>2, <2>4 DEF McpInv, McpTypes
  <2> QED
    BY <1>4, <2>1, <2>2, <2>3, <2>4, <2>5, OneBegun
<1> QED
  BY <1>2, <1>3, <1>4

LEMMA TestKeeps == ASSUME McpInv, NEW g \in Links, BeginTest(g) PROVE McpInv'
<1>1. /\ link \in [Links -> LinkRecord] /\ link[g].kind = "unused" /\ link' = Begun(link, g, "test")
      /\ UNCHANGED <<saved, entry, flowOf, call, asks, flowsShut, mcpShut>>
  BY DEF BeginTest, IsNext, UnusedLinks, McpInv, McpTypes
<1>2. /\ link' \in [Links -> LinkRecord]
      /\ link'[g].kind = "test" /\ link'[g].asSaved /\ link'[g].granted /\ link'[g].at = "opening"
      /\ \A d \in Links \ {g} : link'[d] = link[d]
  BY <1>1, Begins
<1>3. McpTypes'
  BY <1>1, <1>2, ChangeCounts DEF BeginTest, McpInv, McpTypes
<1>4. LinkStory(g)'
  BY <1>1, <1>2 DEF McpInv, LinkStory
<1>5. link[g].at = "ended"
  BY <1>1 DEF McpInv, LinkStory
<1>6. EntryStory'
  BY <1>1, <1>2, <1>5 DEF McpInv, EntryStory
<1>7. link' = [link EXCEPT ![g] = link'[g]]
  BY <1>1, <1>2
<1> QED
  BY <1>1, <1>3, <1>4, <1>6, <1>7, OneMoves

LEMMA OAuthKeeps == ASSUME McpInv, NEW g \in Links, BeginOAuth(g) PROVE McpInv'
<1> DEFINE cut == IF flowOf = NoLink THEN link ELSE [link EXCEPT ![flowOf].stopped = TRUE]
<1>1. /\ cut \in [Links -> LinkRecord]
      /\ \A d \in Links : cut[d].kind = link[d].kind /\ cut[d].at = link[d].at /\ cut[d].open = link[d].open
  <2>1. link \in [Links -> LinkRecord] /\ flowOf \in {NoLink} \cup Links
    BY DEF McpInv, McpTypes
  <2>2. CASE flowOf = NoLink
    BY <2>1, <2>2
  <2>3. CASE flowOf # NoLink
    <3> DEFINE new == [link[flowOf] EXCEPT !.stopped = TRUE]
    <3>1. flowOf \in Links /\ cut = [link EXCEPT ![flowOf] = new]
      BY <2>1, <2>3
    <3>2. new \in LinkRecord /\ new.kind = link[flowOf].kind /\ new.at = link[flowOf].at /\ new.open = link[flowOf].open
      BY <2>1, <3>1, ZenonT(60) DEF LinkRecord
    <3> HIDE DEF new, cut
    <3> QED
      BY <2>1, <3>1, <3>2
  <2> QED
    BY <2>2, <2>3
<1>2. /\ UNCHANGED <<saved, call, asks, flowsShut, mcpShut>> /\ flowOf' = g /\ entry' = [gen |-> g, status |-> "connecting"]
      /\ link' = Begun(cut, g, "authorize") /\ saved.there /\ saved.enabled
  BY DEF BeginOAuth
<1> HIDE DEF cut
<1>3. /\ link' \in [Links -> LinkRecord]
      /\ link'[g].kind = "authorize" /\ link'[g].asSaved /\ link'[g].granted /\ link'[g].at = "opening"
      /\ link'[g].flow = "running"
      /\ \A d \in Links \ {g} : link'[d] = CancelledLinks(cut)[d]
  BY <1>1, <1>2, Begins
<1>4. \A d \in Links \ {g} : Withdraws(d)
  BY <1>1, <1>3, Cancels DEF Withdraws
<1>5. entry' \in EntryRecord /\ entry'.gen = g /\ entry'.status # "ready"
  BY <1>2 DEF EntryRecord
<1>6. McpTypes'
  BY <1>2, <1>3, <1>5, ChangeCounts DEF BeginOAuth, McpInv, McpTypes
<1> QED
  BY <1>2, <1>3, <1>4, <1>5, <1>6, OneBegun

---------------------------------------------------------------------------
\* A generation that moves on within what is its own, the entry and the row untouched.
LEMMA PublishUrlKeeps == ASSUME McpInv, NEW g \in Links, PublishUrl(g) PROVE McpInv'
<1> DEFINE new == IF flowOf = g THEN [link[g] EXCEPT !.flow = "published"] ELSE [link[g] EXCEPT !.at = "refused"]
<1>1. link \in [Links -> LinkRecord] /\ link[g] \in LinkRecord /\ link[g].at = "opening" /\ link[g].flow = "running"
  BY DEF PublishUrl, McpInv, McpTypes
<1>2. /\ new \in LinkRecord /\ new.kind = link[g].kind /\ new.at \in {"opening", "refused"} /\ new.cancelled = link[g].cancelled
      /\ new.asSaved = link[g].asSaved /\ new.granted = link[g].granted /\ (flowOf = g => new.flow = "published")
  BY <1>1 DEF LinkRecord
<1>3. link' = [link EXCEPT ![g] = new] /\ UNCHANGED <<saved, entry, flowOf, call, asks, changes, flowsShut, mcpShut>>
  BY DEF PublishUrl, Moved
<1> HIDE DEF new
<1>4. link' \in [Links -> LinkRecord] /\ link'[g] = new
  BY <1>1, <1>2, <1>3
<1>5. McpTypes'
  BY <1>3, <1>4 DEF McpInv, McpTypes
<1>6. LinkStory(g)'
  BY <1>1, <1>2, <1>3, <1>4 DEF McpInv, LinkStory, InActive
<1>7. EntryStory'
  BY <1>1, <1>3, <1>4 DEF McpInv, McpTypes, EntryStory
<1> QED
  BY <1>3, <1>5, <1>6, <1>7, OneMoves

LEMMA TokenKeeps ==
  ASSUME McpInv, NEW g \in Links, AcceptCallback(g) \/ RefreshToken(g) PROVE McpInv'
<1> DEFINE new == [link[g] EXCEPT !.tokens = "fresh"]
<1>1. link \in [Links -> LinkRecord] /\ link[g] \in LinkRecord
  BY DEF McpInv, McpTypes
<1>2. /\ new \in LinkRecord /\ new.kind = link[g].kind /\ new.at = link[g].at /\ new.cancelled = link[g].cancelled
      /\ new.asSaved = link[g].asSaved /\ new.granted = link[g].granted /\ new.flow = link[g].flow /\ new.open = link[g].open
  BY <1>1 DEF LinkRecord
<1>3. link' = [link EXCEPT ![g] = new] /\ UNCHANGED <<saved, entry, flowOf, call, asks, changes, flowsShut, mcpShut>>
  BY DEF AcceptCallback, RefreshToken
<1> HIDE DEF new
<1>4. link' \in [Links -> LinkRecord] /\ link'[g] = new
  BY <1>1, <1>2, <1>3
<1>5. McpTypes'
  BY <1>3, <1>4 DEF McpInv, McpTypes
<1>6. LinkStory(g)'
  BY <1>1, <1>2, <1>3, <1>4 DEF McpInv, LinkStory, InActive
<1>7. EntryStory'
  BY <1>1, <1>2, <1>3, <1>4 DEF McpInv, McpTypes, EntryStory
<1> QED
  BY <1>3, <1>5, <1>6, <1>7, OneMoves

\* Only a generation that is still current writes tokens, and that one was granted them.
LEMMA PersistKeeps == ASSUME McpInv, NEW g \in Links, PersistToken(g) PROVE McpInv'
<1>1. link \in [Links -> LinkRecord] /\ link[g] \in LinkRecord
  BY DEF McpInv, McpTypes
<1>2. CASE CurrentLink(g) /\ saved.there
  <2> DEFINE tokens == IF link[g].kind = "authorize" THEN "kept" ELSE "none"
             new    == [link[g] EXCEPT !.tokens = tokens]
  <2>1. link[g].granted
    BY <1>2 DEF McpInv, LinkStory, CurrentLink
  <2>2. /\ saved' = [saved EXCEPT !.tokens = "last"] /\ link' = [link EXCEPT ![g] = new]
        /\ UNCHANGED <<entry, flowOf, call, asks, changes, flowsShut, mcpShut>>
    BY <1>2, <2>1 DEF PersistToken
  <2>3. /\ new \in LinkRecord /\ new.kind = link[g].kind /\ new.at = link[g].at /\ new.cancelled = link[g].cancelled
        /\ new.asSaved = link[g].asSaved /\ new.granted = link[g].granted /\ new.flow = link[g].flow /\ new.open = link[g].open
    <3>1. tokens \in {"none", "fresh", "kept"}
      OBVIOUS
    <3> HIDE DEF tokens
    <3> QED
      BY <1>1, <3>1 DEF LinkRecord
  <2> HIDE DEF new
  <2>4. link' \in [Links -> LinkRecord] /\ link'[g] = new
    BY <1>1, <2>2, <2>3
  <2>5. /\ saved' \in SavedRecord /\ saved'.there = saved.there /\ saved'.enabled = saved.enabled /\ saved'.tokens = "last"
    BY <2>2 DEF McpInv, McpTypes, SavedRecord
  <2>6. McpTypes'
    BY <2>2, <2>4, <2>5 DEF McpInv, McpTypes
  <2>7. LinkStory(g)'
    BY <1>1, <2>2, <2>3, <2>4, <2>5 DEF McpInv, LinkStory, InActive
  <2>8. EntryStory'
    BY <1>1, <2>2, <2>3, <2>4, <2>5 DEF McpInv, McpTypes, EntryStory
  <2> QED
    BY <2>2, <2>5, <2>6, <2>7, <2>8, OneMoves
<1>3. CASE ~(CurrentLink(g) /\ saved.there)
  <2> DEFINE place == IF link[g].at = "opening" THEN "refused" ELSE link[g].at
             new   == [link[g] EXCEPT !.tokens = "none", !.at = place]
  <2>1. /\ UNCHANGED <<saved, entry, flowOf, call, asks, changes, flowsShut, mcpShut>> /\ link' = [link EXCEPT ![g] = new]
    BY <1>1, <1>3 DEF PersistToken
  <2>2. /\ new \in LinkRecord /\ new.kind = link[g].kind /\ new.at = place /\ new.cancelled = link[g].cancelled
        /\ new.asSaved = link[g].asSaved /\ new.granted = link[g].granted /\ new.flow = link[g].flow /\ new.open = link[g].open
    <3>1. place \in {"opening", "opened", "refused", "watched", "lost", "closing", "ended"}
      BY <1>1 DEF LinkRecord
    <3> HIDE DEF place
    <3> QED
      BY <1>1, <3>1 DEF LinkRecord
  <2>3. place = link[g].at \/ (place = "refused" /\ link[g].at = "opening")
    OBVIOUS
  <2> HIDE DEF new, place
  <2>4. link' \in [Links -> LinkRecord] /\ link'[g] = new
    BY <1>1, <2>1, <2>2
  <2>5. McpTypes'
    BY <2>1, <2>4 DEF McpInv, McpTypes
  <2>6. LinkStory(g)'
    BY <1>1, <2>1, <2>2, <2>3, <2>4 DEF McpInv, LinkStory, InActive
  <2>7. EntryStory'
    BY <1>1, <2>1, <2>2, <2>3, <2>4 DEF McpInv, McpTypes, EntryStory
  <2> QED
    BY <2>1, <2>5, <2>6, <2>7, OneMoves
<1> QED
  BY <1>2, <1>3

LEMMA OpenKeeps == ASSUME McpInv, NEW g \in Links, OpenSession(g) \/ OpenFails(g) PROVE McpInv'
<1>1. link \in [Links -> LinkRecord] /\ link[g] \in LinkRecord /\ link[g].at = "opening"
  BY DEF OpenSession, OpenFails, McpInv, McpTypes
<1>2. PICK place \in {"opened", "refused"}, opened \in BOOLEAN :
        link' = [link EXCEPT ![g] = [link[g] EXCEPT !.at = place, !.open = opened]]
  <2>1. CASE OpenFails(g)
    <3>1. link[g].open \in BOOLEAN /\ [link[g] EXCEPT !.at = "refused"] = [link[g] EXCEPT !.at = "refused", !.open = link[g].open]
      BY <1>1 DEF LinkRecord
    <3>2. link' = [link EXCEPT ![g] = [link[g] EXCEPT !.at = "refused"]]
      BY <2>1 DEF OpenFails, Moved
    <3> QED
      BY <3>1, <3>2
  <2>2. CASE OpenSession(g)
    <3> DEFINE wanted == link[g].flow = "none" \/ (saved.there /\ saved.enabled /\ flowOf = g)
               place  == IF wanted THEN "opened" ELSE "refused"
    <3>1. link' = [link EXCEPT ![g] = [link[g] EXCEPT !.open = TRUE, !.at = place]]
      BY <1>1, <2>2 DEF OpenSession
    <3>2. place \in {"opened", "refused"}
      OBVIOUS
    <3> HIDE DEF place
    <3>3. [link[g] EXCEPT !.open = TRUE, !.at = place] = [link[g] EXCEPT !.at = place, !.open = TRUE]
      BY <1>1 DEF LinkRecord
    <3> QED
      BY <3>1, <3>2, <3>3
  <2> QED
    BY <2>1, <2>2
<1> DEFINE new == [link[g] EXCEPT !.at = place, !.open = opened]
<1>3. /\ new \in LinkRecord /\ new.kind = link[g].kind /\ new.at = place /\ new.cancelled = link[g].cancelled
      /\ new.asSaved = link[g].asSaved /\ new.granted = link[g].granted /\ new.flow = link[g].flow
  BY <1>1 DEF LinkRecord
<1>4. link' = [link EXCEPT ![g] = new] /\ UNCHANGED <<saved, entry, flowOf, call, asks, changes, flowsShut, mcpShut>>
  BY <1>2 DEF OpenSession, OpenFails
<1> HIDE DEF new
<1>5. link' \in [Links -> LinkRecord] /\ link'[g] = new
  BY <1>1, <1>3, <1>4
<1>6. McpTypes'
  BY <1>4, <1>5 DEF McpInv, McpTypes
<1>7. LinkStory(g)'
  BY <1>1, <1>3, <1>4, <1>5 DEF McpInv, LinkStory, InActive
<1>8. EntryStory'
  BY <1>1, <1>4, <1>5 DEF McpInv, McpTypes, EntryStory
<1> QED
  BY <1>4, <1>6, <1>7, <1>8, OneMoves

\* A generation that has failed keeps what is still to be known of it.
LEMMA AttemptFails ==
  ASSUME NEW old \in LinkRecord
  PROVE  /\ CancelledLink(old) \in LinkRecord /\ CancelledLink(old).kind = old.kind /\ CancelledLink(old).at = "closing"
         /\ CancelledLink(old).cancelled /\ CancelledLink(old).asSaved = old.asSaved /\ CancelledLink(old).flow = old.flow
BY ZenonT(60) DEF CancelledLink, Unreserved, LinkRecord

LEMMA RegisterKeeps ==
  ASSUME McpInv, NEW g \in Links, NEW inTime \in BOOLEAN, Register(g, inTime) PROVE McpInv'
<1>1. /\ link \in [Links -> LinkRecord] /\ link[g] \in LinkRecord /\ link[g].at \in {"opened", "refused"}
      /\ UNCHANGED <<saved, flowOf, call, asks, changes, flowsShut, mcpShut>>
  BY DEF Register, McpInv, McpTypes
<1>2. CASE inTime /\ Succeeds(g) /\ link[g].kind # "test"
  <2> DEFINE new == [link[g] EXCEPT !.at = "watched"]
  <2>1. link' = [link EXCEPT ![g] = new] /\ entry' = [gen |-> g, status |-> "ready"]
    BY <1>2 DEF Register, Moved
  <2>2. /\ new \in LinkRecord /\ new.kind = link[g].kind /\ new.at = "watched" /\ new.cancelled = link[g].cancelled
        /\ new.asSaved = link[g].asSaved /\ new.granted = link[g].granted /\ new.flow = link[g].flow
    BY <1>1 DEF LinkRecord
  <2> HIDE DEF new
  <2>3. link' \in [Links -> LinkRecord] /\ link'[g] = new
    BY <1>1, <2>1, <2>2
  <2>4. /\ ~mcpShut /\ ~link[g].cancelled /\ entry.gen = g /\ InActive(g)
        /\ entry' \in EntryRecord /\ entry'.gen = g
    BY <1>1, <1>2, <2>1 DEF Succeeds, CurrentLink, InActive, EntryRecord
  <2>5. McpTypes'
    BY <1>1, <2>3, <2>4 DEF McpInv, McpTypes
  <2>6. LinkStory(g)'
    BY <1>1, <1>2, <2>2, <2>3, <2>4 DEF McpInv, LinkStory, InActive
  <2>7. EntryStory'
    BY <1>1, <1>2, <2>2, <2>3, <2>4 DEF McpInv, EntryStory
  <2> QED
    BY <1>1, <2>1, <2>4, <2>5, <2>6, <2>7, OneMoves
<1>3. CASE ~(inTime /\ Succeeds(g) /\ link[g].kind # "test")
  <2> DEFINE new == CancelledLink(link[g])
  <2>1. /\ link' = [link EXCEPT ![g] = new]
        /\ entry' = IF CurrentLink(g) /\ link[g].kind # "test" THEN [gen |-> NoLink, status |-> "error"] ELSE entry
    BY <1>1, <1>3 DEF Register
  <2>2. /\ new \in LinkRecord /\ new.kind = link[g].kind /\ new.at = "closing" /\ new.cancelled
        /\ new.asSaved = link[g].asSaved /\ new.flow = link[g].flow
    BY <1>1, AttemptFails
  <2> HIDE DEF new
  <2>3. link' \in [Links -> LinkRecord] /\ link'[g] = new
    BY <1>1, <2>1, <2>2
  <2>4. entry' \in EntryRecord /\ (entry' = entry \/ (entry.gen = g /\ entry'.status = "error"))
    BY <2>1 DEF CurrentLink, EntryRecord, McpInv, McpTypes
  <2>5. McpTypes'
    BY <1>1, <2>3, <2>4 DEF McpInv, McpTypes
  <2>6. LinkStory(g)'
    BY <1>1, <2>2, <2>3 DEF McpInv, LinkStory, InActive
  <2>7. EntryStory'
    BY <1>1, <2>1, <2>3, <2>4 DEF McpInv, McpTypes, EntryStory
  <2> QED
    BY <1>1, <2>1, <2>4, <2>5, <2>6, <2>7, OneMoves
<1> QED
  BY <1>2, <1>3

\* What becomes of a generation that is over.
LEMMA Ends ==
  ASSUME NEW links \in [Links -> LinkRecord], NEW g \in Links
  PROVE  \E new \in LinkRecord :
           /\ Over(g, links) = [links EXCEPT ![g] = new] /\ new.at = "ended" /\ new.open = links[g].open
           /\ \/ new = Unreserved /\ links[g].flow \in {"none", "done"}
              \/ new.kind = links[g].kind /\ new.asSaved = links[g].asSaved /\ new.flow = links[g].flow
<1>1. links[g] \in LinkRecord
  OBVIOUS
<1>2. CASE links[g].flow \in {"none", "done"} /\ ~links[g].open
  <2>1. Over(g, links) = [links EXCEPT ![g] = Unreserved] /\ links[g].open = FALSE
    BY <1>1, <1>2 DEF Over, LinkRecord
  <2>2. Unreserved.open = FALSE
    BY DEF Unreserved
  <2> QED
    BY <1>2, <2>1, <2>2, UnreservedLink
<1>3. CASE ~(links[g].flow \in {"none", "done"} /\ ~links[g].open)
  <2> DEFINE new == [links[g] EXCEPT !.at = "ended"]
  <2>1. Over(g, links) = [links EXCEPT ![g] = new]
    BY <1>3 DEF Over
  <2>2. /\ new \in LinkRecord /\ new.at = "ended" /\ new.open = links[g].open /\ new.kind = links[g].kind
        /\ new.asSaved = links[g].asSaved /\ new.flow = links[g].flow
    BY <1>1 DEF LinkRecord
  <2> HIDE DEF new
  <2> QED
    BY <2>1, <2>2
<1> QED
  BY <1>2, <1>3

\* A generation that is not in use any more ends, or a flow that has its answer.
LEMMA OneEnds ==
  ASSUME McpInv, NEW g \in Links, NEW new \in LinkRecord, link' = [link EXCEPT ![g] = new],
         new.at = "ended", ~new.open, new.kind = "unused" \/ flowOf' # g \/ (new.kind = link[g].kind /\ new.asSaved = link[g].asSaved /\ new.flow = link[g].flow),
         new.kind = "unused" => flowOf' # g,
         flowOf' = flowOf \/ flowOf' = NoLink,
         entry' \in EntryRecord, entry' = entry \/ (entry.gen = g /\ entry'.status # "ready"),
         entry' = entry => ~(entry.status = "ready" /\ entry.gen = g),
         UNCHANGED <<saved, call, asks, changes, flowsShut, mcpShut>>
  PROVE  McpInv'
<1>1. link \in [Links -> LinkRecord] /\ link' \in [Links -> LinkRecord] /\ link'[g] = new
  BY DEF McpInv, McpTypes
<1>2. flowOf' \in {NoLink} \cup Links
  BY DEF McpInv, McpTypes
<1>3. McpTypes'
  BY <1>1, <1>2 DEF McpInv, McpTypes
<1>4. LinkStory(g)'
  <2>1. ~InActive(g)'
    BY <1>1 DEF InActive
  <2>2. flowOf' = g => flowOf = g
    BY DEF NoLink, Links
  <2> QED
    BY <1>1, <2>1, <2>2 DEF McpInv, LinkStory
<1>5. EntryStory'
  BY <1>1 DEF McpInv, McpTypes, EntryStory
<1> QED
  BY <1>3, <1>4, <1>5, OneMoves

LEMMA EndAttemptKeeps == ASSUME McpInv, NEW g \in Links, EndAttempt(g) PROVE McpInv'
<1> DEFINE shut == CloseSession(g)
<1>1. link \in [Links -> LinkRecord] /\ link[g] \in LinkRecord /\ link[g].at = "closing"
  BY DEF EndAttempt, McpInv, McpTypes
<1>2. shut \in [Links -> LinkRecord] /\ \A d \in Links \ {g} : shut[d] = link[d]
  BY <1>1 DEF CloseSession, LinkRecord
<1>3. /\ shut[g].open = FALSE /\ shut[g].kind = link[g].kind /\ shut[g].asSaved = link[g].asSaved
      /\ shut[g].flow = link[g].flow
  BY <1>1 DEF CloseSession, LinkRecord
<1>4. link' = Over(g, shut) /\ UNCHANGED <<saved, entry, flowOf, call, asks, changes, flowsShut, mcpShut>>
  BY DEF EndAttempt
<1> HIDE DEF shut
<1>5. PICK new \in LinkRecord :
        /\ link' = [shut EXCEPT ![g] = new] /\ new.at = "ended" /\ new.open = shut[g].open
        /\ \/ new = Unreserved /\ shut[g].flow \in {"none", "done"}
           \/ new.kind = shut[g].kind /\ new.asSaved = shut[g].asSaved /\ new.flow = shut[g].flow
  BY <1>2, <1>4, Ends
<1>6. link' = [link EXCEPT ![g] = new]
  BY <1>1, <1>2, <1>5
<1>7. flowOf = g => link[g].kind # "unused" /\ link[g].flow \in {"running", "published"}
  BY DEF McpInv, LinkStory
<1>8. ~(entry.status = "ready" /\ entry.gen = g) /\ entry \in EntryRecord
  BY <1>1 DEF McpInv, McpTypes, EntryStory
<1>9. new.kind = "unused" => flowOf # g
  BY <1>3, <1>5, <1>7
<1>10. \/ new.kind = "unused"
       \/ new.kind = link[g].kind /\ new.asSaved = link[g].asSaved /\ new.flow = link[g].flow
  BY <1>3, <1>5, UnreservedLink
<1>11. ~new.open
  BY <1>3, <1>5
<1> QED
  BY <1>4, <1>5, <1>6, <1>8, <1>9, <1>10, <1>11, OneEnds

LEMMA EndFlowKeeps == ASSUME McpInv, NEW g \in Links, EndFlow(g) PROVE McpInv'
<1> DEFINE over == [link EXCEPT ![g].flow = "done"]
<1>1. /\ link \in [Links -> LinkRecord] /\ link[g] \in LinkRecord /\ link[g].at \in {"watched", "lost", "ended"}
      /\ flowOf' = (IF flowOf = g THEN NoLink ELSE flowOf)
      /\ link' = (IF link[g].at = "ended" THEN Over(g, over) ELSE over)
      /\ UNCHANGED <<saved, entry, call, asks, changes, flowsShut, mcpShut>>
  BY DEF EndFlow, McpInv, McpTypes
<1>2. over \in [Links -> LinkRecord] /\ \A d \in Links \ {g} : over[d] = link[d]
  BY <1>1 DEF LinkRecord
<1>3. /\ over[g].kind = link[g].kind /\ over[g].at = link[g].at /\ over[g].open = link[g].open
      /\ over[g].asSaved = link[g].asSaved /\ over[g].granted = link[g].granted /\ over[g].cancelled = link[g].cancelled
  BY <1>1 DEF LinkRecord
<1> HIDE DEF over
<1>4. flowOf' # g /\ (flowOf' = flowOf \/ flowOf' = NoLink) /\ flowOf' \in {NoLink} \cup Links
  BY <1>1 DEF NoLink, Links, McpInv, McpTypes
<1>5. CASE link[g].at = "ended"
  <2>1. link[g].open = FALSE
    BY <1>1, <1>5 DEF McpInv, LinkStory, LinkRecord
  <2>2. PICK new \in LinkRecord : link' = [over EXCEPT ![g] = new] /\ new.at = "ended" /\ new.open = over[g].open
    BY <1>1, <1>2, <1>5, Ends
  <2>3. link' = [link EXCEPT ![g] = new] /\ ~new.open
    BY <1>1, <1>2, <1>3, <2>1, <2>2
  <2>4. ~(entry.status = "ready" /\ entry.gen = g) /\ entry \in EntryRecord
    BY <1>5 DEF McpInv, McpTypes, EntryStory
  <2> QED
    BY <1>1, <1>4, <2>2, <2>3, <2>4, OneEnds
<1>6. CASE link[g].at # "ended"
  <2>1. link' = [link EXCEPT ![g] = over[g]] /\ link' = over
    BY <1>1, <1>2, <1>6
  <2>2. McpTypes'
    BY <1>1, <1>2, <1>4, <2>1 DEF McpInv, McpTypes
  <2>3. LinkStory(g)'
    BY <1>1, <1>3, <1>4, <2>1 DEF McpInv, LinkStory, InActive
  <2>4. EntryStory'
    BY <1>1, <1>2, <1>3, <2>1 DEF McpInv, McpTypes, EntryStory
  <2> QED
    BY <1>1, <1>4, <2>1, <2>2, <2>3, <2>4, OneMoves
<1> QED
  BY <1>5, <1>6

LEMMA LoseKeeps == ASSUME McpInv, NEW g \in Links, LoseLink(g) PROVE McpInv'
<1> DEFINE new == [link[g] EXCEPT !.at = "lost", !.open = FALSE]
<1>1. /\ link \in [Links -> LinkRecord] /\ link[g] \in LinkRecord /\ link[g].at = "watched"
      /\ link' = [link EXCEPT ![g] = new] /\ UNCHANGED <<saved, entry, flowOf, call, asks, changes, flowsShut, mcpShut>>
  BY DEF LoseLink, McpInv, McpTypes
<1>2. /\ new \in LinkRecord /\ new.kind = link[g].kind /\ new.at = "lost" /\ ~new.open /\ new.cancelled = link[g].cancelled
      /\ new.asSaved = link[g].asSaved /\ new.granted = link[g].granted /\ new.flow = link[g].flow
  BY <1>1 DEF LinkRecord
<1> HIDE DEF new
<1>3. link' \in [Links -> LinkRecord] /\ link'[g] = new
  BY <1>1, <1>2
<1>4. McpTypes'
  BY <1>1, <1>3 DEF McpInv, McpTypes
<1>5. LinkStory(g)'
  BY <1>1, <1>2, <1>3 DEF McpInv, LinkStory, InActive
<1>6. EntryStory'
  BY <1>1, <1>2, <1>3 DEF McpInv, McpTypes, EntryStory
<1> QED
  BY <1>1, <1>4, <1>5, <1>6, OneMoves

LEMMA UnwatchKeeps == ASSUME McpInv, NEW g \in Links, Unwatch(g) PROVE McpInv'
<1> DEFINE left == [link EXCEPT ![g].cancelled = TRUE]
<1>1. /\ link \in [Links -> LinkRecord] /\ link[g] \in LinkRecord /\ link[g].at = "lost"
      /\ entry' = (IF CurrentLink(g) THEN [gen |-> NoLink, status |-> "disconnected"] ELSE entry)
      /\ link' = Over(g, left) /\ UNCHANGED <<saved, flowOf, call, asks, changes, flowsShut, mcpShut>>
  BY DEF Unwatch, McpInv, McpTypes
<1>2. left \in [Links -> LinkRecord] /\ \A d \in Links \ {g} : left[d] = link[d]
  BY <1>1 DEF LinkRecord
<1>3. left[g].open = link[g].open /\ left[g].kind = link[g].kind /\ left[g].asSaved = link[g].asSaved /\ left[g].flow = link[g].flow
  BY <1>1 DEF LinkRecord
<1> HIDE DEF left
<1>4. PICK new \in LinkRecord :
        /\ link' = [left EXCEPT ![g] = new] /\ new.at = "ended" /\ new.open = left[g].open
        /\ \/ new = Unreserved /\ left[g].flow \in {"none", "done"}
           \/ new.kind = left[g].kind /\ new.asSaved = left[g].asSaved /\ new.flow = left[g].flow
  BY <1>1, <1>2, Ends
<1>5. link' = [link EXCEPT ![g] = new]
  BY <1>1, <1>2, <1>4
<1>6. flowOf = g => link[g].kind # "unused" /\ link[g].flow \in {"running", "published"}
  BY DEF McpInv, LinkStory
<1>7. new.kind = "unused" => flowOf' # g
  BY <1>1, <1>3, <1>4, <1>6
<1>8. \/ new.kind = "unused"
      \/ new.kind = link[g].kind /\ new.asSaved = link[g].asSaved /\ new.flow = link[g].flow
  BY <1>3, <1>4, UnreservedLink
<1>9. ~new.open
  BY <1>1, <1>3, <1>4 DEF McpInv, LinkStory
<1>10. /\ entry' \in EntryRecord /\ (entry' = entry \/ (entry.gen = g /\ entry'.status # "ready"))
       /\ entry' = entry => ~(entry.status = "ready" /\ entry.gen = g)
  <2>1. CASE CurrentLink(g)
    <3>1. entry'.status = "disconnected" /\ entry' \in EntryRecord
      BY <1>1, <2>1 DEF EntryRecord
    <3>2. entry.gen = g
      BY <1>1, <2>1 DEF McpInv, LinkStory, CurrentLink
    <3> QED
      BY <1>1, <2>1, <3>1, <3>2
  <2>2. CASE ~CurrentLink(g)
    <3>1. entry' = entry /\ entry \in EntryRecord
      BY <1>1, <2>2 DEF McpInv, McpTypes
    <3>2. ~(entry.status = "ready" /\ entry.gen = g)
      BY <1>1, <2>2 DEF McpInv, EntryStory, CurrentLink, InActive
    <3> QED
      BY <3>1, <3>2
  <2> QED
    BY <2>1, <2>2
<1> QED
  BY <1>1, <1>4, <1>5, <1>7, <1>8, <1>9, <1>10, OneEnds

---------------------------------------------------------------------------
LEMMA McpInitially == ASSUME McpInit PROVE McpInv
<1>1. link \in [Links -> LinkRecord] /\ \A g \in Links : link[g] = Unreserved
  BY UnreservedLink DEF McpInit
<1>2. entry \in EntryRecord /\ entry.status # "ready"
  <2>1. [gen |-> NoLink, status |-> "disabled"] \in EntryRecord
    BY DEF EntryRecord
  <2>2. entry = NoEntry \/ entry = [gen |-> NoLink, status |-> "disabled"]
    BY DEF McpInit
  <2> QED
    BY <2>1, <2>2, NothingEntered
<1>3. saved \in SavedRecord /\ saved.tokens # "older" /\ saved.enabled \in BOOLEAN
  BY DEF McpInit, SavedRecord
<1>4. McpTypes
  <2>1. asks \in BOOLEAN /\ flowsShut \in BOOLEAN /\ mcpShut \in BOOLEAN
    BY <1>3 DEF McpInit
  <2>2. changes \in 0..MaxChanges /\ call \subseteq ToolCalls /\ flowOf \in {NoLink} \cup Links
    BY McpAssumption DEF McpInit
  <2> QED
    BY <1>1, <1>2, <1>3, <2>1, <2>2 DEF McpTypes
<1>5. \A g \in Links : LinkStory(g)
  BY <1>1, UnreservedLink DEF McpInit, LinkStory, InActive, NoLink, Links
<1> QED
  BY <1>2, <1>3, <1>4, <1>5 DEF McpInv, EntryStory

LEMMA CallKeeps ==
  ASSUME McpInv, NEW c \in ToolCalls, CallTool(c) \/ EndToolCall(c) PROVE McpInv'
<1>1. McpTypes'
  BY DEF CallTool, EndToolCall, McpInv, McpTypes
<1>2. \A g \in Links : LinkStory(g)'
  BY DEF CallTool, EndToolCall, McpInv, LinkStory, InActive
<1>3. EntryStory'
  BY DEF CallTool, EndToolCall, McpInv, EntryStory
<1> QED
  BY <1>1, <1>2, <1>3 DEF McpInv

LEMMA McpStepKeeps == ASSUME McpInv, [McpNext]_mcpVars PROVE McpInv'
<1>1. CASE UNCHANGED mcpVars
  <2>1. UNCHANGED <<saved, entry, link, flowOf, call, changes, asks, flowsShut, mcpShut>>
    BY <1>1 DEF mcpVars
  <2>2. McpTypes' /\ EntryStory'
    BY <2>1 DEF McpInv, McpTypes, EntryStory
  <2>3. \A g \in Links : LinkStory(g)'
    BY <2>1 DEF McpInv, LinkStory, InActive
  <2> QED
    BY <2>2, <2>3 DEF McpInv
<1>2. ASSUME NEW enabled \in BOOLEAN, NEW newUrl \in BOOLEAN, SaveServer(enabled, newUrl) PROVE McpInv'
  BY <1>2, SaveKeeps
<1>3. CASE EnableServer \/ DisableServer \/ DeleteServer \/ ClearOAuth \/ AskReconnect
  BY <1>3, EnableKeeps, DisableKeeps, DeleteServerKeeps, ClearKeeps, AskReconnectKeeps
<1>4. CASE ShutFlows \/ ShutMcp
  BY <1>4, ShutFlowsKeeps, ShutMcpKeeps
<1>5. ASSUME NEW g \in Links, NEW begins \in BOOLEAN, ReconnectServer(g, begins) PROVE McpInv'
  BY <1>5, ReconnectKeeps
<1>6. ASSUME NEW g \in Links, BeginTest(g) \/ BeginOAuth(g) PROVE McpInv'
  BY <1>6, TestKeeps, OAuthKeeps
<1>7. ASSUME NEW g \in Links, Attempt(g) PROVE McpInv'
  BY <1>7, PersistKeeps, OpenKeeps, RegisterKeeps, EndAttemptKeeps, EndFlowKeeps, UnwatchKeeps, LoseKeeps DEF Attempt
<1>8. ASSUME NEW g \in Links,
             PublishUrl(g) \/ RefreshToken(g) \/ OpenSession(g) \/ LoseLink(g) \/ AcceptCallback(g)
      PROVE  McpInv'
  BY <1>8, PublishUrlKeeps, TokenKeeps, OpenKeeps, LoseKeeps
<1>9. ASSUME NEW c \in ToolCalls, CallTool(c) \/ EndToolCall(c) PROVE McpInv'
  BY <1>9, CallKeeps
<1> QED
  BY <1>1, <1>2, <1>3, <1>4, <1>5, <1>6, <1>7, <1>8, <1>9 DEF McpNext

\* At most one registered connection lives: each that does is the entry's own.
LEMMA OneLives ==
  ASSUME McpInv
  PROVE  Cardinality({g \in Links : link[g].kind # "test" /\ InActive(g) /\ ~link[g].cancelled}) <= 1
<1> DEFINE alive == {g \in Links : link[g].kind # "test" /\ InActive(g) /\ ~link[g].cancelled}
<1>1. \A g \in alive : g = entry.gen
  BY DEF McpInv, LinkStory
<1>2. alive \subseteq {entry.gen}
  BY <1>1
<1>3. alive = {} \/ alive = {entry.gen}
  BY <1>2
<1>4. Cardinality({}) = 0 /\ Cardinality({entry.gen}) = 1
  BY FS_EmptySet, FS_Singleton
<1>5. Cardinality(alive) \in {0, 1}
  BY <1>3, <1>4
<1> QED
  BY <1>5

LEMMA McpPromises == ASSUME McpInv PROVE McpTypes /\ ServesSavedSettings
<1>1. ASSUME entry.status = "ready"
      PROVE  /\ saved.there /\ saved.enabled
             /\ link[entry.gen].asSaved /\ link[entry.gen].granted /\ link[entry.gen].at \in {"watched", "lost"}
  <2>1. PICK g \in Links : g = entry.gen /\ link[g].kind # "test" /\ link[g].at \in {"watched", "lost"} /\ ~link[g].cancelled
    BY <1>1 DEF McpInv, EntryStory
  <2>2. InActive(g) /\ LinkStory(g)
    BY <2>1 DEF InActive, McpInv
  <2> QED
    BY <2>1, <2>2 DEF LinkStory
<1>2. flowOf # NoLink => link[flowOf].asSaved
  BY DEF McpInv, McpTypes, LinkStory
<1>3. McpDone => \A g \in Links : ~link[g].open
  BY DEF McpDone, McpInv, LinkStory
<1>4. saved.tokens # "older" /\ McpTypes
  BY DEF McpInv, EntryStory
<1> QED
  BY <1>1, <1>2, <1>3, <1>4, OneLives DEF ServesSavedSettings

\* The state of the connections to an MCP server has its types.
THEOREM McpTypesHold == McpSpec => []McpTypes
<1>1. McpSpec => []McpInv
  <2>1. McpInit => McpInv
    BY McpInitially
  <2>2. McpInv /\ [McpNext]_mcpVars => McpInv'
    BY McpStepKeeps
  <2> QED
    BY <2>1, <2>2, PTL DEF McpSpec
<1>2. McpInv => McpTypes
  BY McpPromises
<1> QED
  BY <1>1, <1>2, PTL

\* What is offered of an MCP server was connected with the settings saved last, whatever
\* the order of the operator's requests, the attempts and the flows.
THEOREM SavedSettingsServed == McpSpec => []ServesSavedSettings
<1>1. McpSpec => []McpInv
  <2>1. McpInit => McpInv
    BY McpInitially
  <2>2. McpInv /\ [McpNext]_mcpVars => McpInv'
    BY McpStepKeeps
  <2> QED
    BY <2>1, <2>2, PTL DEF McpSpec
<1>2. McpInv => ServesSavedSettings
  BY McpPromises
<1> QED
  BY <1>1, <1>2, PTL

---------------------------------------------------------------------------
(* The runtime of the Agent *)

\* Who will reload yet: the request is at it, or is about to decide for it.
Owing(c) ==
  \/ client[c].at = "reload"
  \/ client[c].at = "saved" /\ NeedsReload(c)

\* What a reload has read so far is what the rows say.
Agrees(c) ==
  LET move == client[c] IN
  /\ move.at = "active read" => move.p = active
  /\ move.at = "config read" => move.got.main = Config(active)
  /\ move.at = "settings read" =>
       move.got.main = Config(active) /\ move.got.settings = settings.rev /\ move.p = settings.agent
  /\ move.at = "tools read" => move.got = SavedRuntime /\ move.p = settings.agent
  /\ move.at = "agent read" => move.got = SavedRuntime /\ move.agent \in {SavedReviewer, None}
  /\ move.at = "published" =>
       runtime = SavedRuntime /\ move.agent \in {SavedReviewer, None} /\ approvalAvailable = (move.agent # None)

\* The approval Agent is the saved one, or none when it could not be loaded.
ReviewerServed == reviewer \in {SavedReviewer, None} /\ approvalAvailable = (reviewer # None)

\* When nobody will reload, the reload under way has missed nothing; without one the rows
\* are served.
Current ==
  /\ \A c \in Clients : Agrees(c)
  /\ ReloadFree => runtime = SavedRuntime /\ ReviewerServed

\* One reload at a time, which begins with nothing and goes on with a provider.
ReloadStory ==
  /\ \A c, d \in Clients : client[c].at \in ReloadSteps /\ client[d].at \in ReloadSteps => c = d
  /\ \A c \in Clients :
       /\ client[c].at \in {"reload", "active read"} => client[c].got = Unavailable /\ client[c].agent = None
       /\ client[c].at \in {"config read", "settings read", "tools read"} => client[c].got.main # None

WindowStory ==
  /\ window \in {None, runtime.main}
  /\ \A lookup \in lookups : lookup.asked => lookup.model = runtime.main

RuntimeInv ==
  /\ RuntimeTypes /\ ReloadStory /\ WindowStory
  /\ ~unrepaired /\ (\A c \in Clients : ~Owing(c)) => Current

---------------------------------------------------------------------------
\* What a configuration that is read is made of.
LEMMA ConfigTypes ==
  ASSUME RuntimeTypes
  PROVE  /\ None \in Models /\ Unavailable \in Runtimes /\ NoProvider \in Selection /\ Providers \subseteq Selection
         /\ \A p \in Selection : Config(p) \in Models
         /\ \A p \in Selection, main \in Models : AgentOf(p, main) \in Models
         /\ SavedRuntime \in Runtimes /\ SavedReviewer \in Models
<1>1. None \in Models /\ Unavailable \in Runtimes /\ NoProvider \in Selection /\ Providers \subseteq Selection
  BY RuntimeAssumption DEF None, Models, Unavailable, Runtimes, Selection
<1>2. \A p \in Selection : Config(p) \in Models
  <2>1. TAKE p \in Selection
  <2>2. CASE p = NoProvider
    BY <1>1, <2>2 DEF Config
  <2>3. CASE p # NoProvider
    <3>1. provider[p] \in 0..MaxWrites
      BY <2>3 DEF RuntimeTypes, Selection
    <3>2. [provider |-> p, rev |-> provider[p]] \in Models
      BY <3>1 DEF Models
    <3> QED
      BY <1>1, <3>2 DEF Config
  <2> QED
    BY <2>2, <2>3
<1>3. \A p \in Selection, main \in Models : AgentOf(p, main) \in Models
  BY <1>2 DEF AgentOf
<1>4. active \in Selection /\ settings.agent \in Selection /\ settings.rev \in 0..MaxWrites /\ tools \in 0..MaxWrites
  BY DEF RuntimeTypes
<1>5. SavedRuntime \in Runtimes
  BY <1>1, <1>2, <1>4 DEF SavedRuntime, Runtimes
<1>6. SavedReviewer \in Models
  BY <1>1, <1>2, <1>3, <1>4 DEF SavedReviewer
<1> QED
  BY <1>1, <1>2, <1>3, <1>5, <1>6

\* A request begins from its state at rest.
LEMMA RestTypes ==
  ASSUME RuntimeTypes
  PROVE  /\ AtRest \in RuntimeRequests /\ AtRest.at = "idle" /\ AtRest.got = Unavailable /\ AtRest.agent = None
         /\ \A place \in {"idle", "reload", "published"} :
              /\ [AtRest EXCEPT !.at = place] \in RuntimeRequests /\ [AtRest EXCEPT !.at = place].at = place
              /\ [AtRest EXCEPT !.at = place].got = Unavailable /\ [AtRest EXCEPT !.at = place].agent = None
BY ConfigTypes DEF AtRest, RuntimeRequests, ReloadSteps

\* What a request to write holds.
LEMMA WriteTypes ==
  ASSUME RuntimeTypes, NEW p \in Selection, NEW held \in BOOLEAN
  PROVE  /\ [AtRest EXCEPT !.at = "saving", !.p = p, !.active = held] \in RuntimeRequests
         /\ [AtRest EXCEPT !.at = "saving", !.p = p, !.active = held].at = "saving"
         /\ [AtRest EXCEPT !.at = "deleting", !.p = p, !.active = held] \in RuntimeRequests
         /\ [AtRest EXCEPT !.at = "deleting", !.p = p, !.active = held].at = "deleting"
         /\ [AtRest EXCEPT !.at = "saving settings", !.p = p] \in RuntimeRequests
         /\ [AtRest EXCEPT !.at = "saving settings", !.p = p].at = "saving settings"
BY ConfigTypes DEF AtRest, RuntimeRequests, ReloadSteps

\* What a step outside of a reload may be: it changes no more than the request and what
\* nobody has read or serves, and whoever was to reload is still.
Aside(c, move) ==
  /\ move \in RuntimeRequests /\ client' = [client EXCEPT ![c] = move]
  /\ client[c].at \notin ReloadSteps /\ move.at \notin ReloadSteps
  /\ move.at = "reload" => move.got = Unavailable /\ move.agent = None
  /\ UNCHANGED <<runtime, reviewer, approvalAvailable, lookups, window>>

Unread ==
  /\ active' = active /\ settings' = settings /\ tools' = tools
  /\ Config(active)' = Config(active) /\ SavedRuntime' = SavedRuntime /\ SavedReviewer' = SavedReviewer

LEMMA AsideStories ==
  ASSUME RuntimeInv, NEW c \in Clients, NEW move, Aside(c, move)
  PROVE  ReloadStory' /\ WindowStory' /\ client' \in [Clients -> RuntimeRequests] /\ client'[c] = move
<1>1. client' \in [Clients -> RuntimeRequests] /\ client'[c] = move /\ \A d \in Clients \ {c} : client'[d] = client[d]
  BY DEF RuntimeInv, RuntimeTypes, Aside
<1>2. ReloadStory'
  <2>1. \A d, e \in Clients : client'[d].at \in ReloadSteps /\ client'[e].at \in ReloadSteps => d = e
    BY <1>1 DEF RuntimeInv, ReloadStory, Aside
  <2>2. \A d \in Clients :
          /\ client'[d].at \in {"reload", "active read"} => client'[d].got = Unavailable /\ client'[d].agent = None
          /\ client'[d].at \in {"config read", "settings read", "tools read"} => client'[d].got.main # None
    BY <1>1 DEF RuntimeInv, ReloadStory, Aside, ReloadSteps
  <2> QED
    BY <2>1, <2>2 DEF ReloadStory, Unavailable, None
<1>3. WindowStory'
  BY DEF RuntimeInv, WindowStory, Aside, None
<1> QED
  BY <1>1, <1>2, <1>3

LEMMA AsideCurrent ==
  ASSUME RuntimeInv, NEW c \in Clients, NEW move, Aside(c, move), Unread, unrepaired' = unrepaired,
         Owing(c) => Owing(c)'
  PROVE  ~unrepaired' /\ (\A d \in Clients : ~Owing(d)') => Current'
<1> SUFFICES ASSUME ~unrepaired', \A d \in Clients : ~Owing(d)' PROVE Current'
  OBVIOUS
<1>1. client'[c] = move /\ \A d \in Clients \ {c} : client'[d] = client[d]
  BY DEF RuntimeInv, RuntimeTypes, Aside
<1>2. \A d \in Clients : ~Owing(d)
  <2>1. \A d \in Clients \ {c} : Owing(d)' <=> Owing(d)
    BY <1>1 DEF Owing, NeedsReload, Selected, Unread
  <2> QED
    BY <2>1
<1>3. Current
  BY <1>2 DEF RuntimeInv
<1>4. \A d \in Clients : Agrees(d)'
  <2>1. \A d \in Clients \ {c} : Agrees(d)'
    BY <1>1, <1>3, ZenonT(60) DEF Current, Agrees, Unread, Aside
  <2>2. Agrees(c)'
    BY <1>1 DEF Agrees, Aside, ReloadSteps
  <2> QED
    BY <2>1, <2>2
<1>5. ReloadFree' => ReloadFree
  BY <1>1 DEF ReloadFree, Aside
<1> QED
  BY <1>3, <1>4, <1>5 DEF Current, ReviewerServed, Unread, Aside, None

\* Rows of which nobody has read or serves anything.
LEMMA SameRows ==
  ASSUME active' = active, settings' = settings, tools' = tools, provider' = provider
  PROVE  Unread
BY DEF Unread, Config, SavedRuntime, SavedReviewer, AgentOf

LEMMA OtherRow ==
  ASSUME RuntimeTypes, active' = active, settings' = settings, tools' = tools, NEW p, p # active, p # settings.agent,
         NEW rev, provider' = [provider EXCEPT ![p] = rev]
  PROVE  Unread
<1>1. \A q \in Selection \ {p} : Config(q)' = Config(q)
  BY DEF RuntimeTypes, Config, Selection
<1>2. Config(active)' = Config(active) /\ Config(settings.agent)' = Config(settings.agent)
  BY <1>1 DEF RuntimeTypes, Config
<1>3. SavedRuntime' = SavedRuntime
  BY <1>2 DEF SavedRuntime, Unavailable, None
<1>4. SavedReviewer' = SavedReviewer
  BY <1>2 DEF SavedReviewer, AgentOf, None
<1> QED
  BY <1>2, <1>3, <1>4 DEF Unread

---------------------------------------------------------------------------
\* A write that a reload follows.
LEMMA WriteAndReload ==
  ASSUME RuntimeInv, NEW c \in Clients, MustReload(c), client[c].at \notin ReloadSteps, RuntimeTypes',
         UNCHANGED <<runtime, reviewer, approvalAvailable, lookups, window>>
  PROVE  RuntimeInv'
<1> DEFINE move == [AtRest EXCEPT !.at = "reload"]
<1>1. move \in RuntimeRequests /\ move.at = "reload" /\ move.got = Unavailable /\ move.agent = None
  BY RestTypes DEF RuntimeInv
<1>2. Aside(c, move)
  BY <1>1 DEF Aside, MustReload, Turns, ReloadSteps
<1> HIDE DEF move
<1>3. ReloadStory' /\ WindowStory' /\ client'[c] = move
  BY <1>2, AsideStories
<1>4. Owing(c)'
  BY <1>1, <1>3 DEF Owing
<1> QED
  BY <1>3, <1>4 DEF RuntimeInv

\* A step that only moves a request.
LEMMA OnlyMoves ==
  ASSUME RuntimeInv, NEW c \in Clients, NEW move, Aside(c, move), Owing(c) => Owing(c)',
         UNCHANGED <<savedRows, unrepaired>>
  PROVE  RuntimeInv'
<1>1. ReloadStory' /\ WindowStory' /\ client' \in [Clients -> RuntimeRequests]
  BY AsideStories
<1>2. Unread
  BY SameRows DEF savedRows
<1>3. ~unrepaired' /\ (\A d \in Clients : ~Owing(d)') => Current'
  BY <1>2, AsideCurrent
<1>4. RuntimeTypes'
  BY <1>1 DEF RuntimeInv, RuntimeTypes, Aside, savedRows
<1> QED
  BY <1>1, <1>3, <1>4 DEF RuntimeInv

LEMMA AskRuntimeKeeps ==
  ASSUME RuntimeInv, NEW c \in Clients, AskToSaveProvider(c) \/ AskToDeleteProvider(c) \/ AskToSaveSettings(c)
  PROVE  RuntimeInv'
<1>1. client[c].at = "idle" /\ UNCHANGED <<savedRows, runtime, reviewer, approvalAvailable, lookups, window, unrepaired>>
  BY DEF AskToSaveProvider, AskToDeleteProvider, AskToSaveSettings, Idle, served
<1>2. \E move \in RuntimeRequests :
        client' = [client EXCEPT ![c] = move] /\ move.at \in {"saving", "deleting", "saving settings"}
  <2>1. settings.agent \in Selection /\ NoProvider \in Selection /\ Providers \subseteq Selection
    BY ConfigTypes DEF RuntimeInv, RuntimeTypes
  <2>2. CASE AskToSaveProvider(c)
    <3>1. \E p \in Selection, held \in BOOLEAN :
            client' = [client EXCEPT ![c] = [AtRest EXCEPT !.at = "saving", !.p = p, !.active = held]]
      BY <2>1, <2>2 DEF AskToSaveProvider
    <3>2. PICK p \in Selection, held \in BOOLEAN :
            client' = [client EXCEPT ![c] = [AtRest EXCEPT !.at = "saving", !.p = p, !.active = held]]
      BY <3>1
    <3> DEFINE move == [AtRest EXCEPT !.at = "saving", !.p = p, !.active = held]
    <3>a. RuntimeTypes
      BY DEF RuntimeInv
    <3>3. move \in RuntimeRequests /\ move.at = "saving"
      BY <3>a, <3>2, WriteTypes
    <3>4. client' = [client EXCEPT ![c] = move]
      BY <3>2
    <3> HIDE DEF move
    <3> QED
      BY <3>3, <3>4
  <2>3. CASE AskToDeleteProvider(c)
    <3>1. \E p \in Selection, held \in BOOLEAN :
            client' = [client EXCEPT ![c] = [AtRest EXCEPT !.at = "deleting", !.p = p, !.active = held]]
      BY <2>1, <2>3 DEF AskToDeleteProvider
    <3>2. PICK p \in Selection, held \in BOOLEAN :
            client' = [client EXCEPT ![c] = [AtRest EXCEPT !.at = "deleting", !.p = p, !.active = held]]
      BY <3>1
    <3> DEFINE move == [AtRest EXCEPT !.at = "deleting", !.p = p, !.active = held]
    <3>a. RuntimeTypes
      BY DEF RuntimeInv
    <3>3. move \in RuntimeRequests /\ move.at = "deleting"
      BY <3>a, <3>2, WriteTypes
    <3>4. client' = [client EXCEPT ![c] = move]
      BY <3>2
    <3> HIDE DEF move
    <3> QED
      BY <3>3, <3>4
  <2>4. CASE AskToSaveSettings(c)
    <3>1. PICK p \in Selection : client' = [client EXCEPT ![c] = [AtRest EXCEPT !.at = "saving settings", !.p = p]]
      BY <2>1, <2>4 DEF AskToSaveSettings
    <3> DEFINE move == [AtRest EXCEPT !.at = "saving settings", !.p = p]
    <3>a. RuntimeTypes
      BY DEF RuntimeInv
    <3>2. move \in RuntimeRequests /\ move.at = "saving settings"
      BY <3>a, <3>1, WriteTypes
    <3>3. client' = [client EXCEPT ![c] = move]
      BY <3>1
    <3> HIDE DEF move
    <3> QED
      BY <3>2, <3>3
  <2> QED
    BY <2>2, <2>3, <2>4
<1>3. PICK move \in RuntimeRequests :
        client' = [client EXCEPT ![c] = move] /\ move.at \in {"saving", "deleting", "saving settings"}
  BY <1>2
<1>4. Aside(c, move)
  BY <1>1, <1>3 DEF Aside, ReloadSteps
<1>5. ~Owing(c)
  BY <1>1 DEF Owing
<1> QED
  BY <1>1, <1>4, <1>5, OnlyMoves

LEMMA DecideKeeps ==
  ASSUME RuntimeInv, NEW c \in Clients, DecideReload(c)
  PROVE  RuntimeInv'
<1> DEFINE place == IF NeedsReload(c) THEN "reload" ELSE "idle"
<1> DEFINE move == [AtRest EXCEPT !.at = place]
<1>1. client' = [client EXCEPT ![c] = move]
  BY DEF DecideReload, MustReload, Turns
<1>2. move \in RuntimeRequests /\ move.at = place /\ move.got = Unavailable /\ move.agent = None
  BY RestTypes DEF RuntimeInv
<1>3. place \in {"reload", "idle"} /\ (Owing(c) => place = "reload")
  BY DEF Owing, DecideReload
<1> HIDE DEF place, move
<1>4. client[c].at = "saved" /\ UNCHANGED <<savedRows, runtime, reviewer, approvalAvailable, lookups, window, unrepaired>>
  BY DEF DecideReload, served
<1>5. Aside(c, move)
  BY <1>1, <1>2, <1>3, <1>4 DEF Aside, ReloadSteps
<1>6. Owing(c) => Owing(c)'
  <2>1. client'[c] = move
    BY <1>5, AsideStories
  <2> QED
    BY <1>2, <1>3, <2>1 DEF Owing
<1> QED
  BY <1>4, <1>5, <1>6, OnlyMoves

LEMMA FailDecideKeeps ==
  ASSUME RuntimeInv, NEW c \in Clients, FailDecide(c)
  PROVE  RuntimeInv'
<1> DEFINE move == [AtRest EXCEPT !.at = "idle"]
<1>1. /\ client[c].at = "saved" /\ client' = [client EXCEPT ![c] = move] /\ unrepaired' = (unrepaired \/ NeedsReload(c))
      /\ UNCHANGED <<savedRows, runtime, reviewer, approvalAvailable, lookups, window>>
  BY DEF FailDecide, Turns, served
<1>2. move \in RuntimeRequests /\ move.at = "idle"
  BY RestTypes DEF RuntimeInv
<1> HIDE DEF move
<1>3. Aside(c, move)
  BY <1>1, <1>2 DEF Aside, ReloadSteps
<1>4. CASE NeedsReload(c)
  <2>1. unrepaired' = TRUE
    BY <1>1, <1>4
  <2>2. ReloadStory' /\ WindowStory' /\ client' \in [Clients -> RuntimeRequests]
    BY <1>3, AsideStories
  <2>3. RuntimeTypes'
    BY <1>1, <2>1, <2>2 DEF RuntimeInv, RuntimeTypes, savedRows
  <2> QED
    BY <2>1, <2>2, <2>3 DEF RuntimeInv
<1>5. CASE ~NeedsReload(c)
  <2>1. unrepaired' = unrepaired
    BY <1>1, <1>5 DEF RuntimeInv, RuntimeTypes
  <2>2. ~Owing(c)
    BY <1>1, <1>5 DEF Owing
  <2> QED
    BY <1>1, <1>3, <2>1, <2>2, OnlyMoves
<1> QED
  BY <1>4, <1>5

\* A write after which the request ends without a reload.
LEMMA WriteAndFail ==
  ASSUME RuntimeInv, NEW c \in Clients, Turns(c, "idle"), client[c].at = "idle", RuntimeTypes',
         UNCHANGED <<runtime, reviewer, approvalAvailable, lookups, window>>,
         unrepaired' = TRUE \/ (unrepaired' = unrepaired /\ Unread)
  PROVE  RuntimeInv'
<1> DEFINE move == [AtRest EXCEPT !.at = "idle"]
<1>1. move \in RuntimeRequests /\ move.at = "idle" /\ client' = [client EXCEPT ![c] = move]
  BY RestTypes DEF RuntimeInv, Turns
<1> HIDE DEF move
<1>2. Aside(c, move)
  BY <1>1 DEF Aside, ReloadSteps
<1>3. ReloadStory' /\ WindowStory'
  BY <1>2, AsideStories
<1>4. ~Owing(c)
  BY DEF Owing
<1>5. ~unrepaired' /\ (\A d \in Clients : ~Owing(d)') => Current'
  <2>1. CASE unrepaired' = TRUE
    BY <2>1
  <2>2. CASE unrepaired' = unrepaired /\ Unread
    BY <1>2, <1>4, <2>2, AsideCurrent
  <2> QED
    BY <2>1, <2>2
<1> QED
  BY <1>3, <1>5 DEF RuntimeInv

LEMMA WritesKeep ==
  ASSUME RuntimeInv, NEW c \in Clients,
         ActivateProvider(c) \/ SaveProviderProxy(c) \/ ImportProviders(c) \/ SaveSettings(c) \/ ChangeTools(c)
  PROVE  RuntimeInv'
<1>1. /\ MustReload(c) \/ Turns(c, "idle")
      /\ client[c].at \in {"idle", "saving settings"} /\ writes' = writes + 1 /\ writes < MaxWrites
      /\ UNCHANGED <<runtime, reviewer, approvalAvailable, lookups, window>>
  BY DEF ActivateProvider, SaveProviderProxy, ImportProviders, SaveSettings, ChangeTools, Idle, WriteNext, served
<1>2. client' \in [Clients -> RuntimeRequests] /\ unrepaired' \in BOOLEAN
  <2>1. client' \in [Clients -> RuntimeRequests]
    BY <1>1, RestTypes DEF RuntimeInv, RuntimeTypes, MustReload, Turns
  <2>2. unrepaired \in BOOLEAN
    BY DEF RuntimeInv, RuntimeTypes
  <2>3. \A p \in Providers : InUse(p) \in BOOLEAN
    BY DEF InUse, Selected
  <2>4. unrepaired' \in BOOLEAN
    BY <2>2, <2>3, Zenon DEF ActivateProvider, SaveProviderProxy, ImportProviders, SaveSettings, ChangeTools
  <2> QED
    BY <2>1, <2>4
<1>3. writes' \in 1..MaxWrites /\ writes + 1 \in 0..MaxWrites
  <2>1. writes \in 1..MaxWrites /\ MaxWrites \in Nat
    BY RuntimeAssumption DEF RuntimeInv, RuntimeTypes
  <2>2. writes' = writes + 1
    BY <1>1
  <2>3. writes < MaxWrites
    BY <1>1
  <2>4. writes \in Nat /\ 1 <= writes
    BY <2>1
  <2> QED
    BY <2>1, <2>2, <2>3, <2>4
<1>4. provider' \in [Providers -> 0..MaxWrites]
  BY <1>3 DEF RuntimeInv, RuntimeTypes, ActivateProvider, SaveProviderProxy, ImportProviders, SaveSettings, ChangeTools
<1>5. active' \in Selection
  BY RuntimeAssumption DEF RuntimeInv, RuntimeTypes, ActivateProvider, SaveProviderProxy, ImportProviders, SaveSettings, ChangeTools,
     Selection
<1>6. settings' \in [rev : 0..MaxWrites, agent : Selection] /\ tools' \in 0..MaxWrites
  <2>1. client[c].p \in Selection
    BY DEF RuntimeInv, RuntimeTypes, RuntimeRequests
  <2>2. settings \in [rev : 0..MaxWrites, agent : Selection] /\ tools \in 0..MaxWrites
    BY DEF RuntimeInv, RuntimeTypes
  <2>3. settings' = settings \/ settings' = [rev |-> writes + 1, agent |-> client[c].p]
    BY DEF ActivateProvider, SaveProviderProxy, ImportProviders, SaveSettings, ChangeTools
  <2>4. tools' = tools \/ tools' = writes + 1
    BY DEF ActivateProvider, SaveProviderProxy, ImportProviders, SaveSettings, ChangeTools
  <2> QED
    BY <1>3, <2>1, <2>2, <2>3, <2>4
<1>7. RuntimeTypes'
  BY <1>1, <1>2, <1>3, <1>4, <1>5, <1>6 DEF RuntimeInv, RuntimeTypes
<1>8. CASE MustReload(c)
  BY <1>1, <1>7, <1>8, WriteAndReload DEF ReloadSteps
<1>9. CASE ~MustReload(c)
  <2>1. Turns(c, "idle") /\ client[c].at = "idle"
    BY <1>1, <1>9 DEF ActivateProvider, SaveProviderProxy, ImportProviders, SaveSettings, ChangeTools, Idle
  <2>2. CASE ChangeTools(c)
    <3>1. unrepaired' = TRUE
      BY <1>9, <2>2 DEF ChangeTools
    <3> QED
      BY <1>1, <1>7, <2>1, <3>1, WriteAndFail
  <2>3. CASE SaveProviderProxy(c)
    <3>1. PICK p \in Providers :
            /\ provider' = [provider EXCEPT ![p] = writes + 1] /\ unrepaired' = (unrepaired \/ InUse(p))
            /\ UNCHANGED <<active, settings, tools>>
      BY <1>9, <2>3 DEF SaveProviderProxy
    <3>2. CASE InUse(p)
      <4>1. unrepaired' = TRUE
        BY <3>1, <3>2
      <4> QED
        BY <1>1, <1>7, <2>1, <4>1, WriteAndFail
    <3>3. CASE ~InUse(p)
      <4>1. unrepaired' = unrepaired
        BY <3>1, <3>3 DEF RuntimeInv, RuntimeTypes
      <4>2. p # active /\ p # settings.agent
        BY <3>3 DEF InUse, Selected
      <4>3. Unread
        BY <3>1, <4>2, OtherRow DEF RuntimeInv
      <4> QED
        BY <1>1, <1>7, <2>1, <4>1, <4>3, WriteAndFail
    <3> QED
      BY <3>2, <3>3
  <2> QED
    BY <1>9, <2>2, <2>3 DEF ActivateProvider, ImportProviders, SaveSettings
<1> QED
  BY <1>8, <1>9

\* The row of a provider in use changes, and the request knows; or nobody uses it.
LEMMA UpsertKeeps == ASSUME RuntimeInv, NEW c \in Clients, UpsertProvider(c) PROVE RuntimeInv'
<1> DEFINE p == client[c].p
<1>1. /\ client[c].at = "saving" /\ writes < MaxWrites /\ p \in Selection
      /\ UNCHANGED <<settings, tools, runtime, reviewer, approvalAvailable, lookups, window, unrepaired>>
  BY DEF UpsertProvider, served, savedRows, RuntimeInv, RuntimeTypes, RuntimeRequests
<1>2. ~Owing(c)
  BY <1>1 DEF Owing
<1>3. CASE provider[p] = 0 /\ client[c].active /\ active # NoProvider
  <2> DEFINE move == [AtRest EXCEPT !.at = "idle"]
  <2>1. move \in RuntimeRequests /\ move.at = "idle"
    BY RestTypes DEF RuntimeInv
  <2>2. client' = [client EXCEPT ![c] = move] /\ UNCHANGED savedRows
    BY <1>3 DEF UpsertProvider, Turns
  <2> HIDE DEF move
  <2>3. Aside(c, move)
    BY <1>1, <2>1, <2>2 DEF Aside, ReloadSteps
  <2> QED
    BY <1>1, <1>2, <2>2, <2>3, OnlyMoves
<1>4. CASE ~(provider[p] = 0 /\ client[c].active /\ active # NoProvider)
  <2> DEFINE move == [client[c] EXCEPT !.at = "saved", !.active = (active' = p)]
  <2>1. /\ writes' = writes + 1 /\ provider' = [provider EXCEPT ![p] = writes + 1]
        /\ active' = (IF provider[p] = 0 /\ client[c].active THEN p ELSE active)
        /\ client' = [client EXCEPT ![c].at = "saved", ![c].active = (active' = p)]
    BY <1>4 DEF UpsertProvider, WriteNext
  <2>2. client' = [client EXCEPT ![c] = move]
    BY <2>1
  <2>3. move \in RuntimeRequests /\ move.at = "saved" /\ move.active = (active' = p) /\ move.p = p
    <3>1. \A held \in BOOLEAN :
            LET r == [client[c] EXCEPT !.at = "saved", !.active = held]
            IN  r \in RuntimeRequests /\ r.at = "saved" /\ r.active = held /\ r.p = p
      BY DEF RuntimeInv, RuntimeTypes, RuntimeRequests
    <3>2. (active' = p) \in BOOLEAN
      OBVIOUS
    <3> QED
      BY <3>1, <3>2
  <2> HIDE DEF move
  <2>4. Aside(c, move)
    BY <1>1, <2>2, <2>3 DEF Aside, ReloadSteps
  <2>5. ReloadStory' /\ WindowStory' /\ client' \in [Clients -> RuntimeRequests] /\ client'[c] = move
    BY <2>4, AsideStories
  <2>6. writes + 1 \in 0..MaxWrites /\ writes + 1 \in 1..MaxWrites
    <3>1. writes \in 1..MaxWrites /\ MaxWrites \in Nat
      BY RuntimeAssumption DEF RuntimeInv, RuntimeTypes
    <3>2. writes \in Nat /\ 1 <= writes /\ writes < MaxWrites
      BY <1>1, <3>1
    <3> QED
      BY <3>1, <3>2
  <2>7. provider' \in [Providers -> 0..MaxWrites] /\ active' \in Selection
    BY <1>1, <2>1, <2>6 DEF RuntimeInv, RuntimeTypes
  <2>8. RuntimeTypes'
    BY <1>1, <2>1, <2>5, <2>6, <2>7 DEF RuntimeInv, RuntimeTypes
  <2>9. ~unrepaired' /\ (\A d \in Clients : ~Owing(d)') => Current'
    <3>1. CASE active' = p \/ settings.agent = p
      <4>1. Owing(c)'
        BY <1>1, <2>3, <2>5, <3>1 DEF Owing, NeedsReload, Selected
      <4> QED
        BY <4>1
    <3>2. CASE active' # p /\ settings.agent # p
      <4>1. Unread
        BY <1>1, <2>1, <3>2, OtherRow DEF RuntimeInv
      <4> QED
        BY <1>1, <1>2, <2>4, <4>1, AsideCurrent
    <3> QED
      BY <3>1, <3>2
  <2> QED
    BY <2>5, <2>8, <2>9 DEF RuntimeInv
<1> QED
  BY <1>3, <1>4

LEMMA DeleteKeeps == ASSUME RuntimeInv, NEW c \in Clients, DeleteProvider(c) PROVE RuntimeInv'
<1> DEFINE p == client[c].p
<1>1. /\ client[c].at = "deleting" /\ writes < MaxWrites /\ p \in Selection
      /\ UNCHANGED <<settings, tools, runtime, reviewer, approvalAvailable, lookups, window>>
  BY DEF DeleteProvider, served, RuntimeInv, RuntimeTypes, RuntimeRequests
<1>2. ~Owing(c)
  BY <1>1 DEF Owing
<1> DEFINE move == [AtRest EXCEPT !.at = "idle"]
<1>3. move \in RuntimeRequests /\ move.at = "idle"
  BY RestTypes DEF RuntimeInv
<1>4. CASE provider[p] = 0
  <2>1. client' = [client EXCEPT ![c] = move] /\ UNCHANGED <<savedRows, unrepaired>>
    BY <1>1, <1>4 DEF DeleteProvider, Turns, savedRows
  <2> HIDE DEF move
  <2>2. Aside(c, move)
    BY <1>1, <1>3, <2>1 DEF Aside, ReloadSteps
  <2> QED
    BY <1>1, <1>2, <2>1, <2>2, OnlyMoves
<1>5. CASE provider[p] # 0
  <2>1. /\ writes' = writes + 1 /\ provider' = [provider EXCEPT ![p] = 0]
        /\ active' = (IF active = p THEN NoProvider ELSE active)
        /\ unrepaired' = (unrepaired \/ (~client[c].active /\ InUse(p)))
    BY <1>5 DEF DeleteProvider, WriteNext
  <2>2. writes + 1 \in 1..MaxWrites /\ 0 \in 0..MaxWrites
    <3>1. writes \in 1..MaxWrites /\ MaxWrites \in Nat
      BY RuntimeAssumption DEF RuntimeInv, RuntimeTypes
    <3>2. writes \in Nat /\ 1 <= writes /\ writes < MaxWrites
      BY <1>1, <3>1
    <3> QED
      BY <3>1, <3>2
  <2>3. provider' \in [Providers -> 0..MaxWrites] /\ active' \in Selection /\ unrepaired' \in BOOLEAN
    BY <1>1, <2>1, <2>2, ConfigTypes DEF RuntimeInv, RuntimeTypes
  <2>4. CASE client[c].active
    <3>1. MustReload(c)
      BY <1>5, <2>4 DEF DeleteProvider
    <3>2. client' \in [Clients -> RuntimeRequests]
      BY <3>1, RestTypes DEF RuntimeInv, RuntimeTypes, MustReload, Turns
    <3>3. RuntimeTypes'
      BY <1>1, <2>1, <2>2, <2>3, <3>2 DEF RuntimeInv, RuntimeTypes
    <3> QED
      BY <1>1, <3>1, <3>3, WriteAndReload DEF ReloadSteps
  <2>5. CASE ~client[c].active
    <3>1. client' = [client EXCEPT ![c] = move]
      BY <1>5, <2>5 DEF DeleteProvider, Turns
    <3> HIDE DEF move
    <3>2. Aside(c, move)
      BY <1>1, <1>3, <3>1 DEF Aside, ReloadSteps
    <3>3. ReloadStory' /\ WindowStory' /\ client' \in [Clients -> RuntimeRequests]
      BY <3>2, AsideStories
    <3>4. RuntimeTypes'
      BY <1>1, <2>1, <2>2, <2>3, <3>3 DEF RuntimeInv, RuntimeTypes
    <3>5. ~unrepaired' /\ (\A d \in Clients : ~Owing(d)') => Current'
      <4>1. CASE InUse(p)
        BY <2>1, <2>5, <4>1
      <4>2. CASE ~InUse(p)
        <5>1. active' = active /\ p # active /\ p # settings.agent /\ unrepaired' = unrepaired
          BY <2>1, <2>5, <4>2 DEF InUse, Selected, RuntimeInv, RuntimeTypes
        <5>2. Unread
          BY <1>1, <2>1, <5>1, OtherRow DEF RuntimeInv
        <5> QED
          BY <1>2, <3>2, <5>1, <5>2, AsideCurrent
      <4> QED
        BY <4>1, <4>2
    <3> QED
      BY <3>3, <3>4, <3>5 DEF RuntimeInv
  <2> QED
    BY <2>4, <2>5
<1> QED
  BY <1>4, <1>5

---------------------------------------------------------------------------
\* A step of the reload under way: the request moves on, the rows stay.
ReloadMove(c, move) ==
  /\ move \in RuntimeRequests /\ client' = [client EXCEPT ![c] = move]
  /\ move.at # "reload"
  /\ move.at = "active read" => move.got = Unavailable /\ move.agent = None
  /\ move.at \in {"config read", "settings read", "tools read"} => move.got.main # None
  /\ UNCHANGED savedRows

\* (it is the only one)
LEMMA ReloadMoves ==
  ASSUME RuntimeInv, NEW c \in Clients, NEW move, ReloadMove(c, move), client[c].at \in ReloadSteps \/ ReloadFree
  PROVE  /\ ReloadStory' /\ client' \in [Clients -> RuntimeRequests] /\ client'[c] = move
         /\ \A d \in Clients \ {c} : client'[d] = client[d] /\ client[d].at \notin ReloadSteps /\ Agrees(d)'
         /\ Unread
<1>1. client' \in [Clients -> RuntimeRequests] /\ client'[c] = move /\ \A d \in Clients \ {c} : client'[d] = client[d]
  BY DEF RuntimeInv, RuntimeTypes, ReloadMove
<1>2. \A d \in Clients \ {c} : client[d].at \notin ReloadSteps
  BY DEF RuntimeInv, ReloadStory, ReloadFree
<1>3. ReloadStory'
  <2>1. \A d, e \in Clients : client'[d].at \in ReloadSteps /\ client'[e].at \in ReloadSteps => d = e
    BY <1>1, <1>2
  <2>2. \A d \in Clients :
          /\ client'[d].at \in {"reload", "active read"} => client'[d].got = Unavailable /\ client'[d].agent = None
          /\ client'[d].at \in {"config read", "settings read", "tools read"} => client'[d].got.main # None
    BY <1>1 DEF RuntimeInv, ReloadStory, ReloadMove
  <2> QED
    BY <2>1, <2>2 DEF ReloadStory, Unavailable, None
<1>4. \A d \in Clients \ {c} : Agrees(d)'
  BY <1>1, <1>2 DEF Agrees, ReloadSteps
<1>5. Unread
  BY SameRows DEF ReloadMove, savedRows
<1> QED
  BY <1>1, <1>2, <1>3, <1>4, <1>5

\* While it reads, nothing is served anew.
LEMMA ReloadReads ==
  ASSUME RuntimeInv, NEW c \in Clients, NEW move, ReloadMove(c, move), client[c].at \in ReloadSteps,
         move.at \in ReloadSteps, UNCHANGED <<served, unrepaired>>, Current => Agrees(c)'
  PROVE  RuntimeInv'
<1>1. /\ ReloadStory' /\ client' \in [Clients -> RuntimeRequests] /\ client'[c] = move
      /\ \A d \in Clients \ {c} : client'[d] = client[d] /\ Agrees(d)'
      /\ Unread
  BY ReloadMoves
<1>2. RuntimeTypes' /\ WindowStory'
  BY <1>1 DEF RuntimeInv, RuntimeTypes, WindowStory, ReloadMove, savedRows, served, None
<1>3. ASSUME ~unrepaired', \A d \in Clients : ~Owing(d)' PROVE Current'
  <2>1. \A d \in Clients : ~Owing(d)
    <3>1. ~Owing(c)
      BY DEF Owing, ReloadSteps
    <3>2. \A d \in Clients \ {c} : Owing(d)' <=> Owing(d)
      BY <1>1 DEF Owing, NeedsReload, Selected, Unread
    <3> QED
      BY <1>3, <3>1, <3>2
  <2>2. Current
    BY <1>3, <2>1 DEF RuntimeInv
  <2>3. ~ReloadFree'
    BY <1>1 DEF ReloadFree
  <2> QED
    BY <1>1, <2>2, <2>3 DEF Current
<1> QED
  BY <1>1, <1>2, <1>3 DEF RuntimeInv

\* What a request holds has its type.
LEMMA RequestTypes ==
  ASSUME RuntimeTypes, NEW c \in Clients
  PROVE  /\ client[c].p \in Selection /\ client[c].got \in Runtimes /\ client[c].got.main \in Models /\ client[c].agent \in Models
<1>1. client[c] \in RuntimeRequests
  BY DEF RuntimeTypes
<1>2. client[c].p \in Selection /\ client[c].got \in Runtimes /\ client[c].agent \in Models
  BY <1>1 DEF RuntimeRequests
<1>3. client[c].got.main \in Models
  BY <1>2 DEF Runtimes
<1> QED
  BY <1>2, <1>3

LEMMA ReadActiveKeeps == ASSUME RuntimeInv, NEW c \in Clients, ReadActive(c) PROVE RuntimeInv'
<1> DEFINE move == [client[c] EXCEPT !.at = "active read", !.p = active]
<1>1. /\ client[c].at = "reload" /\ ReloadFree /\ client' = [client EXCEPT ![c] = move] /\ unrepaired' = FALSE
      /\ UNCHANGED <<savedRows, runtime, reviewer, approvalAvailable, lookups, window>>
  BY DEF ReadActive, served
<1>2. client[c] \in RuntimeRequests /\ active \in Selection
  BY DEF RuntimeInv, RuntimeTypes
<1>3. /\ move \in RuntimeRequests /\ move.at = "active read" /\ move.p = active
      /\ move.got = client[c].got /\ move.agent = client[c].agent
  BY <1>2 DEF RuntimeRequests, ReloadSteps
<1> HIDE DEF move
<1>4. client[c].got = Unavailable /\ client[c].agent = None
  BY <1>1 DEF RuntimeInv, ReloadStory
<1>5. ReloadMove(c, move)
  BY <1>1, <1>3, <1>4 DEF ReloadMove
<1>6. /\ ReloadStory' /\ client' \in [Clients -> RuntimeRequests] /\ client'[c] = move
      /\ \A d \in Clients \ {c} : client'[d] = client[d] /\ Agrees(d)'
  BY <1>1, <1>5, ReloadMoves
<1>7. RuntimeTypes' /\ WindowStory'
  BY <1>1, <1>6 DEF RuntimeInv, RuntimeTypes, WindowStory, savedRows, None
<1>8. Agrees(c)' /\ ~ReloadFree'
  BY <1>1, <1>3, <1>6 DEF Agrees, ReloadFree, ReloadSteps, savedRows
<1>9. Current'
  BY <1>6, <1>8 DEF Current
<1> QED
  BY <1>6, <1>7, <1>9 DEF RuntimeInv

LEMMA ReadConfigKeeps == ASSUME RuntimeInv, NEW c \in Clients, ReadConfig(c) PROVE RuntimeInv'
<1> DEFINE main == Config(client[c].p)
           place == IF main = None THEN "agent read" ELSE "config read"
           got == [client[c].got EXCEPT !.main = main]
           move == [client[c] EXCEPT !.at = place, !.p = @, !.got = got, !.agent = @]
<1>1. /\ client[c].at = "active read" /\ client' = [client EXCEPT ![c] = move]
      /\ UNCHANGED <<savedRows, served, unrepaired>>
  <2>1. client' = [client EXCEPT ![c].at = place, ![c].got.main = main]
    BY DEF ReadConfig
  <2>2. client[c] \in RuntimeRequests /\ client \in [Clients -> RuntimeRequests]
    BY DEF RuntimeInv, RuntimeTypes
  <2>3. client' = [client EXCEPT ![c] = [client[c] EXCEPT !.at = place, !.got = got]]
    BY <2>1
  <2>4. [client[c] EXCEPT !.at = place, !.got = got] = move
    BY <2>2 DEF RuntimeRequests
  <2> QED
    BY <2>3, <2>4 DEF ReadConfig
<1>2. main \in Models /\ place \in ReloadSteps
  <2>1. client[c].p \in Selection
    BY RequestTypes DEF RuntimeInv
  <2> QED
    BY <2>1, ConfigTypes DEF RuntimeInv, ReloadSteps
<1>3. got \in Runtimes /\ got.main = main
  <2>1. client[c].got \in Runtimes
    BY RequestTypes DEF RuntimeInv
  <2> QED
    BY <1>2, <2>1 DEF Runtimes
<1>6. (place = "agent read" /\ main = None) \/ (place = "config read" /\ main # None)
  OBVIOUS
<1> HIDE DEF got, main, place
<1>4. move \in RuntimeRequests /\ move.at = place /\ move.got = got /\ move.agent = client[c].agent
  <2>1. client[c] \in RuntimeRequests
    BY DEF RuntimeInv, RuntimeTypes
  <2> QED
    BY <1>2, <1>3, <2>1 DEF RuntimeRequests
<1>5. client[c].got = Unavailable /\ client[c].agent = None /\ client[c].at \in ReloadSteps
  BY <1>1 DEF RuntimeInv, ReloadStory, ReloadSteps
<1> HIDE DEF move
<1>7. ReloadMove(c, move)
  BY <1>1, <1>3, <1>4, <1>6 DEF ReloadMove
<1>8. client'[c] = move /\ Unread
  BY <1>5, <1>7, ReloadMoves
<1>9. ASSUME Current PROVE Agrees(c)'
  <2>1. main = Config(active)
    BY <1>1, <1>9 DEF Current, Agrees, main
  <2>2. CASE main # None
    BY <1>1, <1>3, <1>4, <1>6, <1>8, <2>1, <2>2 DEF Agrees, Unread
  <2>3. CASE main = None
    <3>1. SavedRuntime = Unavailable /\ SavedReviewer = None
      BY <2>1, <2>3 DEF SavedRuntime, SavedReviewer
    <3>2. got = Unavailable
      BY <1>5, <2>3 DEF got, Unavailable, None
    <3> QED
      BY <1>4, <1>5, <1>6, <1>8, <2>3, <3>1, <3>2 DEF Agrees, Unread
  <2> QED
    BY <2>2, <2>3
<1> QED
  BY <1>1, <1>2, <1>4, <1>5, <1>7, <1>9, ReloadReads

LEMMA ReadSettingsKeeps == ASSUME RuntimeInv, NEW c \in Clients, ReadSettings(c) PROVE RuntimeInv'
<1> DEFINE got == [client[c].got EXCEPT !.settings = settings.rev]
           move == [client[c] EXCEPT !.at = "settings read", !.p = settings.agent, !.got = got, !.agent = @]
<1>1. client[c] \in RuntimeRequests /\ client \in [Clients -> RuntimeRequests] /\ client[c].got \in Runtimes
  BY RequestTypes DEF RuntimeInv, RuntimeTypes
<1>2. /\ client[c].at = "config read" /\ client' = [client EXCEPT ![c] = move]
      /\ UNCHANGED <<savedRows, served, unrepaired>>
  <2>1. client' = [client EXCEPT ![c] = [client[c] EXCEPT !.at = "settings read", !.got = got, !.p = settings.agent]]
    BY DEF ReadSettings
  <2>2. [client[c] EXCEPT !.at = "settings read", !.got = got, !.p = settings.agent] = move
    BY <1>1 DEF RuntimeRequests
  <2> QED
    BY <2>1, <2>2 DEF ReadSettings
<1>3. settings.rev \in 0..MaxWrites /\ settings.agent \in Selection
  BY DEF RuntimeInv, RuntimeTypes
<1>4. got \in Runtimes /\ got.main = client[c].got.main /\ got.settings = settings.rev
  BY <1>1, <1>3 DEF Runtimes
<1> HIDE DEF got
<1>5. /\ move \in RuntimeRequests /\ move.at = "settings read" /\ move.got = got /\ move.p = settings.agent
  BY <1>1, <1>3, <1>4 DEF RuntimeRequests, ReloadSteps
<1> HIDE DEF move
<1>6. client[c].got.main # None /\ client[c].at \in ReloadSteps /\ move.at \in ReloadSteps
  BY <1>2, <1>5 DEF RuntimeInv, ReloadStory, ReloadSteps
<1>7. ReloadMove(c, move)
  BY <1>2, <1>4, <1>5, <1>6 DEF ReloadMove
<1>8. client'[c] = move /\ Unread
  BY <1>6, <1>7, ReloadMoves
<1>9. ASSUME Current PROVE Agrees(c)'
  <2>1. client[c].got.main = Config(active)
    BY <1>2, <1>9 DEF Current, Agrees
  <2> QED
    BY <1>4, <1>5, <1>8, <2>1 DEF Agrees, Unread
<1> QED
  BY <1>2, <1>6, <1>7, <1>9, ReloadReads

LEMMA ReadToolsKeeps == ASSUME RuntimeInv, NEW c \in Clients, ReadTools(c) PROVE RuntimeInv'
<1> DEFINE got == [client[c].got EXCEPT !.tools = tools]
           move == [client[c] EXCEPT !.at = "tools read", !.p = @, !.got = got, !.agent = @]
<1>1. client[c] \in RuntimeRequests /\ client \in [Clients -> RuntimeRequests] /\ client[c].got \in Runtimes
  BY RequestTypes DEF RuntimeInv, RuntimeTypes
<1>2. /\ client[c].at = "settings read" /\ client' = [client EXCEPT ![c] = move]
      /\ UNCHANGED <<savedRows, served, unrepaired>>
  <2>1. client' = [client EXCEPT ![c] = [client[c] EXCEPT !.at = "tools read", !.got = got]]
    BY DEF ReadTools
  <2>2. [client[c] EXCEPT !.at = "tools read", !.got = got] = move
    BY <1>1 DEF RuntimeRequests
  <2> QED
    BY <2>1, <2>2 DEF ReadTools
<1>3. tools \in 0..MaxWrites
  BY DEF RuntimeInv, RuntimeTypes
<1>4. got \in Runtimes /\ got = [main |-> client[c].got.main, settings |-> client[c].got.settings, tools |-> tools]
  BY <1>1, <1>3 DEF Runtimes
<1>5. got.main = client[c].got.main
  BY <1>4
<1> HIDE DEF got
<1>6. /\ move \in RuntimeRequests /\ move.at = "tools read" /\ move.got = got /\ move.p = client[c].p
  BY <1>1, <1>4 DEF RuntimeRequests, ReloadSteps
<1> HIDE DEF move
<1>7. client[c].got.main # None /\ client[c].at \in ReloadSteps /\ move.at \in ReloadSteps
  BY <1>2, <1>6 DEF RuntimeInv, ReloadStory, ReloadSteps
<1>8. ReloadMove(c, move)
  BY <1>2, <1>5, <1>6, <1>7 DEF ReloadMove
<1>9. client'[c] = move /\ Unread
  BY <1>7, <1>8, ReloadMoves
<1>10. ASSUME Current PROVE Agrees(c)'
  <2>1. client[c].got.main = Config(active) /\ client[c].got.settings = settings.rev /\ client[c].p = settings.agent
    BY <1>2, <1>10 DEF Current, Agrees
  <2>2. got = SavedRuntime
    BY <1>4, <1>7, <2>1 DEF SavedRuntime
  <2> QED
    BY <1>6, <1>9, <2>1, <2>2 DEF Agrees, Unread
<1> QED
  BY <1>2, <1>7, <1>8, <1>10, ReloadReads

LEMMA ReadAgentKeeps == ASSUME RuntimeInv, NEW c \in Clients, ReadAgent(c) PROVE RuntimeInv'
<1>a. PICK agent \in {AgentOf(client[c].p, client[c].got.main), None} :
        client' = [client EXCEPT ![c] = [client[c] EXCEPT !.at = "agent read", !.agent = agent]]
  BY DEF ReadAgent
<1> DEFINE move == [client[c] EXCEPT !.at = "agent read", !.p = @, !.got = @, !.agent = agent]
<1>1. client[c] \in RuntimeRequests /\ client[c].got \in Runtimes /\ client[c].p \in Selection /\ client[c].got.main \in Models
  BY RequestTypes DEF RuntimeInv, RuntimeTypes
<1>2. /\ client[c].at = "tools read" /\ client' = [client EXCEPT ![c] = move]
      /\ UNCHANGED <<savedRows, served, unrepaired>>
  <2>1. [client[c] EXCEPT !.at = "agent read", !.agent = agent] = move
    BY <1>1 DEF RuntimeRequests
  <2> QED
    BY <1>a, <2>1 DEF ReadAgent
<1>3. agent \in Models
  BY <1>1, <1>a, ConfigTypes DEF RuntimeInv
<1>4. ASSUME Current PROVE client[c].got = SavedRuntime /\ agent \in {SavedReviewer, None}
  <2>1. client[c].got = SavedRuntime /\ client[c].p = settings.agent
    BY <1>2, <1>4 DEF Current, Agrees
  <2>2. client[c].got.main # None
    BY <1>2 DEF RuntimeInv, ReloadStory
  <2>3. Config(active) # None /\ client[c].got.main = Config(active)
    BY <2>1, <2>2 DEF SavedRuntime, Unavailable
  <2> QED
    BY <1>a, <2>1, <2>3 DEF SavedReviewer
<1>5. move \in RuntimeRequests /\ move.at = "agent read" /\ move.got = client[c].got /\ move.agent = agent
  BY <1>1, <1>3 DEF RuntimeRequests, ReloadSteps
<1> HIDE DEF move
<1>6. client[c].at \in ReloadSteps /\ move.at \in ReloadSteps
  BY <1>2, <1>5 DEF ReloadSteps
<1>7. ReloadMove(c, move)
  BY <1>2, <1>5 DEF ReloadMove
<1>8. client'[c] = move /\ Unread
  BY <1>6, <1>7, ReloadMoves
<1>9. ASSUME Current PROVE Agrees(c)'
  BY <1>4, <1>5, <1>8, <1>9 DEF Agrees, Unread, None
<1> QED
  BY <1>2, <1>6, <1>7, <1>9, ReloadReads

\* What serving a model makes of the lookups.
LEMMA Serves ==
  ASSUME RuntimeTypes, NEW main \in Models, Serve(main), runtime'.main = main
  PROVE  WindowStory' /\ lookups' \subseteq [model : Models, asked : BOOLEAN] /\ window' \in Models
<1>1. window' = None /\ None \in Models
  BY ConfigTypes DEF Serve
<1> DEFINE late == {[lookup EXCEPT !.asked = FALSE] : lookup \in lookups}
<1>2. \A lookup \in late : lookup \in [model : Models, asked : BOOLEAN] /\ lookup.asked = FALSE
  BY DEF RuntimeTypes
<1>3. lookups' = late \/ lookups' = {[model |-> main, asked |-> TRUE]}
  BY DEF Serve
<1> HIDE DEF late
<1>4. CASE lookups' = late
  BY <1>1, <1>2, <1>4 DEF WindowStory, None
<1>5. CASE lookups' = {[model |-> main, asked |-> TRUE]}
  BY <1>1, <1>5 DEF WindowStory, None
<1> QED
  BY <1>3, <1>4, <1>5

LEMMA PublishRuntimeKeeps == ASSUME RuntimeInv, NEW c \in Clients, PublishRuntime(c) PROVE RuntimeInv'
<1> DEFINE move == [client[c] EXCEPT !.at = "published"]
<1>1. /\ client[c].at = "agent read" /\ client' = [client EXCEPT ![c] = move] /\ runtime' = client[c].got
      /\ approvalAvailable' = (client[c].agent # None) /\ Serve(client[c].got.main) /\ UNCHANGED <<savedRows, reviewer, unrepaired>>
  BY DEF PublishRuntime
<1>2. client[c] \in RuntimeRequests /\ client[c].got \in Runtimes /\ client[c].got.main \in Models
  BY RequestTypes DEF RuntimeInv, RuntimeTypes
<1>3. move \in RuntimeRequests /\ move.at = "published" /\ move.agent = client[c].agent
  BY <1>2 DEF RuntimeRequests, ReloadSteps
<1> HIDE DEF move
<1>4. ReloadMove(c, move) /\ client[c].at \in ReloadSteps /\ move.at \in ReloadSteps
  BY <1>1, <1>3 DEF ReloadMove, ReloadSteps
<1>5. /\ ReloadStory' /\ client' \in [Clients -> RuntimeRequests] /\ client'[c] = move
      /\ \A d \in Clients \ {c} : client'[d] = client[d] /\ Agrees(d)'
      /\ Unread
  BY <1>4, ReloadMoves
<1>6. WindowStory' /\ lookups' \subseteq [model : Models, asked : BOOLEAN] /\ window' \in Models
  BY <1>1, <1>2, Serves DEF RuntimeInv
<1>7. RuntimeTypes'
  BY <1>1, <1>2, <1>5, <1>6 DEF RuntimeInv, RuntimeTypes, savedRows
<1>8. ASSUME ~unrepaired', \A d \in Clients : ~Owing(d)' PROVE Current'
  <2>1. \A d \in Clients : ~Owing(d)
    BY <1>1, <1>5, <1>8 DEF Owing, NeedsReload, Selected, Unread
  <2>2. Current
    BY <1>1, <1>8, <2>1 DEF RuntimeInv
  <2>3. Agrees(c)'
    BY <1>1, <1>3, <1>5, <2>2 DEF Current, Agrees, Unread, None
  <2>4. ~ReloadFree'
    BY <1>4, <1>5 DEF ReloadFree
  <2> QED
    BY <1>5, <2>3, <2>4 DEF Current
<1> QED
  BY <1>5, <1>6, <1>7, <1>8 DEF RuntimeInv

LEMMA PublishReviewersKeeps == ASSUME RuntimeInv, NEW c \in Clients, PublishReviewers(c) PROVE RuntimeInv'
<1> DEFINE move == [AtRest EXCEPT !.at = "idle"]
<1>1. /\ client[c].at = "published" /\ client' = [client EXCEPT ![c] = move] /\ reviewer' = client[c].agent
      /\ UNCHANGED <<savedRows, runtime, approvalAvailable, lookups, window, unrepaired>>
  BY DEF PublishReviewers, Turns
<1>2. client[c].agent \in Models /\ move \in RuntimeRequests /\ move.at = "idle"
  BY RequestTypes, RestTypes DEF RuntimeInv
<1> HIDE DEF move
<1>3. ReloadMove(c, move) /\ client[c].at \in ReloadSteps
  BY <1>1, <1>2 DEF ReloadMove, ReloadSteps
<1>4. /\ ReloadStory' /\ client' \in [Clients -> RuntimeRequests] /\ client'[c] = move
      /\ \A d \in Clients \ {c} : client'[d] = client[d] /\ Agrees(d)'
      /\ Unread
  BY <1>3, ReloadMoves
<1>5. RuntimeTypes' /\ WindowStory'
  BY <1>1, <1>2, <1>4 DEF RuntimeInv, RuntimeTypes, WindowStory, savedRows, None
<1>6. ASSUME ~unrepaired', \A d \in Clients : ~Owing(d)' PROVE Current'
  <2>1. \A d \in Clients : ~Owing(d)
    BY <1>1, <1>4, <1>6 DEF Owing, NeedsReload, Selected, Unread
  <2>2. Current
    BY <1>1, <1>6, <2>1 DEF RuntimeInv
  <2>3. Agrees(c)'
    BY <1>2, <1>4 DEF Agrees
  <2>4. runtime' = SavedRuntime' /\ ReviewerServed'
    BY <1>1, <1>4, <2>2 DEF Current, Agrees, ReviewerServed, Unread, None
  <2> QED
    BY <1>4, <2>3, <2>4 DEF Current
<1> QED
  BY <1>4, <1>5, <1>6 DEF RuntimeInv

LEMMA FailKeeps == ASSUME RuntimeInv, NEW c \in Clients, FailReload(c) PROVE RuntimeInv'
<1> DEFINE move == [AtRest EXCEPT !.at = "idle"]
<1>1. /\ client[c].at \in {"active read", "config read"} /\ client' = [client EXCEPT ![c] = move] /\ unrepaired' = TRUE
      /\ UNCHANGED <<savedRows, runtime, reviewer, approvalAvailable, lookups, window>>
  BY DEF FailReload, Turns, served
<1>2. move \in RuntimeRequests /\ move.at = "idle"
  BY RestTypes DEF RuntimeInv
<1> HIDE DEF move
<1>3. ReloadMove(c, move) /\ client[c].at \in ReloadSteps
  BY <1>1, <1>2 DEF ReloadMove, ReloadSteps
<1>4. ReloadStory' /\ client' \in [Clients -> RuntimeRequests]
  BY <1>3, ReloadMoves
<1>5. RuntimeTypes' /\ WindowStory'
  BY <1>1, <1>4 DEF RuntimeInv, RuntimeTypes, WindowStory, savedRows, None
<1> QED
  BY <1>1, <1>4, <1>5 DEF RuntimeInv

LEMMA FailBuildKeeps == ASSUME RuntimeInv, NEW c \in Clients, FailBuild(c) PROVE RuntimeInv'
<1> DEFINE move == [AtRest EXCEPT !.at = "published"]
<1>1. /\ client[c].at \in {"settings read", "tools read"} /\ client' = [client EXCEPT ![c] = move] /\ unrepaired' = TRUE
      /\ runtime' = Unavailable /\ approvalAvailable' = FALSE /\ Serve(None) /\ UNCHANGED <<savedRows, reviewer>>
  BY DEF FailBuild
<1>2. move \in RuntimeRequests /\ move.at = "published"
  BY RestTypes DEF RuntimeInv
<1> HIDE DEF move
<1>3. ReloadMove(c, move) /\ client[c].at \in ReloadSteps
  BY <1>1, <1>2 DEF ReloadMove, ReloadSteps
<1>4. ReloadStory' /\ client' \in [Clients -> RuntimeRequests]
  BY <1>3, ReloadMoves
<1>5. None \in Models /\ Unavailable \in Runtimes /\ Unavailable.main = None
  BY ConfigTypes DEF RuntimeInv, Unavailable
<1>6. WindowStory' /\ lookups' \subseteq [model : Models, asked : BOOLEAN] /\ window' \in Models
  BY <1>1, <1>5, Serves DEF RuntimeInv
<1>7. RuntimeTypes'
  BY <1>1, <1>4, <1>5, <1>6 DEF RuntimeInv, RuntimeTypes, savedRows
<1> QED
  BY <1>1, <1>4, <1>6, <1>7 DEF RuntimeInv

\* Nothing of what the story of the reload is about changes.
LEMMA SameRuntime ==
  ASSUME RuntimeInv, UNCHANGED <<savedRows, client, runtime, reviewer, approvalAvailable, unrepaired>>, RuntimeTypes', WindowStory'
  PROVE  RuntimeInv'
<1>1. Unread
  BY SameRows DEF savedRows
<1>2. ReloadStory'
  BY DEF RuntimeInv, ReloadStory, Unavailable, None
<1>3. \A c \in Clients : (Owing(c)' <=> Owing(c)) /\ (Agrees(c) => Agrees(c)')
  <2>1. \A c \in Clients : Owing(c)' <=> Owing(c)
    BY <1>1 DEF Owing, NeedsReload, Selected, Unread
  <2>2. \A c \in Clients : Agrees(c) => Agrees(c)'
    BY <1>1, ZenonT(60) DEF Agrees, Unread, None
  <2> QED
    BY <2>1, <2>2
<1>4. ReloadFree' <=> ReloadFree
  BY DEF ReloadFree
<1> QED
  BY <1>1, <1>2, <1>3, <1>4 DEF RuntimeInv, Current, ReviewerServed, Unread, None

LEMMA LookupKeeps == ASSUME RuntimeInv, EndLookup PROVE RuntimeInv'
<1>1. PICK lookup \in lookups :
        /\ lookups' = lookups \ {lookup} /\ (window' = window \/ (StillAsked(lookup) /\ window' = lookup.model))
        /\ UNCHANGED <<savedRows, client, runtime, reviewer, approvalAvailable, unrepaired>>
  BY DEF EndLookup
<1>2. lookup.model \in Models /\ (StillAsked(lookup) => lookup.model = runtime.main)
  BY DEF RuntimeInv, RuntimeTypes, WindowStory, StillAsked
<1>3. RuntimeTypes' /\ WindowStory'
  BY <1>1, <1>2 DEF RuntimeInv, RuntimeTypes, WindowStory, savedRows, None
<1> QED
  BY <1>1, <1>3, SameRuntime

LEMMA StartsRuntime == RuntimeInit => RuntimeInv
<1> SUFFICES ASSUME RuntimeInit PROVE RuntimeInv
  OBVIOUS
<1>1. provider \in [Providers -> 0..MaxWrites] /\ writes \in 1..MaxWrites /\ tools \in 0..MaxWrites
  BY RuntimeAssumption DEF RuntimeInit
<1>2. active \in Selection /\ settings \in [rev : 0..MaxWrites, agent : Selection]
  BY RuntimeAssumption DEF RuntimeInit, Selection
<1>3. None \in Models /\ SavedRuntime \in Runtimes /\ SavedReviewer \in Models
  <2>1. None \in Models /\ Unavailable \in Runtimes
    BY RuntimeAssumption DEF None, Models, Unavailable, Runtimes, Selection
  <2>2. \A p \in Selection : Config(p) \in Models
    BY <1>1, <2>1 DEF Config, Models, Selection
  <2> QED
    BY <1>1, <1>2, <2>1, <2>2 DEF SavedRuntime, SavedReviewer, AgentOf, Runtimes
<1>4. AtRest \in RuntimeRequests /\ AtRest.at = "idle"
  BY <1>3, RuntimeAssumption DEF AtRest, RuntimeRequests, Unavailable, Runtimes, Selection
<1>5. RuntimeTypes
  BY <1>1, <1>2, <1>3, <1>4 DEF RuntimeInit, RuntimeTypes
<1>6. ReloadStory /\ WindowStory
  BY <1>4 DEF RuntimeInit, ReloadStory, WindowStory, ReloadSteps
<1>7. Current
  BY <1>4 DEF RuntimeInit, Current, ReviewerServed, Agrees
<1> QED
  BY <1>5, <1>6, <1>7 DEF RuntimeInv

\* Every request of an operator and every step of a reload keeps the story of the runtime.
LEMMA RuntimeStep == RuntimeInv /\ [RuntimeNext]_runtimeVars => RuntimeInv'
<1>1. ASSUME RuntimeInv, UNCHANGED runtimeVars PROVE RuntimeInv'
  <2>1. RuntimeTypes' /\ WindowStory'
    BY <1>1 DEF runtimeVars, RuntimeInv, RuntimeTypes, WindowStory, None
  <2> QED
    BY <1>1, <2>1, SameRuntime DEF runtimeVars, savedRows
<1> QED
  BY <1>1, AskRuntimeKeeps, DecideKeeps, FailDecideKeeps, WritesKeep, UpsertKeeps, DeleteKeeps, ReadActiveKeeps, ReadConfigKeeps, ReadSettingsKeeps,
     ReadToolsKeeps, ReadAgentKeeps, PublishRuntimeKeeps, PublishReviewersKeeps, FailKeeps, FailBuildKeeps, LookupKeeps DEF RuntimeNext

\* The rows, the requests and what is served keep their types.
THEOREM RuntimeTypesHold == RuntimeSpec => []RuntimeTypes
<1>1. RuntimeInv => RuntimeTypes
  BY DEF RuntimeInv
<1> QED
  BY <1>1, StartsRuntime, RuntimeStep, PTL DEF RuntimeSpec

\* Once every request is answered the Agent is served by what was saved, and the approval
\* Agent too unless it could not be loaded and the status says so, when no reload failed or
\* was not asked for since (Runtime.Reload).
THEOREM SavedRuntimeServed == RuntimeSpec => []RuntimeServesSaved
<1>1. RuntimeInv => RuntimeServesSaved
  BY DEF RuntimeInv, RuntimeServesSaved, Owing, Current, ReviewerServed, ReloadFree, ReloadSteps, WindowStory
<1> QED
  BY <1>1, StartsRuntime, RuntimeStep, PTL DEF RuntimeSpec

---------------------------------------------------------------------------
(* The bound of the catalogue *)

\* Every request that is to write has its revision left.
ClockBound == IsFiniteSet(requests) /\ clock + Cardinality(requests) <= MaxRevision

LEMMA ClockBoundAsked ==
  ASSUME RowTypes, ClockBound, NEW request0, Asked(request0) PROVE ClockBound'
<1>1. /\ clock \in Nat /\ clock' = clock /\ requests' = requests \cup {request0} /\ IsFiniteSet(requests)
      /\ clock + Cardinality(requests) < MaxRevision
  BY DEF Asked, RowTypes, ClockBound
<1>2. Cardinality(requests) \in Nat /\ IsFiniteSet(requests')
  BY <1>1, FS_CardinalityType, FS_AddElement
<1>3. Cardinality(requests') = Cardinality(requests) \/ Cardinality(requests') = Cardinality(requests) + 1
  BY <1>1, FS_AddElement
<1> QED
  BY <1>1, <1>2, <1>3, CatalogueAssumption DEF ClockBound

\* A request that writes gives its revision to the clock, or back.
LEMMA ClockBoundWritten ==
  ASSUME RowTypes, ClockBound, NEW request0, WriteOf(request0), clock' = clock \/ clock' = clock + 1 PROVE ClockBound'
<1>1. /\ clock \in Nat /\ requests' = requests \ {request0} /\ request0 \in requests /\ IsFiniteSet(requests)
      /\ clock + Cardinality(requests) <= MaxRevision
  BY DEF WriteOf, RowTypes, ClockBound
<1>2. /\ Cardinality(requests) \in Nat /\ IsFiniteSet(requests') /\ Cardinality(requests') \in Nat
      /\ Cardinality(requests') = Cardinality(requests) - 1
  BY <1>1, FS_CardinalityType, FS_RemoveElement
<1>3. clock' + Cardinality(requests') <= MaxRevision
  BY <1>1, <1>2, CatalogueAssumption
<1> QED
  BY <1>2, <1>3 DEF ClockBound

LEMMA ClockBoundStep == ASSUME RowTypes, ClockBound, [CatalogueNext]_catalogueVars PROVE ClockBound'
<1>1. CASE UNCHANGED <<clock, requests>>
  BY <1>1 DEF ClockBound
<1>2. CASE AskToSave \/ AskToDelete \/ AskToDeleteProxy \/ ReadPackage
  BY <1>2, ClockBoundAsked DEF AskToSave, AskToDelete, AskToDeleteProxy, ReadPackage
<1>3. CASE SaveHost
  BY <1>3, ClockBoundWritten DEF SaveHost
<1>4. CASE DeleteHost
  BY <1>4, ClockBoundWritten DEF DeleteHost
<1>5. CASE DeleteProxy
  BY <1>5, ClockBoundWritten DEF DeleteProxy
<1>6. CASE ApplyPackage
  BY <1>6, ClockBoundWritten DEF ApplyPackage
<1>7. CASE SaveProxy
  <2>1. /\ clock \in Nat /\ clock' = clock + 1 /\ requests' = requests /\ IsFiniteSet(requests)
        /\ clock + Cardinality(requests) < MaxRevision
    BY <1>7 DEF SaveProxy, RowTypes, ClockBound
  <2>2. Cardinality(requests) \in Nat /\ Cardinality(requests') = Cardinality(requests) /\ IsFiniteSet(requests')
    BY <2>1, FS_CardinalityType
  <2> QED
    BY <2>1, <2>2, CatalogueAssumption DEF ClockBound
<1>8. CASE \/ Submit \/ ReadHost \/ ReadProxy \/ Bind \/ Approve \/ Authorize \/ StartRun \/ Verify \/ Probe \/ FinishRun
           \/ UNCHANGED catalogueVars
  <2>1. ASSUME Submit \/ ReadHost \/ ReadProxy \/ Bind PROVE clock' = clock /\ requests' = requests
    <3>1. UNCHANGED <<hosts, proxies, clock, requests, overtaken>> \/ UNCHANGED <<hosts, proxies, clock, requests, overtaken, whole>>
      BY <2>1, Zenon DEF Submit, ReadHost, ReadProxy, Bind
    <3> QED
      BY <3>1
  <2>2. ASSUME Approve \/ Authorize \/ StartRun \/ Verify \/ Probe PROVE clock' = clock /\ requests' = requests
    BY <2>2 DEF Approve, Authorize, StartRun, Verify, Probe
  <2>3. ASSUME FinishRun \/ UNCHANGED catalogueVars PROVE clock' = clock /\ requests' = requests
    BY <2>3 DEF FinishRun, catalogueVars
  <2> QED
    BY <1>1, <1>8, <2>1, <2>2, <2>3
<1> QED
  BY <1>1, <1>2, <1>3, <1>4, <1>5, <1>6, <1>7, <1>8 DEF CatalogueNext

\* The state of the catalogue has its types.
THEOREM CatalogueTypesHold == CatalogueSpec => []CatalogueTypes
<1>1. CatalogueInit => ConnectionInv /\ ClockBound
  <2> SUFFICES ASSUME CatalogueInit PROVE ClockBound
    BY ConnectionInvAtFirst
  <2>1. clock = 1 /\ requests = {}
    BY DEF CatalogueInit
  <2>2. IsFiniteSet(requests) /\ Cardinality(requests) = 0
    BY <2>1, FS_EmptySet
  <2> QED
    BY <2>1, <2>2, CatalogueAssumption DEF ClockBound
<1>2. ConnectionInv /\ ClockBound /\ [CatalogueNext]_catalogueVars => ConnectionInv' /\ ClockBound'
  BY ConnectionInvStep, ClockBoundStep DEF ConnectionInv
<1>3. ConnectionInv /\ ClockBound => CatalogueTypes
  <2> SUFFICES ASSUME ConnectionInv, ClockBound PROVE CatalogueTypes
    OBVIOUS
  <2>1. clock \in 1..MaxRevision
    <3>1. clock \in Nat \ {0} /\ Cardinality(requests) \in Nat /\ clock + Cardinality(requests) <= MaxRevision
      BY FS_CardinalityType DEF ConnectionInv, RowTypes, ClockBound
    <3> QED
      BY <3>1, CatalogueAssumption
  <2>2. \A h \in Hosts : /\ hosts[h].rev \in 0..clock /\ hosts[h].jump \in Hosts \cup {NoHost}
                         /\ hosts[h].proxy \in Proxies \cup {NoProxy} /\ hosts[h].agent \in BOOLEAN
    BY <2>1, CatalogueAssumption DEF ConnectionInv, RowTypes, ClockStory, HostRecord
  <2>3. \A p \in Proxies : proxies[p].rev \in 0..clock /\ proxies[p].ssh \in BOOLEAN
    BY <2>1, CatalogueAssumption DEF ConnectionInv, RowTypes, ClockStory, ProxyRecord
  <2>4. op.at \in OpPlaces /\ whole \in BOOLEAN /\ overtaken \in BOOLEAN
    BY DEF ConnectionInv, RowTypes, OpRecord
  <2> QED
    BY <2>1, <2>2, <2>3, <2>4 DEF CatalogueTypes, OpPlaces
<1> QED
  BY <1>1, <1>2, <1>3, PTL DEF CatalogueSpec

---------------------------------------------------------------------------
(* All of them together *)

\* A step of the composition is a step of each component or leaves it alone.
LEMMA EachSteps ==
  ASSUME [Next]_connectionVars
  PROVE  /\ [ShellNext]_shellVars /\ [ShellEventNext]_shellEventVars /\ [TunnelNext]_tunnelVars
         /\ [SftpNext]_sftpVars /\ [DeletionNext]_deletionVars /\ [FileNext]_fileVars
         /\ [McpNext]_mcpVars /\ [CatalogueNext]_catalogueVars /\ [RuntimeNext]_runtimeVars
<1>1. CASE UNCHANGED connectionVars
  BY <1>1 DEF connectionVars
<1>2. CASE Next
  BY <1>2 DEF Next, OthersStay
<1> QED
  BY <1>1, <1>2

LEMMA EachStarts ==
  ASSUME Init
  PROVE  /\ ShellInit /\ ShellEventInit /\ TunnelInit /\ SftpInit /\ DeletionInit /\ FileInit
         /\ McpInit /\ CatalogueInit /\ RuntimeInit
BY DEF Init

\* A behaviour of the composition is one of each component.
LEMMA EachBehaves ==
  FairSpec => /\ ShellSpec /\ ShellEventSpec /\ TunnelSpec /\ SftpSpec /\ DeletionSpec /\ FileSpec
              /\ McpSpec /\ CatalogueSpec /\ RuntimeSpec
BY EachSteps, EachStarts, PTL DEF FairSpec, ShellSpec, ShellEventSpec, TunnelSpec, SftpSpec, DeletionSpec, FileSpec,
   McpSpec, CatalogueSpec, RuntimeSpec

\* Every variable of every component has its type, for any value of the constants.
THEOREM ConnectionTypesHold == FairSpec => []TypeOK
<1>1. ASSUME ShellTypes, ShellEventTypes, TunnelTypes, SftpTypes, DeletionTypes, FileTypes, McpTypes,
             CatalogueTypes, RuntimeTypes
      PROVE  TypeOK
  BY <1>1 DEF TypeOK
<1> QED
  BY <1>1, EachBehaves, ShellTypesHold, ShellEventTypesHold, TunnelTypesHold, SftpTypesHold, DeletionTypesHold,
     FileTypesHold, McpTypesHold, CatalogueTypesHold, RuntimeTypesHold, PTL

\* What an MCP server, the Agent and the approval Agent are served with is what was saved.
THEOREM SavedAlwaysServed == FairSpec => []SavedIsServed
<1>1. ServesSavedSettings /\ RuntimeServesSaved => SavedIsServed
  BY DEF SavedIsServed
<1> QED
  BY <1>1, EachBehaves, SavedSettingsServed, SavedRuntimeServed, PTL
=============================================================================
