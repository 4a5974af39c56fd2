--------------------------- MODULE OperationGate ---------------------------
(***************************************************************************)
(* What the approval machinery promises an operator about every operation  *)
(* the Agent asks for, whatever the conversation drivers, the retries and  *)
(* the restarts in between: an operation starts at most once, and only     *)
(* because a person or the approval mode said so, and a refusal is final.  *)
(*                                                                         *)
(* `granted' may still become `refused' (an operator stops the session     *)
(* before the approved operation was claimed); `started' and `refused' are *)
(* final.                                                                  *)
(***************************************************************************)
CONSTANT Operations

VARIABLE gate

Positions == {"idle", "asked", "granted", "started", "refused"}

GateInit == gate = [o \in Operations |-> "idle"]

\* The operation is submitted and has to wait for a decision.
Ask(o) == /\ gate[o] = "idle"
          /\ gate' = [gate EXCEPT ![o] = "asked"]

\* The approval mode grants or refuses the operation without a person; what it
\* grants may start at once.
Bypass(o) == /\ gate[o] = "idle"
             /\ \E p \in {"granted", "started", "refused"} : gate' = [gate EXCEPT ![o] = p]

Grant(o) == /\ gate[o] = "asked"
            /\ gate' = [gate EXCEPT ![o] = "granted"]

\* One step may refuse several operations: stopping a session and recovering
\* after a restart both sweep every operation that has not started.
Refuse(S) == /\ S # {}
             /\ \A o \in S : gate[o] \in {"asked", "granted"}
             /\ gate' = [o \in Operations |-> IF o \in S THEN "refused" ELSE gate[o]]

Start(o) == /\ gate[o] = "granted"
            /\ gate' = [gate EXCEPT ![o] = "started"]

GateNext == \/ \E o \in Operations : Ask(o) \/ Bypass(o) \/ Grant(o) \/ Start(o)
            \/ \E S \in SUBSET Operations : Refuse(S)

GateSpec == GateInit /\ [][GateNext]_gate
=============================================================================
