--------------------------- MODULE ExecutionLimits ---------------------------
(***************************************************************************)
(* The limits of concurrent work on hosts (service acquire): a slot of the *)
(* global semaphore first, then one of each host a request names, in the   *)
(* order of the host ids.  Semaphores are buffered channels; a request     *)
(* that waits gives up when its context ends, and returns what it took.    *)
(* Host ids are numbers here, ordered like the sorted strings of the code. *)
(***************************************************************************)
EXTENDS Integers, Sequences, FiniteSets

CONSTANTS
  Requests,     \* the callers of acquire: executions, shells, tunnels
  HostIds,
  Namings,      \* the host ids a caller may pass, as it lists them
  GlobalLimit,  \* capacity of globalSem
  HostLimit     \* capacity of every hostSem

ASSUME HostAssumption == HostIds \subseteq Nat /\ Namings \subseteq Seq(HostIds)
ASSUME RequestAssumption == IsFiniteSet(Requests)
ASSUME LimitAssumption == GlobalLimit \in Nat \ {0} /\ HostLimit \in Nat \ {0}

VARIABLES
  named,      \* the host ids each request passed
  stage,      \* where its call is
  taken,      \* the host slots it took
  expired,    \* requests whose context ended
  globalSem,  \* how many slots of the channel are taken
  hostSems    \* the same for each host

limitVars == <<named, stage, taken, expired, globalSem, hostSems>>

---------------------------------------------------------------------------
\* Each host once, whatever the caller repeats.
Wanted(r)  == {named[r][i] : i \in DOMAIN named[r]}
Missing(r) == Wanted(r) \ taken[r]

AsNamed(r, h) ==  \* mutant: the hosts are taken in the order of the call
  \E i \in DOMAIN named[r] : /\ named[r][i] = h
                           /\ \A j \in 1..(i - 1) : named[r][j] \notin Missing(r)
\* The hosts are taken in the order of their ids, sorted before the first.
InOrder(r, h) == \A g \in Missing(r) : h <= g

HoldsSlots == {"global", "hosts"}  \* mutant: who waits for the global slot returns one
HoldsSlot  == {"hosts"}

\* The call is over: the request may call again.
Over(r) == stage' = [stage EXCEPT ![r] = "idle"] /\ named' = [named EXCEPT ![r] = <<>>]

CallAcquire(r) ==
  /\ stage[r] = "idle"
  /\ \E ids \in Namings : named' = [named EXCEPT ![r] = ids]
  /\ stage' = [stage EXCEPT ![r] = "global"]
  /\ UNCHANGED <<taken, expired, globalSem, hostSems>>

TakeGlobal(r) ==
  /\ stage[r] = "global" /\ globalSem < GlobalLimit
  /\ globalSem' = globalSem + 1
  /\ stage' = [stage EXCEPT ![r] = "hosts"]
  /\ UNCHANGED <<named, taken, expired, hostSems>>

TakeHost(r) ==
  /\ stage[r] = "hosts"
  /\ \E h \in Missing(r) :
       /\ InOrder(r, h) /\ hostSems[h] < HostLimit
       /\ hostSems' = [hostSems EXCEPT ![h] = @ + 1]
       /\ taken' = [taken EXCEPT ![r] = @ \cup {h}]
  /\ UNCHANGED <<named, stage, expired, globalSem>>

Granted(r) ==
  /\ stage[r] = "hosts" /\ Missing(r) = {}
  /\ stage' = [stage EXCEPT ![r] = "working"] /\ expired' = expired \ {r}
  /\ UNCHANGED <<named, taken, globalSem, hostSems>>

\* The context of the request is cancelled or times out while it waits.
Expire(r) ==
  /\ stage[r] \in {"global", "hosts"} /\ r \notin expired
  /\ expired' = expired \cup {r}
  /\ UNCHANGED <<named, stage, taken, globalSem, hostSems>>

\* A select in acquire chooses ctx.Done; it may as well take a slot that is free.
GiveUp(r) ==
  /\ r \in expired /\ expired' = expired \ {r}
  /\ \/ stage[r] = "global"
     \/ stage[r] = "hosts" /\ Missing(r) # {}
  /\ IF stage[r] \in HoldsSlot
     THEN stage' = [stage EXCEPT ![r] = "returning"] /\ UNCHANGED named
     ELSE Over(r)
  /\ UNCHANGED <<taken, globalSem, hostSems>>

\* The caller's deferred release.
FinishWork(r) ==
  /\ stage[r] = "working"
  /\ stage' = [stage EXCEPT ![r] = "returning"]
  /\ UNCHANGED <<named, taken, expired, globalSem, hostSems>>

\* Slots go back last one first, the global slot at the end.
ReturnHost(r) ==
  /\ stage[r] = "returning"
  /\ \E h \in taken[r] :
       /\ \A g \in taken[r] : g <= h
       /\ hostSems[h] > 0 /\ hostSems' = [hostSems EXCEPT ![h] = @ - 1]
       /\ taken' = [taken EXCEPT ![r] = @ \ {h}]
  /\ UNCHANGED <<named, stage, expired, globalSem>>

ReturnGlobal(r) ==
  /\ stage[r] = "returning" /\ taken[r] = {}
  /\ globalSem > 0 /\ globalSem' = globalSem - 1 /\ Over(r)
  /\ UNCHANGED <<taken, expired, hostSems>>

---------------------------------------------------------------------------
LimitInit ==
  /\ named = [r \in Requests |-> <<>>] /\ stage = [r \in Requests |-> "idle"]
  /\ taken = [r \in Requests |-> {}] /\ expired = {}
  /\ globalSem = 0 /\ hostSems = [h \in HostIds |-> 0]

Proceed(r) == Granted(r) \/ GiveUp(r) \/ FinishWork(r) \/ ReturnHost(r) \/ ReturnGlobal(r)

LimitNext == \E r \in Requests :
  CallAcquire(r) \/ TakeGlobal(r) \/ TakeHost(r) \/ Expire(r) \/ Proceed(r)

LimitSpec == LimitInit /\ [][LimitNext]_limitVars

\* Work has a timeout.  Senders that wait on a channel are served in the order of
\* their arrival, so a slot that is freed again and again reaches every one.
Take(r) == TakeGlobal(r) \/ TakeHost(r)
LimitFairness == \A r \in Requests : WF_limitVars(Proceed(r)) /\ SF_limitVars(Take(r))

---------------------------------------------------------------------------
LimitTypes ==
  /\ named \in [Requests -> Seq(HostIds)]
  /\ stage \in [Requests -> {"idle", "global", "hosts", "working", "returning"}]
  /\ taken \in [Requests -> SUBSET HostIds] /\ expired \subseteq Requests
  /\ globalSem \in 0..GlobalLimit /\ hostSems \in [HostIds -> 0..HostLimit]

Working(h) == {r \in Requests : stage[r] = "working" /\ h \in Wanted(r)}

\* Never more requests at work than the limits allow, on a host or in all, whatever
\* gave up half-way: a slot is returned once, and only by who took it.
LimitsKept ==
  /\ Cardinality({r \in Requests : stage[r] = "working"}) <= GlobalLimit
  /\ \A h \in HostIds : Cardinality(Working(h)) <= HostLimit

\* A request that waits for slots.
Waits(r) == stage[r] \in {"global", "hosts"}
=============================================================================
