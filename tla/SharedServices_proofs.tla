------------------------ MODULE SharedServices_proofs ------------------------
(***************************************************************************)
(* Proofs about the services that all conversations share: the limits of   *)
(* execution, for any finite set of requests, any hosts and any limits,    *)
(* the events of the chat, for any pages, buffers and bounds, and the      *)
(* application WebSocket, for any items, publishers, listeners and sizes.  *)
(*                                                                         *)
(* LimitsKept speaks of who works; what is inductive is an account of the  *)
(* channels: the global one is as full as there are requests between       *)
(* taking and returning its slot, that of a host as there are requests     *)
(* that list the host as taken.  Every step moves one request into or out  *)
(* of one of those sets and the channel by one.                            *)
(*                                                                         *)
(* NothingIsSkipped looks at the past of a page: what it has shown.  That  *)
(* showing one more event makes no hole depends on what is on its way.     *)
(* Underway collects it: the replay, the channel and, for the page that    *)
(* sent the message, the event emit still holds.  Three facts about it     *)
(* carry the proof: it is in the order of the log (InLogOrder), below an   *)
(* event under way everything is under way or shown (NoHole), and a page   *)
(* that is attached has everything under way or shown (Covered), which is  *)
(* what makes NoHole true of the next event.                               *)
(*                                                                         *)
(* PageCatchesUp speaks of moments of rest.  StreamInv says at every moment *)
(* why a listener that shows something else will learn of it: by an event  *)
(* that waits or is on its way, by a signal, by the next sample or by      *)
(* beginning again.                                                        *)
(***************************************************************************)
EXTENDS MCSharedServices, BackgroundTasks_proofs, FiniteSetTheorems, TLAPS

---------------------------------------------------------------------------
(* The inductive invariant of the limits *)

Entered   == {r \in Requests : stage[r] \in {"hosts", "working", "returning"}}
Takers(h) == {r \in Requests : h \in taken[r]}

\* The channels hold what the requests took.
Account == globalSem = Cardinality(Entered) /\ \A h \in HostIds : hostSems[h] = Cardinality(Takers(h))

\* Outside the call and before the global slot nothing is taken; at work everything is.
TakenInOrder ==
  \A r \in Requests : /\ stage[r] \in {"idle", "global"} => taken[r] = {}
                      /\ stage[r] = "working" => Wanted(r) \subseteq taken[r]

LimitInv == LimitTypes /\ Account /\ TakenInOrder

LEMMA NamingHosts ==
  ASSUME LimitTypes, NEW r \in Requests
  PROVE  Wanted(r) \subseteq HostIds /\ Missing(r) \subseteq HostIds
BY DEF LimitTypes, Wanted, Missing

---------------------------------------------------------------------------
(* Counting *)

LEMMA SetsFinite == IsFiniteSet(Entered) /\ \A h \in HostIds : IsFiniteSet(Takers(h))
BY RequestAssumption, FS_Subset DEF Entered, Takers

\* What the counts become when one request joins or leaves.
LEMMA CountJoin ==
  ASSUME NEW S, IsFiniteSet(S), NEW r, r \notin S
  PROVE  Cardinality(S \cup {r}) = Cardinality(S) + 1
BY FS_AddElement

LEMMA CountLeave ==
  ASSUME NEW S, IsFiniteSet(S), NEW r, r \in S
  PROVE  Cardinality(S \ {r}) = Cardinality(S) - 1 /\ Cardinality(S) > 0
<1>1. Cardinality(S \ {r}) = Cardinality(S) - 1
  BY FS_RemoveElement
<1>2. Cardinality(S) \in Nat /\ Cardinality(S) # 0
  BY FS_CardinalityType, FS_EmptySet
<1> QED
  BY <1>1, <1>2

---------------------------------------------------------------------------
(* The invariant is inductive *)

LEMMA LimitInitInv == LimitInit => LimitInv
<1> SUFFICES ASSUME LimitInit PROVE LimitInv
  OBVIOUS
<1>1. Entered = {} /\ \A h \in HostIds : Takers(h) = {}
  BY DEF LimitInit, Entered, Takers
<1>2. LimitTypes
  BY LimitAssumption DEF LimitInit, LimitTypes
<1>3. Account
  BY <1>1, FS_EmptySet DEF LimitInit, Account
<1>4. TakenInOrder
  BY DEF LimitInit, TakenInOrder
<1> QED
  BY <1>2, <1>3, <1>4 DEF LimitInv

\* A step that moves no slot: the sets that are counted stay the same.
LEMMA SameAccount ==
  ASSUME Account, Entered' = Entered, taken' = taken, UNCHANGED <<globalSem, hostSems>>
  PROVE  Account'
<1>1. \A h \in HostIds : Takers(h)' = Takers(h)
  BY DEF Takers
<1> QED
  BY <1>1 DEF Account

LEMMA LimitStepInv == LimitInv /\ [LimitNext]_limitVars => LimitInv'
<1> SUFFICES ASSUME LimitInv, [LimitNext]_limitVars PROVE LimitInv'
  OBVIOUS
<1> USE DEF LimitInv, LimitTypes, TakenInOrder
<1>1. CASE UNCHANGED limitVars
  <2>1. Entered' = Entered /\ taken' = taken /\ UNCHANGED <<globalSem, hostSems>>
    BY <1>1 DEF limitVars, Entered
  <2>2. Account'
    BY <2>1, SameAccount
  <2>3. LimitTypes' /\ TakenInOrder'
    BY <1>1 DEF limitVars, Wanted
  <2> QED
    BY <2>2, <2>3
<1>2. ASSUME NEW r \in Requests, CallAcquire(r) PROVE LimitInv'
  <2>1. LimitTypes' /\ TakenInOrder'
    BY <1>2, HostAssumption DEF CallAcquire, Wanted
  <2>2. Entered' = Entered
    BY <1>2 DEF CallAcquire, Entered
  <2>3. Account'
    BY <1>2, <2>2, SameAccount DEF CallAcquire
  <2> QED
    BY <2>1, <2>3
<1>3. ASSUME NEW r \in Requests, TakeGlobal(r) PROVE LimitInv'
  <2>1. LimitTypes' /\ TakenInOrder'
    BY <1>3, LimitAssumption DEF TakeGlobal, Wanted
  <2>2. r \notin Entered /\ Entered' = Entered \cup {r}
    BY <1>3 DEF TakeGlobal, Entered
  <2>3. Cardinality(Entered') = Cardinality(Entered) + 1
    BY <2>2, SetsFinite, CountJoin
  <2>4. \A h \in HostIds : Takers(h)' = Takers(h)
    BY <1>3 DEF TakeGlobal, Takers
  <2>5. Account'
    BY <1>3, <2>3, <2>4 DEF Account, TakeGlobal
  <2> QED
    BY <2>1, <2>5
<1>4. ASSUME NEW r \in Requests, TakeHost(r) PROVE LimitInv'
  <2>1. PICK h \in Missing(r) : /\ hostSems[h] < HostLimit
                                /\ hostSems' = [hostSems EXCEPT ![h] = @ + 1]
                                /\ taken' = [taken EXCEPT ![r] = @ \cup {h}]
    BY <1>4 DEF TakeHost
  <2>2. h \in HostIds /\ h \notin taken[r]
    BY NamingHosts DEF Missing
  <2>3. stage[r] = "hosts" /\ UNCHANGED <<named, stage, expired, globalSem>>
    BY <1>4 DEF TakeHost
  <2>4. LimitTypes'
    BY <2>1, <2>2, <2>3, LimitAssumption
  <2>5. TakenInOrder'
    BY <2>1, <2>3 DEF Wanted
  <2>6. Entered' = Entered
    BY <2>3 DEF Entered
  <2>7. r \notin Takers(h) /\ Takers(h)' = Takers(h) \cup {r}
    BY <2>1, <2>2 DEF Takers
  <2>8. \A g \in HostIds : g # h => Takers(g)' = Takers(g)
    BY <2>1, <2>2 DEF Takers
  <2>9. Cardinality(Takers(h)') = Cardinality(Takers(h)) + 1
    BY <2>2, <2>7, SetsFinite, CountJoin
  <2>10. Account'
    BY <2>1, <2>2, <2>3, <2>6, <2>8, <2>9 DEF Account
  <2> QED
    BY <2>4, <2>5, <2>10
<1>5. ASSUME NEW r \in Requests, Expire(r) PROVE LimitInv'
  <2>1. LimitTypes' /\ TakenInOrder'
    BY <1>5 DEF Expire, Wanted
  <2>2. Entered' = Entered
    BY <1>5 DEF Expire, Entered
  <2>3. Account'
    BY <1>5, <2>2, SameAccount DEF Expire
  <2> QED
    BY <2>1, <2>3
<1>6. ASSUME NEW r \in Requests, Granted(r) PROVE LimitInv'
  <2>1. LimitTypes' /\ TakenInOrder'
    BY <1>6 DEF Granted, Missing, Wanted
  <2>2. Entered' = Entered
    BY <1>6 DEF Granted, Entered
  <2>3. Account'
    BY <1>6, <2>2, SameAccount DEF Granted
  <2> QED
    BY <2>1, <2>3
<1>7. ASSUME NEW r \in Requests, GiveUp(r) PROVE LimitInv'
  <2>1. CASE stage[r] = "hosts"
    <3>1. stage' = [stage EXCEPT ![r] = "returning"] /\ expired' = expired \ {r}
            /\ UNCHANGED <<named, taken, globalSem, hostSems>>
      BY <1>7, <2>1 DEF GiveUp, HoldsSlot
    <3>2. LimitTypes' /\ TakenInOrder'
      BY <3>1 DEF Wanted
    <3>3. Entered' = Entered
      BY <2>1, <3>1 DEF Entered
    <3> QED
      BY <3>1, <3>2, <3>3, SameAccount
  <2>2. CASE stage[r] # "hosts"
    <3>1. stage[r] = "global" /\ expired' = expired \ {r} /\ UNCHANGED <<taken, globalSem, hostSems>>
            /\ stage' = [stage EXCEPT ![r] = "idle"] /\ named' = [named EXCEPT ![r] = <<>>]
      BY <1>7, <2>2 DEF GiveUp, HoldsSlot, Over
    <3>2. LimitTypes' /\ TakenInOrder'
      BY <3>1 DEF Wanted
    <3>3. Entered' = Entered
      BY <3>1 DEF Entered
    <3> QED
      BY <3>1, <3>2, <3>3, SameAccount
  <2> QED
    BY <2>1, <2>2
<1>8. ASSUME NEW r \in Requests, FinishWork(r) PROVE LimitInv'
  <2>1. LimitTypes' /\ TakenInOrder'
    BY <1>8 DEF FinishWork, Wanted
  <2>2. Entered' = Entered
    BY <1>8 DEF FinishWork, Entered
  <2>3. Account'
    BY <1>8, <2>2, SameAccount DEF FinishWork
  <2> QED
    BY <2>1, <2>3
<1>9. ASSUME NEW r \in Requests, ReturnHost(r) PROVE LimitInv'
  <2>1. PICK h \in taken[r] : /\ hostSems[h] > 0
                              /\ hostSems' = [hostSems EXCEPT ![h] = @ - 1]
                              /\ taken' = [taken EXCEPT ![r] = @ \ {h}]
    BY <1>9 DEF ReturnHost
  <2>2. h \in HostIds /\ stage[r] = "returning" /\ UNCHANGED <<named, stage, expired, globalSem>>
    BY <1>9 DEF ReturnHost
  <2>3. LimitTypes'
    BY <2>1, <2>2, LimitAssumption
  <2>4. TakenInOrder'
    BY <2>1, <2>2 DEF Wanted
  <2>5. Entered' = Entered
    BY <2>2 DEF Entered
  <2>6. r \in Takers(h) /\ Takers(h)' = Takers(h) \ {r}
    BY <2>1, <2>2 DEF Takers
  <2>7. \A g \in HostIds : g # h => Takers(g)' = Takers(g)
    BY <2>1, <2>2 DEF Takers
  <2>8. Cardinality(Takers(h)') = Cardinality(Takers(h)) - 1
    BY <2>2, <2>6, SetsFinite, CountLeave
  <2>9. Account'
    BY <2>1, <2>2, <2>5, <2>7, <2>8 DEF Account
  <2> QED
    BY <2>3, <2>4, <2>9
<1>10. ASSUME NEW r \in Requests, ReturnGlobal(r) PROVE LimitInv'
  <2>1. LimitTypes' /\ TakenInOrder'
    BY <1>10, LimitAssumption DEF ReturnGlobal, Over, Wanted
  <2>2. r \in Entered /\ Entered' = Entered \ {r}
    BY <1>10 DEF ReturnGlobal, Over, Entered
  <2>3. Cardinality(Entered') = Cardinality(Entered) - 1
    BY <2>2, SetsFinite, CountLeave
  <2>4. \A h \in HostIds : Takers(h)' = Takers(h)
    BY <1>10 DEF ReturnGlobal, Takers
  <2>5. Account'
    BY <1>10, <2>3, <2>4 DEF Account, ReturnGlobal
  <2> QED
    BY <2>1, <2>5
<1> QED
  BY <1>1, <1>2, <1>3, <1>4, <1>5, <1>6, <1>7, <1>8, <1>9, <1>10 DEF LimitNext, Proceed

---------------------------------------------------------------------------
(* The theorems about the limits *)

\* The account of the slots, whatever gives up where.
THEOREM LimitsInvariant == LimitSpec => []LimitInv
BY LimitInitInv, LimitStepInv, PTL DEF LimitSpec

\* Every variable keeps its type; in particular no channel is drawn below zero.
THEOREM LimitTypesHold == LimitSpec => []LimitTypes
<1>1. LimitInv => LimitTypes
  BY DEF LimitInv
<1> QED
  BY <1>1, LimitsInvariant, PTL

\* The limits hold: who works is among those whose slot is accounted for.
THEOREM LimitsHold == LimitSpec => []LimitsKept
<1>1. LimitInv => LimitsKept
  <2> SUFFICES ASSUME LimitInv PROVE LimitsKept
    OBVIOUS
  <2>1. Cardinality({r \in Requests : stage[r] = "working"}) <= GlobalLimit
    <3>1. {r \in Requests : stage[r] = "working"} \in SUBSET Entered
      BY DEF Entered
    <3>2. Cardinality({r \in Requests : stage[r] = "working"}) <= Cardinality(Entered)
      BY <3>1, SetsFinite, FS_Subset
    <3>3. Cardinality({r \in Requests : stage[r] = "working"}) \in Nat
      BY <3>1, SetsFinite, FS_Subset, FS_CardinalityType
    <3> QED
      BY <3>2, <3>3, LimitAssumption DEF LimitInv, Account, LimitTypes
  <2>2. ASSUME NEW h \in HostIds PROVE Cardinality(Working(h)) <= HostLimit
    <3>1. Working(h) \in SUBSET Takers(h)
      BY DEF Working, Takers, LimitInv, TakenInOrder
    <3>2. Cardinality(Working(h)) <= Cardinality(Takers(h))
      BY <3>1, SetsFinite, FS_Subset
    <3>3. Cardinality(Working(h)) \in Nat
      BY <3>1, SetsFinite, FS_Subset, FS_CardinalityType
    <3> QED
      BY <3>2, <3>3, LimitAssumption DEF LimitInv, Account, LimitTypes
  <2> QED
    BY <2>1, <2>2 DEF LimitsKept
<1> QED
  BY <1>1, LimitsInvariant, PTL

\* A release never waits: the channel a request returns a slot to holds that slot,
\* so a deferred release cannot block the caller that has finished.
NoReleaseBlocks ==
  \A r \in Requests : stage[r] = "returning" =>
    globalSem > 0 /\ \A h \in taken[r] : hostSems[h] > 0

THEOREM ReleaseIsFree == LimitSpec => []NoReleaseBlocks
<1>1. LimitInv => NoReleaseBlocks
  <2> SUFFICES ASSUME LimitInv, NEW r \in Requests, stage[r] = "returning"
               PROVE  globalSem > 0 /\ \A h \in taken[r] : hostSems[h] > 0
    BY DEF NoReleaseBlocks
  <2>1. globalSem > 0
    BY SetsFinite, CountLeave DEF LimitInv, Account, Entered
  <2>2. ASSUME NEW h \in taken[r] PROVE hostSems[h] > 0
    <3>1. h \in HostIds /\ r \in Takers(h)
      BY DEF LimitInv, LimitTypes, Takers
    <3> QED
      BY <3>1, SetsFinite, CountLeave DEF LimitInv, Account
  <2> QED
    BY <2>1, <2>2
<1> QED
  BY <1>1, LimitsInvariant, PTL

---------------------------------------------------------------------------
(* The inductive invariant of the event hub *)

InSeq(s) == {s[i] : i \in DOMAIN s}

Before(d, e)  == d.log < e.log \/ (d.log = e.log /\ d.id < e.id)
Ascending(s)    == \A i, j \in DOMAIN s : i < j => Before(s[i], s[j])

Held(p)    == IF p \in poster THEN emitting ELSE {}
Underway(p) == InSeq(replay[p]) \cup InSeq(feed[p]) \cup Held(p)

\* Ids of the current log the page needs: it has them or they are on their way.
Reached(p, i) == i \in got[p] \/ \E e \in Underway(p) : e.log = era /\ e.id = i
Needed(i)     == i \in DOMAIN log /\ log[i] # "queued"
Fresh(p)      == origin[p] \in {0, era}

PagePlaces(p) ==
  /\ stream[p] \in {"away", "asked"} => feed[p] = <<>>
  /\ stream[p] \in {"away", "asked", "live", "posting"} => replay[p] = <<>>
  /\ p \in subscribed => stream[p] \in {"joining", "live"}
  /\ p \in poster => stream[p] = "posting"

InLogOrder(p) ==
  /\ Ascending(replay[p]) /\ Ascending(feed[p])
  /\ \A d \in InSeq(replay[p]), e \in InSeq(feed[p]) : Before(d, e)
  /\ \A d \in InSeq(feed[p]), e \in Held(p) : Before(d, e)

Recent(p) ==
  /\ origin[p] = 0 => cursor[p] = 0
  /\ origin[p] <= era
  /\ origin[p] = era /\ entry = "open" => cursor[p] <= Len(log)
  /\ \A e \in Underway(p) :
       origin[p] <= e.log /\ e.log <= era /\ (e.log = era /\ entry = "open" => e.id <= Len(log))

NoHole(p) ==
  Fresh(p) => \A e \in Underway(p), i \in Nat :
    e.log = era /\ i < e.id /\ Needed(i) => Reached(p, i)

Covered(p) ==
  Fresh(p) /\ p \in subscribed \cup poster => \A i \in Nat : Needed(i) => Reached(p, i)

NothingMissed(p) == origin[p] = era => \A i \in 1..cursor[p] : Needed(i) => i \in got[p]

PageInv(p) == PagePlaces(p) /\ InLogOrder(p) /\ Recent(p) /\ NoHole(p) /\ Covered(p) /\ NothingMissed(p)

RunInv ==
  /\ driver = "idle" => poster = {} /\ emitting = {}
  /\ \A d, e \in emitting : d = e
  /\ IF entry = "none" THEN log = <<>> ELSE era > 0
  /\ Len(log) <= MaxEvents + 1 /\ (entry = "open" => Len(log) <= MaxEvents)

EventInv == EventTypes /\ RunInv /\ \A p \in Pages : PageInv(p)

---------------------------------------------------------------------------
(* Sequences of events *)

LEMMA SeqEmpty == InSeq(<<>>) = {} /\ Ascending(<<>>)
BY DEF InSeq, Ascending

LEMMA SeqTail ==
  ASSUME NEW S, NEW s \in Seq(S), s # <<>>
  PROVE  /\ Head(s) \in S /\ Tail(s) \in Seq(S)
         /\ InSeq(s) = InSeq(Tail(s)) \cup {Head(s)}
         /\ Ascending(s) => Ascending(Tail(s)) /\ \A e \in InSeq(Tail(s)) : Before(Head(s), e)
<1>1. Len(s) \in Nat /\ Len(s) > 0 /\ DOMAIN s = 1..Len(s) /\ Head(s) = s[1]
  OBVIOUS
<1>2. /\ Tail(s) \in Seq(S) /\ Len(Tail(s)) = Len(s) - 1 /\ DOMAIN Tail(s) = 1..(Len(s) - 1)
      /\ \A i \in 1..(Len(s) - 1) : Tail(s)[i] = s[i + 1]
  BY <1>1
<1>3. InSeq(s) \subseteq InSeq(Tail(s)) \cup {Head(s)}
  <2> SUFFICES ASSUME NEW i \in 1..Len(s), i # 1 PROVE s[i] \in InSeq(Tail(s))
    BY <1>1 DEF InSeq
  <2>1. i - 1 \in 1..(Len(s) - 1) /\ Tail(s)[i - 1] = s[i]
    BY <1>1, <1>2
  <2> QED
    BY <1>2, <2>1 DEF InSeq
<1>4. InSeq(Tail(s)) \cup {Head(s)} \subseteq InSeq(s)
  <2>1. \A i \in 1..(Len(s) - 1) : i + 1 \in 1..Len(s) /\ Tail(s)[i] = s[i + 1]
    BY <1>1, <1>2
  <2> QED
    BY <1>1, <1>2, <2>1 DEF InSeq
<1>5. ASSUME Ascending(s) PROVE Ascending(Tail(s)) /\ \A e \in InSeq(Tail(s)) : Before(Head(s), e)
  <2>1. \A i \in 1..(Len(s) - 1) : i + 1 \in DOMAIN s /\ 1 \in DOMAIN s /\ 1 < i + 1
    BY <1>1
  <2>2. \A e \in InSeq(Tail(s)) : Before(Head(s), e)
    BY <1>1, <1>2, <1>5, <2>1 DEF InSeq, Ascending
  <2>3. ASSUME NEW i \in 1..(Len(s) - 1), NEW j \in 1..(Len(s) - 1), i < j
        PROVE  Before(Tail(s)[i], Tail(s)[j])
    <3>1. i + 1 < j + 1
      BY <2>3
    <3> QED
      BY <1>2, <1>5, <2>1, <3>1 DEF Ascending
  <2> QED
    BY <1>2, <2>2, <2>3 DEF Ascending
<1> QED
  BY <1>1, <1>2, <1>3, <1>4, <1>5

LEMMA SeqAppend ==
  ASSUME NEW S, NEW s \in Seq(S), NEW e \in S
  PROVE  /\ Append(s, e) \in Seq(S)
         /\ InSeq(Append(s, e)) = InSeq(s) \cup {e}
         /\ Ascending(s) /\ (\A d \in InSeq(s) : Before(d, e)) => Ascending(Append(s, e))
<1>1. /\ Len(s) \in Nat /\ DOMAIN s = 1..Len(s) /\ DOMAIN Append(s, e) = 1..(Len(s) + 1)
      /\ Append(s, e)[Len(s) + 1] = e
      /\ \A i \in 1..Len(s) : Append(s, e)[i] = s[i]
  OBVIOUS
<1>2. InSeq(Append(s, e)) = InSeq(s) \cup {e}
  <2>1. InSeq(Append(s, e)) \subseteq InSeq(s) \cup {e}
    <3> SUFFICES ASSUME NEW i \in 1..(Len(s) + 1) PROVE Append(s, e)[i] \in InSeq(s) \cup {e}
      BY <1>1 DEF InSeq
    <3>1. i = Len(s) + 1 \/ i \in 1..Len(s)
      BY <1>1
    <3> QED
      BY <1>1, <3>1 DEF InSeq
  <2>2. 1..Len(s) \subseteq 1..(Len(s) + 1) /\ Len(s) + 1 \in 1..(Len(s) + 1)
    BY <1>1
  <2>3. InSeq(s) \cup {e} \subseteq InSeq(Append(s, e))
    BY <1>1, <2>2 DEF InSeq
  <2> QED
    BY <2>1, <2>3
<1>3. ASSUME Ascending(s), \A d \in InSeq(s) : Before(d, e) PROVE Ascending(Append(s, e))
  <2> SUFFICES ASSUME NEW i \in 1..(Len(s) + 1), NEW j \in 1..(Len(s) + 1), i < j
               PROVE  Before(Append(s, e)[i], Append(s, e)[j])
    BY <1>1 DEF Ascending
  <2>1. i \in 1..Len(s) /\ (j \in 1..Len(s) \/ j = Len(s) + 1)
    BY <1>1
  <2> QED
    BY <1>1, <1>3, <2>1 DEF Ascending, InSeq
<1> QED
  BY <1>2, <1>3

---------------------------------------------------------------------------
(* Types, and what the run and the hub keep *)

\* What one published event does, whoever publishes it.
LEMMA PublishTypes ==
  ASSUME EventTypes, RunInv, NEW kind \in {"turn", "queued", "end"}, PublishEvent(kind)
  PROVE  /\ [log |-> era', id |-> Len(log'), kind |-> kind] \in Events
         /\ entry' \in {"open", "done"} /\ log' \in Seq({"turn", "queued", "end"})
         /\ era' \in 0..MaxLogs /\ subscribed' \subseteq Pages
         /\ feed' \in [Pages -> Seq(Events)] /\ got' \in [Pages -> SUBSET (1..(MaxEvents + 1))]
         /\ Len(log') <= MaxEvents + 1 /\ (entry' = "open" => Len(log') <= MaxEvents)
         /\ era' > 0
<1> DEFINE e == [log |-> era', id |-> Len(log'), kind |-> kind]
<1> USE EventBounds DEF EventTypes, RunInv
<1>1. /\ log' \in Seq({"turn", "queued", "end"})
      /\ Len(log') = (IF entry = "open" THEN Len(log) + 1 ELSE 1)
  <2>1. CASE entry = "open"
    <3>1. log' = Append(log, kind) /\ log \in Seq({"turn", "queued", "end"})
      BY <2>1 DEF PublishEvent
    <3> QED
      BY <2>1, <3>1
  <2>2. CASE entry # "open"
    <3>1. log' = <<kind>>
      BY <2>2 DEF PublishEvent
    <3> QED
      BY <2>2, <3>1
  <2> QED
    BY <2>1, <2>2
<1>2. era' \in 1..MaxLogs /\ got' \in [Pages -> SUBSET (1..(MaxEvents + 1))]
  BY DEF PublishEvent, NewLog
<1>3. entry' = (IF kind = "end" THEN "done" ELSE "open") /\ (kind = "end" \/ Len(log') <= MaxEvents)
  BY DEF PublishEvent
<1>4. Len(log') \in 1..(MaxEvents + 1)
  BY <1>1, <1>3
<1>5. e \in Events
  BY <1>2, <1>4 DEF Events
<1>6. /\ feed' = [p \in Pages |-> IF p \in subscribed \ FullPages(SubscriberBuffer)
                                    THEN Append(feed[p], e) ELSE feed[p]]
      /\ subscribed' \subseteq subscribed
  BY DEF PublishEvent, Broadcast
<1>7. \A p \in Pages : feed[p] \in Seq(Events) /\ Append(feed[p], e) \in Seq(Events)
  <2> HIDE DEF e
  <2> QED
    BY <1>5
<1>8. feed' \in [Pages -> Seq(Events)]
  <2> HIDE DEF e
  <2> QED
    BY <1>6, <1>7
<1> QED
  BY <1>1, <1>2, <1>3, <1>4, <1>5, <1>6, <1>8

LEMMA EventTypeStep == EventTypes /\ RunInv /\ [EventNext]_eventVars => EventTypes' /\ RunInv'
<1> SUFFICES ASSUME EventTypes, RunInv, [EventNext]_eventVars PROVE EventTypes' /\ RunInv'
  OBVIOUS
<1> USE EventBounds
<1>1. CASE UNCHANGED eventVars
  BY <1>1 DEF eventVars, EventTypes, RunInv
<1>2. CASE ResumeRun
  BY <1>2 DEF ResumeRun, Active, hubVars, pageVars, streamVars, EventTypes, RunInv
<1>3. ASSUME NEW kind \in {"turn", "end"}, Publish(kind), driver' \in {"running", "ended"}
      PROVE  EventTypes' /\ RunInv'
  <2>1. PublishEvent(kind) /\ EmitUnlock /\ UNCHANGED <<poster, accepted, deleting>>
          /\ emitting' = emitting \cup {[log |-> era', id |-> Len(log'), kind |-> kind]}
    BY <1>3 DEF Publish
  <2>2. UNCHANGED <<stream, replay, cursor, origin>>
    BY <2>1 DEF PublishEvent
  <2>3. emitting = {}
    BY <2>1 DEF EmitUnlock
  <2>4. EventTypes'
    BY <1>3, <2>1, <2>2, PublishTypes DEF EventTypes
  <2>5. RunInv'
    BY <1>3, <2>1, <2>3, PublishTypes DEF RunInv
  <2> QED
    BY <2>4, <2>5
<1>4. CASE PublishTurn \/ PublishTerminal
  BY <1>3, <1>4 DEF PublishTurn, PublishTerminal
<1>5. CASE EndSilently
  BY <1>5 DEF EndSilently, hubVars, pageVars, streamVars, EventTypes, RunInv
<1>6. CASE HandOver
  <2>1. PICK e \in emitting :
          /\ emitting' = emitting \ {e}
          /\ feed' = [p \in Pages |-> IF p \in poster THEN Append(feed[p], e) ELSE feed[p]]
          /\ UNCHANGED <<driver, poster, accepted, deleting, hubVars, pageVars, stream, replay>>
    BY <1>6 DEF HandOver
  <2>2. \A p \in Pages : feed[p] \in Seq(Events) /\ Append(feed[p], e) \in Seq(Events)
    BY <2>1 DEF EventTypes
  <2>3. feed' \in [Pages -> Seq(Events)]
    BY <2>1, <2>2
  <2> QED
    BY <2>1, <2>3 DEF hubVars, pageVars, EventTypes, RunInv
<1>7. CASE EndRun
  BY <1>7 DEF EndRun, EmitUnlock, hubVars, pageVars, streamVars, EventTypes, RunInv
<1>8. CASE AcceptQueued
  BY <1>8 DEF AcceptQueued, hubVars, pageVars, streamVars, EventTypes, RunInv
<1>9. CASE AnnounceQueued
  <2>1. PublishEvent("queued") /\ accepted > 0 /\ accepted' = accepted - 1
          /\ UNCHANGED <<driver, poster, emitting, deleting>>
    BY <1>9 DEF AnnounceQueued
  <2>2. UNCHANGED <<stream, replay, cursor, origin>>
    BY <2>1 DEF PublishEvent
  <2>3. EventTypes'
    BY <2>1, <2>2, PublishTypes DEF EventTypes
  <2>4. RunInv'
    BY <2>1, PublishTypes DEF RunInv
  <2> QED
    BY <2>3, <2>4
<1>10. CASE CheckDelete \/ DeleteFails
  BY <1>10 DEF CheckDelete, DeleteFails, hubVars, pageVars, streamVars, EventTypes, RunInv
<1>11. CASE DeleteLog
  <2>1. log' = <<>> /\ Len(log') = 0 /\ log' \in Seq({"turn", "queued", "end"})
    BY <1>11 DEF DeleteLog
  <2>2. EventTypes'
    BY <1>11, <2>1 DEF DeleteLog, pageVars, streamVars, EventTypes
  <2>3. RunInv'
    BY <1>11, <2>1 DEF DeleteLog, RunInv
  <2> QED
    BY <2>2, <2>3
<1>12. CASE RestartServer
  <2>1. log' = <<>> /\ Len(log') = 0 /\ log' \in Seq({"turn", "queued", "end"})
    BY <1>12 DEF RestartServer
  <2>2. EventTypes'
    <3>1. <<>> \in Seq(Events)
      OBVIOUS
    <3>2. replay' \in [Pages -> Seq(Events)] /\ feed' \in [Pages -> Seq(Events)]
      BY <1>12, <3>1 DEF RestartServer
    <3>3. /\ driver' = "idle" /\ poster' = {} /\ emitting' = {} /\ accepted' = 0
          /\ entry' = "none" /\ subscribed' = {}
          /\ stream' = [p \in Pages |-> "away"] /\ UNCHANGED <<era, pageVars>>
      BY <1>12 DEF RestartServer
    <3>4. driver' \in {"idle", "begun", "running", "ended"} /\ poster' \subseteq Pages
            /\ emitting' \subseteq Events /\ accepted' \in 0..MaxQueued
      BY <3>3
    <3>5. /\ entry' \in {"none", "open", "done"} /\ era' \in 0..MaxLogs /\ subscribed' \subseteq Pages
          /\ stream' \in [Pages -> {"away", "asked", "reading", "joining", "live", "posting"}]
      BY <3>3 DEF EventTypes
    <3>6. /\ cursor' \in [Pages -> Nat] /\ origin' \in [Pages -> 0..MaxLogs]
          /\ got' \in [Pages -> SUBSET (1..(MaxEvents + 1))]
      BY <3>3 DEF pageVars, EventTypes
    <3>7. deleting' \in BOOLEAN
      BY <1>12 DEF RestartServer
    <3> QED
      BY <2>1, <3>2, <3>4, <3>5, <3>6, <3>7 DEF EventTypes
  <2>3. RunInv'
    BY <1>12, <2>1 DEF RestartServer, RunInv
  <2> QED
    BY <2>2, <2>3
<1>13. ASSUME NEW p \in Pages, Send(p) PROVE EventTypes' /\ RunInv'
  <2>1. 1..Len(log) \in SUBSET (1..(MaxEvents + 1))
    BY DEF EventTypes, RunInv
  <2> QED
    BY <1>13, <2>1 DEF Send, Active, hubVars, EventTypes, RunInv
<1>14. ASSUME NEW p \in Pages, OpenConversation(p) PROVE EventTypes' /\ RunInv'
  BY <1>14 DEF OpenConversation, runVars, hubVars, streamVars, EventTypes, RunInv
<1>15. ASSUME NEW p \in Pages, AskState(p) PROVE EventTypes' /\ RunInv'
  BY <1>15 DEF AskState, runVars, hubVars, pageVars, EventTypes, RunInv
<1>16. ASSUME NEW p \in Pages, Subscribe(p) PROVE EventTypes' /\ RunInv'
  <2> DEFINE copy == [i \in 1..(Len(log) - cursor[p]) |->
                        [log |-> era', id |-> cursor[p] + i, kind |-> log[cursor[p] + i]]]
  <2>1. /\ replay' = [replay EXCEPT ![p] = copy] /\ feed' = [feed EXCEPT ![p] = <<>>]
        /\ UNCHANGED <<runVars, log, cursor, origin>>
        /\ entry' \in {"open", "done"} /\ (entry' = "open" => entry \in {"none", "open"})
        /\ era' \in 1..MaxLogs /\ got' \in [Pages -> SUBSET (1..(MaxEvents + 1))]
        /\ subscribed' \subseteq Pages
        /\ stream' \in [Pages -> {"away", "asked", "reading", "joining", "live", "posting"}]
    <3>1. replay' = [replay EXCEPT ![p] = copy] /\ feed' = [feed EXCEPT ![p] = <<>>]
            /\ UNCHANGED <<runVars, log, cursor, origin>>
      BY <1>16 DEF Subscribe
    <3>2. /\ entry' \in {"open", "done"} /\ (entry' = "open" => entry \in {"none", "open"})
          /\ era' \in 1..MaxLogs /\ got' \in [Pages -> SUBSET (1..(MaxEvents + 1))]
      <4>1. CASE entry = "none"
        BY <1>16, <4>1 DEF Subscribe, NewLog, EventTypes, RunInv
      <4>2. CASE entry # "none"
        BY <1>16, <4>2 DEF Subscribe, EventTypes, RunInv
      <4> QED
        BY <4>1, <4>2
    <3>3. /\ subscribed' \subseteq Pages
          /\ stream' \in [Pages -> {"away", "asked", "reading", "joining", "live", "posting"}]
      BY <1>16 DEF Subscribe, EventTypes
    <3> QED
      BY <3>1, <3>2, <3>3
  <2>2. Len(log) \in Nat /\ cursor[p] \in Nat /\ Len(log) <= MaxEvents + 1
          /\ \A i \in 1..Len(log) : log[i] \in {"turn", "queued", "end"}
    BY DEF EventTypes, RunInv
  <2>3. \A i \in 1..(Len(log) - cursor[p]) :
          cursor[p] + i \in 1..Len(log) /\ cursor[p] + i \in 1..(MaxEvents + 1)
    BY <2>2
  <2>4. \A i \in 1..(Len(log) - cursor[p]) : copy[i] \in Events
    BY <2>1, <2>2, <2>3 DEF Events
  <2>5. copy \in Seq(Events)
    <3>1. CASE Len(log) - cursor[p] \in Nat
      <4> DEFINE n == Len(log) - cursor[p]
      <4>1. copy \in [1..n -> Events]
        BY <2>4
      <4> HIDE DEF copy
      <4> QED
        BY <3>1, <4>1
    <3>2. CASE Len(log) - cursor[p] \notin Nat
      <4>1. 1..(Len(log) - cursor[p]) = 1..0
        BY <2>2, <3>2
      <4>2. copy \in [1..0 -> Events]
        BY <2>4, <4>1
      <4> HIDE DEF copy
      <4> QED
        BY <4>2
    <3> QED
      BY <3>1, <3>2
  <2>6. EventTypes'
    <3> HIDE DEF copy
    <3> QED
      BY <2>1, <2>5 DEF runVars, EventTypes
  <2>7. RunInv'
    BY <2>1 DEF runVars, EventTypes, RunInv
  <2> QED
    BY <2>6, <2>7
<1>17. ASSUME NEW p \in Pages, NEW e \in Events, Show(p, e)
       PROVE  /\ cursor' \in [Pages -> Nat] /\ origin' \in [Pages -> 0..MaxLogs]
              /\ got' \in [Pages -> SUBSET (1..(MaxEvents + 1))]
  BY <1>17 DEF Show, EventTypes, Events
<1>18. ASSUME NEW p \in Pages, WriteReplay(p) PROVE EventTypes' /\ RunInv'
  <2>1. replay[p] \in Seq(Events) /\ replay[p] # <<>>
    BY <1>18 DEF WriteReplay, EventTypes
  <2>2. Head(replay[p]) \in Events /\ Tail(replay[p]) \in Seq(Events)
    BY <2>1, SeqTail
  <2> QED
    BY <1>17, <1>18, <2>2 DEF WriteReplay, runVars, hubVars, EventTypes, RunInv
<1>19. ASSUME NEW p \in Pages, WriteEvent(p) PROVE EventTypes' /\ RunInv'
  <2>1. feed[p] \in Seq(Events) /\ feed[p] # <<>>
    BY <1>19 DEF WriteEvent, EventTypes
  <2>2. Head(feed[p]) \in Events /\ Tail(feed[p]) \in Seq(Events)
    BY <2>1, SeqTail
  <2> QED
    BY <1>17, <1>19, <2>2 DEF WriteEvent, runVars, hubVars, EventTypes, RunInv
<1>20. ASSUME NEW p \in Pages, GoLive(p) PROVE EventTypes' /\ RunInv'
  BY <1>20 DEF GoLive, runVars, hubVars, pageVars, EventTypes, RunInv
<1>21. ASSUME NEW p \in Pages, Leave(p) PROVE EventTypes' /\ RunInv'
  <2>1. <<>> \in Seq(Events)
    OBVIOUS
  <2> QED
    BY <1>21, <2>1 DEF Leave, pageVars, EventTypes, RunInv
<1> QED
  BY <1>1, <1>2, <1>4, <1>5, <1>6, <1>7, <1>8, <1>9, <1>10, <1>11, <1>12, <1>13, <1>14, <1>15,
     <1>16, <1>18, <1>19, <1>20, <1>21
  DEF EventNext, Serve, EndReplay, EndStream, Disconnect

---------------------------------------------------------------------------
(* What a step does to one page *)

\* Nothing of the page changes, except that it may be detached.
Same(p) ==
  /\ stream'[p] = stream[p] /\ replay'[p] = replay[p] /\ feed'[p] = feed[p]
  /\ cursor'[p] = cursor[p] /\ origin'[p] = origin[p] /\ got'[p] = got[p]
  /\ Held(p)' = Held(p)
  /\ (p \in subscribed' => p \in subscribed) /\ (p \in poster' => p \in poster)

LEMMA SamePending ==
  ASSUME NEW p \in Pages, Same(p)
  PROVE  Underway(p)' = Underway(p)
BY DEF Same, Underway

LEMMA SamePlace ==
  ASSUME NEW p \in Pages, Same(p), PagePlaces(p), InLogOrder(p)
  PROVE  PagePlaces(p)' /\ InLogOrder(p)'
<1>1. PagePlaces(p)'
  BY DEF Same, PagePlaces
<1>2. InLogOrder(p)'
  BY DEF Same, InLogOrder
<1> QED
  BY <1>1, <1>2

LEMMA SamePage ==
  ASSUME NEW p \in Pages, PageInv(p), Same(p), UNCHANGED <<entry, log, era>>
  PROVE  PageInv(p)'
<1>1. PagePlaces(p)' /\ InLogOrder(p)'
  BY SamePlace DEF PageInv
<1>2. \A i : (Reached(p, i)' <=> Reached(p, i)) /\ (Needed(i)' <=> Needed(i))
  BY SamePending DEF Reached, Needed, Same
<1>3. Recent(p)'
  BY SamePending DEF Recent, PageInv, Same
<1>4. NoHole(p)'
  BY <1>2, SamePending DEF NoHole, PageInv, Fresh, Same
<1>5. Covered(p)'
  BY <1>2 DEF Covered, PageInv, Fresh, Same
<1>6. NothingMissed(p)'
  BY <1>2 DEF NothingMissed, PageInv, Same
<1> QED
  BY <1>1, <1>3, <1>4, <1>5, <1>6 DEF PageInv

\* Of an empty log nothing is needed.
LEMMA EmptyLog ==
  ASSUME NEW p \in Pages, log' = <<>>
  PROVE  NoHole(p)' /\ Covered(p)' /\ NothingMissed(p)'
<1>1. \A i : ~Needed(i)'
  BY DEF Needed
<1> QED
  BY <1>1 DEF NoHole, Covered, NothingMissed

LEMMA PendingEvents ==
  ASSUME EventTypes, NEW p \in Pages
  PROVE  /\ Underway(p) \subseteq Events
         /\ \A e \in Events : e.log \in Nat /\ e.id \in Nat /\ e.log > 0 /\ e.id > 0
<1>1. \A s \in Seq(Events) : InSeq(s) \subseteq Events
  BY DEF InSeq
<1>2. replay[p] \in Seq(Events) /\ feed[p] \in Seq(Events) /\ Held(p) \subseteq Events
  BY DEF EventTypes, Held
<1>3. \A e \in Events : e.log \in Nat /\ e.id \in Nat /\ e.log > 0 /\ e.id > 0
  BY DEF Events
<1> QED
  BY <1>1, <1>2, <1>3 DEF Underway

\* One event more: it comes after all that is pending, and who is attached gets it.
LEMMA PublishPage ==
  ASSUME EventTypes, RunInv, NEW p \in Pages, PageInv(p),
         NEW kind \in {"turn", "queued", "end"}, PublishEvent(kind), poster' = poster,
         \/ emitting = {} /\ emitting' = {[log |-> era', id |-> Len(log'), kind |-> kind]}
         \/ kind = "queued" /\ emitting' = emitting
  PROVE  PageInv(p)'
<1> DEFINE e == [log |-> era', id |-> Len(log'), kind |-> kind]
<1>1. /\ e \in Events /\ e.log = era' /\ e.id = Len(log') /\ Len(log') \in Nat /\ Len(log') > 0
      /\ Len(log) \in Nat /\ era \in Nat /\ era' \in Nat
      /\ cursor[p] \in Nat /\ origin[p] \in Nat
  BY PublishTypes, PendingEvents DEF EventTypes
<1>2. /\ UNCHANGED <<stream, replay, cursor, origin>>
      /\ feed'[p] = IF p \in subscribed \ FullPages(SubscriberBuffer) THEN Append(feed[p], e) ELSE feed[p]
      /\ p \in subscribed' => p \in subscribed \ FullPages(SubscriberBuffer)
  BY DEF PublishEvent, Broadcast
<1>4. \/ entry = "open" /\ log' = Append(log, kind) /\ Len(log') = Len(log) + 1 /\ UNCHANGED <<era, got>>
      \/ entry # "open" /\ log' = <<kind>> /\ Len(log') = 1 /\ era' = era + 1
  BY DEF PublishEvent, NewLog, EventTypes
<1> HIDE DEF e
<1>5. \A d \in Underway(p) :
        /\ d \in Events /\ d.log \in Nat /\ d.id \in Nat /\ d.log <= era
        /\ (d.log = era /\ entry = "open" => d.id <= Len(log)) /\ Before(d, e)
  BY <1>1, <1>4, PendingEvents DEF PageInv, Recent, Before
<1>6. feed[p] \in Seq(Events) /\ Append(feed[p], e) \in Seq(Events)
        /\ InSeq(Append(feed[p], e)) = InSeq(feed[p]) \cup {e}
  BY <1>1, SeqAppend DEF EventTypes
<1>7. p \in poster => p \notin subscribed
  BY DEF PageInv, PagePlaces
<1>8. Held(p)' = Held(p) \/ (Held(p) = {} /\ Held(p)' = {e} /\ p \in poster)
  BY DEF Held, e
<1>9. /\ Underway(p) \subseteq Underway(p)' /\ Underway(p)' \subseteq Underway(p) \cup {e}
      /\ e \in Underway(p)' => e \in Underway(p) \/ p \in subscribed \cup poster
  BY <1>2, <1>6, <1>8 DEF Underway
<1>10. kind # "queued" /\ p \in subscribed' \cup poster' => e \in Underway(p)'
  BY <1>2, <1>6 DEF Underway, Held, e
<1>11. PagePlaces(p)'
  BY <1>2 DEF PageInv, PagePlaces
<1>12. InLogOrder(p)'
  <2>1. Ascending(feed'[p])
    BY <1>1, <1>2, <1>5, <1>6, SeqAppend DEF PageInv, InLogOrder, Underway, EventTypes
  <2>2. \A d \in InSeq(replay'[p]), f \in InSeq(feed'[p]) : Before(d, f)
    BY <1>2, <1>5, <1>6 DEF PageInv, InLogOrder, Underway
  <2>3. \A d \in InSeq(feed'[p]), f \in Held(p)' : Before(d, f)
    <3>1. CASE p \in poster
      BY <1>2, <1>5, <1>7, <1>8, <3>1 DEF PageInv, InLogOrder, Underway
    <3>2. CASE p \notin poster
      BY <3>2 DEF Held
    <3> QED
      BY <3>1, <3>2
  <2> QED
    BY <1>2, <2>1, <2>2, <2>3 DEF PageInv, InLogOrder
<1>13. Recent(p)'
  BY <1>1, <1>2, <1>4, <1>5, <1>9 DEF PageInv, Recent
<1>14. CASE entry = "open"
  <2>1. log' = Append(log, kind) /\ Len(log') = Len(log) + 1 /\ era' = era /\ got' = got
    BY <1>4, <1>14
  <2>2. \A i \in Nat : i <= Len(log) => (Needed(i)' => Needed(i))
    BY <2>1 DEF Needed, EventTypes
  <2>3. \A i \in Nat : Needed(i)' => i <= Len(log) + 1 /\ (i = Len(log) + 1 => kind # "queued")
    BY <2>1 DEF Needed, EventTypes
  <2>4. \A i \in Nat : Reached(p, i) => Reached(p, i)'
    BY <1>9, <2>1 DEF Reached
  <2>5. \A i \in Nat : e \in Underway(p)' /\ i = Len(log) + 1 => Reached(p, i)'
    BY <1>1, <2>1 DEF Reached
  <2>6. Fresh(p)' <=> Fresh(p)
    BY <1>2, <2>1 DEF Fresh
  <2>7. NoHole(p)'
    <3> SUFFICES ASSUME Fresh(p), NEW d \in Underway(p)', NEW i \in Nat,
                        d.log = era, i < d.id, Needed(i)'
                 PROVE  Reached(p, i)'
      BY <2>1, <2>6 DEF NoHole
    <3>1. CASE d \in Underway(p)
      <4>1. i <= Len(log)
        BY <1>5, <1>14, <1>1, <3>1
      <4> QED
        BY <2>2, <2>4, <3>1, <4>1 DEF PageInv, NoHole
    <3>2. CASE d \notin Underway(p)
      <4>1. d = e /\ p \in subscribed \cup poster
        BY <1>9, <3>2
      <4>2. i <= Len(log)
        BY <1>1, <2>1, <4>1
      <4> QED
        BY <2>2, <2>4, <4>1, <4>2 DEF PageInv, Covered
    <3> QED
      BY <3>1, <3>2
  <2>8. Covered(p)'
    <3> SUFFICES ASSUME Fresh(p), p \in subscribed' \cup poster', NEW i \in Nat, Needed(i)'
                 PROVE  Reached(p, i)'
      BY <2>6 DEF Covered
    <3>1. CASE i <= Len(log)
      BY <1>2, <2>2, <2>4, <3>1 DEF PageInv, Covered
    <3>2. CASE i = Len(log) + 1
      BY <1>10, <2>3, <2>5, <3>2
    <3> QED
      BY <1>1, <2>3, <3>1, <3>2
  <2>9. NothingMissed(p)'
    <3> SUFFICES ASSUME origin[p] = era, NEW i \in 1..cursor[p], Needed(i)' PROVE i \in got[p]
      BY <1>2, <2>1 DEF NothingMissed
    <3>1. i \in Nat /\ i <= Len(log)
      BY <1>1, <1>14 DEF PageInv, Recent
    <3> QED
      BY <2>2, <3>1 DEF PageInv, NothingMissed
  <2> QED
    BY <1>11, <1>12, <1>13, <2>7, <2>8, <2>9 DEF PageInv
<1>15. CASE entry # "open"
  <2>1. log' = <<kind>> /\ Len(log') = 1 /\ era' = era + 1
    BY <1>4, <1>15
  <2>2. \A i \in Nat : Needed(i)' => i = 1 /\ kind # "queued"
    BY <2>1 DEF Needed
  <2>3. NoHole(p)'
    <3> SUFFICES ASSUME NEW d \in Underway(p)', NEW i \in Nat, d.log = era', i < d.id, Needed(i)'
                 PROVE  FALSE
      BY DEF NoHole
    <3>1. d = e
      BY <1>1, <1>5, <1>9, <2>1
    <3> QED
      BY <1>1, <2>1, <2>2, <3>1
  <2>4. Covered(p)'
    <3> SUFFICES ASSUME p \in subscribed' \cup poster', NEW i \in Nat, Needed(i)' PROVE Reached(p, i)'
      BY DEF Covered
    <3> QED
      BY <1>1, <1>10, <2>1, <2>2 DEF Reached
  <2>5. NothingMissed(p)'
    BY <1>1, <1>2, <2>1 DEF NothingMissed, PageInv, Recent
  <2> QED
    BY <1>11, <1>12, <1>13, <2>3, <2>4, <2>5 DEF PageInv
<1> QED
  BY <1>14, <1>15

\* The page shows the first pending event: what it skips over is shown already.
LEMMA ShowPage ==
  ASSUME EventTypes, NEW p \in Pages, PageInv(p), NEW e \in Underway(p), Show(p, e),
         Underway(p)' \subseteq Underway(p), Underway(p) \subseteq Underway(p)' \cup {e},
         \A d \in Underway(p)' : Before(e, d),
         UNCHANGED <<entry, log, era, subscribed, poster>>
  PROVE  Recent(p)' /\ NoHole(p)' /\ Covered(p)' /\ NothingMissed(p)'
<1>1. /\ era \in Nat /\ cursor[p] \in Nat /\ origin[p] \in Nat /\ Len(log) \in Nat
      /\ \A d \in Underway(p) : d.log \in Nat /\ d.id \in Nat /\ d.log > 0 /\ d.id > 0
  BY PendingEvents DEF EventTypes
<1>2. /\ cursor'[p] = IF e.id > cursor[p] THEN e.id ELSE cursor[p]
      /\ origin'[p] = IF origin[p] = 0 THEN e.log ELSE origin[p]
      /\ got'[p] = IF e.log = era THEN got[p] \cup {e.id} ELSE got[p]
  BY DEF Show, EventTypes
<1>3. /\ origin[p] <= e.log /\ e.log <= era /\ (e.log = era /\ entry = "open" => e.id <= Len(log))
      /\ origin[p] = 0 => cursor[p] = 0
      /\ origin[p] <= era /\ (origin[p] = era /\ entry = "open" => cursor[p] <= Len(log))
  BY DEF PageInv, Recent
<1>4. Recent(p)'
  <2>1. origin'[p] # 0 /\ origin'[p] <= era
    BY <1>1, <1>2, <1>3
  <2>2. origin'[p] = era /\ entry = "open" => cursor'[p] <= Len(log)
    BY <1>1, <1>2, <1>3
  <2>3. \A d \in Underway(p)' :
          origin'[p] <= d.log /\ d.log <= era /\ (d.log = era /\ entry = "open" => d.id <= Len(log))
    BY <1>1, <1>2, <1>3 DEF PageInv, Recent, Before
  <2> QED
    BY <2>1, <2>2, <2>3 DEF Recent
<1>5. \A i \in Nat : (Needed(i)' <=> Needed(i)) /\ (Reached(p, i) => Reached(p, i)')
  BY <1>2 DEF Needed, Reached
<1>6. Fresh(p)' => Fresh(p) /\ e.log = era
  BY <1>1, <1>2, <1>3 DEF Fresh
<1>7. NoHole(p)'
  BY <1>5, <1>6 DEF NoHole, PageInv
<1>8. Covered(p)'
  BY <1>5, <1>6 DEF Covered, PageInv
<1>9. NothingMissed(p)'
  <2> SUFFICES ASSUME origin'[p] = era, NEW i \in 1..cursor'[p], Needed(i) PROVE i \in got'[p]
    BY <1>5 DEF NothingMissed
  <2>1. Fresh(p) /\ e.log = era /\ i \in Nat
    BY <1>1, <1>2, <1>6 DEF Fresh
  <2>2. got'[p] = got[p] \cup {e.id}
    BY <1>2, <2>1
  <2>3. CASE i <= cursor[p]
    <3>1. origin[p] = era /\ i \in 1..cursor[p]
      BY <1>1, <1>2, <1>3, <2>1, <2>3
    <3> QED
      BY <2>2, <3>1 DEF PageInv, NothingMissed
  <2>4. CASE i = e.id
    BY <2>2, <2>4
  <2>5. CASE i > cursor[p] /\ i < e.id
    <3>1. Reached(p, i)
      BY <2>1, <2>5 DEF PageInv, NoHole
    <3>2. ASSUME NEW d \in Underway(p), d.log = era, d.id = i PROVE FALSE
      <4>1. d # e /\ d \in Underway(p)'
        BY <1>1, <2>5, <3>2
      <4>2. Before(e, d)
        BY <4>1
      <4> QED
        BY <1>1, <2>1, <2>5, <3>2, <4>2 DEF Before
    <3> QED
      BY <2>2, <3>1, <3>2 DEF Reached
  <2> QED
    BY <1>1, <1>2, <2>1, <2>3, <2>4, <2>5
<1> QED
  BY <1>4, <1>7, <1>8, <1>9

\* Subscribing: the replay holds all that the cursor does not stand for.
LEMMA SubscribePage ==
  ASSUME EventTypes, RunInv, NEW p \in Pages, PageInv(p), Subscribe(p)
  PROVE  PageInv(p)'
<1> DEFINE copy == [i \in 1..(Len(log) - cursor[p]) |->
                      [log |-> era', id |-> cursor[p] + i, kind |-> log[cursor[p] + i]]]
<1>1. /\ era \in Nat /\ cursor[p] \in Nat /\ origin[p] \in Nat /\ Len(log) \in Nat
      /\ DOMAIN log = 1..Len(log)
  BY DEF EventTypes
<1>2. /\ stream[p] = "asked" /\ replay'[p] = copy /\ feed'[p] = <<>>
      /\ UNCHANGED <<poster, emitting, log, cursor, origin>>
      /\ entry = "done" => stream'[p] = "reading" /\ subscribed' = subscribed
      /\ entry # "done" => stream'[p] = "joining" /\ subscribed' = subscribed \cup {p}
  BY DEF Subscribe, EventTypes, runVars
<1>3. \/ entry = "none" /\ entry' = "open" /\ era' = era + 1 /\ log = <<>> /\ Len(log) = 0
      \/ entry # "none" /\ entry' = entry /\ era' = era /\ got' = got
  BY DEF Subscribe, NewLog, RunInv
<1>4. p \notin subscribed /\ p \notin poster
  BY <1>2 DEF PageInv, PagePlaces
<1>5. Held(p)' = {}
  BY <1>2, <1>4 DEF Held
<1>6. /\ DOMAIN copy = 1..(Len(log) - cursor[p])
      /\ \A i \in DOMAIN copy : copy[i].log = era' /\ copy[i].id = cursor[p] + i
  OBVIOUS
<1> HIDE DEF copy
<1>7. Underway(p)' = InSeq(copy)
  BY <1>2, <1>5, SeqEmpty DEF Underway
<1>8. PagePlaces(p)'
  BY <1>2, <1>4 DEF PagePlaces
<1>9. InLogOrder(p)'
  <2>1. Ascending(copy)
    BY <1>1, <1>6 DEF Ascending, Before
  <2> QED
    BY <1>2, <1>5, <2>1, SeqEmpty DEF InLogOrder
<1>10. \A d \in InSeq(copy) : d.log = era' /\ d.id \in Nat /\ d.id > cursor[p] /\ d.id <= Len(log)
  BY <1>1, <1>6 DEF InSeq
<1>11. Recent(p)'
  <2>1. /\ origin[p] = 0 => cursor[p] = 0
        /\ origin[p] <= era /\ (origin[p] = era /\ entry = "open" => cursor[p] <= Len(log))
    BY DEF PageInv, Recent
  <2>2. origin[p] <= era' /\ (origin[p] = era' /\ entry' = "open" => cursor[p] <= Len(log))
    BY <1>1, <1>3, <2>1
  <2>3. \A d \in Underway(p)' : origin[p] <= d.log /\ d.log <= era' /\ d.id <= Len(log)
    BY <1>1, <1>3, <1>7, <1>10, <2>2
  <2> QED
    BY <1>2, <2>1, <2>2, <2>3 DEF Recent
<1>12. CASE entry = "none"
  <2>1. log' = <<>>
    BY <1>2, <1>3, <1>12
  <2> QED
    BY <1>8, <1>9, <1>11, <2>1, EmptyLog DEF PageInv
<1>13. CASE entry # "none"
  <2>1. era' = era /\ got' = got
    BY <1>3, <1>13
  <2>2. \A i \in Nat : Needed(i)' <=> Needed(i)
    BY <1>2 DEF Needed
  <2>3. ASSUME NEW i \in Nat, Needed(i), Fresh(p) PROVE Reached(p, i)'
    <3>1. i \in 1..Len(log)
      BY <1>1, <2>3 DEF Needed
    <3>2. CASE i > cursor[p]
      <4>1. i - cursor[p] \in DOMAIN copy /\ cursor[p] + (i - cursor[p]) = i
        BY <1>1, <1>6, <3>1, <3>2
      <4>2. copy[i - cursor[p]] \in InSeq(copy) /\ copy[i - cursor[p]].log = era'
              /\ copy[i - cursor[p]].id = i
        BY <1>6, <4>1 DEF InSeq
      <4> QED
        BY <1>7, <4>2 DEF Reached
    <3>3. CASE i <= cursor[p]
      <4>1. origin[p] = era /\ i \in 1..cursor[p]
        BY <1>1, <2>3, <3>1, <3>3 DEF Fresh, PageInv, Recent
      <4>2. i \in got[p]
        BY <2>3, <4>1 DEF PageInv, NothingMissed
      <4> QED
        BY <2>1, <4>2 DEF Reached
    <3> QED
      BY <1>1, <3>2, <3>3
  <2>4. Fresh(p)' <=> Fresh(p)
    BY <1>2, <2>1 DEF Fresh
  <2>5. NoHole(p)' /\ Covered(p)'
    BY <2>2, <2>3, <2>4 DEF NoHole, Covered
  <2>6. NothingMissed(p)'
    <3> SUFFICES ASSUME origin[p] = era, NEW i \in 1..cursor[p], Needed(i)' PROVE i \in got[p]
      BY <1>2, <2>1 DEF NothingMissed
    <3> QED
      BY <1>1, <2>2 DEF PageInv, NothingMissed
  <2> QED
    BY <1>8, <1>9, <1>11, <2>5, <2>6 DEF PageInv
<1> QED
  BY <1>12, <1>13

\* What the other pages see of it: at most a log that opens, still empty.
LEMMA SubscribeOther ==
  ASSUME EventTypes, RunInv, NEW p \in Pages, NEW q \in Pages, q # p, PageInv(q), Subscribe(p)
  PROVE  PageInv(q)'
<1>1. /\ UNCHANGED <<poster, emitting, log, cursor, origin>>
      /\ stream'[q] = stream[q] /\ replay'[q] = replay[q] /\ feed'[q] = feed[q]
      /\ q \in subscribed' => q \in subscribed
  BY DEF Subscribe, EventTypes, runVars
<1>2. Held(q)' = Held(q)
  BY <1>1 DEF Held
<1>3. CASE entry = "none"
  <2>1. entry' = "open" /\ era' = era + 1 /\ log' = <<>> /\ era \in Nat
    BY <1>1, <1>3 DEF Subscribe, NewLog, RunInv, EventTypes
  <2>2. Underway(q)' = Underway(q)
    BY <1>1, <1>2 DEF Underway
  <2>3. PagePlaces(q)'
    BY <1>1 DEF PageInv, PagePlaces
  <2>4. InLogOrder(q)'
    BY <1>1, <1>2 DEF PageInv, InLogOrder
  <2>5. origin[q] \in Nat /\ \A d \in Underway(q) : d.log \in Nat
    BY PendingEvents DEF EventTypes
  <2>6. Recent(q)'
    BY <1>1, <2>1, <2>2, <2>5 DEF PageInv, Recent
  <2> QED
    BY <2>1, <2>3, <2>4, <2>6, EmptyLog DEF PageInv
<1>4. CASE entry # "none"
  <2>1. UNCHANGED <<entry, log, era>> /\ got' = got
    BY <1>1, <1>4 DEF Subscribe
  <2>2. Same(q)
    BY <1>1, <1>2, <2>1 DEF Same
  <2> QED
    BY <2>1, <2>2, SamePage
<1> QED
  BY <1>3, <1>4

\* A stream that closes leaves nothing on its way.
LEMMA LeavePage ==
  ASSUME EventTypes, NEW p \in Pages, NEW q \in Pages, PageInv(q), Leave(p)
  PROVE  PageInv(q)'
<1>1. /\ subscribed' = subscribed \ {p} /\ poster' = poster \ {p}
      /\ UNCHANGED <<emitting, entry, log, era, cursor, origin, got>>
  BY DEF Leave, pageVars
<1>2. CASE q = p
  <2>1. stream'[p] = "away" /\ replay'[p] = <<>> /\ feed'[p] = <<>> /\ Held(p)' = {}
    BY <1>1 DEF Leave, EventTypes, Held
  <2>2. Underway(p)' = {}
    BY <2>1, SeqEmpty DEF Underway
  <2>3. PagePlaces(p)' /\ InLogOrder(p)'
    BY <1>1, <2>1, SeqEmpty DEF PagePlaces, InLogOrder
  <2>4. Recent(p)' /\ NoHole(p)' /\ Covered(p)'
    BY <1>1, <1>2, <2>2 DEF Recent, NoHole, Covered, PageInv
  <2>5. NothingMissed(p)'
    BY <1>1, <1>2 DEF NothingMissed, Needed, PageInv
  <2> QED
    BY <1>2, <2>3, <2>4, <2>5 DEF PageInv
<1>3. CASE q # p
  <2>1. Same(q)
    BY <1>1, <1>3 DEF Leave, EventTypes, Same, Held
  <2> QED
    BY <1>1, <2>1, SamePage
<1> QED
  BY <1>2, <1>3

LEMMA WritePage ==
  ASSUME EventTypes, NEW p \in Pages, NEW q \in Pages, PageInv(q), WriteReplay(p) \/ WriteEvent(p)
  PROVE  PageInv(q)'
<1>1. UNCHANGED <<driver, poster, emitting, entry, log, era, subscribed, stream>> /\ Held(q)' = Held(q)
  BY DEF WriteReplay, WriteEvent, runVars, hubVars, Held
<1>2. CASE q # p
  <2>1. Same(q)
    BY <1>1, <1>2 DEF WriteReplay, WriteEvent, Show, EventTypes, Same
  <2> QED
    BY <1>1, <2>1, SamePage
<1>3. CASE q = p /\ WriteReplay(p)
  <2> DEFINE e == Head(replay[p])
  <2>1. /\ replay[p] \in Seq(Events) /\ replay[p] # <<>> /\ Show(p, e)
        /\ replay'[p] = Tail(replay[p]) /\ feed'[p] = feed[p]
    BY <1>3 DEF WriteReplay, EventTypes
  <2>2. /\ InSeq(replay[p]) = InSeq(replay'[p]) \cup {e}
        /\ Ascending(replay'[p]) /\ \A d \in InSeq(replay'[p]) : Before(e, d)
    BY <1>3, <2>1, SeqTail DEF PageInv, InLogOrder
  <2> HIDE DEF e
  <2>3. stream[p] \in {"reading", "joining"} /\ p \notin poster /\ Held(p) = {}
    BY <1>3 DEF WriteReplay, PageInv, PagePlaces, Held
  <2>4. PagePlaces(p)'
    BY <1>1, <1>3, <2>3 DEF PageInv, PagePlaces
  <2>5. InLogOrder(p)'
    BY <1>1, <1>3, <2>1, <2>2, <2>3 DEF PageInv, InLogOrder
  <2>6. e \in Underway(p) /\ Underway(p)' \subseteq Underway(p) /\ Underway(p) \subseteq Underway(p)' \cup {e}
    BY <1>1, <1>3, <2>1, <2>2 DEF Underway
  <2>7. \A d \in Underway(p)' : Before(e, d)
    BY <1>1, <1>3, <2>1, <2>2, <2>3 DEF Underway, PageInv, InLogOrder
  <2> QED
    BY <1>1, <1>3, <2>1, <2>4, <2>5, <2>6, <2>7, ShowPage DEF PageInv
<1>4. CASE q = p /\ WriteEvent(p)
  <2> DEFINE e == Head(feed[p])
  <2>1. /\ feed[p] \in Seq(Events) /\ feed[p] # <<>> /\ Show(p, e)
        /\ feed'[p] = Tail(feed[p]) /\ replay'[p] = replay[p]
    BY <1>4 DEF WriteEvent, EventTypes
  <2>2. /\ InSeq(feed[p]) = InSeq(feed'[p]) \cup {e}
        /\ Ascending(feed'[p]) /\ \A d \in InSeq(feed'[p]) : Before(e, d)
    BY <1>4, <2>1, SeqTail DEF PageInv, InLogOrder
  <2> HIDE DEF e
  <2>3. stream[p] \in {"live", "posting"} /\ replay[p] = <<>>
    BY <1>4 DEF WriteEvent, PageInv, PagePlaces
  <2>4. PagePlaces(p)'
    BY <1>1, <1>4, <2>1, <2>3 DEF PageInv, PagePlaces
  <2>5. InLogOrder(p)'
    BY <1>1, <1>4, <2>1, <2>2, <2>3, SeqEmpty DEF PageInv, InLogOrder
  <2>6. e \in Underway(p) /\ Underway(p)' \subseteq Underway(p) /\ Underway(p) \subseteq Underway(p)' \cup {e}
    BY <1>1, <1>4, <2>1, <2>2 DEF Underway
  <2>7. \A d \in Underway(p)' : Before(e, d)
    BY <1>1, <1>4, <2>1, <2>2, <2>3, SeqEmpty DEF Underway, PageInv, InLogOrder
  <2> QED
    BY <1>1, <1>4, <2>1, <2>4, <2>5, <2>6, <2>7, ShowPage DEF PageInv
<1> QED
  BY <1>2, <1>3, <1>4

\* emit hands over the event it holds: it is on its way as before.
LEMMA HandOverPage ==
  ASSUME EventTypes, RunInv, NEW p \in Pages, PageInv(p), HandOver
  PROVE  PageInv(p)'
<1>1. PICK e \in emitting :
        /\ emitting' = emitting \ {e}
        /\ feed' = [q \in Pages |-> IF q \in poster THEN Append(feed[q], e) ELSE feed[q]]
        /\ UNCHANGED <<driver, poster, accepted, deleting, hubVars, pageVars, stream, replay>>
  BY DEF HandOver
<1>2. UNCHANGED <<poster, entry, log, era, subscribed, cursor, origin, got, stream, replay>>
  BY <1>1 DEF hubVars, pageVars
<1>3. emitting = {e} /\ emitting' = {} /\ e \in Events /\ Held(p)' = {}
  BY <1>1 DEF RunInv, EventTypes, Held
<1>4. CASE p \notin poster
  <2>1. Same(p)
    BY <1>1, <1>2, <1>3, <1>4 DEF Same, Held
  <2> QED
    BY <1>2, <2>1, SamePage
<1>5. CASE p \in poster
  <2>1. /\ feed[p] \in Seq(Events) /\ feed'[p] = Append(feed[p], e)
        /\ replay[p] = <<>> /\ stream[p] = "posting" /\ Held(p) = {e}
    BY <1>1, <1>3, <1>5 DEF EventTypes, PageInv, PagePlaces, Held
  <2>2. InSeq(feed'[p]) = InSeq(feed[p]) \cup {e}
    BY <1>3, <2>1, SeqAppend
  <2>3. Ascending(feed'[p])
    BY <1>3, <2>1, SeqAppend DEF PageInv, InLogOrder
  <2>4. Underway(p)' = Underway(p)
    BY <1>2, <1>3, <2>1, <2>2 DEF Underway
  <2>5. PagePlaces(p)'
    BY <1>2, <2>1 DEF PageInv, PagePlaces
  <2>6. InLogOrder(p)'
    BY <1>2, <1>3, <2>1, <2>3, SeqEmpty DEF InLogOrder
  <2>7. \A i : (Reached(p, i)' <=> Reached(p, i)) /\ (Needed(i)' <=> Needed(i))
    BY <1>2, <2>4 DEF Reached, Needed
  <2>8. Recent(p)' /\ NoHole(p)' /\ Covered(p)' /\ NothingMissed(p)'
    BY <1>2, <2>4, <2>7 DEF PageInv, Recent, NoHole, Covered, NothingMissed, Fresh
  <2> QED
    BY <2>5, <2>6, <2>8 DEF PageInv
<1> QED
  BY <1>4, <1>5

---------------------------------------------------------------------------
(* The invariant is inductive *)

LEMMA EventInitInv == EventInit => EventInv
<1> SUFFICES ASSUME EventInit PROVE EventInv
  OBVIOUS
<1>1. log = <<>> /\ Len(log) = 0 /\ log \in Seq({"turn", "queued", "end"}) /\ <<>> \in Seq(Events)
  BY DEF EventInit
<1>2. EventTypes
  <2>1. replay \in [Pages -> Seq(Events)] /\ feed \in [Pages -> Seq(Events)]
    BY <1>1 DEF EventInit
  <2>2. deleting \in BOOLEAN
    BY DEF EventInit
  <2>3. /\ driver = "idle" /\ poster = {} /\ emitting = {} /\ accepted = 0 /\ entry = "none"
        /\ era = 0 /\ subscribed = {} /\ stream = [p \in Pages |-> "away"]
        /\ cursor = [p \in Pages |-> 0] /\ origin = [p \in Pages |-> 0] /\ got = [p \in Pages |-> {}]
    BY DEF EventInit
  <2> QED
    BY <1>1, <2>1, <2>2, <2>3, EventBounds DEF EventTypes
<1>3. RunInv
  BY <1>1, EventBounds DEF EventInit, RunInv
<1>4. ASSUME NEW p \in Pages PROVE PageInv(p)
  <2>1. /\ replay[p] = <<>> /\ feed[p] = <<>> /\ stream[p] = "away" /\ cursor[p] = 0 /\ origin[p] = 0
        /\ Held(p) = {} /\ p \notin subscribed /\ p \notin poster /\ era = 0
    BY DEF EventInit, Held
  <2>2. Underway(p) = {} /\ \A i : ~Needed(i)
    BY <1>1, <2>1, SeqEmpty DEF Underway, Needed
  <2>3. PagePlaces(p) /\ InLogOrder(p)
    BY <2>1, SeqEmpty DEF PagePlaces, InLogOrder
  <2>4. Recent(p)
    BY <1>1, <2>1, <2>2 DEF Recent
  <2>5. NoHole(p) /\ Covered(p) /\ NothingMissed(p)
    BY <2>2 DEF NoHole, Covered, NothingMissed
  <2> QED
    BY <2>3, <2>4, <2>5 DEF PageInv
<1> QED
  BY <1>2, <1>3, <1>4 DEF EventInv

LEMMA StepPage ==
  ASSUME EventTypes, RunInv, [EventNext]_eventVars, NEW q \in Pages, PageInv(q)
  PROVE  PageInv(q)'
<1>1. ASSUME UNCHANGED <<emitting, entry, log, era, subscribed, pageVars, streamVars>>,
             poster' = poster \/ (poster' = {} /\ emitting = {})
      PROVE  PageInv(q)'
  <2>1. Same(q)
    BY <1>1 DEF Same, Held, pageVars, streamVars
  <2> QED
    BY <1>1, <2>1, SamePage
<1>2. CASE UNCHANGED eventVars
  BY <1>1, <1>2 DEF eventVars, pageVars, streamVars
<1>3. CASE ResumeRun \/ EndSilently \/ AcceptQueued \/ CheckDelete \/ DeleteFails
  BY <1>1, <1>3 DEF ResumeRun, EndSilently, AcceptQueued, CheckDelete, DeleteFails, hubVars
<1>4. CASE EndRun
  BY <1>1, <1>4 DEF EndRun, EmitUnlock, hubVars
<1>5. CASE PublishTurn
  BY <1>5, PublishPage DEF PublishTurn, Publish, EmitUnlock
<1>6. CASE PublishTerminal
  BY <1>6, PublishPage DEF PublishTerminal, Publish, EmitUnlock
<1>7. CASE AnnounceQueued
  BY <1>7, PublishPage DEF AnnounceQueued
<1>8. CASE HandOver
  BY <1>8, HandOverPage
<1>9. CASE DeleteLog
  <2>1. /\ log' = <<>> /\ entry' = "none" /\ era' = era /\ subscribed' = {} /\ poster' = poster
        /\ UNCHANGED <<emitting, cursor, origin, stream, replay, feed, got>>
    BY <1>9 DEF DeleteLog, pageVars, streamVars
  <2>2. Same(q)
    BY <2>1 DEF Same, Held
  <2>3. Underway(q)' = Underway(q)
    BY <2>2, SamePending
  <2>4. Recent(q)'
    BY <2>1, <2>3 DEF PageInv, Recent
  <2> QED
    BY <2>1, <2>2, <2>4, SamePlace, EmptyLog DEF PageInv
<1>10. CASE RestartServer
  <2>1. /\ log' = <<>> /\ entry' = "none" /\ era' = era /\ subscribed' = {} /\ poster' = {}
        /\ emitting' = {} /\ UNCHANGED <<cursor, origin, got>>
        /\ stream'[q] = "away" /\ replay'[q] = <<>> /\ feed'[q] = <<>>
    BY <1>10 DEF RestartServer, pageVars
  <2>2. Held(q)' = {}
    BY <2>1 DEF Held
  <2>3. Underway(q)' = {} /\ PagePlaces(q)' /\ InLogOrder(q)'
    BY <2>1, <2>2, SeqEmpty DEF Underway, PagePlaces, InLogOrder
  <2>4. Recent(q)'
    BY <2>1, <2>3 DEF PageInv, Recent
  <2> QED
    BY <2>1, <2>3, <2>4, EmptyLog DEF PageInv
<1>11. ASSUME NEW p \in Pages, Send(p) PROVE PageInv(q)'
  <2>1. /\ stream[p] = "away" /\ poster = {} /\ emitting = {} /\ emitting' = {} /\ poster' = {p}
        /\ UNCHANGED <<entry, log, era, subscribed, replay, feed>>
    BY <1>11 DEF Send, Active, RunInv, hubVars
  <2>2. Held(q)' = {} /\ Held(q) = {}
    BY <2>1 DEF Held
  <2>3. CASE q # p
    <3>1. Same(q)
      BY <1>11, <2>1, <2>2, <2>3 DEF Send, Same, EventTypes
    <3> QED
      BY <2>1, <3>1, SamePage
  <2>4. CASE q = p
    <3>1. /\ stream'[q] = "posting" /\ cursor'[q] = 0 /\ origin'[q] = 0 /\ got'[q] = 1..Len(log)
          /\ replay[q] = <<>> /\ feed[q] = <<>> /\ q \notin subscribed
      BY <1>11, <2>1, <2>4 DEF Send, EventTypes, PageInv, PagePlaces
    <3>2. Underway(q)' = {} /\ PagePlaces(q)' /\ InLogOrder(q)'
      BY <2>1, <2>2, <3>1, SeqEmpty DEF Underway, PagePlaces, InLogOrder
    <3>3. Recent(q)'
      BY <2>1, <3>1, <3>2 DEF Recent, EventTypes
    <3>4. \A i : Needed(i)' => i \in got'[q]
      BY <2>1, <3>1 DEF Needed, EventTypes
    <3>5. NoHole(q)' /\ Covered(q)' /\ NothingMissed(q)'
      BY <3>2, <3>4 DEF NoHole, Covered, NothingMissed, Reached
    <3> QED
      BY <3>2, <3>3, <3>5 DEF PageInv
  <2> QED
    BY <2>3, <2>4
<1>12. ASSUME NEW p \in Pages, OpenConversation(p) PROVE PageInv(q)'
  <2>1. stream[p] = "away" /\ UNCHANGED <<emitting, poster, entry, log, era, subscribed, stream, replay, feed>>
    BY <1>12 DEF OpenConversation, runVars, hubVars, streamVars
  <2>2. Held(q)' = Held(q)
    BY <2>1 DEF Held
  <2>3. CASE q # p
    <3>1. Same(q)
      BY <1>12, <2>1, <2>2, <2>3 DEF OpenConversation, Same, EventTypes
    <3> QED
      BY <2>1, <3>1, SamePage
  <2>4. CASE q = p
    <3>1. /\ cursor'[q] = 0 /\ origin'[q] = 0 /\ replay[q] = <<>> /\ feed[q] = <<>>
          /\ q \notin subscribed /\ q \notin poster
      BY <1>12, <2>1, <2>4 DEF OpenConversation, EventTypes, PageInv, PagePlaces
    <3>2. Underway(q)' = {} /\ PagePlaces(q)' /\ InLogOrder(q)'
      BY <2>1, <2>4, <3>1, SeqEmpty DEF Underway, PagePlaces, InLogOrder, Held
    <3>3. Recent(q)'
      BY <2>1, <3>1, <3>2 DEF Recent, EventTypes
    <3>4. NoHole(q)' /\ Covered(q)' /\ NothingMissed(q)'
      BY <2>1, <3>1, <3>2 DEF NoHole, Covered, NothingMissed
    <3> QED
      BY <3>2, <3>3, <3>4 DEF PageInv
  <2> QED
    BY <2>3, <2>4
<1>13. ASSUME NEW p \in Pages, AskState(p) \/ GoLive(p) PROVE PageInv(q)'
  <2>1. UNCHANGED <<emitting, poster, entry, log, era, subscribed, cursor, origin, got, replay, feed>>
    BY <1>13 DEF AskState, GoLive, runVars, hubVars, pageVars
  <2>2. Held(q)' = Held(q) /\ Underway(q)' = Underway(q)
    BY <2>1 DEF Held, Underway
  <2>3. \A i : (Reached(q, i)' <=> Reached(q, i)) /\ (Needed(i)' <=> Needed(i))
    BY <2>1, <2>2 DEF Reached, Needed
  <2>4. InLogOrder(q)' /\ Recent(q)' /\ NoHole(q)' /\ Covered(q)' /\ NothingMissed(q)'
    BY <2>1, <2>2, <2>3 DEF PageInv, InLogOrder, Recent, NoHole, Covered, NothingMissed, Fresh
  <2>5. PagePlaces(q)'
    BY <1>13, <2>1 DEF AskState, GoLive, PageInv, PagePlaces, EventTypes
  <2> QED
    BY <2>4, <2>5 DEF PageInv
<1>14. ASSUME NEW p \in Pages, Subscribe(p) PROVE PageInv(q)'
  BY <1>14, SubscribePage, SubscribeOther
<1>15. ASSUME NEW p \in Pages, WriteReplay(p) \/ WriteEvent(p) PROVE PageInv(q)'
  BY <1>15, WritePage
<1>16. ASSUME NEW p \in Pages, Leave(p) PROVE PageInv(q)'
  BY <1>16, LeavePage
<1> QED
  BY <1>2, <1>3, <1>4, <1>5, <1>6, <1>7, <1>8, <1>9, <1>10, <1>11, <1>12, <1>13, <1>14, <1>15, <1>16
  DEF EventNext, Serve, EndReplay, EndStream, Disconnect

LEMMA EventStepInv == EventInv /\ [EventNext]_eventVars => EventInv'
BY EventTypeStep, StepPage DEF EventInv

---------------------------------------------------------------------------
(* The theorems about the event hub *)

\* The story of every page and what is on its way to it.
THEOREM EventsInvariant == EventSpec => []EventInv
BY EventInitInv, EventStepInv, PTL DEF EventSpec

\* Every variable keeps its type.
THEOREM EventTypesHold == EventSpec => []EventTypes
<1>1. EventInv => EventTypes
  BY DEF EventInv
<1> QED
  BY <1>1, EventsInvariant, PTL

\* No page skips an event of the log it follows, for any number of pages, lost
\* connections, slow readers, deletions and restarts.
THEOREM FollowersSkipNothing == EventSpec => []NothingIsSkipped
<1>1. EventInv => NothingIsSkipped
  BY DEF EventInv, PageInv, NothingMissed, Needed, NothingIsSkipped
<1> QED
  BY <1>1, EventsInvariant, PTL

---------------------------------------------------------------------------
(* The application WebSocket: types *)

\* The values that stand for "nothing" are of their types.
LEMMA StreamConstants ==
  /\ Blank \in Contents /\ IdleWork \in WorkRecords /\ NoPage \in PageRecords /\ NoSocket \in SocketRecords
  /\ Resync \notin Changes
BY StreamAssumption DEF StreamAssumption, Blank, IdleWork, NoPage, NoSocket, Contents, Changes, WorkRecords, WorkPlaces,
     PageRecords, SocketRecords, Resync, NotKnown

\* What is assumed of the numbers.
LEMMA StreamNumbers ==
  /\ Room \in Nat /\ Room > 0 /\ Window \in Nat /\ Window > 0
  /\ MaxStamp \in Nat /\ MaxVisits \in Nat /\ MaxErrors \in Nat
  /\ \A i \in Items : i \in Nat /\ i > 0
BY StreamAssumption DEF StreamAssumption

\* What a snapshot holds is a content.
LEMMA ShownContents == ASSUME NEW content \in Contents PROVE Shown(content) \in Contents
BY StreamAssumption DEF Shown, Contents, StreamAssumption

\* The conversations that are sent for an event.
LEMMA WindowContents ==
  ASSUME NEW known \in Contents, NEW i \in Items, current \in Contents
  PROVE  SessionWindow(known, i) \in Contents
<1>1. [known EXCEPT ![i] = current[i]] \in Contents
  BY DEF Contents
<1> QED BY <1>1, ShownContents DEF SessionWindow

\* A page that shows a snapshot.
LEMMA ShowsAllPage ==
  ASSUME NEW pg \in PageRecords, NEW content \in Contents
  PROVE  /\ ShowsAll(pg, content) \in PageRecords
         /\ ShowsAll(pg, content) = [pg EXCEPT !.view = ShowsAll(pg, content).view, !.fresh = pg.listening, !.wrong = FALSE]
         /\ \A l \in Listeners : ShowsAll(pg, content).view[l] = IF l \in pg.listening THEN content ELSE pg.view[l]
BY DEF PageRecords, ShowsAll

\* A page that shows a change.
LEMMA MergesPage ==
  ASSUME NEW pg \in PageRecords, NEW D \in SUBSET Items, NEW change \in [D -> 0..MaxStamp]
  PROVE  /\ Merges(pg, change) \in PageRecords
         /\ Merges(pg, change) = [pg EXCEPT !.view = Merges(pg, change).view]
         /\ \A l \in Listeners, i \in Items :
              Merges(pg, change).view[l][i] =
                IF l \in pg.listening /\ i \in D /\ Supersedes(change[i], pg.view[l][i]) THEN change[i] ELSE pg.view[l][i]
<1> DEFINE merged(l) == [i \in Items |-> IF l \in pg.listening /\ i \in DOMAIN change /\ Supersedes(change[i], pg.view[l][i])
                                         THEN change[i] ELSE pg.view[l][i]]
<1>1. \A l \in Listeners : pg.view[l] \in Contents
  BY DEF PageRecords
<1>2. \A l \in Listeners : merged(l) \in Contents
  BY <1>1 DEF Contents
<1>3. Merges(pg, change) = [pg EXCEPT !.view = [l \in Listeners |-> merged(l)]]
  BY DEF Merges, PageRecords
<1>4. [l \in Listeners |-> merged(l)] \in [Listeners -> Contents]
  BY <1>2
<1>5. Merges(pg, change) \in PageRecords /\ Merges(pg, change).view = [l \in Listeners |-> merged(l)]
  <2> DEFINE new == [l \in Listeners |-> merged(l)]
  <2> HIDE DEF new
  <2> QED BY <1>3, <1>4 DEF PageRecords
<1>6. Merges(pg, change) = [pg EXCEPT !.view = Merges(pg, change).view]
  BY <1>3, <1>5
<1>7. ASSUME NEW l \in Listeners, NEW i \in Items
      PROVE  Merges(pg, change).view[l][i] =
                IF l \in pg.listening /\ i \in D /\ Supersedes(change[i], pg.view[l][i]) THEN change[i] ELSE pg.view[l][i]
  BY <1>5
<1> QED BY <1>5, <1>6, <1>7

\* The difference of two contents is a change.
LEMMA DeltaChange ==
  ASSUME NEW old \in Contents, NEW new \in Contents
  PROVE  /\ {j \in Items : old[j] # new[j]} \in SUBSET Items
         /\ Delta(old, new) \in [{j \in Items : old[j] # new[j]} -> 0..MaxStamp]
BY DEF Delta, Contents

\* A new subscriber.
LEMMA SubscriberRecord ==
  ASSUME NEW s \in SocketRecords
  PROVE  /\ NewSubscriber(s) \in SocketRecords /\ NewSubscriber(s).channel = <<>>
         /\ [NewSubscriber(s) EXCEPT !.serves = TRUE] \in SocketRecords
         /\ [NewSubscriber(s) EXCEPT !.serves = TRUE, !.step = "snapshot"] \in SocketRecords
         /\ [NewSubscriber(s) EXCEPT !.serves = FALSE, !.known = NotKnown] \in SocketRecords
<1>1. NewSubscriber(s) \in SocketRecords /\ NewSubscriber(s).channel = <<>>
  <2> DEFINE empty == <<>>
             next == s.subscriber + 1
  <2>1. empty \in Seq(Changes \cup {Resync}) /\ next \in Nat
    BY DEF SocketRecords
  <2>2. NewSubscriber(s) = [s EXCEPT !.subscriber = next, !.channel = empty, !.closed = FALSE, !.flagged = FALSE, !.signal = FALSE]
    BY DEF NewSubscriber
  <2> HIDE DEF empty, next
  <2>3. NewSubscriber(s) \in SocketRecords /\ NewSubscriber(s).channel = empty
    BY <2>1, <2>2 DEF SocketRecords
  <2> QED BY <2>3 DEF empty
<1>2. ASSUME NEW n \in SocketRecords
      PROVE  /\ [n EXCEPT !.serves = TRUE] \in SocketRecords
             /\ [n EXCEPT !.serves = TRUE, !.step = "snapshot"] \in SocketRecords
             /\ [n EXCEPT !.serves = FALSE, !.known = NotKnown] \in SocketRecords
  BY DEF SocketRecords
<1> QED BY <1>1, <1>2

\* A snapshot, or an error, keeps the types.
LEMMA SentTypes ==
  ASSUME AppTypes, NEW s \in SocketRecords, NEW pg \in PageRecords, SendSnapshot(s, pg)
  PROVE  /\ socket' \in SocketRecords /\ socket'.channel = s.channel /\ page' \in PageRecords
         /\ troubles' \in [errors : 0..MaxErrors, unsignalled : BOOLEAN]
<1>1. Shown(current) \in Contents
  BY ShownContents DEF AppTypes
<1>2. [s EXCEPT !.known = Shown(current)] \in SocketRecords
  BY <1>1 DEF SocketRecords
<1>3. ShowsAll(pg, Shown(current)) \in PageRecords
  BY <1>1, ShowsAllPage
<1>4. ShowsError(pg) \in PageRecords
  BY DEF ShowsError, PageRecords
<1>5. troubles.errors < MaxErrors => [troubles EXCEPT !.errors = @ + 1] \in [errors : 0..MaxErrors, unsignalled : BOOLEAN]
  BY StreamAssumption DEF AppTypes, StreamAssumption
<1>6. [s EXCEPT !.known = Shown(current)].channel = s.channel
  BY DEF SocketRecords
<1> QED BY <1>1, <1>2, <1>3, <1>4, <1>5, <1>6 DEF SendSnapshot, AppTypes

\* So does a registration with a snapshot.
LEMMA OpenedTypes ==
  ASSUME AppTypes, NEW pg \in PageRecords, OpenPush(pg)
  PROVE  socket' \in SocketRecords /\ socket'.channel = <<>> /\ page' \in PageRecords /\ troubles' = troubles
<1>1. socket' \in SocketRecords
  BY SubscriberRecord DEF OpenPush, AppTypes
<1>2. socket'.channel = <<>>
  BY SubscriberRecord DEF OpenPush, AppTypes, SocketRecords, NewSubscriber
<1>3. page' \in PageRecords
  BY ShowsAllPage DEF OpenPush, AppTypes
<1> QED BY <1>1, <1>2, <1>3 DEF OpenPush

\* What a publisher appends.
LEMMA AppendRecord ==
  ASSUME NEW s \in SocketRecords, NEW e \in Changes \cup {Resync}
  PROVE  /\ [s EXCEPT !.channel = Append(@, e)] \in SocketRecords
         /\ Len([s EXCEPT !.channel = Append(@, e)].channel) = Len(s.channel) + 1
<1>1. s.channel \in Seq(Changes \cup {Resync})
  BY DEF SocketRecords
<1> DEFINE more == Append(s.channel, e)
<1>2. more \in Seq(Changes \cup {Resync}) /\ Len(more) = Len(s.channel) + 1
  BY <1>1
<1>3. [s EXCEPT !.channel = Append(@, e)] = [s EXCEPT !.channel = more]
  OBVIOUS
<1> HIDE DEF more
<1>4. [s EXCEPT !.channel = more] \in SocketRecords /\ [s EXCEPT !.channel = more].channel = more
  BY <1>2 DEF SocketRecords
<1> QED BY <1>2, <1>3, <1>4

\* What is taken from the head.
LEMMA TailRecord ==
  ASSUME NEW s \in SocketRecords, s.channel # <<>>
  PROVE  /\ [s EXCEPT !.channel = Tail(@)] \in SocketRecords
         /\ Len([s EXCEPT !.channel = Tail(@)].channel) = Len(s.channel) - 1
         /\ Head(s.channel) \in Changes \cup {Resync}
BY DEF SocketRecords

\* A difference that is sent for an event.
LEMMA DifferenceTypes ==
  ASSUME AppTypes, NEW s \in SocketRecords, NEW event \in Changes, SendDifference(s, event)
  PROVE  /\ socket' \in SocketRecords /\ socket'.channel = s.channel /\ page' \in PageRecords
         /\ troubles' \in [errors : 0..MaxErrors, unsignalled : BOOLEAN]
<1> DEFINE now == IF topic = "sessions" THEN SessionWindow(s.known, event.item) ELSE current
<1>1. ShowsError(page) \in PageRecords
  BY DEF ShowsError, PageRecords, AppTypes
<1>2. troubles.errors < MaxErrors => [troubles EXCEPT !.errors = @ + 1] \in [errors : 0..MaxErrors, unsignalled : BOOLEAN]
  BY StreamAssumption DEF AppTypes, StreamAssumption
<1>3. CASE s.known = NotKnown
  BY <1>1, <1>3 DEF SendDifference, AppTypes
<1>4. CASE s.known # NotKnown
  <2>1. s.known \in Contents
    BY <1>4 DEF SocketRecords
  <2>2. now \in Contents
    BY <2>1, WindowContents DEF AppTypes, Changes
  <2> HIDE DEF now
  <2>3. [s EXCEPT !.known = now] \in SocketRecords /\ [s EXCEPT !.known = now].channel = s.channel
    BY <2>2 DEF SocketRecords
  <2>4. Merges(page, Delta(s.known, now)) \in PageRecords
    BY <2>1, <2>2, DeltaChange, MergesPage DEF AppTypes
  <2>5. \/ socket' = [s EXCEPT !.known = now] /\ page' = Merges(page, Delta(s.known, now)) /\ UNCHANGED troubles
        \/ troubles.errors < MaxErrors /\ socket' = s /\ page' = ShowsError(page) /\ troubles' = [troubles EXCEPT !.errors = @ + 1]
    BY <1>4 DEF SendDifference, now
  <2> QED BY <1>1, <1>2, <2>3, <2>4, <2>5 DEF AppTypes
<1> QED BY <1>3, <1>4

\* The state keeps its types.
LEMMA AppTypeStep == AppTypes /\ [AppNext]_appVars => AppTypes'
<1> SUFFICES ASSUME AppTypes, [AppNext]_appVars PROVE AppTypes'
  OBVIOUS
<1> DEFINE Troubles == [errors : 0..MaxErrors, unsignalled : BOOLEAN]
           StreamKept == UNCHANGED <<topic, current, clock, work, sample>>
<1>1. ASSUME StreamKept, socket' \in SocketRecords, Len(socket'.channel) <= Room, page' \in PageRecords, troubles' \in Troubles
      PROVE  AppTypes'
  BY <1>1 DEF AppTypes, Contents
<1>2. CASE UNCHANGED appVars
  BY <1>2 DEF AppTypes, appVars, Contents
<1>3. ASSUME NEW p \in Publishers, NEW i \in Items, NEW stamp \in 0..MaxStamp, ChangeItem(p, i, stamp)
      PROVE  AppTypes'
  <2>1. current' \in Contents /\ clock' \in 0..MaxStamp
    BY <1>3, StreamAssumption DEF ChangeItem, AppTypes, Contents, StreamAssumption
  <2>2. work' \in [Publishers -> WorkRecords]
    <3>1. [at |-> "changed", item |-> i, stamp |-> stamp, to |-> 0] \in WorkRecords
      BY DEF WorkRecords, WorkPlaces
    <3> QED BY <1>3, <3>1 DEF ChangeItem, AppTypes
  <2>3. socket' \in SocketRecords /\ Len(socket'.channel) <= Room
    <3> DEFINE event == [item |-> i, stamp |-> stamp]
    <3>1. event \in Changes \cup {Resync}
      BY DEF Changes
    <3>2. Flagged(socket, event) \in SocketRecords /\ Len(Flagged(socket, event).channel) <= Room
      <4>0. socket \in SocketRecords /\ Len(socket.channel) <= Room
        BY DEF AppTypes
      <4>1. CASE Len(socket.channel) < Room
        <5>1. Flagged(socket, event) \in {socket, [socket EXCEPT !.channel = Append(@, event)]}
          BY <4>1 DEF Flagged
        <5>2. Len(socket.channel) \in Nat
          BY <4>0 DEF SocketRecords
        <5> HIDE DEF event
        <5>3. Len(socket.channel) + 1 <= Room
          BY <4>1, <5>2, StreamNumbers
        <5>4. CASE Flagged(socket, event) = [socket EXCEPT !.channel = Append(@, event)]
          BY <3>1, <4>0, <5>3, <5>4, AppendRecord
        <5> QED BY <4>0, <5>1, <5>4
      <4>2. CASE ~(Len(socket.channel) < Room)
        <5>1. Flagged(socket, event) \in {socket, [socket EXCEPT !.flagged = TRUE, !.signal = TRUE]}
          BY <4>2 DEF Flagged
        <5>2. [socket EXCEPT !.flagged = TRUE, !.signal = TRUE] \in SocketRecords
              /\ [socket EXCEPT !.flagged = TRUE, !.signal = TRUE].channel = socket.channel
          BY <4>0 DEF SocketRecords
        <5> QED BY <4>0, <5>1, <5>2
      <4> QED BY <4>1, <4>2
    <3>3. socket' \in {socket, Flagged(socket, event)}
      BY <1>3 DEF ChangeItem
    <3> HIDE DEF event
    <3> QED BY <3>2, <3>3 DEF AppTypes
  <2> QED BY <1>3, <2>1, <2>2, <2>3 DEF ChangeItem, AppTypes, Contents
<1>4. ASSUME NEW p \in Publishers, Publishing(p)
      PROVE  AppTypes'
  <2>0. Event(work[p]) \in Changes \cup {Resync} /\ Len(socket.channel) \in Nat /\ socket \in SocketRecords
    BY DEF AppTypes, WorkRecords, Event, Changes, SocketRecords
  <2>1. work' \in [Publishers -> WorkRecords]
    <3>1. \A to \in WorkPlaces : [work EXCEPT ![p].at = to] \in [Publishers -> WorkRecords]
      BY DEF AppTypes, WorkRecords
    <3>2. [work EXCEPT ![p] = [@ EXCEPT !.at = "sending", !.to = socket.subscriber]] \in [Publishers -> WorkRecords]
      BY DEF AppTypes, WorkRecords, WorkPlaces, SocketRecords
    <3>3. [work EXCEPT ![p] = IdleWork] \in [Publishers -> WorkRecords]
      BY StreamConstants DEF AppTypes
    <3>4. {"idle", "full"} \subseteq WorkPlaces
      BY DEF WorkPlaces
    <3>5. CASE FindSubscriber(p)
      BY <3>5, <3>2, <3>3 DEF FindSubscriber
    <3>6. CASE ~FindSubscriber(p)
      <4>1. \E to \in {"idle", "full"} : work' = [work EXCEPT ![p].at = to]
        BY <1>4, <3>6 DEF Publishing, SendState, SendTask, AskResync, SendActivity, Advances
      <4> QED BY <3>1, <3>4, <4>1
    <3> QED BY <3>5, <3>6
  <2>2. socket' \in SocketRecords /\ Len(socket'.channel) <= Room
    <3>1. \/ socket' = socket
          \/ HasRoom /\ socket' = [socket EXCEPT !.channel = Append(@, Event(work[p]))]
          \/ HasRoom /\ socket' = [socket EXCEPT !.channel = Append(@, Resync)]
          \/ ~HasRoom /\ socket' = [socket EXCEPT !.channel = Tail(@)]
          \/ socket' = [socket EXCEPT !.signal = TRUE]
          \/ socket' = [socket EXCEPT !.closed = TRUE]
      BY <1>4 DEF Publishing, FindSubscriber, SendState, SendTask, AskResync, SendActivity
    <3>2. [socket EXCEPT !.signal = TRUE] \in SocketRecords /\ [socket EXCEPT !.signal = TRUE].channel = socket.channel
          /\ [socket EXCEPT !.closed = TRUE] \in SocketRecords /\ [socket EXCEPT !.closed = TRUE].channel = socket.channel
      BY <2>0 DEF SocketRecords
    <3>3. HasRoom => Len(socket.channel) + 1 <= Room
      BY <2>0, StreamNumbers DEF HasRoom
    <3>4. Len(socket.channel) <= Room
      BY DEF AppTypes
    <3>5. ~HasRoom => socket.channel # <<>>
      BY <2>0, StreamNumbers DEF HasRoom
    <3>6. Len(socket.channel) - 1 <= Room
      BY <2>0, <3>4, StreamNumbers
    <3>7. CASE HasRoom /\ socket' = [socket EXCEPT !.channel = Append(@, Event(work[p]))]
      BY <3>7, <2>0, <3>3, AppendRecord
    <3>8. CASE HasRoom /\ socket' = [socket EXCEPT !.channel = Append(@, Resync)]
      BY <3>8, <2>0, <3>3, AppendRecord
    <3>9. CASE ~HasRoom /\ socket' = [socket EXCEPT !.channel = Tail(@)]
      BY <3>9, <2>0, <3>5, <3>6, TailRecord
    <3> QED BY <2>0, <3>1, <3>2, <3>4, <3>7, <3>8, <3>9
  <2>3. troubles' \in Troubles
    <3>1. \A b \in BOOLEAN : [troubles EXCEPT !.unsignalled = b] \in Troubles
      BY DEF AppTypes
    <3>2. troubles' = troubles \/ troubles' = [troubles EXCEPT !.unsignalled = @ \/ (Reaches(p) /\ ~HasRoom)]
      BY <1>4 DEF Publishing, FindSubscriber, SendState, SendTask, AskResync, SendActivity
    <3>3. troubles \in Troubles
      BY DEF AppTypes
    <3>4. (troubles.unsignalled \/ (Reaches(p) /\ ~HasRoom)) \in BOOLEAN
      OBVIOUS
    <3> QED BY <3>1, <3>2, <3>3, <3>4
  <2>4. UNCHANGED <<topic, current, clock, page, sample>>
    BY <1>4 DEF Publishing, FindSubscriber, SendState, SendTask, AskResync, SendActivity
  <2> QED BY <2>1, <2>2, <2>3, <2>4 DEF AppTypes, Contents
<1>5. CASE TakeSubscription
  <2> DEFINE asked == [page EXCEPT !.asks = {}]
  <2>0. asked \in PageRecords /\ socket \in SocketRecords /\ page \in PageRecords
    BY DEF AppTypes, PageRecords
  <2>1. \/ socket' = socket /\ page' = asked /\ UNCHANGED troubles
        \/ /\ socket' = [NewSubscriber(socket) EXCEPT !.serves = FALSE, !.known = NotKnown]
           /\ page' = asked /\ UNCHANGED troubles
        \/ /\ socket' = [socket EXCEPT !.serves = FALSE, !.known = NotKnown]
           /\ page' = asked /\ UNCHANGED troubles
        \/ /\ socket' = [NewSubscriber(socket) EXCEPT !.serves = TRUE, !.step = "snapshot"]
           /\ page' = asked /\ UNCHANGED troubles
        \/ OpenPush(asked)
        \/ SendSnapshot([socket EXCEPT !.serves = TRUE], asked)
    BY <1>5 DEF TakeSubscription
  <2>2. /\ [socket EXCEPT !.serves = FALSE, !.known = NotKnown] \in SocketRecords
        /\ [socket EXCEPT !.serves = FALSE, !.known = NotKnown].channel = socket.channel
        /\ [socket EXCEPT !.serves = TRUE] \in SocketRecords /\ [socket EXCEPT !.serves = TRUE].channel = socket.channel
    BY <2>0 DEF SocketRecords
  <2>3. /\ [NewSubscriber(socket) EXCEPT !.serves = FALSE, !.known = NotKnown] \in SocketRecords
        /\ [NewSubscriber(socket) EXCEPT !.serves = FALSE, !.known = NotKnown].channel = <<>>
        /\ [NewSubscriber(socket) EXCEPT !.serves = TRUE, !.step = "snapshot"] \in SocketRecords
        /\ [NewSubscriber(socket) EXCEPT !.serves = TRUE, !.step = "snapshot"].channel = <<>>
    <3>1. ASSUME NEW n \in SocketRecords, n.channel = <<>>
          PROVE  [n EXCEPT !.serves = FALSE, !.known = NotKnown].channel = <<>> /\ [n EXCEPT !.serves = TRUE, !.step = "snapshot"].channel = <<>>
      BY <3>1 DEF SocketRecords
    <3> QED BY <2>0, <3>1, SubscriberRecord
  <2>4. socket' \in SocketRecords /\ (socket'.channel = socket.channel \/ socket'.channel = <<>>) /\ page' \in PageRecords
        /\ troubles' \in Troubles
    <3> HIDE DEF asked
    <3>1. CASE OpenPush(asked)
      BY <3>1, <2>0, OpenedTypes DEF AppTypes
    <3>2. CASE SendSnapshot([socket EXCEPT !.serves = TRUE], asked)
      BY <3>2, <2>0, <2>2, SentTypes
    <3> QED BY <2>0, <2>1, <2>2, <2>3, <3>1, <3>2 DEF AppTypes
  <2>5. Len(socket'.channel) <= Room
    BY <2>4, StreamAssumption DEF AppTypes, StreamAssumption
  <2>6. StreamKept
    BY <1>5 DEF TakeSubscription
  <2> QED BY <1>1, <2>4, <2>5, <2>6
<1>6. CASE SendActivitySnapshot
  <2>1. [socket EXCEPT !.step = "select"] \in SocketRecords /\ [socket EXCEPT !.step = "select"].channel = socket.channel
    BY DEF AppTypes, SocketRecords
  <2> QED BY <1>1, <1>6, <2>1, SentTypes DEF SendActivitySnapshot, AppTypes
<1>7. CASE TakeEvent
  <2> DEFINE event == Head(socket.channel)
             rest == [socket EXCEPT !.channel = Tail(@)]
  <2>0. socket \in SocketRecords /\ socket.channel # <<>> /\ page \in PageRecords /\ Len(socket.channel) \in Nat
    BY <1>7 DEF TakeEvent, AppTypes, SocketRecords
  <2>1. rest \in SocketRecords /\ Len(rest.channel) <= Room /\ event \in Changes \cup {Resync}
    BY <2>0, TailRecord, StreamNumbers DEF AppTypes
  <2>2. \/ OpenPush(page)
        \/ socket' = rest /\ UNCHANGED <<page, troubles>>
        \/ event # Resync /\ SendDifference(rest, event)
        \/ SendSnapshot(rest, page)
        \/ event # Resync /\ socket' = rest /\ page' = Merges(page, [i \in {event.item} |-> event.stamp]) /\ UNCHANGED troubles
    BY <1>7 DEF TakeEvent
  <2>3. event # Resync => /\ event.item \in Items /\ event.stamp \in 0..MaxStamp
                          /\ {event.item} \in SUBSET Items
                          /\ [i \in {event.item} |-> event.stamp] \in [{event.item} -> 0..MaxStamp]
    BY <2>1 DEF Changes
  <2>4. StreamKept
    BY <1>7 DEF TakeEvent
  <2> HIDE DEF event, rest
  <2>5. CASE OpenPush(page)
    <3>1. socket' \in SocketRecords /\ Len(socket'.channel) <= Room /\ page' \in PageRecords /\ troubles' \in Troubles
      BY <2>5, <2>0, OpenedTypes, StreamAssumption DEF StreamAssumption, AppTypes
    <3> QED BY <1>1, <2>4, <3>1
  <2>6. CASE event # Resync /\ SendDifference(rest, event)
    BY <1>1, <2>1, <2>4, <2>6, DifferenceTypes
  <2>7. CASE SendSnapshot(rest, page)
    BY <1>1, <2>0, <2>1, <2>4, <2>7, SentTypes
  <2>8. CASE event # Resync /\ socket' = rest /\ page' = Merges(page, [i \in {event.item} |-> event.stamp]) /\ UNCHANGED troubles
    <3>1. Merges(page, [i \in {event.item} |-> event.stamp]) \in PageRecords
      BY <2>0, <2>3, <2>8, MergesPage
    <3> QED BY <1>1, <2>1, <2>4, <2>8, <3>1 DEF AppTypes
  <2>9. CASE socket' = rest /\ UNCHANGED <<page, troubles>>
    BY <1>1, <2>1, <2>4, <2>9, <2>0 DEF AppTypes
  <2> QED BY <2>2, <2>5, <2>6, <2>7, <2>8, <2>9
<1>8. CASE TakeSignal
  <2> DEFINE drained == [socket EXCEPT !.signal = FALSE, !.channel = <<>>]
  <2>0. socket \in SocketRecords /\ page \in PageRecords
    BY DEF AppTypes
  <2>1. drained \in SocketRecords /\ Len(drained.channel) <= Room
    <3> DEFINE empty == <<>>
    <3>1. empty \in Seq(Changes \cup {Resync}) /\ Len(empty) <= Room
      BY StreamAssumption DEF StreamAssumption
    <3>2. drained = [socket EXCEPT !.signal = FALSE, !.channel = empty]
      OBVIOUS
    <3> HIDE DEF empty, drained
    <3>3. drained \in SocketRecords /\ drained.channel = empty
      BY <2>0, <3>1, <3>2 DEF SocketRecords
    <3> QED BY <3>1, <3>3
  <2>2. \/ OpenPush(page)
        \/ SendSnapshot(drained, page)
        \/ socket' = drained /\ UNCHANGED <<page, troubles>>
    BY <1>8 DEF TakeSignal
  <2>3. StreamKept
    BY <1>8 DEF TakeSignal
  <2> HIDE DEF drained
  <2>4. CASE OpenPush(page)
    <3>1. socket' \in SocketRecords /\ Len(socket'.channel) <= Room /\ page' \in PageRecords /\ troubles' \in Troubles
      BY <2>4, <2>0, OpenedTypes, StreamAssumption DEF StreamAssumption, AppTypes
    <3> QED BY <1>1, <2>3, <3>1
  <2>5. CASE SendSnapshot(drained, page)
    BY <1>1, <2>0, <2>1, <2>3, <2>5, SentTypes
  <2>6. CASE socket' = drained /\ UNCHANGED <<page, troubles>>
    BY <1>1, <2>1, <2>3, <2>6, <2>0 DEF AppTypes
  <2> QED BY <2>2, <2>4, <2>5, <2>6
<1>9. CASE SampleNow
  <2> DEFINE payload == IF sample = NotKnown THEN current ELSE sample
  <2>1. payload \in Contents
    BY DEF AppTypes
  <2>2. socket' = [socket EXCEPT !.known = payload] /\ page' = ShowsAll(page, payload) /\ sample' = payload
        /\ UNCHANGED <<topic, current, clock, work, troubles>>
    BY <1>9 DEF SampleNow
  <2> HIDE DEF payload
  <2>3. [socket EXCEPT !.known = payload] \in SocketRecords /\ [socket EXCEPT !.known = payload].channel = socket.channel
    BY <2>1 DEF AppTypes, SocketRecords
  <2>4. ShowsAll(page, payload) \in PageRecords
    BY <2>1, ShowsAllPage DEF AppTypes
  <2> QED BY <2>1, <2>2, <2>3, <2>4 DEF AppTypes, Contents
<1>10. CASE SampleForAnother \/ SampleExpires
  BY <1>10 DEF AppTypes, SampleForAnother, SampleExpires, Contents
<1>11. CASE LoseSocket
  <2>1. [NoSocket EXCEPT !.id = socket.id, !.subscriber = socket.subscriber] \in SocketRecords
        /\ [NoSocket EXCEPT !.id = socket.id, !.subscriber = socket.subscriber].channel = NoSocket.channel
    BY StreamConstants DEF AppTypes, SocketRecords
  <2>2. Len(NoSocket.channel) <= Room
    BY StreamAssumption DEF NoSocket, StreamAssumption
  <2>3. [page EXCEPT !.asks = {}, !.opened = page.listening, !.fresh = {}] \in PageRecords
    BY DEF AppTypes, PageRecords
  <2> QED BY <1>1, <1>11, <2>1, <2>2, <2>3 DEF LoseSocket, AppTypes
<1>12. CASE Connect
  <2> DEFINE up == [socket EXCEPT !.up = TRUE, !.id = @ + 1]
  <2>1. up \in SocketRecords
    <3> DEFINE next == socket.id + 1
    <3>1. next \in Nat
      BY DEF AppTypes, SocketRecords
    <3>2. up = [socket EXCEPT !.up = TRUE, !.id = next]
      OBVIOUS
    <3> HIDE DEF next, up
    <3> QED BY <3>1, <3>2 DEF AppTypes, SocketRecords
  <2>2. [page EXCEPT !.asks = {TRUE}] \in PageRecords
    BY DEF AppTypes, PageRecords
  <2>3. socket' = NewSubscriber(up) /\ page' = [page EXCEPT !.asks = {TRUE}] /\ StreamKept /\ UNCHANGED troubles
    BY <1>12 DEF Connect
  <2> HIDE DEF up
  <2>4. socket' \in SocketRecords /\ Len(socket'.channel) <= Room
    <3>1. NewSubscriber(up) \in SocketRecords /\ NewSubscriber(up).channel = <<>>
      BY <2>1, SubscriberRecord
    <3>2. Len(<<>>) = 0
      OBVIOUS
    <3> QED BY <2>3, <3>1, <3>2, StreamNumbers
  <2> QED BY <1>1, <2>2, <2>3, <2>4 DEF AppTypes
<1>13. ASSUME NEW l \in Listeners, Prepare(l) \/ StartListening(l) \/ StopListening(l)
       PROVE  AppTypes'
  <2>1. StreamKept /\ UNCHANGED <<socket, troubles>>
    BY <1>13 DEF Prepare, StartListening, StopListening
  <2>2. ASSUME NEW pg \in PageRecords PROVE Asks(pg) \in PageRecords
    BY DEF Asks, Newest, PageRecords
  <2>3. Shown(current) \in Contents /\ Blank \in Contents
    BY ShownContents, StreamConstants DEF AppTypes
  <2>4. CASE Prepare(l)
    <3> DEFINE shown == IF l \in Readers THEN Shown(current) ELSE Blank
    <3>1. shown \in Contents
      BY <2>3
    <3>2. page' = [page EXCEPT !.view[l] = shown, !.prepared = @ \cup {l}, !.visits = @ + 1] /\ page.visits < MaxVisits
      BY <2>4 DEF Prepare
    <3> HIDE DEF shown
    <3> DEFINE more == page.prepared \cup {l}
               next == page.visits + 1
    <3>4. more \in SUBSET Listeners /\ next \in 0..MaxVisits
      BY <3>2, StreamNumbers DEF AppTypes, PageRecords
    <3>5. page' = [page EXCEPT !.view[l] = shown, !.prepared = more, !.visits = next]
      BY <3>2
    <3> HIDE DEF more, next
    <3>3. page' \in PageRecords
      BY <3>1, <3>4, <3>5 DEF AppTypes, PageRecords
    <3> QED BY <1>1, <2>1, <3>3 DEF AppTypes
  <2>5. CASE StartListening(l)
    <3>1. [page EXCEPT !.prepared = @ \ {l}, !.listening = @ \cup {l}, !.opened = IF socket.serves THEN @ ELSE @ \cup {l}] \in PageRecords
      BY DEF AppTypes, PageRecords
    <3> QED BY <1>1, <2>1, <2>2, <2>5, <3>1 DEF StartListening, AppTypes
  <2>6. CASE StopListening(l)
    <3>1. [page EXCEPT !.listening = @ \ {l}, !.fresh = @ \ {l}, !.opened = @ \ {l}, !.view[l] = Blank] \in PageRecords
      BY <2>3 DEF AppTypes, PageRecords
    <3> QED BY <1>1, <2>1, <2>2, <2>6, <3>1 DEF StopListening, AppTypes
  <2> QED BY <1>13, <2>4, <2>5, <2>6
<1> QED BY <1>2, <1>3, <1>4, <1>5, <1>6, <1>7, <1>8, <1>9, <1>10, <1>11, <1>12, <1>13 DEF AppNext, ServeSocket

LEMMA AppTypesInit == ASSUME AppInit PROVE AppTypes
<1>1. [errors |-> 0, unsignalled |-> FALSE] \in [errors : 0..MaxErrors, unsignalled : BOOLEAN]
  BY StreamAssumption DEF StreamAssumption
<1>2. Len(NoSocket.channel) <= Room
  BY StreamAssumption DEF NoSocket, StreamAssumption
<1> QED BY <1>1, <1>2, StreamConstants, StreamAssumption DEF AppInit, AppTypes, StreamAssumption

\* The state of the application WebSocket keeps its type.
THEOREM AppTypesHold == AppSpec => []AppTypes
BY AppTypesInit, AppTypeStep, PTL DEF AppSpec

---------------------------------------------------------------------------
(* The application WebSocket: the inductive invariant *)

RevisionTopics == {"tasks", "sftp_deletions"}
DeltaTopics    == FlaggedTopics \cup {"mcp_activity", "connections"}

\* What a channel holds.
Holds(channel, event) == \E k \in DOMAIN channel : channel[k] = event
Names(channel, i)     == \E k \in DOMAIN channel : channel[k].item = i
Overtaken(channel, k) == \E m \in DOMAIN channel : m > k /\ channel[m].item = channel[k].item

\* A publisher that has an event for the subscriber there is.
Coming(p)  == work[p].at = "changed" \/ (work[p].at = "sending" /\ Reaches(p))
Carried(i) == \E p \in Publishers : Coming(p) /\ work[p].item = i
Awaited(i) == Names(socket.channel, i) \/ Carried(i)
Moves      == socket.signal \/ socket.channel # <<>> \/ \E p \in Publishers : Coming(p)

\* The socket, by what it serves and the kind of its topic.
SocketStory ==
  /\ ~socket.up => ~socket.serves /\ socket.channel = <<>> /\ ~socket.signal /\ ~socket.closed /\ socket.step = "select"
  /\ socket.step = "snapshot" => topic = "mcp_activity" /\ socket.serves
  /\ topic \in PushTopics /\ ~socket.serves => socket.channel = <<>> /\ ~socket.signal
  /\ topic = "health" => socket.channel = <<>> /\ ~socket.signal
  /\ topic \in FlaggedTopics => socket.flagged = socket.signal
  /\ socket.signal => topic \in FlaggedTopics \cup StateTopics
  /\ socket.closed => topic = "mcp_activity"
  /\ Holds(socket.channel, Resync) => topic = "tasks"

\* The page: who got a snapshot is served, and who registered before the topic was served
\* gets one, or an error.
PageStory ==
  /\ page.fresh \subseteq page.listening /\ page.opened \subseteq page.listening
  /\ page.fresh # {} => socket.up /\ socket.serves /\ socket.step = "select"
  /\ FALSE \in page.asks => page.listening = {}
  /\ page.asks # {} => socket.up
  /\ \/ page.opened \subseteq page.fresh \/ page.wrong \/ ~socket.up
     \/ (TRUE \in page.asks /\ ~socket.serves) \/ socket.step = "snapshot"

\* A publisher's event: where it can be, and how it is related to what the server has.
WorkOf(p) ==
  /\ topic \in FlaggedTopics \cup {"health"} => work[p].at = "idle"
  /\ work[p].at = "full" => topic = "tasks"
  /\ work[p].at = "sending" => topic # "mcp_activity"
  /\ work[p].at # "idle" /\ topic \in {"connections", "mcp_activity"} =>
       /\ work[p].stamp = current[work[p].item]
       /\ \A q \in Publishers \ {p} : work[q].at = "idle" \/ work[q].item # work[p].item
  /\ topic \in RevisionTopics => work[p].stamp <= current[work[p].item]
  /\ topic = "tasks" /\ work[p].at \in {"sending", "full"} =>
       work[p].to <= socket.subscriber /\ (Reaches(p) => socket.serves)

WorkStory == (\A p \in Publishers : WorkOf(p)) /\ \A i \in Items : current[i] <= clock

\* Events without revisions: of each item the last one comes last.  Events with them are
\* not ahead of the server.
OrderStory ==
  topic \in DeltaTopics /\ ~socket.signal /\ ~socket.closed =>
    \A k \in DOMAIN socket.channel :
      \/ socket.channel[k].stamp = current[socket.channel[k].item]
      \/ Overtaken(socket.channel, k)
      \/ Carried(socket.channel[k].item)

RevisionStory ==
  topic \in RevisionTopics =>
    \A event \in Changes : Holds(socket.channel, event) => event.stamp <= current[event.item]

\* Conversations: what was sent last of them is a window of what the server has, but for
\* those whose event is awaited; a conversation outside it has enough others above it,
\* or one that is gone whose event is awaited.
Above(content, i) == {k \in Items : content[k] > content[i]}
Gone == {k \in Items : Awaited(k) /\ current[k] = 0}

WindowOf(i) ==
  /\ socket.known[i] <= clock
  /\ socket.known[i] <= current[i] \/ current[i] = 0
  /\ ~Awaited(i) => socket.known[i] \in {current[i], 0}
  /\ ~Awaited(i) /\ socket.known[i] = 0 /\ current[i] # 0 => Cardinality(Above(current, i) \cup Gone) >= Window
  /\ socket.known[i] # 0 => Cardinality(Above(socket.known, i)) < Window

WindowStory == socket.signal \/ \A i \in Items : WindowOf(i)

\* What a listener shows of an item of a topic with revisions, with deltas.
Recovers ==
  \/ socket.signal \/ troubles.unsignalled \/ Holds(socket.channel, Resync)
  \/ \E p \in Publishers : work[p].at = "full" /\ Reaches(p)

RevisionOf(view, i) ==
  /\ view[i] <= current[i]
  /\ \/ view[i] = current[i]
     \/ Holds(socket.channel, [item |-> i, stamp |-> current[i]])
     \/ \E p \in Publishers : Coming(p) /\ work[p].item = i /\ work[p].stamp = current[i]
     \/ Recovers

DeltaOf(view, i) ==
  \/ socket.signal \/ socket.closed
  \/ view[i] = current[i]
  \/ topic = "connections" /\ view[i] = socket.known[i]
  \/ Awaited(i)

\* What a listener that got a snapshot shows.
ViewOf(view) ==
  /\ topic \in {"health", "chat_state", "sessions"} => view = socket.known
  /\ topic = "chat_state" => socket.known = current \/ Moves
  /\ topic = "sessions" => WindowStory
  /\ topic = "approvals" => view = current \/ Moves
  /\ topic \in RevisionTopics => \A i \in Items : RevisionOf(view, i)
  /\ topic \in DeltaTopics => \A i \in Items : DeltaOf(view, i)

ViewStory == ~page.wrong => \A l \in page.fresh : ViewOf(page.view[l])

StreamInv ==
  /\ AppTypes /\ SocketStory /\ PageStory /\ WorkStory /\ OrderStory /\ RevisionStory /\ ViewStory

---------------------------------------------------------------------------
(* Channels, sockets and pages *)

LEMMA EmptyHolds == \A event, i : ~Holds(<<>>, event) /\ ~Names(<<>>, i)
BY DEF Holds, Names

LEMMA AppendHolds ==
  ASSUME NEW S, NEW ch \in Seq(S), NEW event \in S
  PROVE  /\ \A x : Holds(Append(ch, event), x) <=> Holds(ch, x) \/ x = event
         /\ \A i : Names(Append(ch, event), i) <=> Names(ch, i) \/ event.item = i
<1> DEFINE more == Append(ch, event)
<1>1. /\ DOMAIN more = DOMAIN ch \cup {Len(ch) + 1} /\ Len(ch) + 1 \notin DOMAIN ch
      /\ \A k \in DOMAIN ch : more[k] = ch[k]
      /\ more[Len(ch) + 1] = event
  OBVIOUS
<1> HIDE DEF more
<1>2. \A x : Holds(more, x) <=> Holds(ch, x) \/ x = event
  BY <1>1 DEF Holds
<1>3. \A i : Names(more, i) <=> Names(ch, i) \/ event.item = i
  BY <1>1 DEF Names
<1> QED BY <1>2, <1>3 DEF more

LEMMA TailHolds ==
  ASSUME NEW S, NEW ch \in Seq(S), ch # <<>>
  PROVE  /\ \A x : Holds(ch, x) <=> Holds(Tail(ch), x) \/ x = Head(ch)
         /\ \A i : Names(ch, i) <=> Names(Tail(ch), i) \/ Head(ch).item = i
<1> DEFINE rest == Tail(ch)
<1>1. /\ 1 \in DOMAIN ch /\ Head(ch) = ch[1]
      /\ \A k \in DOMAIN rest : k + 1 \in DOMAIN ch /\ rest[k] = ch[k + 1]
      /\ \A k \in DOMAIN ch : k # 1 => k - 1 \in DOMAIN rest /\ ch[k] = rest[k - 1]
  OBVIOUS
<1> HIDE DEF rest
<1>2. \A x : Holds(ch, x) <=> Holds(rest, x) \/ x = Head(ch)
  BY <1>1 DEF Holds
<1>3. \A i : Names(ch, i) <=> Names(rest, i) \/ Head(ch).item = i
  BY <1>1 DEF Names
<1> QED BY <1>2, <1>3 DEF rest

\* The fields of a new subscriber.
LEMMA SubscriberFields ==
  ASSUME NEW s \in SocketRecords
  PROVE  /\ NewSubscriber(s).up = s.up /\ NewSubscriber(s).serves = s.serves /\ NewSubscriber(s).step = s.step
         /\ NewSubscriber(s).known = s.known /\ NewSubscriber(s).subscriber = s.subscriber + 1
         /\ NewSubscriber(s).channel = <<>> /\ NewSubscriber(s).closed = FALSE
         /\ NewSubscriber(s).flagged = FALSE /\ NewSubscriber(s).signal = FALSE
BY DEF SocketRecords, NewSubscriber

\* A registration with a snapshot, by its fields.
LEMMA OpenFields ==
  ASSUME AppTypes, NEW pg \in PageRecords, OpenPush(pg)
  PROVE  /\ socket'.up = socket.up /\ socket'.serves = TRUE /\ socket'.step = socket.step
         /\ socket'.known = socket.known /\ socket'.subscriber = socket.subscriber + 1
         /\ socket'.channel = <<>> /\ socket'.closed = FALSE /\ socket'.flagged = FALSE /\ socket'.signal = FALSE
         /\ page'.asks = pg.asks /\ page'.listening = pg.listening /\ page'.opened = pg.opened
         /\ page'.fresh = pg.listening /\ page'.wrong = FALSE /\ page'.prepared = pg.prepared
         /\ \A l \in pg.listening : page'.view[l] = current
         /\ troubles' = troubles
<1>1. socket' = [NewSubscriber(socket) EXCEPT !.serves = TRUE] /\ page' = ShowsAll(pg, current) /\ troubles' = troubles
  BY DEF OpenPush
<1>2. socket \in SocketRecords /\ current \in Contents
  BY DEF AppTypes
<1>3. ASSUME NEW n \in SocketRecords
      PROVE  [n EXCEPT !.serves = TRUE].up = n.up /\ [n EXCEPT !.serves = TRUE].serves = TRUE
          /\ [n EXCEPT !.serves = TRUE].step = n.step /\ [n EXCEPT !.serves = TRUE].known = n.known
          /\ [n EXCEPT !.serves = TRUE].subscriber = n.subscriber /\ [n EXCEPT !.serves = TRUE].channel = n.channel
          /\ [n EXCEPT !.serves = TRUE].closed = n.closed /\ [n EXCEPT !.serves = TRUE].flagged = n.flagged
          /\ [n EXCEPT !.serves = TRUE].signal = n.signal
  BY DEF SocketRecords
<1>4. /\ page'.asks = pg.asks /\ page'.listening = pg.listening /\ page'.opened = pg.opened /\ page'.prepared = pg.prepared
      /\ page'.fresh = pg.listening /\ page'.wrong = FALSE
      /\ \A l \in pg.listening : page'.view[l] = current
  BY <1>1 DEF ShowsAll, PageRecords
<1> DEFINE new == NewSubscriber(socket)
<1>5. new \in SocketRecords /\ socket' = [new EXCEPT !.serves = TRUE]
  BY <1>1, <1>2, SubscriberRecord
<1>6. /\ new.up = socket.up /\ new.step = socket.step /\ new.known = socket.known
      /\ new.subscriber = socket.subscriber + 1
      /\ new.channel = <<>> /\ new.closed = FALSE /\ new.flagged = FALSE /\ new.signal = FALSE
  BY <1>2, SubscriberFields
<1> HIDE DEF new
<1> QED BY <1>1, <1>3, <1>4, <1>5, <1>6

\* A snapshot that is sent, or the error.
LEMMA SentFields ==
  ASSUME AppTypes, NEW s \in SocketRecords, NEW pg \in PageRecords, SendSnapshot(s, pg)
  PROVE  /\ socket'.up = s.up /\ socket'.serves = s.serves /\ socket'.step = s.step
         /\ socket'.subscriber = s.subscriber /\ socket'.channel = s.channel
         /\ socket'.closed = s.closed /\ socket'.flagged = s.flagged /\ socket'.signal = s.signal
         /\ page'.asks = pg.asks /\ page'.listening = pg.listening /\ page'.opened = pg.opened
         /\ page'.prepared = pg.prepared /\ troubles'.unsignalled = troubles.unsignalled
         /\ \/ /\ page'.fresh = pg.listening /\ page'.wrong = FALSE /\ socket'.known = Shown(current)
               /\ \A l \in pg.listening : page'.view[l] = Shown(current)
            \/ page'.wrong = TRUE /\ page'.fresh = pg.fresh
<1>1. CASE socket' = [s EXCEPT !.known = Shown(current)] /\ page' = ShowsAll(pg, Shown(current)) /\ UNCHANGED troubles
  <2>1. /\ socket'.up = s.up /\ socket'.serves = s.serves /\ socket'.step = s.step
        /\ socket'.subscriber = s.subscriber /\ socket'.channel = s.channel
        /\ socket'.closed = s.closed /\ socket'.flagged = s.flagged /\ socket'.signal = s.signal
        /\ socket'.known = Shown(current)
    BY <1>1 DEF SocketRecords
  <2>2. /\ page'.asks = pg.asks /\ page'.listening = pg.listening /\ page'.opened = pg.opened
        /\ page'.prepared = pg.prepared /\ page'.fresh = pg.listening /\ page'.wrong = FALSE
        /\ \A l \in pg.listening : page'.view[l] = Shown(current)
    BY <1>1 DEF PageRecords, ShowsAll
  <2> QED BY <1>1, <2>1, <2>2
<1>2. CASE socket' = s /\ page' = ShowsError(pg) /\ troubles' = [troubles EXCEPT !.errors = @ + 1]
  <2>1. page' = [pg EXCEPT !.wrong = TRUE]
    BY <1>2 DEF ShowsError
  <2>2. /\ page'.asks = pg.asks /\ page'.listening = pg.listening /\ page'.opened = pg.opened
        /\ page'.prepared = pg.prepared /\ page'.fresh = pg.fresh /\ page'.wrong = TRUE
    BY <2>1 DEF PageRecords
  <2>3. troubles'.unsignalled = troubles.unsignalled
    BY <1>2 DEF AppTypes
  <2> QED BY <1>2, <2>2, <2>3
<1> QED BY <1>1, <1>2 DEF SendSnapshot

\* The cases of a subscription.
LEMMA SubscriptionCases ==
  ASSUME AppTypes, TakeSubscription
  PROVE  /\ UNCHANGED <<topic, current, clock, work, sample>>
         /\ [page EXCEPT !.asks = {}] \in PageRecords
         /\ \/ /\ UNCHANGED <<socket, troubles>> /\ page' = [page EXCEPT !.asks = {}]
               /\ (TRUE \in page.asks) = socket.serves
            \/ /\ socket.serves /\ FALSE \in page.asks /\ UNCHANGED troubles /\ page' = [page EXCEPT !.asks = {}]
               /\ socket'.up = socket.up /\ socket'.serves = FALSE /\ socket'.step = socket.step
               /\ \/ /\ topic \in PushTopics /\ socket'.subscriber = socket.subscriber + 1 /\ socket'.channel = <<>>
                     /\ socket'.closed = FALSE /\ socket'.flagged = FALSE /\ socket'.signal = FALSE
                  \/ /\ topic \notin PushTopics /\ socket'.subscriber = socket.subscriber /\ socket'.channel = socket.channel
                     /\ socket'.closed = socket.closed /\ socket'.flagged = socket.flagged /\ socket'.signal = socket.signal
            \/ /\ ~socket.serves /\ topic = "mcp_activity" /\ UNCHANGED troubles /\ page' = [page EXCEPT !.asks = {}]
               /\ socket'.up = socket.up /\ socket'.serves = TRUE /\ socket'.step = "snapshot"
               /\ socket'.subscriber = socket.subscriber + 1 /\ socket'.channel = <<>>
               /\ socket'.closed = FALSE /\ socket'.flagged = FALSE /\ socket'.signal = FALSE
            \/ ~socket.serves /\ topic \in PushTopics \ {"mcp_activity"} /\ OpenPush([page EXCEPT !.asks = {}])
            \/ /\ ~socket.serves /\ topic \notin PushTopics
               /\ [socket EXCEPT !.serves = TRUE] \in SocketRecords
               /\ SendSnapshot([socket EXCEPT !.serves = TRUE], [page EXCEPT !.asks = {}])
<1> DEFINE asked == [page EXCEPT !.asks = {}]
           new == NewSubscriber(socket)
<1>1. asked \in PageRecords /\ socket \in SocketRecords /\ page.asks \in SUBSET BOOLEAN /\ page.asks # {}
  BY DEF AppTypes, PageRecords, TakeSubscription
<1>2. new \in SocketRecords /\ new.up = socket.up /\ new.step = socket.step /\ new.subscriber = socket.subscriber + 1
      /\ new.channel = <<>> /\ new.closed = FALSE /\ new.flagged = FALSE /\ new.signal = FALSE
  BY <1>1, SubscriberRecord, SubscriberFields
<1>3. \/ socket' = socket /\ page' = asked /\ UNCHANGED troubles /\ (TRUE \in page.asks) = socket.serves
      \/ /\ TRUE \notin page.asks /\ socket.serves /\ page' = asked /\ UNCHANGED troubles
         /\ socket' = [IF topic \in PushTopics THEN new ELSE socket EXCEPT !.serves = FALSE, !.known = NotKnown]
      \/ /\ ~socket.serves /\ topic = "mcp_activity" /\ page' = asked /\ UNCHANGED troubles
         /\ socket' = [new EXCEPT !.serves = TRUE, !.step = "snapshot"]
      \/ ~socket.serves /\ topic \in PushTopics \ {"mcp_activity"} /\ OpenPush(asked)
      \/ ~socket.serves /\ topic \notin PushTopics /\ SendSnapshot([socket EXCEPT !.serves = TRUE], asked)
  <2>1. socket.serves \in BOOLEAN /\ (TRUE \in page.asks) \in BOOLEAN
    BY <1>1 DEF SocketRecords
  <2>2. topic = "mcp_activity" => topic \in PushTopics
    BY DEF PushTopics
  <2> DEFINE wanted == TRUE \in page.asks
  <2>3. CASE wanted = socket.serves
    BY <2>3 DEF TakeSubscription
  <2>4. CASE wanted # socket.serves /\ socket.serves
    BY <2>1, <2>4 DEF TakeSubscription
  <2>5. CASE wanted # socket.serves /\ ~socket.serves
    BY <2>1, <2>2, <2>5 DEF TakeSubscription
  <2> QED BY <2>3, <2>4, <2>5
<1>4. UNCHANGED <<topic, current, clock, work, sample>>
  BY DEF TakeSubscription
<1>5. TRUE \notin page.asks => FALSE \in page.asks
  BY <1>1
<1>6. ASSUME NEW n \in SocketRecords
      PROVE  /\ [n EXCEPT !.serves = FALSE, !.known = NotKnown].up = n.up
             /\ [n EXCEPT !.serves = FALSE, !.known = NotKnown].serves = FALSE
             /\ [n EXCEPT !.serves = FALSE, !.known = NotKnown].step = n.step
             /\ [n EXCEPT !.serves = FALSE, !.known = NotKnown].subscriber = n.subscriber
             /\ [n EXCEPT !.serves = FALSE, !.known = NotKnown].channel = n.channel
             /\ [n EXCEPT !.serves = FALSE, !.known = NotKnown].closed = n.closed
             /\ [n EXCEPT !.serves = FALSE, !.known = NotKnown].flagged = n.flagged
             /\ [n EXCEPT !.serves = FALSE, !.known = NotKnown].signal = n.signal
             /\ [n EXCEPT !.serves = TRUE, !.step = "snapshot"].up = n.up
             /\ [n EXCEPT !.serves = TRUE, !.step = "snapshot"].serves = TRUE
             /\ [n EXCEPT !.serves = TRUE, !.step = "snapshot"].step = "snapshot"
             /\ [n EXCEPT !.serves = TRUE, !.step = "snapshot"].subscriber = n.subscriber
             /\ [n EXCEPT !.serves = TRUE, !.step = "snapshot"].channel = n.channel
             /\ [n EXCEPT !.serves = TRUE, !.step = "snapshot"].closed = n.closed
             /\ [n EXCEPT !.serves = TRUE, !.step = "snapshot"].flagged = n.flagged
             /\ [n EXCEPT !.serves = TRUE, !.step = "snapshot"].signal = n.signal
             /\ [n EXCEPT !.serves = TRUE] \in SocketRecords
  BY DEF SocketRecords
<1> HIDE DEF asked, new
<1>7. CASE socket' = socket /\ page' = asked /\ UNCHANGED troubles /\ (TRUE \in page.asks) = socket.serves
  BY <1>1, <1>4, <1>7 DEF asked
<1>8. CASE /\ TRUE \notin page.asks /\ socket.serves /\ page' = asked /\ UNCHANGED troubles
           /\ socket' = [IF topic \in PushTopics THEN new ELSE socket EXCEPT !.serves = FALSE, !.known = NotKnown]
  <2>1. CASE topic \in PushTopics
    <3>1. socket' = [new EXCEPT !.serves = FALSE, !.known = NotKnown]
      BY <1>8, <2>1
    <3>2. /\ socket'.up = socket.up /\ socket'.serves = FALSE /\ socket'.step = socket.step
          /\ socket'.subscriber = socket.subscriber + 1 /\ socket'.channel = <<>>
          /\ socket'.closed = FALSE /\ socket'.flagged = FALSE /\ socket'.signal = FALSE
      BY <3>1, <1>2, <1>6
    <3> QED BY <1>1, <1>4, <1>5, <1>8, <2>1, <3>2 DEF asked
  <2>2. CASE topic \notin PushTopics
    <3>1. socket' = [socket EXCEPT !.serves = FALSE, !.known = NotKnown]
      BY <1>8, <2>2
    <3>2. /\ socket'.up = socket.up /\ socket'.serves = FALSE /\ socket'.step = socket.step
          /\ socket'.subscriber = socket.subscriber /\ socket'.channel = socket.channel
          /\ socket'.closed = socket.closed /\ socket'.flagged = socket.flagged /\ socket'.signal = socket.signal
      BY <3>1, <1>1, <1>6
    <3> QED BY <1>1, <1>4, <1>5, <1>8, <2>2, <3>2 DEF asked
  <2> QED BY <2>1, <2>2
<1>9. CASE /\ ~socket.serves /\ topic = "mcp_activity" /\ page' = asked /\ UNCHANGED troubles
           /\ socket' = [new EXCEPT !.serves = TRUE, !.step = "snapshot"]
  <2>1. /\ socket'.up = socket.up /\ socket'.serves = TRUE /\ socket'.step = "snapshot"
        /\ socket'.subscriber = socket.subscriber + 1 /\ socket'.channel = <<>>
        /\ socket'.closed = FALSE /\ socket'.flagged = FALSE /\ socket'.signal = FALSE
    BY <1>2, <1>6, <1>9
  <2> QED BY <1>1, <1>4, <1>9, <2>1 DEF asked
<1>10. CASE \/ ~socket.serves /\ topic \in PushTopics \ {"mcp_activity"} /\ OpenPush(asked)
            \/ ~socket.serves /\ topic \notin PushTopics /\ SendSnapshot([socket EXCEPT !.serves = TRUE], asked)
  BY <1>1, <1>4, <1>6, <1>10 DEF asked
<1> QED BY <1>3, <1>7, <1>8, <1>9, <1>10

\* What a publisher's step does to the socket.
LEMMA PublishingCases ==
  ASSUME AppTypes, NEW p \in Publishers, Publishing(p)
  PROVE  /\ UNCHANGED <<topic, current, clock, page, sample>>
         /\ socket'.up = socket.up /\ socket'.serves = socket.serves /\ socket'.step = socket.step
         /\ socket'.known = socket.known /\ socket'.subscriber = socket.subscriber /\ socket'.flagged = socket.flagged
         /\ \/ UNCHANGED <<socket, troubles>> /\ ~Registered
               /\ work[p].at = "changed" /\ topic # "mcp_activity" /\ work' = [work EXCEPT ![p] = IdleWork]
            \/ UNCHANGED <<socket, troubles>> /\ Registered
               /\ work[p].at = "changed" /\ topic # "mcp_activity"
               /\ work' = [work EXCEPT ![p] = [@ EXCEPT !.at = "sending", !.to = socket.subscriber]]
            \/ UNCHANGED <<socket, troubles>> /\ work' = [work EXCEPT ![p].at = "idle"]
               /\ work[p].at = "sending" /\ ~Reaches(p)
            \/ UNCHANGED <<socket, troubles>> /\ work' = [work EXCEPT ![p].at = "idle"]
               /\ work[p].at = "changed" /\ (~Registered \/ socket.closed) /\ topic = "mcp_activity"
            \/ /\ work' = [work EXCEPT ![p].at = "idle"] /\ UNCHANGED troubles
               /\ socket'.channel = Append(socket.channel, Event(work[p])) /\ HasRoom
               /\ socket'.closed = socket.closed /\ socket'.signal = socket.signal
               /\ \/ work[p].at = "sending" /\ Reaches(p) /\ topic \in StateTopics \cup {"tasks"}
                  \/ work[p].at = "changed" /\ Registered /\ topic = "mcp_activity"
            \/ /\ work' = [work EXCEPT ![p].at = "idle"] /\ UNCHANGED troubles
               /\ socket'.signal = TRUE /\ socket'.channel = socket.channel /\ socket'.closed = socket.closed
               /\ work[p].at = "sending" /\ Reaches(p) /\ topic \in StateTopics
            \/ /\ work' = [work EXCEPT ![p].at = "idle"] /\ UNCHANGED troubles
               /\ socket'.closed = TRUE /\ socket'.channel = socket.channel /\ socket'.signal = socket.signal
               /\ work[p].at = "changed" /\ Registered /\ topic = "mcp_activity"
            \/ /\ work' = [work EXCEPT ![p].at = "full"] /\ UNCHANGED troubles
               /\ socket'.channel = Tail(socket.channel) /\ socket.channel # <<>>
               /\ socket'.closed = socket.closed /\ socket'.signal = socket.signal
               /\ work[p].at = "sending" /\ Reaches(p) /\ topic = "tasks"
            \/ /\ work' = [work EXCEPT ![p].at = "idle"] /\ work[p].at = "full"
               /\ socket'.closed = socket.closed /\ socket'.signal = socket.signal
               /\ \/ Reaches(p) /\ socket'.channel = Append(socket.channel, Resync) /\ UNCHANGED troubles
                  \/ Reaches(p) /\ socket' = socket /\ troubles'.unsignalled = TRUE
                  \/ ~Reaches(p) /\ socket' = socket /\ UNCHANGED troubles
<1>0. socket \in SocketRecords /\ Len(socket.channel) \in Nat /\ troubles.unsignalled \in BOOLEAN
      /\ (~HasRoom => socket.channel # <<>>)
  <2>1. socket \in SocketRecords /\ Len(socket.channel) \in Nat /\ troubles.unsignalled \in BOOLEAN
    BY DEF AppTypes, SocketRecords
  <2> QED BY <2>1, StreamNumbers DEF HasRoom
<1>1. ASSUME NEW ch
      PROVE  /\ [socket EXCEPT !.channel = ch].up = socket.up /\ [socket EXCEPT !.channel = ch].serves = socket.serves
             /\ [socket EXCEPT !.channel = ch].step = socket.step /\ [socket EXCEPT !.channel = ch].known = socket.known
             /\ [socket EXCEPT !.channel = ch].subscriber = socket.subscriber
             /\ [socket EXCEPT !.channel = ch].flagged = socket.flagged /\ [socket EXCEPT !.channel = ch].channel = ch
             /\ [socket EXCEPT !.channel = ch].closed = socket.closed /\ [socket EXCEPT !.channel = ch].signal = socket.signal
  BY <1>0 DEF SocketRecords
<1>2. /\ [socket EXCEPT !.signal = TRUE].up = socket.up /\ [socket EXCEPT !.signal = TRUE].serves = socket.serves
      /\ [socket EXCEPT !.signal = TRUE].step = socket.step /\ [socket EXCEPT !.signal = TRUE].known = socket.known
      /\ [socket EXCEPT !.signal = TRUE].subscriber = socket.subscriber
      /\ [socket EXCEPT !.signal = TRUE].flagged = socket.flagged /\ [socket EXCEPT !.signal = TRUE].channel = socket.channel
      /\ [socket EXCEPT !.signal = TRUE].closed = socket.closed /\ [socket EXCEPT !.signal = TRUE].signal = TRUE
  BY <1>0 DEF SocketRecords
<1>3. /\ [socket EXCEPT !.closed = TRUE].up = socket.up /\ [socket EXCEPT !.closed = TRUE].serves = socket.serves
      /\ [socket EXCEPT !.closed = TRUE].step = socket.step /\ [socket EXCEPT !.closed = TRUE].known = socket.known
      /\ [socket EXCEPT !.closed = TRUE].subscriber = socket.subscriber
      /\ [socket EXCEPT !.closed = TRUE].flagged = socket.flagged /\ [socket EXCEPT !.closed = TRUE].channel = socket.channel
      /\ [socket EXCEPT !.closed = TRUE].signal = socket.signal /\ [socket EXCEPT !.closed = TRUE].closed = TRUE
  BY <1>0 DEF SocketRecords
<1>4. CASE FindSubscriber(p)
  <2>1. CASE Registered
    BY <1>4, <2>1 DEF FindSubscriber
  <2>2. CASE ~Registered
    BY <1>4, <2>2 DEF FindSubscriber
  <2> QED BY <2>1, <2>2
<1>5. CASE SendState(p)
  <2>1. CASE ~Reaches(p)
    BY <1>5, <2>1 DEF SendState, Advances
  <2>2. CASE Reaches(p) /\ HasRoom
    <3>1. socket' = [socket EXCEPT !.channel = Append(socket.channel, Event(work[p]))]
      BY <1>5, <2>2 DEF SendState
    <3> QED BY <1>5, <2>2, <3>1, <1>1 DEF SendState, Advances
  <2>3. CASE Reaches(p) /\ ~HasRoom
    <3>1. socket' = [socket EXCEPT !.signal = TRUE]
      BY <1>5, <2>3 DEF SendState
    <3> QED BY <1>5, <2>3, <3>1, <1>2 DEF SendState, Advances
  <2> QED BY <2>1, <2>2, <2>3
<1>6. CASE SendTask(p)
  <2>1. CASE ~Reaches(p)
    BY <1>6, <2>1 DEF SendTask, Advances
  <2>2. CASE Reaches(p) /\ HasRoom
    <3>1. socket' = [socket EXCEPT !.channel = Append(socket.channel, Event(work[p]))]
      BY <1>6, <2>2 DEF SendTask
    <3> QED BY <1>6, <2>2, <3>1, <1>1 DEF SendTask, Advances
  <2>3. CASE Reaches(p) /\ ~HasRoom
    <3>1. socket' = [socket EXCEPT !.channel = Tail(socket.channel)]
      BY <1>6, <2>3 DEF SendTask
    <3> QED BY <1>6, <2>3, <3>1, <1>0, <1>1 DEF SendTask, Advances
  <2> QED BY <2>1, <2>2, <2>3
<1>7. CASE AskResync(p)
  <2>0. troubles' = [troubles EXCEPT !.unsignalled = @ \/ (Reaches(p) /\ ~HasRoom)]
        /\ work' = [work EXCEPT ![p].at = "idle"] /\ work[p].at = "full" /\ UNCHANGED <<topic, current, clock, page, sample>>
    BY <1>7 DEF AskResync, Advances
  <2>1. CASE Reaches(p) /\ ~HasRoom
    <3>1. socket' = socket
      BY <1>7, <2>1 DEF AskResync
    <3>2. troubles'.unsignalled = TRUE
      BY <2>0, <2>1 DEF AppTypes
    <3> QED BY <2>0, <2>1, <3>1, <3>2
  <2>2. CASE ~(Reaches(p) /\ ~HasRoom)
    <3>1. troubles' = troubles
      BY <2>0, <2>2 DEF AppTypes
    <3>2. CASE Reaches(p)
      <4>1. socket' = [socket EXCEPT !.channel = Append(socket.channel, Resync)]
        BY <1>7, <2>2, <3>2 DEF AskResync
      <4> QED BY <2>0, <3>1, <3>2, <4>1, <1>1
    <3>3. CASE ~Reaches(p)
      <4>1. socket' = socket
        BY <1>7, <3>3 DEF AskResync
      <4> QED BY <2>0, <3>1, <3>3, <4>1
    <3> QED BY <3>2, <3>3
  <2> QED BY <2>1, <2>2
<1>8. CASE SendActivity(p)
  <2>1. CASE ~Registered \/ socket.closed
    BY <1>8, <2>1 DEF SendActivity, Advances
  <2>2. CASE ~(~Registered \/ socket.closed) /\ HasRoom
    <3>1. socket' = [socket EXCEPT !.channel = Append(socket.channel, Event(work[p]))]
      BY <1>8, <2>2 DEF SendActivity
    <3> QED BY <1>8, <2>2, <3>1, <1>1 DEF SendActivity, Advances
  <2>3. CASE ~(~Registered \/ socket.closed) /\ ~HasRoom
    <3>1. socket' = [socket EXCEPT !.closed = TRUE]
      BY <1>8, <2>3 DEF SendActivity
    <3> QED BY <1>8, <2>3, <3>1, <1>3 DEF SendActivity, Advances
  <2> QED BY <2>1, <2>2, <2>3
<1> QED BY <1>4, <1>5, <1>6, <1>7, <1>8 DEF Publishing

\* What a change of the topic does.
LEMMA ChangeCases ==
  ASSUME AppTypes, NEW p \in Publishers, NEW i \in Items, NEW stamp \in 0..MaxStamp, ChangeItem(p, i, stamp)
  PROVE  /\ UNCHANGED <<topic, page, sample, troubles>> /\ clock' = clock + 1 /\ work[p].at = "idle"
         /\ stamp = clock + 1 \/ (topic \in {"sessions", "connections"} /\ stamp = 0)
         /\ current' = [current EXCEPT ![i] = stamp]
         /\ socket'.up = socket.up /\ socket'.serves = socket.serves /\ socket'.step = socket.step
         /\ socket'.known = socket.known /\ socket'.subscriber = socket.subscriber /\ socket'.closed = socket.closed
         /\ \/ topic \in FlaggedTopics /\ UNCHANGED <<socket, work>> /\ (~(socket.up /\ socket.serves) \/ socket.flagged)
            \/ /\ topic \in FlaggedTopics /\ UNCHANGED work /\ socket.up /\ socket.serves
               /\ socket'.channel = Append(socket.channel, [item |-> i, stamp |-> stamp])
               /\ socket'.signal = socket.signal /\ socket'.flagged = socket.flagged
            \/ /\ topic \in FlaggedTopics /\ UNCHANGED work /\ socket.up /\ socket.serves
               /\ socket'.channel = socket.channel /\ socket'.signal = TRUE /\ socket'.flagged = TRUE
            \/ topic = "health" /\ UNCHANGED <<socket, work>>
            \/ /\ topic \notin FlaggedTopics \cup {"health"} /\ UNCHANGED socket
               /\ work' = [work EXCEPT ![p] = [at |-> "changed", item |-> i, stamp |-> stamp, to |-> 0]]
         /\ topic \in {"connections", "mcp_activity"} =>
              \A q \in Publishers \ {p} : work[q].at = "idle" \/ work[q].item # i
<1> DEFINE event == [item |-> i, stamp |-> stamp]
<1>0. socket \in SocketRecords
  BY DEF AppTypes
<1>1. /\ UNCHANGED <<topic, page, sample, troubles>> /\ clock' = clock + 1 /\ work[p].at = "idle"
      /\ stamp = clock + 1 \/ (topic \in {"sessions", "connections"} /\ stamp = 0)
      /\ current' = [current EXCEPT ![i] = stamp]
      /\ topic \in {"connections", "mcp_activity"} => \A q \in Publishers \ {p} : work[q].at = "idle" \/ work[q].item # i
  BY DEF ChangeItem, Removable
<1>2. CASE topic \in FlaggedTopics
  <2>1. socket' = Flagged(socket, event) /\ UNCHANGED work
    <3>1. topic # "health"
      BY <1>2 DEF FlaggedTopics
    <3> QED BY <1>2, <3>1 DEF ChangeItem
  <2> HIDE DEF event
  <2>2. CASE ~(socket.up /\ socket.serves) \/ socket.flagged
    <3>1. socket' = socket
      BY <2>1, <2>2 DEF Flagged
    <3> QED BY <1>1, <1>2, <2>1, <2>2, <3>1
  <2>3. CASE ~(~(socket.up /\ socket.serves) \/ socket.flagged) /\ Len(socket.channel) < Room
    <3>1. socket' = [socket EXCEPT !.channel = Append(socket.channel, event)]
      BY <2>1, <2>3 DEF Flagged
    <3>2. /\ socket'.up = socket.up /\ socket'.serves = socket.serves /\ socket'.step = socket.step
          /\ socket'.known = socket.known /\ socket'.subscriber = socket.subscriber /\ socket'.closed = socket.closed
          /\ socket'.channel = Append(socket.channel, event)
          /\ socket'.signal = socket.signal /\ socket'.flagged = socket.flagged
      BY <1>0, <3>1 DEF SocketRecords
    <3> QED BY <1>1, <1>2, <2>1, <2>3, <3>2 DEF event
  <2>4. CASE ~(~(socket.up /\ socket.serves) \/ socket.flagged) /\ ~(Len(socket.channel) < Room)
    <3>1. socket' = [socket EXCEPT !.flagged = TRUE, !.signal = TRUE]
      BY <2>1, <2>4 DEF Flagged
    <3>2. /\ socket'.up = socket.up /\ socket'.serves = socket.serves /\ socket'.step = socket.step
          /\ socket'.known = socket.known /\ socket'.subscriber = socket.subscriber /\ socket'.closed = socket.closed
          /\ socket'.channel = socket.channel /\ socket'.signal = TRUE /\ socket'.flagged = TRUE
      BY <1>0, <3>1 DEF SocketRecords
    <3> QED BY <1>1, <1>2, <2>1, <2>4, <3>2
  <2> QED BY <2>2, <2>3, <2>4
<1>3. CASE topic = "health"
  <2>1. UNCHANGED <<socket, work>>
    BY <1>3 DEF ChangeItem, FlaggedTopics
  <2> QED BY <1>1, <1>3, <2>1
<1>4. CASE topic \notin FlaggedTopics \cup {"health"}
  <2>1. UNCHANGED socket /\ work' = [work EXCEPT ![p] = [at |-> "changed", item |-> i, stamp |-> stamp, to |-> 0]]
    BY <1>4 DEF ChangeItem
  <2> QED BY <1>1, <1>4, <2>1
<1> QED BY <1>2, <1>3, <1>4

\* What the next event does.
LEMMA EventCases ==
  ASSUME AppTypes, TakeEvent
  PROVE  /\ UNCHANGED <<topic, current, clock, work, sample>>
         /\ socket.up /\ socket.step = "select" /\ socket.channel # <<>>
         /\ [socket EXCEPT !.channel = Tail(@)] \in SocketRecords
         /\ \/ Head(socket.channel) = Resync /\ OpenPush(page)
            \/ ~socket.serves /\ socket' = [socket EXCEPT !.channel = Tail(@)] /\ UNCHANGED <<page, troubles>>
            \/ /\ Head(socket.channel) \in Changes /\ socket.serves /\ topic \in {"sessions", "chat_state"}
               /\ SendDifference([socket EXCEPT !.channel = Tail(@)], Head(socket.channel))
            \/ /\ Head(socket.channel) \in Changes /\ socket.serves /\ topic = "approvals"
               /\ SendSnapshot([socket EXCEPT !.channel = Tail(@)], page)
            \/ /\ Head(socket.channel) \in Changes /\ socket.serves /\ topic \notin {"sessions", "chat_state", "approvals"}
               /\ socket' = [socket EXCEPT !.channel = Tail(@)] /\ UNCHANGED troubles
               /\ page' = Merges(page, [i \in {Head(socket.channel).item} |-> Head(socket.channel).stamp])
<1> DEFINE event == Head(socket.channel)
           rest  == [socket EXCEPT !.channel = Tail(@)]
<1>1. socket \in SocketRecords /\ socket.channel # <<>> /\ socket.up /\ socket.step = "select"
      /\ UNCHANGED <<topic, current, clock, work, sample>>
  BY DEF AppTypes, TakeEvent, Selects
<1>2. rest \in SocketRecords /\ event \in Changes \cup {Resync}
  BY <1>1, TailRecord
<1>3. CASE event = Resync
  BY <1>1, <1>2, <1>3 DEF TakeEvent
<1>4. CASE event # Resync /\ ~socket.serves
  <2>1. socket' = rest /\ UNCHANGED <<page, troubles>>
    BY <1>4 DEF TakeEvent
  <2> QED BY <1>1, <1>2, <1>4, <2>1
<1>5. CASE event # Resync /\ socket.serves /\ topic \in {"sessions", "chat_state"}
  <2>1. SendDifference(rest, event)
    BY <1>5 DEF TakeEvent
  <2> QED BY <1>1, <1>2, <1>5, <2>1
<1>6. CASE event # Resync /\ socket.serves /\ topic = "approvals"
  <2>1. SendSnapshot(rest, page)
    BY <1>6 DEF TakeEvent
  <2> QED BY <1>1, <1>2, <1>6, <2>1
<1>7. CASE event # Resync /\ socket.serves /\ topic \notin {"sessions", "chat_state", "approvals"}
  <2>1. socket' = rest /\ page' = Merges(page, [i \in {event.item} |-> event.stamp]) /\ UNCHANGED troubles
    BY <1>7 DEF TakeEvent
  <2> QED BY <1>1, <1>2, <1>7, <2>1
<1> QED BY <1>3, <1>4, <1>5, <1>6, <1>7

\* The socket without the head of its channel, and drained.
LEMMA RestFields ==
  ASSUME AppTypes
  PROVE  /\ [socket EXCEPT !.channel = Tail(@)].up = socket.up /\ [socket EXCEPT !.channel = Tail(@)].serves = socket.serves
         /\ [socket EXCEPT !.channel = Tail(@)].step = socket.step /\ [socket EXCEPT !.channel = Tail(@)].known = socket.known
         /\ [socket EXCEPT !.channel = Tail(@)].subscriber = socket.subscriber
         /\ [socket EXCEPT !.channel = Tail(@)].channel = Tail(socket.channel)
         /\ [socket EXCEPT !.channel = Tail(@)].closed = socket.closed
         /\ [socket EXCEPT !.channel = Tail(@)].flagged = socket.flagged
         /\ [socket EXCEPT !.channel = Tail(@)].signal = socket.signal
<1> DEFINE ch == Tail(socket.channel)
<1> HIDE DEF ch
<1>1. /\ [socket EXCEPT !.channel = ch].up = socket.up /\ [socket EXCEPT !.channel = ch].serves = socket.serves
      /\ [socket EXCEPT !.channel = ch].step = socket.step /\ [socket EXCEPT !.channel = ch].known = socket.known
      /\ [socket EXCEPT !.channel = ch].subscriber = socket.subscriber /\ [socket EXCEPT !.channel = ch].channel = ch
      /\ [socket EXCEPT !.channel = ch].closed = socket.closed
      /\ [socket EXCEPT !.channel = ch].flagged = socket.flagged /\ [socket EXCEPT !.channel = ch].signal = socket.signal
  BY DEF AppTypes, SocketRecords
<1> QED BY <1>1 DEF ch

\* What a signal does.
LEMMA SignalCases ==
  ASSUME AppTypes, TakeSignal
  PROVE  /\ UNCHANGED <<topic, current, clock, work, sample>> /\ socket.up /\ socket.step = "select" /\ socket.signal
         /\ \/ topic \in PushTopics /\ OpenPush(page)
            \/ \E drained \in SocketRecords :
                 /\ topic \notin PushTopics
                 /\ drained.up = socket.up /\ drained.serves = socket.serves /\ drained.step = socket.step
                 /\ drained.known = socket.known /\ drained.subscriber = socket.subscriber /\ drained.channel = <<>>
                 /\ drained.closed = socket.closed /\ drained.flagged = socket.flagged /\ drained.signal = FALSE
                 /\ IF socket.serves THEN SendSnapshot(drained, page) ELSE socket' = drained /\ UNCHANGED <<page, troubles>>
<1> DEFINE empty   == <<>>
           drained == [socket EXCEPT !.signal = FALSE, !.channel = empty]
<1>1. socket \in SocketRecords /\ empty \in Seq(Changes \cup {Resync})
  BY DEF AppTypes
<1>2. UNCHANGED <<topic, current, clock, work, sample>> /\ socket.up /\ socket.step = "select" /\ socket.signal
  BY DEF TakeSignal, Selects
<1>3. topic \notin PushTopics =>
        IF socket.serves THEN SendSnapshot(drained, page) ELSE socket' = drained /\ UNCHANGED <<page, troubles>>
  BY DEF TakeSignal
<1>4. topic \in PushTopics => OpenPush(page)
  BY DEF TakeSignal
<1> HIDE DEF empty
<1>5. /\ drained \in SocketRecords /\ drained.up = socket.up /\ drained.serves = socket.serves /\ drained.step = socket.step
      /\ drained.known = socket.known /\ drained.subscriber = socket.subscriber /\ drained.channel = empty
      /\ drained.closed = socket.closed /\ drained.flagged = socket.flagged /\ drained.signal = FALSE
  BY <1>1 DEF SocketRecords
<1> HIDE DEF drained
<1> QED BY <1>2, <1>3, <1>4, <1>5 DEF empty

\* A lost socket, a new one.
LEMMA LostFields ==
  ASSUME AppTypes, LoseSocket
  PROVE  /\ UNCHANGED <<topic, current, clock, work, sample, troubles>>
         /\ socket'.up = FALSE /\ socket'.serves = FALSE /\ socket'.step = "select" /\ socket'.subscriber = socket.subscriber
         /\ socket'.channel = <<>> /\ socket'.closed = FALSE /\ socket'.flagged = FALSE /\ socket'.signal = FALSE
         /\ page'.asks = {} /\ page'.opened = page.listening /\ page'.fresh = {} /\ page'.listening = page.listening
         /\ page'.wrong = page.wrong /\ page'.prepared = page.prepared
<1>1. socket' = [NoSocket EXCEPT !.id = socket.id, !.subscriber = socket.subscriber]
  BY DEF LoseSocket
<1>2. /\ socket'.up = NoSocket.up /\ socket'.serves = NoSocket.serves /\ socket'.step = NoSocket.step
      /\ socket'.subscriber = socket.subscriber /\ socket'.channel = NoSocket.channel /\ socket'.closed = NoSocket.closed
      /\ socket'.flagged = NoSocket.flagged /\ socket'.signal = NoSocket.signal
  BY <1>1, StreamConstants DEF SocketRecords
<1>3. page' = [page EXCEPT !.asks = {}, !.opened = page.listening, !.fresh = {}] /\ page \in PageRecords
  BY DEF LoseSocket, AppTypes
<1>4. /\ page'.asks = {} /\ page'.opened = page.listening /\ page'.fresh = {} /\ page'.listening = page.listening
      /\ page'.wrong = page.wrong /\ page'.prepared = page.prepared
  BY <1>3 DEF PageRecords
<1> QED BY <1>2, <1>4 DEF LoseSocket, NoSocket

LEMMA ConnectedFields ==
  ASSUME AppTypes, Connect
  PROVE  /\ UNCHANGED <<topic, current, clock, work, sample, troubles>> /\ ~socket.up
         /\ socket'.up = TRUE /\ socket'.serves = socket.serves /\ socket'.step = socket.step
         /\ socket'.subscriber = socket.subscriber + 1
         /\ socket'.channel = <<>> /\ socket'.closed = FALSE /\ socket'.flagged = FALSE /\ socket'.signal = FALSE
         /\ page'.asks = {TRUE} /\ page'.opened = page.opened /\ page'.fresh = page.fresh
         /\ page'.listening = page.listening /\ page'.wrong = page.wrong
         /\ page'.prepared = page.prepared /\ page'.view = page.view
<1> DEFINE next == socket.id + 1
           up   == [socket EXCEPT !.up = TRUE, !.id = next]
<1>1. socket' = NewSubscriber(up) /\ next \in Nat /\ socket \in SocketRecords
  BY DEF Connect, AppTypes, SocketRecords
<1> HIDE DEF next
<1>2. up \in SocketRecords /\ up.up = TRUE /\ up.serves = socket.serves /\ up.step = socket.step /\ up.subscriber = socket.subscriber
  BY <1>1 DEF SocketRecords
<1> HIDE DEF up
<1>3. page' = [page EXCEPT !.asks = {TRUE}] /\ page \in PageRecords
  BY DEF Connect, AppTypes
<1>4. /\ page'.asks = {TRUE} /\ page'.opened = page.opened /\ page'.fresh = page.fresh
      /\ page'.listening = page.listening /\ page'.wrong = page.wrong
      /\ page'.prepared = page.prepared /\ page'.view = page.view
  BY <1>3 DEF PageRecords
<1>5. ~socket.up /\ UNCHANGED <<topic, current, clock, work, sample, troubles>>
  BY DEF Connect
<1>6. /\ socket'.up = TRUE /\ socket'.serves = socket.serves /\ socket'.step = socket.step
      /\ socket'.subscriber = socket.subscriber + 1
      /\ socket'.channel = <<>> /\ socket'.closed = FALSE /\ socket'.flagged = FALSE /\ socket'.signal = FALSE
  BY <1>1, <1>2, SubscriberFields
<1> QED BY <1>4, <1>5, <1>6

\* A listener that is prepared, starts or stops: nobody becomes fresh.
LEMMA ListenerCases ==
  ASSUME AppTypes, NEW l \in Listeners, Prepare(l) \/ StartListening(l) \/ StopListening(l)
  PROVE  /\ UNCHANGED <<topic, current, clock, work, socket, sample, troubles>>
         /\ page'.wrong = page.wrong
         /\ \A m \in Listeners : m # l => page'.view[m] = page.view[m]
         /\ \/ /\ l \notin page.listening
               /\ page'.listening = page.listening /\ page'.fresh = page.fresh
               /\ page'.opened = page.opened /\ page'.asks = page.asks
            \/ /\ page'.view = page.view /\ page'.listening = page.listening \cup {l} /\ page'.fresh = page.fresh
               /\ page'.opened = IF socket.serves THEN page.opened ELSE page.opened \cup {l}
               /\ page'.asks = IF socket.up THEN {TRUE} ELSE {}
            \/ /\ page'.listening = page.listening \ {l} /\ page'.fresh = page.fresh \ {l} /\ page'.opened = page.opened \ {l}
               /\ page'.asks = IF socket.up THEN {page.listening \ {l} # {}} ELSE {}
<1>0. page \in PageRecords
  BY DEF AppTypes
<1>1. UNCHANGED <<topic, current, clock, work, socket, sample, troubles>>
  BY DEF Prepare, StartListening, StopListening
<1>2. ASSUME NEW pg \in PageRecords
      PROVE  /\ Asks(pg).asks = (IF socket.up THEN {pg.listening # {}} ELSE {}) /\ Asks(pg).listening = pg.listening
             /\ Asks(pg).view = pg.view /\ Asks(pg).fresh = pg.fresh /\ Asks(pg).opened = pg.opened /\ Asks(pg).wrong = pg.wrong
  BY DEF Asks, Newest, PageRecords
<1>3. CASE Prepare(l)
  <2> DEFINE shown == IF l \in Readers THEN Shown(current) ELSE Blank
             more  == page.prepared \cup {l}
             next  == page.visits + 1
  <2>1. page' = [page EXCEPT !.view[l] = shown, !.prepared = more, !.visits = next] /\ l \notin page.listening
    BY <1>3 DEF Prepare
  <2> HIDE DEF shown, more, next
  <2>2. /\ page'.wrong = page.wrong /\ page'.listening = page.listening /\ page'.fresh = page.fresh
        /\ page'.opened = page.opened /\ page'.asks = page.asks
        /\ \A m \in Listeners : m # l => page'.view[m] = page.view[m]
    BY <1>0, <2>1 DEF PageRecords
  <2> QED BY <1>1, <2>1, <2>2
<1>4. CASE StartListening(l)
  <2> DEFINE pg == [page EXCEPT !.prepared = @ \ {l}, !.listening = @ \cup {l}, !.opened = IF socket.serves THEN @ ELSE @ \cup {l}]
  <2>1. page' = Asks(pg)
    BY <1>4 DEF StartListening
  <2>2. /\ pg \in PageRecords /\ pg.listening = page.listening \cup {l} /\ pg.fresh = page.fresh /\ pg.wrong = page.wrong
        /\ pg.opened = (IF socket.serves THEN page.opened ELSE page.opened \cup {l}) /\ pg.view = page.view
    BY <1>0 DEF PageRecords
  <2> HIDE DEF pg
  <2>3. pg.listening # {}
    BY <2>2
  <2> QED BY <1>1, <1>2, <2>1, <2>2, <2>3
<1>5. CASE StopListening(l)
  <2> DEFINE pg == [page EXCEPT !.listening = @ \ {l}, !.fresh = @ \ {l}, !.opened = @ \ {l}, !.view[l] = Blank]
  <2>1. page' = Asks(pg)
    BY <1>5 DEF StopListening
  <2>2. /\ pg \in PageRecords /\ pg.listening = page.listening \ {l} /\ pg.fresh = page.fresh \ {l} /\ pg.wrong = page.wrong
        /\ pg.opened = page.opened \ {l} /\ \A m \in Listeners : m # l => pg.view[m] = page.view[m]
    BY <1>0, StreamConstants DEF PageRecords
  <2> HIDE DEF pg
  <2> QED BY <1>1, <1>2, <2>1, <2>2
<1> QED BY <1>3, <1>4, <1>5

\* A change that is merged, by its fields.
LEMMA MergesFields ==
  ASSUME NEW pg \in PageRecords, NEW D \in SUBSET Items, NEW change \in [D -> 0..MaxStamp]
  PROVE  /\ Merges(pg, change).asks = pg.asks /\ Merges(pg, change).listening = pg.listening
         /\ Merges(pg, change).opened = pg.opened /\ Merges(pg, change).fresh = pg.fresh
         /\ Merges(pg, change).wrong = pg.wrong /\ Merges(pg, change).prepared = pg.prepared
<1> DEFINE new == Merges(pg, change).view
<1>1. Merges(pg, change) = [pg EXCEPT !.view = new]
  BY MergesPage
<1> HIDE DEF new
<1>2. /\ [pg EXCEPT !.view = new].asks = pg.asks /\ [pg EXCEPT !.view = new].listening = pg.listening
      /\ [pg EXCEPT !.view = new].opened = pg.opened /\ [pg EXCEPT !.view = new].fresh = pg.fresh
      /\ [pg EXCEPT !.view = new].wrong = pg.wrong /\ [pg EXCEPT !.view = new].prepared = pg.prepared
  BY DEF PageRecords
<1> QED BY <1>1, <1>2

\* What is sent for an event of the conversations or of a chat.
Now(known, event) == IF topic = "sessions" THEN SessionWindow(known, event.item) ELSE current

LEMMA DifferenceCases ==
  ASSUME AppTypes, NEW s \in SocketRecords, NEW event \in Changes, SendDifference(s, event)
  PROVE  /\ socket'.up = s.up /\ socket'.serves = s.serves /\ socket'.step = s.step
         /\ socket'.subscriber = s.subscriber /\ socket'.channel = s.channel
         /\ socket'.closed = s.closed /\ socket'.flagged = s.flagged /\ socket'.signal = s.signal
         /\ page'.asks = page.asks /\ page'.listening = page.listening /\ page'.opened = page.opened
         /\ page'.prepared = page.prepared /\ page'.fresh = page.fresh
         /\ \/ page'.wrong = TRUE
            \/ /\ s.known \in Contents /\ Now(s.known, event) \in Contents /\ page'.wrong = page.wrong
               /\ socket'.known = Now(s.known, event)
               /\ page' = Merges(page, Delta(s.known, Now(s.known, event)))
<1> DEFINE now == Now(s.known, event)
<1>0. page \in PageRecords
  BY DEF AppTypes
<1>1. CASE socket' = s /\ page' = ShowsError(page)
  <2>1. page' = [page EXCEPT !.wrong = TRUE]
    BY <1>1 DEF ShowsError
  <2>2. /\ page'.asks = page.asks /\ page'.listening = page.listening /\ page'.opened = page.opened
        /\ page'.prepared = page.prepared /\ page'.fresh = page.fresh /\ page'.wrong = TRUE
    BY <1>0, <2>1 DEF PageRecords
  <2> QED BY <1>1, <2>2
<1>2. CASE s.known # NotKnown /\ socket' = [s EXCEPT !.known = now] /\ page' = Merges(page, Delta(s.known, now))
  <2>1. s.known \in Contents
    BY <1>2 DEF SocketRecords
  <2>2. now \in Contents
    BY <2>1, WindowContents DEF AppTypes, Changes, Now
  <2> HIDE DEF now
  <2>3. /\ socket'.up = s.up /\ socket'.serves = s.serves /\ socket'.step = s.step
        /\ socket'.subscriber = s.subscriber /\ socket'.channel = s.channel
        /\ socket'.closed = s.closed /\ socket'.flagged = s.flagged /\ socket'.signal = s.signal
        /\ socket'.known = now
    BY <1>2 DEF SocketRecords
  <2>4. /\ page'.asks = page.asks /\ page'.listening = page.listening /\ page'.opened = page.opened
        /\ page'.prepared = page.prepared /\ page'.fresh = page.fresh /\ page'.wrong = page.wrong
    <3> DEFINE D      == {j \in Items : s.known[j] # now[j]}
               change == Delta(s.known, now)
    <3>1. D \in SUBSET Items /\ change \in [D -> 0..MaxStamp]
      BY <2>1, <2>2, DeltaChange
    <3>2. page' = Merges(page, change)
      BY <1>2
    <3> HIDE DEF D, change
    <3> QED BY <1>0, <3>1, <3>2, MergesFields
  <2> QED BY <1>2, <2>1, <2>2, <2>3, <2>4 DEF now
<1>3. \/ socket' = s /\ page' = ShowsError(page)
      \/ s.known # NotKnown /\ socket' = [s EXCEPT !.known = now] /\ page' = Merges(page, Delta(s.known, now))
  BY DEF SendDifference, Now
<1> QED BY <1>1, <1>2, <1>3

\* A sample that is sent.
LEMMA SampleFields ==
  ASSUME AppTypes, SampleNow
  PROVE  /\ UNCHANGED <<topic, current, clock, work, troubles>> /\ topic \in SampledTopics /\ socket.up /\ socket.serves
         /\ socket.step = "select"
         /\ socket'.up = socket.up /\ socket'.serves = socket.serves /\ socket'.step = socket.step
         /\ socket'.subscriber = socket.subscriber /\ socket'.channel = socket.channel
         /\ socket'.closed = socket.closed /\ socket'.flagged = socket.flagged /\ socket'.signal = socket.signal
         /\ page'.asks = page.asks /\ page'.listening = page.listening /\ page'.opened = page.opened
         /\ page'.prepared = page.prepared /\ page'.fresh = page.listening /\ page'.wrong = FALSE
         /\ \A l \in page.listening : page'.view[l] = socket'.known
<1> DEFINE payload == IF sample = NotKnown THEN current ELSE sample
<1>1. socket' = [socket EXCEPT !.known = payload] /\ page' = ShowsAll(page, payload)
      /\ UNCHANGED <<topic, current, clock, work, troubles>> /\ topic \in SampledTopics /\ socket.up /\ socket.serves
      /\ socket.step = "select"
  BY DEF SampleNow, Selects
<1>2. socket \in SocketRecords /\ page \in PageRecords
  BY DEF AppTypes
<1> HIDE DEF payload
<1>3. /\ socket'.up = socket.up /\ socket'.serves = socket.serves /\ socket'.step = socket.step
      /\ socket'.subscriber = socket.subscriber /\ socket'.channel = socket.channel /\ socket'.known = payload
      /\ socket'.closed = socket.closed /\ socket'.flagged = socket.flagged /\ socket'.signal = socket.signal
  BY <1>1, <1>2 DEF SocketRecords
<1>4. /\ page'.asks = page.asks /\ page'.listening = page.listening /\ page'.opened = page.opened
      /\ page'.prepared = page.prepared /\ page'.fresh = page.listening /\ page'.wrong = FALSE
      /\ \A l \in page.listening : page'.view[l] = payload
  BY <1>1, <1>2 DEF PageRecords, ShowsAll
<1> QED BY <1>1, <1>3, <1>4

\* A snapshot of the MCP activity.
LEMMA ActivityFields ==
  ASSUME AppTypes, SendActivitySnapshot
  PROVE  /\ UNCHANGED <<topic, current, clock, work, sample>> /\ socket.up /\ socket.step = "snapshot"
         /\ socket'.up = socket.up /\ socket'.serves = socket.serves /\ socket'.step = "select"
         /\ socket'.subscriber = socket.subscriber /\ socket'.channel = socket.channel
         /\ socket'.closed = socket.closed /\ socket'.flagged = socket.flagged /\ socket'.signal = socket.signal
         /\ page'.asks = page.asks /\ page'.listening = page.listening /\ page'.opened = page.opened
         /\ page'.prepared = page.prepared
         /\ \/ /\ page'.fresh = page.listening /\ page'.wrong = FALSE /\ socket'.known = Shown(current)
               /\ \A l \in page.listening : page'.view[l] = Shown(current)
            \/ page'.wrong = TRUE /\ page'.fresh = page.fresh
<1> DEFINE s == [socket EXCEPT !.step = "select"]
<1>1. /\ s \in SocketRecords /\ s.up = socket.up /\ s.serves = socket.serves /\ s.step = "select"
      /\ s.subscriber = socket.subscriber /\ s.channel = socket.channel
      /\ s.closed = socket.closed /\ s.flagged = socket.flagged /\ s.signal = socket.signal
  BY DEF AppTypes, SocketRecords
<1>2. SendSnapshot(s, page) /\ UNCHANGED <<topic, current, clock, work, sample>> /\ socket.up /\ socket.step = "snapshot"
  BY DEF SendActivitySnapshot
<1>3. page \in PageRecords
  BY DEF AppTypes
<1> HIDE DEF s
<1> QED BY <1>1, <1>2, <1>3, SentFields

\* The steps.
LEMMA StreamCases ==
  ASSUME [AppNext]_appVars
  PROVE  \/ UNCHANGED appVars
         \/ \E p \in Publishers, i \in Items, stamp \in 0..MaxStamp : ChangeItem(p, i, stamp)
         \/ \E p \in Publishers : Publishing(p)
         \/ TakeSubscription \/ SendActivitySnapshot \/ TakeEvent \/ TakeSignal \/ SampleNow
         \/ SampleForAnother \/ SampleExpires \/ LoseSocket \/ Connect
         \/ \E l \in Listeners : Prepare(l) \/ StartListening(l) \/ StopListening(l)
BY DEF AppNext, ServeSocket

---------------------------------------------------------------------------
(* The socket and the page *)

LEMMA TopicKinds ==
  /\ StateTopics \cap PushTopics = {} /\ "health" \notin StateTopics \cup PushTopics \cup FlaggedTopics
  /\ FlaggedTopics \subseteq PushTopics /\ "tasks" \in PushTopics /\ "mcp_activity" \in PushTopics
  /\ {"tasks", "mcp_activity"} \cap FlaggedTopics = {}
BY DEF StateTopics, PushTopics, FlaggedTopics

LEMMA SocketStoryStep ==
  ASSUME AppTypes, SocketStory, WorkStory, [AppNext]_appVars
  PROVE  SocketStory'
<1>0. socket \in SocketRecords /\ socket.channel \in Seq(Changes \cup {Resync}) /\ Resync \notin Changes
      /\ socket.signal \in BOOLEAN /\ socket.closed \in BOOLEAN /\ socket.up \in BOOLEAN /\ socket.serves \in BOOLEAN
  BY StreamConstants DEF AppTypes, SocketRecords
<1>e. ~Holds(<<>>, Resync)
  BY EmptyHolds
<1>1. CASE UNCHANGED <<topic, socket>>
  BY <1>1 DEF SocketStory
<1>2. ASSUME NEW p \in Publishers, NEW i \in Items, NEW stamp \in 0..MaxStamp, ChangeItem(p, i, stamp)
      PROVE  SocketStory'
  <2> DEFINE event == [item |-> i, stamp |-> stamp]
  <2>1. event \in Changes
    BY DEF Changes
  <2>8. \/ UNCHANGED socket
        \/ /\ topic \in FlaggedTopics /\ socket.up /\ socket.serves
           /\ socket'.channel = Append(socket.channel, event)
           /\ socket'.signal = socket.signal /\ socket'.flagged = socket.flagged
        \/ /\ topic \in FlaggedTopics /\ socket.up /\ socket.serves
           /\ socket'.channel = socket.channel /\ socket'.signal = TRUE /\ socket'.flagged = TRUE
    <3>1. \/ topic \in FlaggedTopics /\ UNCHANGED <<socket, work>> /\ (~(socket.up /\ socket.serves) \/ socket.flagged)
          \/ /\ topic \in FlaggedTopics /\ UNCHANGED work /\ socket.up /\ socket.serves
             /\ socket'.channel = Append(socket.channel, event)
             /\ socket'.signal = socket.signal /\ socket'.flagged = socket.flagged
          \/ /\ topic \in FlaggedTopics /\ UNCHANGED work /\ socket.up /\ socket.serves
             /\ socket'.channel = socket.channel /\ socket'.signal = TRUE /\ socket'.flagged = TRUE
          \/ topic = "health" /\ UNCHANGED <<socket, work>>
          \/ /\ topic \notin FlaggedTopics \cup {"health"} /\ UNCHANGED socket
             /\ work' = [work EXCEPT ![p] = [at |-> "changed", item |-> i, stamp |-> stamp, to |-> 0]]
      BY <1>2, ChangeCases, Zenon
    <3> QED BY <3>1
  <2> HIDE DEF event
  <2>2. \A x : Holds(Append(socket.channel, event), x) <=> Holds(socket.channel, x) \/ x = event
    BY <1>0, <2>1, AppendHolds
  <2>3. event # Resync
    BY <1>0, <2>1
  <2>4. topic' = topic
    BY <1>2, ChangeCases
  <2>5. CASE UNCHANGED socket
    BY <1>1, <2>4, <2>5
  <2>6. CASE /\ topic \in FlaggedTopics /\ socket.up /\ socket.serves
             /\ socket'.channel = Append(socket.channel, event)
             /\ socket'.signal = socket.signal /\ socket'.flagged = socket.flagged
    <3>1. socket'.up = socket.up /\ socket'.serves = socket.serves /\ socket'.step = socket.step /\ socket'.closed = socket.closed
      BY <1>2, ChangeCases
    <3>2. ~Holds(socket.channel, Resync)
      BY <2>6, TopicKinds DEF SocketStory
    <3> QED BY <2>2, <2>3, <2>4, <2>6, <3>1, <3>2, TopicKinds DEF SocketStory
  <2>7. CASE /\ topic \in FlaggedTopics /\ socket.up /\ socket.serves
             /\ socket'.channel = socket.channel /\ socket'.signal = TRUE /\ socket'.flagged = TRUE
    <3>1. socket'.up = socket.up /\ socket'.serves = socket.serves /\ socket'.step = socket.step /\ socket'.closed = socket.closed
      BY <1>2, ChangeCases
    <3> QED BY <2>4, <2>7, <3>1, TopicKinds DEF SocketStory
  <2> QED BY <2>5, <2>6, <2>7, <2>8
<1>3. ASSUME NEW p \in Publishers, Publishing(p)
      PROVE  SocketStory'
  <2>0. /\ topic' = topic /\ socket'.up = socket.up /\ socket'.serves = socket.serves /\ socket'.step = socket.step
        /\ socket'.flagged = socket.flagged
    BY <1>3, PublishingCases
  <2>1. Event(work[p]) \in Changes /\ Event(work[p]) # Resync
    BY StreamConstants DEF AppTypes, WorkRecords, Event, Changes
  <2>2. WorkOf(p)
    BY DEF WorkStory
  <2>3. CASE UNCHANGED socket
    BY <1>1, <2>0, <2>3
  <2>4. CASE /\ socket'.channel = Append(socket.channel, Event(work[p]))
             /\ socket'.closed = socket.closed /\ socket'.signal = socket.signal
             /\ \/ work[p].at = "sending" /\ Reaches(p) /\ topic \in StateTopics \cup {"tasks"}
                \/ work[p].at = "changed" /\ Registered /\ topic = "mcp_activity"
    <3>1. Holds(socket'.channel, Resync) <=> Holds(socket.channel, Resync)
      BY <1>0, <2>1, <2>4, AppendHolds
    <3>2. socket.up /\ (topic \in PushTopics => socket.serves) /\ topic # "health"
      BY <2>2, <2>4, TopicKinds DEF Reaches, Registered, WorkOf
    <3> QED BY <2>0, <2>4, <3>1, <3>2, TopicKinds DEF SocketStory
  <2>5. CASE /\ socket'.signal = TRUE /\ socket'.channel = socket.channel /\ socket'.closed = socket.closed
             /\ Reaches(p) /\ topic \in StateTopics
    <3>1. socket.up /\ topic # "health" /\ topic \notin PushTopics /\ topic \notin FlaggedTopics
      BY <2>5, TopicKinds DEF Reaches
    <3> QED BY <2>0, <2>5, <3>1 DEF SocketStory
  <2>6. CASE /\ socket'.closed = TRUE /\ socket'.channel = socket.channel /\ socket'.signal = socket.signal
             /\ Registered /\ topic = "mcp_activity"
    <3>1. socket.up
      BY <2>6 DEF Registered
    <3> QED BY <2>0, <2>6, <3>1 DEF SocketStory
  <2>7. CASE /\ socket'.channel = Tail(socket.channel) /\ socket.channel # <<>>
             /\ socket'.closed = socket.closed /\ socket'.signal = socket.signal
    <3>1. Holds(socket'.channel, Resync) => Holds(socket.channel, Resync)
      BY <1>0, <2>7, TailHolds
    <3> QED BY <2>0, <2>7, <3>1 DEF SocketStory
  <2>8. CASE /\ work[p].at = "full" /\ Reaches(p) /\ socket'.channel = Append(socket.channel, Resync)
             /\ socket'.closed = socket.closed /\ socket'.signal = socket.signal
    <3>1. topic = "tasks" /\ socket.up /\ socket.serves
      BY <2>2, <2>8 DEF WorkOf, Reaches
    <3> QED BY <2>0, <2>8, <3>1, TopicKinds DEF SocketStory
  <2> QED BY <1>3, <2>3, <2>4, <2>5, <2>6, <2>7, <2>8, PublishingCases
<1>4. CASE TakeSubscription
  <2>0. topic' = topic /\ socket.up /\ socket.step = "select"
    BY <1>4 DEF TakeSubscription, Selects
  <2>1. CASE UNCHANGED socket
    BY <1>1, <2>0, <2>1
  <2>2. CASE /\ socket'.up = socket.up /\ socket'.serves = FALSE /\ socket'.step = socket.step
             /\ \/ /\ topic \in PushTopics /\ socket'.channel = <<>>
                   /\ socket'.closed = FALSE /\ socket'.flagged = FALSE /\ socket'.signal = FALSE
                \/ /\ topic \notin PushTopics /\ socket'.channel = socket.channel
                   /\ socket'.closed = socket.closed /\ socket'.flagged = socket.flagged /\ socket'.signal = socket.signal
    BY <1>e, <2>0, <2>2, TopicKinds DEF SocketStory
  <2>3. CASE /\ topic = "mcp_activity" /\ socket'.up = socket.up /\ socket'.serves = TRUE /\ socket'.channel = <<>>
             /\ socket'.closed = FALSE /\ socket'.flagged = FALSE /\ socket'.signal = FALSE
    BY <1>e, <2>0, <2>3, TopicKinds DEF SocketStory
  <2>4. CASE topic \in PushTopics \ {"mcp_activity"} /\ OpenPush([page EXCEPT !.asks = {}])
    <3>1. /\ socket'.up = socket.up /\ socket'.serves = TRUE /\ socket'.step = socket.step
          /\ socket'.channel = <<>> /\ socket'.closed = FALSE /\ socket'.flagged = FALSE /\ socket'.signal = FALSE
      BY <1>4, <2>4, SubscriptionCases, OpenFields
    <3> QED BY <1>e, <2>0, <2>4, <3>1, TopicKinds DEF SocketStory
  <2>5. CASE /\ ~socket.serves /\ topic \notin PushTopics /\ [socket EXCEPT !.serves = TRUE] \in SocketRecords
             /\ SendSnapshot([socket EXCEPT !.serves = TRUE], [page EXCEPT !.asks = {}])
    <3> DEFINE s == [socket EXCEPT !.serves = TRUE]
    <3>1. /\ s \in SocketRecords /\ s.up = socket.up /\ s.serves = TRUE /\ s.step = socket.step /\ s.channel = socket.channel
          /\ s.closed = socket.closed /\ s.flagged = socket.flagged /\ s.signal = socket.signal
      BY <1>0, <2>5 DEF SocketRecords
    <3>2. [page EXCEPT !.asks = {}] \in PageRecords
      BY <1>4, SubscriptionCases
    <3>3. SendSnapshot(s, [page EXCEPT !.asks = {}])
      BY <2>5
    <3> HIDE DEF s
    <3>4. /\ socket'.up = socket.up /\ socket'.serves = TRUE /\ socket'.step = socket.step /\ socket'.channel = socket.channel
          /\ socket'.closed = socket.closed /\ socket'.flagged = socket.flagged /\ socket'.signal = socket.signal
      BY <3>1, <3>2, <3>3, SentFields
    <3> QED BY <2>0, <2>5, <3>4, TopicKinds DEF SocketStory
  <2> QED BY <1>4, <2>1, <2>2, <2>3, <2>4, <2>5, SubscriptionCases
<1>5. CASE SendActivitySnapshot
  <2>1. /\ topic' = topic /\ socket'.up = socket.up /\ socket'.serves = socket.serves /\ socket'.step = "select"
        /\ socket'.channel = socket.channel
        /\ socket'.closed = socket.closed /\ socket'.flagged = socket.flagged /\ socket'.signal = socket.signal
    BY <1>5, ActivityFields
  <2> QED BY <2>1 DEF SocketStory
<1>6. CASE TakeEvent
  <2> DEFINE rest == [socket EXCEPT !.channel = Tail(@)]
  <2>0. /\ topic' = topic /\ rest \in SocketRecords /\ page \in PageRecords /\ socket.channel # <<>>
        /\ socket.up /\ socket.step = "select"
    BY <1>6, EventCases DEF AppTypes
  <2>1. /\ rest.up = socket.up /\ rest.serves = socket.serves /\ rest.step = socket.step
        /\ rest.channel = Tail(socket.channel)
        /\ rest.closed = socket.closed /\ rest.flagged = socket.flagged /\ rest.signal = socket.signal
    BY RestFields
  <2>2. Holds(Tail(socket.channel), Resync) => Holds(socket.channel, Resync)
    BY <1>0, <2>0, TailHolds
  <2>3. \/ Head(socket.channel) = Resync /\ OpenPush(page)
        \/ socket' = rest
        \/ Head(socket.channel) \in Changes /\ SendDifference(rest, Head(socket.channel))
        \/ SendSnapshot(rest, page)
    BY <1>6, EventCases
  <2> HIDE DEF rest
  <2>4. CASE Head(socket.channel) = Resync /\ OpenPush(page)
    <3>1. Holds(socket.channel, Resync)
      BY <1>0, <2>0, <2>4, TailHolds
    <3>2. /\ socket'.up = socket.up /\ socket'.serves = TRUE /\ socket'.step = socket.step
          /\ socket'.channel = <<>> /\ socket'.closed = FALSE /\ socket'.flagged = FALSE /\ socket'.signal = FALSE
      BY <2>0, <2>4, OpenFields
    <3> QED BY <1>e, <2>0, <3>1, <3>2 DEF SocketStory
  <2>5. CASE ~(Head(socket.channel) = Resync /\ OpenPush(page))
    <3>1. /\ socket'.up = socket.up /\ socket'.serves = socket.serves /\ socket'.step = socket.step
          /\ socket'.channel = Tail(socket.channel)
          /\ socket'.closed = socket.closed /\ socket'.flagged = socket.flagged /\ socket'.signal = socket.signal
      <4>1. CASE socket' = rest
        BY <2>1, <4>1
      <4>2. CASE Head(socket.channel) \in Changes /\ SendDifference(rest, Head(socket.channel))
        BY <2>0, <2>1, <4>2, DifferenceCases
      <4>3. CASE SendSnapshot(rest, page)
        BY <2>0, <2>1, <4>3, SentFields
      <4> QED BY <2>3, <2>5, <4>1, <4>2, <4>3
    <3>2. Tail(socket.channel) = <<>> \/ socket.channel # <<>>
      BY <2>0
    <3> QED BY <2>0, <2>2, <3>1 DEF SocketStory
  <2> QED BY <2>4, <2>5
<1>7. CASE TakeSignal
  <2>0. topic' = topic /\ page \in PageRecords /\ socket.up /\ socket.step = "select"
    BY <1>7, SignalCases DEF AppTypes
  <2>1. CASE topic \in PushTopics /\ OpenPush(page)
    <3>1. /\ socket'.up = socket.up /\ socket'.serves = TRUE /\ socket'.step = socket.step
          /\ socket'.channel = <<>> /\ socket'.closed = FALSE /\ socket'.flagged = FALSE /\ socket'.signal = FALSE
      BY <2>0, <2>1, OpenFields
    <3> QED BY <1>e, <2>0, <2>1, <3>1, TopicKinds DEF SocketStory
  <2>2. ASSUME NEW drained \in SocketRecords, topic \notin PushTopics,
               drained.up = socket.up, drained.serves = socket.serves, drained.step = socket.step, drained.channel = <<>>,
               drained.closed = socket.closed, drained.flagged = socket.flagged, drained.signal = FALSE,
               IF socket.serves THEN SendSnapshot(drained, page) ELSE socket' = drained /\ UNCHANGED <<page, troubles>>
        PROVE  SocketStory'
    <3>1. /\ socket'.up = socket.up /\ socket'.serves = socket.serves /\ socket'.step = socket.step /\ socket'.channel = <<>>
          /\ socket'.closed = socket.closed /\ socket'.flagged = socket.flagged /\ socket'.signal = FALSE
      <4>1. CASE SendSnapshot(drained, page)
        BY <2>0, <2>2, <4>1, SentFields
      <4>2. CASE socket' = drained
        BY <2>2, <4>2
      <4> QED BY <2>2, <4>1, <4>2
    <3> QED BY <1>e, <2>0, <2>2, <3>1, TopicKinds DEF SocketStory
  <2> QED BY <1>7, <2>1, <2>2, SignalCases
<1>8. CASE SampleNow
  <2>1. /\ topic' = topic /\ socket'.up = socket.up /\ socket'.serves = socket.serves /\ socket'.step = socket.step
        /\ socket'.channel = socket.channel
        /\ socket'.closed = socket.closed /\ socket'.flagged = socket.flagged /\ socket'.signal = socket.signal
    BY <1>8, SampleFields
  <2> QED BY <2>1 DEF SocketStory
<1>9. CASE LoseSocket
  BY <1>e, <1>9, LostFields DEF SocketStory
<1>10. CASE Connect
  BY <1>e, <1>10, ConnectedFields, TopicKinds DEF SocketStory
<1>11. CASE SampleForAnother \/ SampleExpires \/ UNCHANGED appVars
  BY <1>1, <1>11 DEF SampleForAnother, SampleExpires, appVars
<1>12. ASSUME NEW l \in Listeners, Prepare(l) \/ StartListening(l) \/ StopListening(l) PROVE SocketStory'
  BY <1>1, <1>12, ListenerCases
<1> QED BY <1>2, <1>3, <1>4, <1>5, <1>6, <1>7, <1>8, <1>9, <1>10, <1>11, <1>12, StreamCases

LEMMA PageStoryStep ==
  ASSUME AppTypes, SocketStory, PageStory, [AppNext]_appVars
  PROVE  PageStory'
<1>0. page \in PageRecords /\ page.asks \in SUBSET BOOLEAN /\ page.listening \in SUBSET Listeners
  BY DEF AppTypes, PageRecords
<1>1. CASE UNCHANGED page /\ socket'.up = socket.up /\ socket'.serves = socket.serves /\ socket'.step = socket.step
  BY <1>1 DEF PageStory
<1>2. ASSUME NEW p \in Publishers, NEW i \in Items, NEW stamp \in 0..MaxStamp, ChangeItem(p, i, stamp)
      PROVE  PageStory'
  <2>1. UNCHANGED page /\ socket'.up = socket.up /\ socket'.serves = socket.serves /\ socket'.step = socket.step
    BY <1>2, ChangeCases
  <2> QED BY <1>1, <2>1
<1>3. ASSUME NEW p \in Publishers, Publishing(p)
      PROVE  PageStory'
  <2>1. UNCHANGED page /\ socket'.up = socket.up /\ socket'.serves = socket.serves /\ socket'.step = socket.step
    BY <1>3, PublishingCases
  <2> QED BY <1>1, <2>1
\* everybody who listens got a snapshot, or sees an error
<1>a. ASSUME page'.listening = page.listening, page'.opened = page.opened, page'.asks = {} \/ page'.asks = page.asks,
             socket'.up = socket.up, socket'.up, socket'.serves, socket'.step = "select",
             \/ page'.fresh = page.listening
             \/ page'.wrong = TRUE /\ page'.fresh = page.fresh
      PROVE  PageStory'
  BY <1>a DEF PageStory
<1>4. CASE TakeSubscription
  <2> DEFINE asked == [page EXCEPT !.asks = {}]
  <2>0. /\ asked \in PageRecords /\ asked.asks = {} /\ asked.listening = page.listening /\ asked.opened = page.opened
        /\ asked.fresh = page.fresh /\ asked.wrong = page.wrong
    BY <1>0 DEF PageRecords
  <2>a. socket.up /\ socket.step = "select" /\ socket \in SocketRecords
    BY <1>4 DEF TakeSubscription, Selects, AppTypes
  <2>1. CASE UNCHANGED socket /\ page' = asked /\ (TRUE \in page.asks) = socket.serves
    BY <2>0, <2>1 DEF PageStory
  <2>2. CASE /\ FALSE \in page.asks /\ page' = asked /\ socket'.up = socket.up /\ socket'.serves = FALSE /\ socket'.step = socket.step
    <3>1. page.listening = {} /\ page.fresh = {} /\ page.opened = {}
      BY <2>2 DEF PageStory
    <3> QED BY <2>0, <2>2, <3>1 DEF PageStory
  <2>3. CASE /\ ~socket.serves /\ page' = asked
             /\ socket'.up = socket.up /\ socket'.serves = TRUE /\ socket'.step = "snapshot"
    <3>1. page.fresh = {}
      BY <2>3 DEF PageStory
    <3> QED BY <2>0, <2>3, <3>1 DEF PageStory
  <2>4. CASE OpenPush(asked)
    <3> HIDE DEF asked
    <3>1. /\ socket'.up = socket.up /\ socket'.serves = TRUE /\ socket'.step = socket.step
          /\ page'.asks = {} /\ page'.listening = page.listening /\ page'.opened = page.opened /\ page'.fresh = page.listening
      BY <2>0, <2>4, OpenFields
    <3> QED BY <1>a, <2>a, <3>1
  <2>5. CASE [socket EXCEPT !.serves = TRUE] \in SocketRecords /\ SendSnapshot([socket EXCEPT !.serves = TRUE], asked)
    <3> DEFINE s == [socket EXCEPT !.serves = TRUE]
    <3>1. s \in SocketRecords /\ s.up = socket.up /\ s.serves = TRUE /\ s.step = socket.step
      BY <2>a, <2>5 DEF SocketRecords
    <3>2. SendSnapshot(s, asked)
      BY <2>5
    <3> HIDE DEF s, asked
    <3>3. /\ socket'.up = socket.up /\ socket'.serves = TRUE /\ socket'.step = socket.step
          /\ page'.asks = {} /\ page'.listening = page.listening /\ page'.opened = page.opened
          /\ (page'.fresh = page.listening \/ (page'.wrong = TRUE /\ page'.fresh = page.fresh))
      BY <2>0, <3>1, <3>2, SentFields
    <3> QED BY <1>a, <2>a, <3>3
  <2> QED BY <1>4, <2>1, <2>2, <2>3, <2>4, <2>5, SubscriptionCases
<1>5. CASE SendActivitySnapshot
  <2>1. socket.serves
    BY <1>5, ActivityFields DEF SocketStory
  <2> QED BY <1>5, <1>a, <2>1, ActivityFields
<1>6. CASE TakeEvent
  <2> DEFINE rest == [socket EXCEPT !.channel = Tail(@)]
  <2>0. /\ rest \in SocketRecords /\ page \in PageRecords /\ socket.channel # <<>>
        /\ socket.up /\ socket.step = "select" /\ socket \in SocketRecords
    BY <1>6, EventCases DEF AppTypes
  <2>1. rest.up = socket.up /\ rest.serves = socket.serves /\ rest.step = socket.step
    BY RestFields
  <2>2. CASE OpenPush(page)
    BY <1>a, <2>0, <2>2, OpenFields
  <2>3. CASE socket' = rest /\ UNCHANGED page
    BY <1>1, <2>1, <2>3
  <2>4. ASSUME page'.listening = page.listening, page'.opened = page.opened, page'.asks = page.asks,
               page'.fresh = page.fresh, page'.wrong = page.wrong \/ page'.wrong = TRUE,
               socket'.up = socket.up, socket'.serves = socket.serves, socket'.step = socket.step
        PROVE  PageStory'
    BY <2>4 DEF PageStory
  <2>5. CASE Head(socket.channel) \in Changes /\ SendDifference(rest, Head(socket.channel))
    <3> HIDE DEF rest
    <3>1. /\ socket'.up = socket.up /\ socket'.serves = socket.serves /\ socket'.step = socket.step
          /\ page'.listening = page.listening /\ page'.opened = page.opened /\ page'.asks = page.asks
          /\ page'.fresh = page.fresh /\ (page'.wrong = page.wrong \/ page'.wrong = TRUE)
      BY <2>0, <2>1, <2>5, DifferenceCases
    <3> QED BY <2>4, <3>1
  <2>6. CASE SendSnapshot(rest, page) /\ socket.serves
    <3> HIDE DEF rest
    <3>1. /\ socket'.up = socket.up /\ socket'.serves = socket.serves /\ socket'.step = socket.step
          /\ page'.asks = page.asks /\ page'.listening = page.listening /\ page'.opened = page.opened
          /\ (page'.fresh = page.listening \/ (page'.wrong = TRUE /\ page'.fresh = page.fresh))
      BY <2>0, <2>1, <2>6, SentFields
    <3> QED BY <1>a, <2>0, <2>6, <3>1
  <2>7. CASE /\ Head(socket.channel) \in Changes /\ socket' = rest
             /\ page' = Merges(page, [i \in {Head(socket.channel).item} |-> Head(socket.channel).stamp])
    <3> DEFINE D      == {Head(socket.channel).item}
               change == [i \in D |-> Head(socket.channel).stamp]
    <3>1. D \in SUBSET Items /\ change \in [D -> 0..MaxStamp] /\ page' = Merges(page, change)
      BY <2>7 DEF Changes
    <3> HIDE DEF D, change
    <3>2. /\ page'.asks = page.asks /\ page'.listening = page.listening /\ page'.opened = page.opened
          /\ page'.fresh = page.fresh /\ page'.wrong = page.wrong
      BY <2>0, <3>1, MergesFields
    <3> QED BY <2>1, <2>4, <2>7, <3>2
  <2> QED BY <1>6, <2>2, <2>3, <2>5, <2>6, <2>7, EventCases
<1>7. CASE TakeSignal
  <2>0. page \in PageRecords /\ socket.up /\ socket.step = "select" /\ socket.serves \in BOOLEAN
    BY <1>7, SignalCases DEF AppTypes, SocketRecords
  <2>1. CASE OpenPush(page)
    BY <1>a, <2>0, <2>1, OpenFields
  <2>2. ASSUME NEW drained \in SocketRecords,
               drained.up = socket.up, drained.serves = socket.serves, drained.step = socket.step,
               IF socket.serves THEN SendSnapshot(drained, page) ELSE socket' = drained /\ UNCHANGED <<page, troubles>>
        PROVE  PageStory'
    <3>1. CASE socket.serves
      <4>1. /\ socket'.up = socket.up /\ socket'.serves = socket.serves /\ socket'.step = socket.step
            /\ page'.asks = page.asks /\ page'.listening = page.listening /\ page'.opened = page.opened
            /\ (page'.fresh = page.listening \/ (page'.wrong = TRUE /\ page'.fresh = page.fresh))
        BY <2>0, <2>2, <3>1, SentFields
      <4> QED BY <1>a, <2>0, <3>1, <4>1
    <3>2. CASE ~socket.serves
      BY <1>1, <2>2, <3>2
    <3> QED BY <2>0, <3>1, <3>2
  <2> QED BY <1>7, <2>1, <2>2, SignalCases
<1>8. CASE SampleNow
  BY <1>8, <1>a, SampleFields
<1>9. CASE LoseSocket
  BY <1>9, LostFields DEF PageStory
<1>10. CASE Connect
  <2>1. ~socket.serves /\ page.fresh = {}
    BY <1>10, ConnectedFields DEF SocketStory, PageStory
  <2> QED BY <1>10, <2>1, ConnectedFields DEF PageStory
<1>11. CASE SampleForAnother \/ SampleExpires \/ UNCHANGED appVars
  BY <1>1, <1>11 DEF SampleForAnother, SampleExpires, appVars
<1>12. ASSUME NEW l \in Listeners, Prepare(l) \/ StartListening(l) \/ StopListening(l) PROVE PageStory'
  <2>0. socket' = socket /\ page'.wrong = page.wrong
    BY <1>12, ListenerCases
  <2>1. CASE /\ page'.listening = page.listening /\ page'.fresh = page.fresh
             /\ page'.opened = page.opened /\ page'.asks = page.asks
    BY <2>0, <2>1 DEF PageStory
  <2>2. CASE /\ page'.listening = page.listening \cup {l} /\ page'.fresh = page.fresh
             /\ page'.opened = (IF socket.serves THEN page.opened ELSE page.opened \cup {l})
             /\ page'.asks = (IF socket.up THEN {TRUE} ELSE {})
    <3>1. CASE socket.serves
      BY <2>0, <2>2, <3>1 DEF PageStory
    <3>2. CASE ~socket.serves
      BY <2>0, <2>2, <3>2 DEF PageStory
    <3> QED BY <3>1, <3>2
  <2>3. CASE /\ page'.listening = page.listening \ {l} /\ page'.fresh = page.fresh \ {l} /\ page'.opened = page.opened \ {l}
             /\ page'.asks = (IF socket.up THEN {page.listening \ {l} # {}} ELSE {})
    <3>1. CASE page.listening \ {l} = {}
      BY <2>0, <2>3, <3>1 DEF PageStory
    <3>2. CASE page.listening \ {l} # {}
      <4>1. page'.asks = (IF socket.up THEN {TRUE} ELSE {})
        BY <2>3, <3>2
      <4> QED BY <2>0, <2>3, <3>2, <4>1 DEF PageStory
    <3> QED BY <3>1, <3>2
  <2> QED BY <1>12, <2>1, <2>2, <2>3, ListenerCases
<1> QED BY <1>2, <1>3, <1>4, <1>5, <1>6, <1>7, <1>8, <1>9, <1>10, <1>11, <1>12, StreamCases

---------------------------------------------------------------------------
(* The publishers *)

\* The socket's subscriber is the same: so is what comes.
LEMMA SameComing ==
  ASSUME UNCHANGED work, socket'.up = socket.up, socket'.subscriber = socket.subscriber
  PROVE  /\ \A q \in Publishers : Coming(q)' = Coming(q) /\ Reaches(q)' = Reaches(q)
         /\ \A i : Carried(i)' = Carried(i)
BY DEF Coming, Carried, Reaches

\* A publisher's step leaves the others where they are.
LEMMA OthersComing ==
  ASSUME AppTypes, NEW p \in Publishers, Publishing(p)
  PROVE  /\ \A q \in Publishers \ {p} : work'[q] = work[q] /\ Coming(q)' = Coming(q) /\ Reaches(q)' = Reaches(q)
         /\ \/ work'[p] = IdleWork /\ ~Registered
            \/ /\ work'[p].at = "sending" /\ work'[p].item = work[p].item /\ work'[p].stamp = work[p].stamp
               /\ work'[p].to = socket.subscriber /\ work[p].at = "changed" /\ topic # "mcp_activity" /\ Registered
            \/ /\ work'[p].at \in {"idle", "full"} /\ work'[p].item = work[p].item /\ work'[p].stamp = work[p].stamp
               /\ work'[p].to = work[p].to
               /\ work'[p].at = "full" => work[p].at = "sending" /\ topic = "tasks"
<1>0. work \in [Publishers -> WorkRecords] /\ socket'.up = socket.up /\ socket'.subscriber = socket.subscriber
  BY PublishingCases DEF AppTypes
<1>1. \/ work' = [work EXCEPT ![p] = IdleWork] /\ ~Registered
      \/ work' = [work EXCEPT ![p] = [@ EXCEPT !.at = "sending", !.to = socket.subscriber]] /\ work[p].at = "changed"
           /\ topic # "mcp_activity" /\ Registered
      \/ work' = [work EXCEPT ![p].at = "idle"]
      \/ work' = [work EXCEPT ![p].at = "full"] /\ work[p].at = "sending" /\ topic = "tasks"
  BY PublishingCases
<1>2. \A q \in Publishers \ {p} : work'[q] = work[q]
  BY <1>0, <1>1
<1>3. \A q \in Publishers \ {p} : Coming(q)' = Coming(q) /\ Reaches(q)' = Reaches(q)
  BY <1>0, <1>2 DEF Coming, Reaches
<1>4. CASE work' = [work EXCEPT ![p] = IdleWork] /\ ~Registered
  BY <1>0, <1>2, <1>3, <1>4
<1>5. CASE work' = [work EXCEPT ![p] = [@ EXCEPT !.at = "sending", !.to = socket.subscriber]] /\ work[p].at = "changed"
             /\ topic # "mcp_activity" /\ Registered
  <2>1. /\ work'[p].at = "sending" /\ work'[p].item = work[p].item /\ work'[p].stamp = work[p].stamp
        /\ work'[p].to = socket.subscriber
    BY <1>0, <1>5 DEF WorkRecords
  <2> QED BY <1>2, <1>3, <1>5, <2>1
<1>6. ASSUME NEW to \in {"idle", "full"}, work' = [work EXCEPT ![p].at = to],
             to = "full" => work[p].at = "sending" /\ topic = "tasks"
      PROVE  /\ work'[p].at \in {"idle", "full"} /\ work'[p].item = work[p].item /\ work'[p].stamp = work[p].stamp
             /\ work'[p].to = work[p].to
             /\ work'[p].at = "full" => work[p].at = "sending" /\ topic = "tasks"
  BY <1>0, <1>6 DEF WorkRecords
<1> QED BY <1>1, <1>2, <1>3, <1>4, <1>5, <1>6

\* So does a change.
LEMMA ChangeComing ==
  ASSUME AppTypes, NEW p \in Publishers, NEW i \in Items, NEW stamp \in 0..MaxStamp, ChangeItem(p, i, stamp)
  PROVE  /\ \A q \in Publishers \ {p} : work'[q] = work[q]
         /\ \A q \in Publishers \ {p} : Coming(q)' = Coming(q) /\ Reaches(q)' = Reaches(q)
         /\ topic \notin FlaggedTopics \cup {"health"} =>
              work'[p] = [at |-> "changed", item |-> i, stamp |-> stamp, to |-> 0] /\ Coming(p)'
         /\ topic \in FlaggedTopics \cup {"health"} => work' = work
         /\ ~Coming(p)
<1>0. work \in [Publishers -> WorkRecords] /\ socket'.up = socket.up /\ socket'.subscriber = socket.subscriber
      /\ work[p].at = "idle"
  BY ChangeCases DEF AppTypes
<1>1. \/ topic \in FlaggedTopics \cup {"health"} /\ work' = work
      \/ /\ topic \notin FlaggedTopics \cup {"health"}
         /\ work' = [work EXCEPT ![p] = [at |-> "changed", item |-> i, stamp |-> stamp, to |-> 0]]
  <2>1. CASE topic \in FlaggedTopics
    <3>1. UNCHANGED work
      BY <2>1 DEF ChangeItem
    <3> QED BY <2>1, <3>1
  <2>2. CASE topic = "health"
    <3>1. UNCHANGED work
      BY <2>2 DEF ChangeItem, FlaggedTopics
    <3> QED BY <2>2, <3>1
  <2>3. CASE topic \notin FlaggedTopics \cup {"health"}
    <3>1. work' = [work EXCEPT ![p] = [at |-> "changed", item |-> i, stamp |-> stamp, to |-> 0]]
      BY <2>3 DEF ChangeItem
    <3> QED BY <2>3, <3>1
  <2> QED BY <2>1, <2>2, <2>3
<1>2. \A q \in Publishers \ {p} : work'[q] = work[q]
  BY <1>0, <1>1
<1>3. \A q \in Publishers \ {p} : Coming(q)' = Coming(q) /\ Reaches(q)' = Reaches(q)
  BY <1>0, <1>2 DEF Coming, Reaches
<1>4. topic \notin FlaggedTopics \cup {"health"} =>
        work'[p] = [at |-> "changed", item |-> i, stamp |-> stamp, to |-> 0] /\ Coming(p)'
  BY <1>0, <1>1 DEF Coming
<1> QED BY <1>0, <1>1, <1>2, <1>3, <1>4 DEF Coming

\* The number of a change.
LEMMA StampCases ==
  ASSUME NEW p, NEW i, NEW stamp, ChangeItem(p, i, stamp)
  PROVE  /\ current' = [current EXCEPT ![i] = stamp] /\ clock' = clock + 1
         /\ stamp = clock + 1 \/ (topic \in {"sessions", "connections"} /\ stamp = 0)
BY DEF ChangeItem, Removable

\* The order of the numbers.
LEMMA StampGrows ==
  ASSUME AppTypes, WorkStory, NEW p \in Publishers, NEW i \in Items, NEW stamp \in 0..MaxStamp, ChangeItem(p, i, stamp)
  PROVE  /\ current'[i] = stamp /\ \A j \in Items \ {i} : current'[j] = current[j]
         /\ clock' = clock + 1 /\ \A j \in Items : current[j] \in Nat /\ current[j] <= clock
         /\ clock \in Nat
         /\ topic \notin {"sessions", "connections"} => current[i] < stamp /\ \A j \in Items : current[j] <= current'[j]
         /\ stamp = 0 \/ \A j \in Items : current[j] < stamp
<1>1. current \in Contents /\ clock \in Nat /\ (\A j \in Items : current[j] <= clock) /\ stamp \in Nat
  BY StreamNumbers DEF AppTypes, WorkStory
<1>2. current' = [current EXCEPT ![i] = stamp] /\ clock' = clock + 1
      /\ (stamp = clock + 1 \/ (topic \in {"sessions", "connections"} /\ stamp = 0))
  BY StampCases
<1>3. \A j \in Items : current[j] \in Nat
  BY <1>1, StreamNumbers DEF Contents
<1>4. current'[i] = stamp /\ \A j \in Items \ {i} : current'[j] = current[j]
  BY <1>1, <1>2 DEF Contents
<1> QED BY <1>1, <1>2, <1>3, <1>4

LEMMA WorkStoryStep ==
  ASSUME AppTypes, AppTypes', SocketStory, WorkStory, [AppNext]_appVars
  PROVE  WorkStory'
<1>0. /\ work \in [Publishers -> WorkRecords] /\ socket.subscriber \in Nat /\ socket'.subscriber \in Nat
      /\ \A q \in Publishers : work[q].to \in Nat /\ work[q].stamp \in Nat /\ work[q].item \in Items
  BY StreamNumbers, SMTT(30) DEF AppTypes, SocketRecords, WorkRecords
<1>a. ASSUME UNCHANGED <<topic, current, clock, work>>,
             \/ topic # "tasks"
             \/ socket'.subscriber >= socket.subscriber /\ (~socket'.up \/ socket'.serves)
             \/ socket'.subscriber > socket.subscriber
             \/ socket'.subscriber = socket.subscriber /\ socket'.up = socket.up /\ socket'.serves = socket.serves
      PROVE  WorkStory'
  <2> SUFFICES ASSUME NEW q \in Publishers PROVE WorkOf(q)'
    BY <1>a DEF WorkStory
  <2>1. WorkOf(q)
    BY DEF WorkStory
  <2>2. topic = "tasks" /\ work[q].at \in {"sending", "full"} =>
          work[q].to <= socket'.subscriber /\ (socket'.up /\ work[q].to = socket'.subscriber => socket'.serves)
    BY <1>0, <1>a, <2>1 DEF WorkOf, Reaches
  <2> QED BY <1>a, <2>1, <2>2 DEF WorkOf, Reaches
<1>2. ASSUME NEW p \in Publishers, NEW i \in Items, NEW stamp \in 0..MaxStamp, ChangeItem(p, i, stamp)
      PROVE  WorkStory'
  <2>1. /\ current'[i] = stamp /\ (\A j \in Items \ {i} : current'[j] = current[j]) /\ clock' = clock + 1
        /\ (topic \notin {"sessions", "connections"} => \A j \in Items : current[j] <= current'[j])
        /\ clock \in Nat /\ \A j \in Items : current[j] \in Nat /\ current[j] <= clock
    BY <1>2, StampGrows
  <2>2. stamp = clock + 1 \/ stamp = 0
    BY <1>2, StampCases
  <2>3. \A j \in Items : current'[j] <= clock'
    BY <2>1, <2>2
  <2>4. /\ topic' = topic /\ socket'.up = socket.up /\ socket'.subscriber = socket.subscriber /\ socket'.serves = socket.serves
        /\ work[p].at = "idle"
        /\ topic \in {"connections", "mcp_activity"} => \A q \in Publishers \ {p} : work[q].at = "idle" \/ work[q].item # i
    BY <1>2, ChangeCases
  <2>5. /\ \A q \in Publishers \ {p} : work'[q] = work[q]
        /\ topic \notin FlaggedTopics \cup {"health"} => work'[p] = [at |-> "changed", item |-> i, stamp |-> stamp, to |-> 0]
        /\ topic \in FlaggedTopics \cup {"health"} => work' = work
    BY <1>2, ChangeComing
  <2>6. ASSUME NEW q \in Publishers, work'[q] = work[q], q = p => topic \in FlaggedTopics \cup {"health"} PROVE WorkOf(q)'
    <3>1. WorkOf(q)
      BY DEF WorkStory
    <3>2. work[q].at # "idle" /\ topic \in {"connections", "mcp_activity"} =>
            /\ work[q].stamp = current'[work[q].item]
            /\ \A o \in Publishers \ {q} : work'[o].at = "idle" \/ work'[o].item # work[q].item
      <4> SUFFICES ASSUME work[q].at # "idle", topic \in {"connections", "mcp_activity"}
                   PROVE  /\ work[q].stamp = current'[work[q].item]
                          /\ \A o \in Publishers \ {q} : work'[o].at = "idle" \/ work'[o].item # work[q].item
        OBVIOUS
      <4>1. q # p /\ work[q].item # i
        BY <2>4
      <4>2. topic \notin FlaggedTopics \cup {"health"}
        BY DEF FlaggedTopics
      <4>3. work[q].stamp = current[work[q].item] /\ \A o \in Publishers \ {q} : work[o].at = "idle" \/ work[o].item # work[q].item
        BY <3>1 DEF WorkOf
      <4>4. work'[p].item = i
        BY <2>5, <4>2
      <4> QED BY <1>0, <2>1, <2>5, <4>1, <4>3, <4>4
    <3>3. topic \in RevisionTopics => work[q].stamp <= current'[work[q].item]
      <4> SUFFICES ASSUME topic \in RevisionTopics PROVE work[q].stamp <= current'[work[q].item]
        OBVIOUS
      <4>1. topic \notin {"sessions", "connections"}
        BY DEF RevisionTopics
      <4>2. work[q].stamp <= current[work[q].item] /\ current[work[q].item] <= current'[work[q].item]
        BY <1>0, <2>1, <3>1, <4>1 DEF WorkOf
      <4>3. current'[work[q].item] \in Nat
        BY <1>0, StreamNumbers DEF AppTypes, Contents
      <4> QED BY <1>0, <2>1, <4>2, <4>3
    <3> QED BY <2>4, <2>6, <3>1, <3>2, <3>3 DEF WorkOf, Reaches
  <2>7. topic \notin FlaggedTopics \cup {"health"} => WorkOf(p)'
    <3> SUFFICES ASSUME topic \notin FlaggedTopics \cup {"health"} PROVE WorkOf(p)'
      OBVIOUS
    <3>1. work'[p].at = "changed" /\ work'[p].item = i /\ work'[p].stamp = stamp
      BY <2>5
    <3>2. topic \in {"connections", "mcp_activity"} => \A q \in Publishers \ {p} : work'[q].at = "idle" \/ work'[q].item # i
      BY <2>4, <2>5
    <3>3. stamp <= current'[i]
      BY <2>1
    <3> QED BY <2>1, <2>4, <3>1, <3>2, <3>3 DEF WorkOf
  <2>8. \A q \in Publishers : WorkOf(q)'
    BY <2>5, <2>6, <2>7
  <2> QED BY <2>3, <2>8 DEF WorkStory
<1>3. ASSUME NEW p \in Publishers, Publishing(p)
      PROVE  WorkStory'
  <2>0. /\ UNCHANGED <<topic, current, clock>> /\ socket'.up = socket.up /\ socket'.subscriber = socket.subscriber
        /\ socket'.serves = socket.serves
    BY <1>3, PublishingCases
  <2>1. \A q \in Publishers \ {p} : work'[q] = work[q]
    BY <1>3, OthersComing
  <2>2. \/ work'[p] = IdleWork
        \/ /\ work'[p].at = "sending" /\ work'[p].item = work[p].item /\ work'[p].stamp = work[p].stamp
           /\ work'[p].to = socket.subscriber /\ work[p].at = "changed" /\ topic # "mcp_activity" /\ Registered
        \/ /\ work'[p].at \in {"idle", "full"} /\ work'[p].item = work[p].item /\ work'[p].stamp = work[p].stamp
           /\ work'[p].to = work[p].to
           /\ work'[p].at = "full" => work[p].at = "sending" /\ topic = "tasks"
    BY <1>3, OthersComing
  <2>3. WorkOf(p)
    BY DEF WorkStory
  <2>4. \A q \in Publishers \ {p} : WorkOf(q)'
    <3> SUFFICES ASSUME NEW q \in Publishers \ {p} PROVE WorkOf(q)'
      OBVIOUS
    <3>1. WorkOf(q) /\ work'[q] = work[q]
      BY <2>1 DEF WorkStory
    <3>2. ASSUME work[q].at # "idle", topic \in {"connections", "mcp_activity"}, NEW o \in Publishers \ {q}
          PROVE  work'[o].at = "idle" \/ work'[o].item # work[q].item
      <4>1. work[o].at = "idle" \/ work[o].item # work[q].item
        BY <3>1, <3>2 DEF WorkOf
      <4>2. CASE o # p
        BY <2>1, <4>1, <4>2
      <4>3. CASE o = p
        <5>1. work'[p] = IdleWork => work'[p].at = "idle"
          BY DEF IdleWork
        <5>2. work[p].at = "idle" => work'[p].at = "idle"
          BY <2>2, <5>1
        <5>3. work'[p].item = work[p].item \/ work'[p].at = "idle"
          BY <2>2, <5>1
        <5> QED BY <4>1, <4>3, <5>2, <5>3
      <4> QED BY <4>2, <4>3
    <3> QED BY <2>0, <3>1, <3>2 DEF WorkOf, Reaches
  <2>5. WorkOf(p)'
    <3>1. CASE work'[p] = IdleWork
      <4>1. work'[p].at = "idle" /\ work'[p].stamp = 0 /\ work'[p].item \in Items
        BY <3>1, StreamConstants DEF IdleWork, WorkRecords
      <4>2. current[work'[p].item] \in Nat
        BY <4>1, StreamNumbers DEF AppTypes, Contents
      <4> QED BY <2>0, <4>1, <4>2 DEF WorkOf
    <3>2. CASE /\ work'[p].at = "sending" /\ work'[p].item = work[p].item /\ work'[p].stamp = work[p].stamp
               /\ work'[p].to = socket.subscriber /\ work[p].at = "changed" /\ topic # "mcp_activity" /\ Registered
      <4>1. topic = "tasks" => socket.serves
        BY <3>2 DEF Registered, StateTopics
      <4> QED BY <1>0, <2>0, <2>1, <2>3, <3>2, <4>1 DEF WorkOf, Reaches
    <3>3. CASE /\ work'[p].at \in {"idle", "full"} /\ work'[p].item = work[p].item /\ work'[p].stamp = work[p].stamp
               /\ work'[p].to = work[p].to
               /\ work'[p].at = "full" => work[p].at = "sending" /\ topic = "tasks"
      BY <2>0, <2>3, <3>3, TopicKinds DEF WorkOf, Reaches
    <3> QED BY <2>2, <3>1, <3>2, <3>3
  <2> QED BY <2>0, <2>4, <2>5 DEF WorkStory
<1>4. CASE TakeSubscription
  <2>0. UNCHANGED <<topic, current, clock, work>> /\ socket.serves \in BOOLEAN /\ socket \in SocketRecords
    BY <1>4, SubscriptionCases DEF AppTypes, SocketRecords
  <2>1. CASE topic # "tasks" \/ UNCHANGED socket
    BY <1>a, <2>0, <2>1
  <2>2. CASE topic = "tasks" /\ socket'.subscriber = socket.subscriber + 1
    BY <1>0, <1>a, <2>0, <2>2
  <2>3. CASE topic = "tasks" /\ OpenPush([page EXCEPT !.asks = {}])
    <3>1. [page EXCEPT !.asks = {}] \in PageRecords
      BY <1>4, SubscriptionCases
    <3>2. socket'.subscriber = socket.subscriber + 1
      BY <2>3, <3>1, OpenFields
    <3> QED BY <2>2, <2>3, <3>2
  <2>4. topic = "tasks" => topic \in PushTopics /\ topic # "mcp_activity"
    BY TopicKinds
  <2> QED BY <1>4, <2>1, <2>2, <2>3, <2>4, SubscriptionCases
<1>5. CASE SendActivitySnapshot
  BY <1>5, <1>a, ActivityFields
<1>6. CASE TakeEvent
  <2> DEFINE rest == [socket EXCEPT !.channel = Tail(@)]
  <2>0. /\ UNCHANGED <<topic, current, clock, work>> /\ rest \in SocketRecords /\ page \in PageRecords
    BY <1>6, EventCases DEF AppTypes
  <2>1. rest.up = socket.up /\ rest.serves = socket.serves /\ rest.subscriber = socket.subscriber
    BY RestFields
  <2>2. CASE OpenPush(page)
    <3>1. socket'.subscriber = socket.subscriber + 1
      BY <2>0, <2>2, OpenFields
    <3> QED BY <1>0, <1>a, <2>0, <3>1
  <2>3. \/ OpenPush(page)
        \/ topic # "tasks"
        \/ socket' = rest
    BY <1>6, EventCases
  <2> QED BY <1>a, <2>0, <2>1, <2>2, <2>3
<1>7. CASE TakeSignal
  <2>0. UNCHANGED <<topic, current, clock, work>> /\ page \in PageRecords
    BY <1>7, SignalCases DEF AppTypes
  <2>1. CASE OpenPush(page)
    <3>1. socket'.subscriber = socket.subscriber + 1
      BY <2>0, <2>1, OpenFields
    <3> QED BY <1>0, <1>a, <2>0, <3>1
  <2>2. CASE topic \notin PushTopics
    BY <1>a, <2>0, <2>2, TopicKinds
  <2> QED BY <1>7, <2>1, <2>2, SignalCases
<1>8. CASE SampleNow
  BY <1>8, <1>a, SampleFields
<1>9. CASE LoseSocket
  <2>1. socket'.subscriber = socket.subscriber /\ ~socket'.up /\ UNCHANGED <<topic, current, clock, work>>
    BY <1>9, LostFields
  <2>2. socket'.subscriber >= socket.subscriber
    BY <1>0, <2>1
  <2> QED BY <1>a, <2>1, <2>2
<1>10. CASE Connect
  <2>1. socket'.subscriber > socket.subscriber /\ UNCHANGED <<topic, current, clock, work>>
    BY <1>0, <1>10, ConnectedFields
  <2> QED BY <1>a, <2>1
<1>11. CASE SampleForAnother \/ SampleExpires \/ UNCHANGED appVars
  BY <1>a, <1>11 DEF SampleForAnother, SampleExpires, appVars
<1>12. ASSUME NEW l \in Listeners, Prepare(l) \/ StartListening(l) \/ StopListening(l) PROVE WorkStory'
  <2>1. UNCHANGED <<topic, current, clock, work, socket>>
    BY <1>12, ListenerCases
  <2> QED BY <1>a, <2>1
<1> QED BY <1>2, <1>3, <1>4, <1>5, <1>6, <1>7, <1>8, <1>9, <1>10, <1>11, <1>12, StreamCases

---------------------------------------------------------------------------
(* What a step that is no publisher's does *)

ChannelSame ==
  /\ socket'.channel = socket.channel /\ socket'.signal = socket.signal /\ socket'.closed = socket.closed
  /\ socket'.up = socket.up /\ socket'.subscriber = socket.subscriber
HeadTaken ==
  /\ socket.channel # <<>> /\ socket'.channel = Tail(socket.channel)
  /\ socket'.signal = socket.signal /\ socket'.closed = socket.closed
  /\ socket'.up = socket.up /\ socket'.subscriber = socket.subscriber
ChannelCleared == socket'.channel = <<>>

\* What those who have a snapshot show then: what they did, an error, a new snapshot or
\* sample, what a difference or a change makes of it.
PageRests ==
  /\ ChannelSame /\ socket'.known = socket.known /\ page'.wrong = page.wrong
  /\ page'.fresh \subseteq page.fresh /\ \A l \in page'.fresh : page'.view[l] = page.view[l]
NobodyShown == page'.wrong = TRUE \/ page'.fresh = {}
SnapshotShown ==
  /\ \A l \in page'.fresh : page'.view[l] = Shown(current)
  /\ socket'.known = Shown(current) \/ topic \in PushTopics
SampleShown == ChannelSame /\ topic \in SampledTopics /\ \A l \in page'.fresh : page'.view[l] = socket'.known
DifferenceMerged ==
  /\ HeadTaken /\ Head(socket.channel) \in Changes /\ topic \in {"sessions", "chat_state"}
  /\ socket.known \in Contents /\ Now(socket.known, Head(socket.channel)) \in Contents
  /\ socket'.known = Now(socket.known, Head(socket.channel)) /\ page'.wrong = page.wrong
  /\ page' = Merges(page, Delta(socket.known, Now(socket.known, Head(socket.channel))))
ChangeMerged ==
  /\ HeadTaken /\ Head(socket.channel) \in Changes /\ topic \notin {"sessions", "chat_state", "approvals"}
  /\ socket'.known = socket.known
  /\ page' = Merges(page, [i \in {Head(socket.channel).item} |-> Head(socket.channel).stamp])

Outcome ==
  /\ UNCHANGED <<topic, current, clock, work>> /\ troubles'.unsignalled = troubles.unsignalled
  /\ ChannelSame \/ HeadTaken \/ ChannelCleared
  /\ PageRests \/ NobodyShown \/ SnapshotShown \/ SampleShown \/ DifferenceMerged \/ ChangeMerged

\* Only a publisher counts a signal that found no room.
LEMMA ErrorsOnly ==
  ASSUME AppTypes, \/ troubles' = troubles
                   \/ troubles' = [troubles EXCEPT !.errors = @ + 1]
  PROVE  troubles'.unsignalled = troubles.unsignalled
BY DEF AppTypes

LEMMA SnapshotOutcome ==
  ASSUME AppTypes, NEW s \in SocketRecords, NEW pg \in PageRecords, SendSnapshot(s, pg)
  PROVE  /\ troubles'.unsignalled = troubles.unsignalled /\ (NobodyShown \/ SnapshotShown)
         /\ socket'.channel = s.channel /\ socket'.signal = s.signal /\ socket'.closed = s.closed
         /\ socket'.up = s.up /\ socket'.subscriber = s.subscriber
BY SentFields DEF NobodyShown, SnapshotShown

LEMMA OpenOutcome ==
  ASSUME AppTypes, NEW pg \in PageRecords, OpenPush(pg), topic \in PushTopics
  PROVE  troubles'.unsignalled = troubles.unsignalled /\ SnapshotShown /\ ChannelCleared
<1>1. topic # "sessions"
  BY DEF PushTopics, FlaggedTopics
<1>2. Shown(current) = current
  BY <1>1 DEF Shown
<1> QED BY <1>2, OpenFields DEF SnapshotShown, ChannelCleared

LEMMA OutcomeCases ==
  ASSUME AppTypes, SocketStory, PageStory, [AppNext]_appVars
  PROVE  \/ \E p \in Publishers, i \in Items, stamp \in 0..MaxStamp : ChangeItem(p, i, stamp)
         \/ \E p \in Publishers : Publishing(p)
         \/ Outcome
<1>0. page \in PageRecords /\ socket \in SocketRecords /\ socket.channel \in Seq(Changes \cup {Resync})
      /\ socket.serves \in BOOLEAN
  BY DEF AppTypes, SocketRecords
<1>1. CASE UNCHANGED <<topic, current, clock, work, socket, page, troubles>>
  BY <1>1 DEF Outcome, PageRests, ChannelSame
<1>4. CASE TakeSubscription
  <2> DEFINE asked == [page EXCEPT !.asks = {}]
  <2>0. /\ asked \in PageRecords /\ asked.listening = page.listening /\ asked.view = page.view
        /\ asked.fresh = page.fresh /\ asked.wrong = page.wrong
    BY <1>0 DEF PageRecords
  <2>a. UNCHANGED <<topic, current, clock, work>>
    BY <1>4, SubscriptionCases
  <2>1. CASE UNCHANGED <<socket, troubles>> /\ page' = asked
    <3>1. PageRests
      BY <2>0, <2>1 DEF PageRests, ChannelSame
    <3> QED BY <2>a, <2>1, <3>1 DEF Outcome, ChannelSame
  <2>2. CASE /\ FALSE \in page.asks /\ page' = asked /\ UNCHANGED troubles /\ socket'.up = socket.up
             /\ \/ socket'.channel = <<>>
                \/ /\ socket'.subscriber = socket.subscriber /\ socket'.channel = socket.channel
                   /\ socket'.closed = socket.closed /\ socket'.signal = socket.signal
    <3>1. page.fresh = {}
      BY <2>2 DEF PageStory
    <3> QED BY <2>0, <2>2, <2>a, <3>1 DEF Outcome, NobodyShown, ChannelSame, ChannelCleared
  <2>3. CASE ~socket.serves /\ page' = asked /\ UNCHANGED troubles /\ socket'.channel = <<>>
    <3>1. page.fresh = {}
      BY <2>3 DEF PageStory
    <3> QED BY <2>0, <2>3, <2>a, <3>1 DEF Outcome, NobodyShown, ChannelCleared
  <2>4. CASE topic \in PushTopics /\ OpenPush(asked)
    <3> HIDE DEF asked
    <3> QED BY <2>0, <2>4, <2>a, OpenOutcome DEF Outcome
  <2>5. CASE [socket EXCEPT !.serves = TRUE] \in SocketRecords /\ SendSnapshot([socket EXCEPT !.serves = TRUE], asked)
    <3> DEFINE s == [socket EXCEPT !.serves = TRUE]
    <3>1. /\ s \in SocketRecords /\ s.up = socket.up /\ s.channel = socket.channel /\ s.subscriber = socket.subscriber
          /\ s.closed = socket.closed /\ s.signal = socket.signal
      BY <1>0, <2>5 DEF SocketRecords
    <3>2. SendSnapshot(s, asked)
      BY <2>5
    <3> HIDE DEF s, asked
    <3> QED BY <2>0, <2>a, <3>1, <3>2, SnapshotOutcome DEF Outcome, ChannelSame
  <2> QED BY <1>4, <2>1, <2>2, <2>3, <2>4, <2>5, SubscriptionCases
<1>5. CASE SendActivitySnapshot
  <2>1. troubles'.unsignalled = troubles.unsignalled
    BY <1>5, ErrorsOnly DEF SendActivitySnapshot, SendSnapshot
  <2> QED BY <1>5, <2>1, ActivityFields DEF Outcome, ChannelSame, NobodyShown, SnapshotShown
<1>6. CASE TakeEvent
  <2> DEFINE rest == [socket EXCEPT !.channel = Tail(@)]
  <2>0. UNCHANGED <<topic, current, clock, work>> /\ rest \in SocketRecords /\ socket.channel # <<>>
    BY <1>6, EventCases
  <2>1. /\ rest.up = socket.up /\ rest.serves = socket.serves /\ rest.subscriber = socket.subscriber /\ rest.known = socket.known
        /\ rest.channel = Tail(socket.channel) /\ rest.closed = socket.closed /\ rest.signal = socket.signal
    BY RestFields
  <2>2. CASE Head(socket.channel) = Resync /\ OpenPush(page)
    <3>1. topic \in PushTopics
      BY <1>0, <2>0, <2>2, TailHolds, TopicKinds DEF SocketStory
    <3> QED BY <1>0, <2>0, <2>2, <3>1, OpenOutcome DEF Outcome
  <2>3. CASE ~socket.serves /\ socket' = rest /\ UNCHANGED <<page, troubles>>
    <3>1. page.fresh = {}
      BY <2>3 DEF PageStory
    <3> HIDE DEF rest
    <3> QED BY <2>0, <2>1, <2>3, <3>1 DEF Outcome, NobodyShown, HeadTaken
  <2>4. CASE /\ Head(socket.channel) \in Changes /\ topic \in {"sessions", "chat_state"}
             /\ SendDifference(rest, Head(socket.channel))
    <3>1. troubles'.unsignalled = troubles.unsignalled
      BY <2>4, ErrorsOnly DEF SendDifference
    <3> HIDE DEF rest
    <3>2. HeadTaken
      BY <2>0, <2>1, <2>4, DifferenceCases DEF HeadTaken
    <3>3. page'.wrong = TRUE \/ DifferenceMerged
      BY <2>0, <2>1, <2>4, <3>2, DifferenceCases DEF DifferenceMerged
    <3> QED BY <2>0, <3>1, <3>2, <3>3 DEF Outcome, NobodyShown
  <2>5. CASE SendSnapshot(rest, page)
    <3> HIDE DEF rest
    <3> QED BY <1>0, <2>0, <2>1, <2>5, SnapshotOutcome DEF Outcome, HeadTaken
  <2>6. CASE /\ Head(socket.channel) \in Changes /\ topic \notin {"sessions", "chat_state", "approvals"}
             /\ socket' = rest /\ UNCHANGED troubles
             /\ page' = Merges(page, [i \in {Head(socket.channel).item} |-> Head(socket.channel).stamp])
    <3> HIDE DEF rest
    <3>1. HeadTaken
      BY <2>0, <2>1, <2>6 DEF HeadTaken
    <3>2. ChangeMerged
      BY <2>1, <2>6, <3>1 DEF ChangeMerged
    <3> QED BY <2>0, <2>6, <3>1, <3>2 DEF Outcome
  <2> QED BY <1>6, <2>2, <2>3, <2>4, <2>5, <2>6, EventCases
<1>7. CASE TakeSignal
  <2>0. UNCHANGED <<topic, current, clock, work>>
    BY <1>7, SignalCases
  <2>1. CASE topic \in PushTopics /\ OpenPush(page)
    BY <1>0, <2>0, <2>1, OpenOutcome DEF Outcome
  <2>2. ASSUME NEW drained \in SocketRecords, drained.channel = <<>>,
               IF socket.serves THEN SendSnapshot(drained, page) ELSE socket' = drained /\ UNCHANGED <<page, troubles>>
        PROVE  Outcome
    <3>1. CASE socket.serves
      BY <1>0, <2>0, <2>2, <3>1, SnapshotOutcome DEF Outcome, ChannelCleared
    <3>2. CASE ~socket.serves
      <4>1. page.fresh = {}
        BY <3>2 DEF PageStory
      <4> QED BY <2>0, <2>2, <3>2, <4>1 DEF Outcome, ChannelCleared, NobodyShown
    <3> QED BY <3>1, <3>2
  <2> QED BY <1>7, <2>1, <2>2, SignalCases
<1>8. CASE SampleNow
  <2>1. ChannelSame /\ SampleShown
    BY <1>8, SampleFields DEF ChannelSame, SampleShown
  <2> QED BY <1>8, <2>1, SampleFields DEF Outcome
<1>9. CASE LoseSocket
  BY <1>9, LostFields DEF Outcome, ChannelCleared, NobodyShown
<1>10. CASE Connect
  <2>1. page.fresh = {}
    BY <1>10, ConnectedFields DEF PageStory
  <2> QED BY <1>10, <2>1, ConnectedFields DEF Outcome, ChannelCleared, NobodyShown
<1>11. CASE SampleForAnother \/ SampleExpires \/ UNCHANGED appVars
  BY <1>1, <1>11 DEF SampleForAnother, SampleExpires, appVars
<1>12. ASSUME NEW l \in Listeners, Prepare(l) \/ StartListening(l) \/ StopListening(l) PROVE Outcome
  <2>0. /\ UNCHANGED <<topic, current, clock, work, socket, troubles>> /\ page'.wrong = page.wrong
        /\ \A m \in Listeners : m # l => page'.view[m] = page.view[m]
    BY <1>12, ListenerCases
  <2>1. page.fresh \subseteq page.listening /\ page.listening \subseteq Listeners
    BY <1>0 DEF PageStory, PageRecords
  <2>2. page'.fresh \subseteq page.fresh /\ \A m \in page'.fresh : page'.view[m] = page.view[m]
    <3>1. CASE l \notin page.listening /\ page'.fresh = page.fresh
      BY <2>0, <2>1, <3>1
    <3>2. CASE page'.view = page.view /\ page'.fresh = page.fresh
      BY <3>2
    <3>3. CASE page'.fresh = page.fresh \ {l}
      BY <2>0, <2>1, <3>3
    <3> QED BY <1>12, <3>1, <3>2, <3>3, ListenerCases
  <2> QED BY <2>0, <2>2 DEF Outcome, PageRests, ChannelSame
<1> QED BY <1>4, <1>5, <1>6, <1>7, <1>8, <1>9, <1>10, <1>11, <1>12, StreamCases

---------------------------------------------------------------------------
(* What waits in the channel *)

LEMMA ChannelTypes ==
  ASSUME AppTypes
  PROVE  /\ socket \in SocketRecords /\ socket.channel \in Seq(Changes \cup {Resync})
         /\ socket.signal \in BOOLEAN /\ socket.closed \in BOOLEAN /\ socket.up \in BOOLEAN /\ socket.serves \in BOOLEAN
         /\ \A p \in Publishers : Event(work[p]) \in Changes /\ work[p].item \in Items /\ work[p].stamp \in Nat
         /\ \A i \in Items : current[i] \in Nat
BY StreamNumbers DEF AppTypes, SocketRecords, WorkRecords, Event, Changes, Contents

\* The end and the rest of a channel, place by place.
LEMMA AppendPlaces ==
  ASSUME NEW S, NEW ch \in Seq(S), NEW event
  PROVE  /\ \A k \in DOMAIN ch : k \in DOMAIN Append(ch, event) /\ Append(ch, event)[k] = ch[k] /\ k < Len(ch) + 1
         /\ Len(ch) + 1 \in DOMAIN Append(ch, event) /\ Append(ch, event)[Len(ch) + 1] = event
         /\ \A k \in DOMAIN Append(ch, event) : k \in DOMAIN ch \/ k = Len(ch) + 1
OBVIOUS

LEMMA TailPlaces ==
  ASSUME NEW S, NEW ch \in Seq(S), ch # <<>>
  PROVE  /\ \A k \in DOMAIN Tail(ch) : k + 1 \in DOMAIN ch /\ Tail(ch)[k] = ch[k + 1] /\ k \in Nat
         /\ \A k \in DOMAIN ch : k # 1 => k - 1 \in DOMAIN Tail(ch) /\ Tail(ch)[k - 1] = ch[k]
         /\ 1 \in DOMAIN ch /\ Head(ch) = ch[1] /\ DOMAIN ch \subseteq Nat \ {0}
OBVIOUS

\* Who is at work stays so when the channel is cleared or its head taken.
LEMMA OutcomeComing ==
  ASSUME AppTypes, Outcome, ~ChannelCleared
  PROVE  /\ \A q \in Publishers : Coming(q)' = Coming(q) /\ Reaches(q)' = Reaches(q)
         /\ \A i : Carried(i)' = Carried(i)
BY SameComing DEF Outcome, ChannelSame, HeadTaken

LEMMA OrderStoryOutcome ==
  ASSUME AppTypes, OrderStory, Outcome
  PROVE  OrderStory'
<1>1. CASE ChannelCleared
  BY <1>1 DEF OrderStory, ChannelCleared
<1>2. CASE ChannelSame /\ ~ChannelCleared
  <2>1. socket'.channel = socket.channel /\ socket'.signal = socket.signal /\ socket'.closed = socket.closed
        /\ UNCHANGED <<topic, current>>
    BY <1>2 DEF ChannelSame, Outcome
  <2> QED BY <1>2, <2>1, OutcomeComing DEF OrderStory, Overtaken
<1>3. CASE HeadTaken /\ ~ChannelCleared
  <2> SUFFICES ASSUME topic \in DeltaTopics, ~socket.signal, ~socket.closed, NEW k \in DOMAIN Tail(socket.channel)
               PROVE  \/ Tail(socket.channel)[k].stamp = current[Tail(socket.channel)[k].item]
                      \/ Overtaken(Tail(socket.channel), k)
                      \/ Carried(Tail(socket.channel)[k].item)
    BY <1>3, OutcomeComing DEF OrderStory, HeadTaken, Outcome
  <2> DEFINE ch   == socket.channel
             rest == Tail(socket.channel)
  <2>1. /\ \A n \in DOMAIN rest : n + 1 \in DOMAIN ch /\ rest[n] = ch[n + 1] /\ n \in Nat
        /\ \A n \in DOMAIN ch : n # 1 => n - 1 \in DOMAIN rest /\ rest[n - 1] = ch[n]
        /\ DOMAIN ch \subseteq Nat \ {0}
    BY <1>3, ChannelTypes, TailPlaces DEF HeadTaken
  <2>2. \/ ch[k + 1].stamp = current[ch[k + 1].item] \/ Overtaken(ch, k + 1) \/ Carried(ch[k + 1].item)
    BY <2>1 DEF OrderStory
  <2> HIDE DEF ch, rest
  <2>3. Overtaken(ch, k + 1) => Overtaken(rest, k)
    <3> SUFFICES ASSUME NEW m \in DOMAIN ch, m > k + 1, ch[m].item = ch[k + 1].item PROVE Overtaken(rest, k)
      BY DEF Overtaken
    <3>1. k \in DOMAIN rest
      BY DEF rest
    <3>2. k \in Nat /\ rest[k] = ch[k + 1]
      BY <2>1, <3>1
    <3>3. m \in Nat /\ m # 1 /\ m - 1 > k
      BY <2>1, <3>2
    <3>4. m - 1 \in DOMAIN rest /\ rest[m - 1] = ch[m]
      BY <2>1, <3>3
    <3> QED BY <3>2, <3>3, <3>4 DEF Overtaken
  <2>4. rest[k] = ch[k + 1]
    BY <2>1 DEF rest
  <2>5. rest[k].stamp = current[rest[k].item] \/ Overtaken(rest, k) \/ Carried(rest[k].item)
    BY <2>2, <2>3, <2>4
  <2> QED BY <2>5 DEF rest
<1> QED BY <1>1, <1>2, <1>3 DEF Outcome

\* An event comes after those there are: of the item whose event it is they are overtaken.
LEMMA AppendOvertakes ==
  ASSUME NEW S, NEW ch \in Seq(S), NEW event, NEW k \in DOMAIN ch
  PROVE  /\ ch[k].item = event.item => Overtaken(Append(ch, event), k)
         /\ Overtaken(ch, k) => Overtaken(Append(ch, event), k)
<1> DEFINE more == Append(ch, event)
           last == Len(ch) + 1
<1>1. /\ \A n \in DOMAIN ch : n \in DOMAIN more /\ more[n] = ch[n] /\ n < last
      /\ last \in DOMAIN more /\ more[last] = event
  BY AppendPlaces
<1> HIDE DEF more, last
<1>2. ch[k].item = event.item => Overtaken(more, k)
  BY <1>1 DEF Overtaken
<1>3. Overtaken(ch, k) => Overtaken(more, k)
  BY <1>1 DEF Overtaken
<1> QED BY <1>2, <1>3 DEF more

\* An event of the item will be carried after the step.
CarriedThen(i) == \E q \in Publishers : Coming(q)' /\ work'[q].item = i

LEMMA OrderStoryChange ==
  ASSUME AppTypes, SocketStory, WorkStory, OrderStory,
         NEW p \in Publishers, NEW i \in Items, NEW stamp \in 0..MaxStamp, ChangeItem(p, i, stamp)
  PROVE  OrderStory'
<1> DEFINE ch    == socket.channel
           event == [item |-> i, stamp |-> stamp]
<1>0. /\ topic' = topic /\ socket'.closed = socket.closed /\ ch \in Seq(Changes \cup {Resync})
      /\ current'[i] = stamp /\ \A j \in Items \ {i} : current'[j] = current[j]
  <2>1. topic' = topic /\ socket'.closed = socket.closed
    BY ChangeCases
  <2>2. current'[i] = stamp /\ \A j \in Items \ {i} : current'[j] = current[j]
    BY StampGrows
  <2> QED BY <2>1, <2>2, ChannelTypes
<1>1. \A k \in DOMAIN ch : ch[k].item \in Items \/ ch[k] = Resync
  BY <1>0 DEF Changes
<1>2. topic \in DeltaTopics => \A k \in DOMAIN ch : ch[k].item \in Items
  <2>1. topic \in DeltaTopics => topic # "tasks"
    BY DEF DeltaTopics, FlaggedTopics
  <2> QED BY <1>1, <2>1 DEF SocketStory, Holds
<1>3. CASE topic \in FlaggedTopics
  <2>1. work' = work /\ socket'.up = socket.up /\ socket'.subscriber = socket.subscriber
    BY <1>3, ChangeCases, ChangeComing
  <2>2. \A j : Carried(j)' = Carried(j)
    BY <2>1, SameComing
  <2>3. \/ UNCHANGED socket /\ (~(socket.up /\ socket.serves) \/ socket.flagged)
        \/ socket'.channel = Append(ch, event) /\ socket'.signal = socket.signal
        \/ socket'.signal = TRUE
    <3>1. \/ UNCHANGED socket /\ (~(socket.up /\ socket.serves) \/ socket.flagged)
          \/ socket'.channel = Append(ch, event) /\ socket'.signal = socket.signal
          \/ socket'.signal = TRUE
          \/ topic = "health"
          \/ topic \notin FlaggedTopics \cup {"health"}
      <4> HIDE DEF event, ch
      <4>1. \/ topic \in FlaggedTopics /\ UNCHANGED <<socket, work>> /\ (~(socket.up /\ socket.serves) \/ socket.flagged)
            \/ /\ topic \in FlaggedTopics /\ UNCHANGED work /\ socket.up /\ socket.serves
               /\ socket'.channel = Append(socket.channel, [item |-> i, stamp |-> stamp])
               /\ socket'.signal = socket.signal /\ socket'.flagged = socket.flagged
            \/ /\ topic \in FlaggedTopics /\ UNCHANGED work /\ socket.up /\ socket.serves
               /\ socket'.channel = socket.channel /\ socket'.signal = TRUE /\ socket'.flagged = TRUE
            \/ topic = "health" /\ UNCHANGED <<socket, work>>
            \/ /\ topic \notin FlaggedTopics \cup {"health"} /\ UNCHANGED socket
               /\ work' = [work EXCEPT ![p] = [at |-> "changed", item |-> i, stamp |-> stamp, to |-> 0]]
        BY ChangeCases, Zenon
      <4> QED BY <4>1, Zenon DEF event, ch
    <3> QED BY <1>3, <3>1, TopicKinds
  <2>4. CASE UNCHANGED socket /\ (~(socket.up /\ socket.serves) \/ socket.flagged)
    <3>1. ch = <<>> \/ socket.signal
      BY <1>3, <2>4, TopicKinds DEF SocketStory
    <3> QED BY <1>0, <2>4, <3>1 DEF OrderStory
  <2>5. CASE socket'.channel = Append(ch, event) /\ socket'.signal = socket.signal
    <3> DEFINE more == Append(ch, event)
    <3> SUFFICES ASSUME topic \in DeltaTopics, ~socket.signal, ~socket.closed, NEW k \in DOMAIN more
                 PROVE  \/ more[k].stamp = current'[more[k].item] \/ Overtaken(more, k) \/ Carried(more[k].item)
      BY <1>0, <2>2, <2>5 DEF OrderStory
    <3>1. CASE k \in DOMAIN ch
      <4>1. more[k] = ch[k]
        BY <1>0, <3>1, AppendPlaces
      <4>2. \/ ch[k].stamp = current[ch[k].item] \/ Overtaken(ch, k) \/ Carried(ch[k].item)
        BY <3>1 DEF OrderStory
      <4>3. /\ ch[k].item = event.item => Overtaken(more, k)
            /\ Overtaken(ch, k) => Overtaken(more, k)
        BY <1>0, <3>1, AppendOvertakes
      <4>4. event.item = i
        OBVIOUS
      <4> HIDE DEF ch, more, event
      <4> QED BY <1>0, <1>2, <3>1, <4>1, <4>2, <4>3, <4>4
    <3>2. CASE k \notin DOMAIN ch
      <4>1. more[k] = event
        BY <1>0, <3>2, AppendPlaces
      <4> QED BY <1>0, <4>1
    <3> QED BY <3>1, <3>2
  <2>6. CASE socket'.signal = TRUE
    BY <2>6 DEF OrderStory
  <2> QED BY <2>3, <2>4, <2>5, <2>6
<1>4. CASE topic \notin FlaggedTopics
  <2> SUFFICES ASSUME topic \in DeltaTopics, ~socket.signal, ~socket.closed, socket' = socket, NEW k \in DOMAIN ch
               PROVE  ch[k].stamp = current'[ch[k].item] \/ Overtaken(ch, k) \/ CarriedThen(ch[k].item)
    <3>1. topic \in DeltaTopics => socket' = socket
      BY <1>4, ChangeCases
    <3>2. \A j : CarriedThen(j) <=> Carried(j)'
      BY DEF CarriedThen, Carried
    <3> QED BY <1>0, <3>1, <3>2 DEF OrderStory
  <2>1. topic \notin FlaggedTopics \cup {"health"}
    BY <1>4 DEF DeltaTopics
  <2>2. work'[p] = [at |-> "changed", item |-> i, stamp |-> stamp, to |-> 0] /\ Coming(p)' /\ ~Coming(p)
        /\ \A q \in Publishers \ {p} : work'[q] = work[q] /\ Coming(q)' = Coming(q)
    BY <2>1, ChangeComing
  <2>3. CarriedThen(i)
    BY <2>2 DEF CarriedThen
  <2>4. Carried(ch[k].item) => CarriedThen(ch[k].item)
    BY <2>2 DEF Carried, CarriedThen
  <2>5. \/ ch[k].stamp = current[ch[k].item] \/ Overtaken(ch, k) \/ Carried(ch[k].item)
    BY DEF OrderStory
  <2> HIDE DEF ch
  <2> QED BY <1>0, <1>2, <2>3, <2>4, <2>5
<1> QED BY <1>3, <1>4

LEMMA OrderStoryPublishing ==
  ASSUME AppTypes, SocketStory, WorkStory, OrderStory, NEW p \in Publishers, Publishing(p)
  PROVE  OrderStory'
<1> DEFINE ch    == socket.channel
           event == Event(work[p])
<1> SUFFICES ASSUME topic \in DeltaTopics, socket'.signal # TRUE, socket'.closed # TRUE, NEW k \in DOMAIN socket'.channel
             PROVE  \/ socket'.channel[k].stamp = current[socket'.channel[k].item]
                    \/ Overtaken(socket'.channel, k) \/ CarriedThen(socket'.channel[k].item)
  <2>1. topic' = topic /\ current' = current
    BY PublishingCases
  <2>2. \A j : CarriedThen(j) <=> Carried(j)'
    BY DEF CarriedThen, Carried
  <2> QED BY <2>1, <2>2 DEF OrderStory
<1>0. /\ ch \in Seq(Changes \cup {Resync}) /\ topic # "tasks" /\ topic # "health"
      /\ socket.signal \in BOOLEAN /\ socket.closed \in BOOLEAN /\ WorkOf(p)
  BY ChannelTypes DEF DeltaTopics, FlaggedTopics, WorkStory
<1>1. work[p].at # "idle" /\ topic \notin FlaggedTopics /\ topic \in {"connections", "mcp_activity"}
  <2>1. work[p].at # "idle"
    BY DEF Publishing, FindSubscriber, SendState, SendTask, AskResync, SendActivity, Advances
  <2> QED BY <1>0, <2>1 DEF WorkOf, DeltaTopics
<1>2. work[p].stamp = current[work[p].item]
  BY <1>0, <1>1 DEF WorkOf
<1>3. \A j : Carried(j) /\ ~(Coming(p) /\ work[p].item = j) => CarriedThen(j)
  BY OthersComing DEF Carried, CarriedThen
<1>4. ASSUME ch = socket'.channel, ~socket.signal, ~socket.closed, Coming(p) => Coming(p)' /\ work'[p].item = work[p].item
      PROVE  \/ socket'.channel[k].stamp = current[socket'.channel[k].item]
             \/ Overtaken(socket'.channel, k) \/ CarriedThen(socket'.channel[k].item)
  <2>1. ch[k].stamp = current[ch[k].item] \/ Overtaken(ch, k) \/ Carried(ch[k].item)
    BY <1>4 DEF OrderStory
  <2>2. \A j : Carried(j) => CarriedThen(j)
    BY <1>3, <1>4 DEF CarriedThen
  <2> QED BY <1>4, <2>1, <2>2
<1>5. CASE UNCHANGED socket /\ ~Registered
  <2>1. ch = <<>>
    BY <1>0, <1>1, <1>5 DEF Registered, SocketStory, StateTopics, PushTopics
  <2> QED BY <1>5, <2>1
<1>6. CASE UNCHANGED socket /\ socket.closed
  BY <1>0, <1>6
<1>7. CASE /\ UNCHANGED socket /\ Registered /\ work[p].at = "changed"
           /\ work' = [work EXCEPT ![p] = [@ EXCEPT !.at = "sending", !.to = socket.subscriber]]
  <2>1. work'[p].at = "sending" /\ work'[p].item = work[p].item /\ work'[p].to = socket.subscriber
    BY <1>7 DEF AppTypes, WorkRecords
  <2>2. Coming(p)'
    BY <1>7, <2>1 DEF Coming, Reaches, Registered
  <2> QED BY <1>0, <1>4, <1>7, <2>1, <2>2
<1>8. CASE UNCHANGED socket /\ work[p].at = "sending" /\ ~Reaches(p)
  <2>1. ~Coming(p)
    BY <1>8 DEF Coming
  <2> QED BY <1>0, <1>4, <1>8, <2>1
<1>9. CASE socket'.channel = Append(ch, event) /\ socket'.closed = socket.closed /\ socket'.signal = socket.signal
  <2> DEFINE more == Append(ch, event)
  <2>1. CASE k \in DOMAIN ch
    <3>1. more[k] = ch[k]
      BY <1>0, <2>1, AppendPlaces
    <3>2. \/ ch[k].stamp = current[ch[k].item] \/ Overtaken(ch, k) \/ Carried(ch[k].item)
      BY <1>0, <1>9, <2>1 DEF OrderStory
    <3>3. /\ ch[k].item = event.item => Overtaken(more, k)
          /\ Overtaken(ch, k) => Overtaken(more, k)
      BY <1>0, <2>1, AppendOvertakes
    <3>4. event.item = work[p].item
      BY DEF Event
    <3>5. more = socket'.channel
      BY <1>9
    <3> HIDE DEF ch, more, event
    <3>6. ch[k].stamp = current[ch[k].item] \/ Overtaken(more, k) \/ CarriedThen(ch[k].item)
      BY <1>3, <3>2, <3>3, <3>4
    <3> QED BY <3>1, <3>5, <3>6
  <2>2. CASE k \notin DOMAIN ch
    <3>1. socket'.channel[k] = event
      BY <1>0, <1>9, <2>2, AppendPlaces
    <3> QED BY <1>2, <3>1 DEF Event
  <2> QED BY <2>1, <2>2
<1> QED BY <1>0, <1>1, <1>5, <1>6, <1>7, <1>8, <1>9, PublishingCases, TopicKinds DEF WorkOf

LEMMA OrderStoryStep ==
  ASSUME AppTypes, SocketStory, PageStory, WorkStory, OrderStory, [AppNext]_appVars
  PROVE  OrderStory'
BY OutcomeCases, OrderStoryOutcome, OrderStoryChange, OrderStoryPublishing

LEMMA RevisionStoryStep ==
  ASSUME AppTypes, SocketStory, PageStory, WorkStory, RevisionStory, [AppNext]_appVars
  PROVE  RevisionStory'
<1>0. socket.channel \in Seq(Changes \cup {Resync})
  BY ChannelTypes
<1>1. ASSUME NEW p \in Publishers, NEW i \in Items, NEW stamp \in 0..MaxStamp, ChangeItem(p, i, stamp)
      PROVE  RevisionStory'
  <2> SUFFICES ASSUME topic \in RevisionTopics, NEW event \in Changes, Holds(socket'.channel, event)
               PROVE  event.stamp <= current'[event.item]
    <3>1. topic' = topic
      BY <1>1, ChangeCases
    <3> QED BY <3>1 DEF RevisionStory
  <2>1. topic \notin FlaggedTopics /\ topic \notin {"sessions", "connections"} /\ topic # "health"
    BY DEF RevisionTopics, FlaggedTopics
  <2>2. socket' = socket
    BY <1>1, <2>1, ChangeCases
  <2>3. event.stamp <= current[event.item] /\ event.item \in Items /\ event.stamp \in Nat
    BY <2>2, StreamNumbers DEF RevisionStory, Changes
  <2>4. current[event.item] <= current'[event.item] /\ current[event.item] \in Nat /\ current'[event.item] \in Nat
    <3>1. \A j \in Items : current[j] <= current'[j] /\ current[j] \in Nat
      BY <1>1, <2>1, StampGrows
    <3>2. stamp \in Nat /\ current'[i] = stamp /\ \A j \in Items \ {i} : current'[j] = current[j]
      BY <1>1, StampGrows, StreamNumbers
    <3> QED BY <2>3, <3>1, <3>2
  <2> QED BY <2>3, <2>4
<1>2. ASSUME NEW p \in Publishers, Publishing(p)
      PROVE  RevisionStory'
  <2> SUFFICES ASSUME topic \in RevisionTopics, NEW event \in Changes, Holds(socket'.channel, event)
               PROVE  event.stamp <= current[event.item]
    <3>1. topic' = topic /\ current' = current
      BY <1>2, PublishingCases
    <3> QED BY <3>1 DEF RevisionStory
  <2>1. Resync \notin Changes /\ Event(work[p]) \in Changes /\ WorkOf(p)
    BY StreamConstants, ChannelTypes DEF WorkStory
  <2>2. Holds(socket.channel, event) \/ event = Event(work[p])
    <3>1. CASE socket'.channel = socket.channel
      BY <3>1
    <3>2. CASE socket'.channel = Append(socket.channel, Event(work[p]))
      BY <1>0, <2>1, <3>2, AppendHolds
    <3>3. CASE socket'.channel = Append(socket.channel, Resync)
      BY <1>0, <2>1, <3>3, AppendHolds
    <3>4. CASE socket.channel # <<>> /\ socket'.channel = Tail(socket.channel)
      BY <1>0, <3>4, TailHolds
    <3> QED BY <1>2, <3>1, <3>2, <3>3, <3>4, PublishingCases
  <2>3. Event(work[p]).stamp <= current[Event(work[p]).item]
    BY <2>1 DEF WorkOf, Event
  <2> QED BY <2>2, <2>3 DEF RevisionStory
<1>3. CASE Outcome
  <2>1. UNCHANGED <<topic, current>>
    BY <1>3 DEF Outcome
  <2>2. \A event \in Changes : Holds(socket'.channel, event) => Holds(socket.channel, event)
    <3>1. CASE ChannelSame
      BY <3>1 DEF ChannelSame
    <3>2. CASE HeadTaken
      BY <1>0, <3>2, TailHolds DEF HeadTaken
    <3>3. CASE ChannelCleared
      BY <3>3, EmptyHolds DEF ChannelCleared
    <3> QED BY <1>3, <3>1, <3>2, <3>3 DEF Outcome
  <2> QED BY <2>1, <2>2 DEF RevisionStory
<1> QED BY <1>1, <1>2, <1>3, OutcomeCases

---------------------------------------------------------------------------
(* The window of the conversations *)

\* What is above a conversation, and who is gone, are finite sets: more of them are
\* counted as more.
LEMMA WindowSets ==
  ASSUME NEW X \in SUBSET Items, NEW Y \in SUBSET X
  PROVE  /\ Cardinality(X) \in Nat /\ Cardinality(Y) \in Nat /\ Cardinality(Y) <= Cardinality(X)
<1>1. IsFiniteSet(X)
  BY StreamAssumption, FS_Subset DEF StreamAssumption
<1> QED BY <1>1, FS_Subset, FS_CardinalityType

\* What a snapshot holds of a conversation.
LEMMA ShownOf ==
  ASSUME topic = "sessions", NEW content \in Contents
  PROVE  /\ Shown(content) \in Contents
         /\ \A i \in Items :
              /\ Cardinality(Above(content, i)) < Window => Shown(content)[i] = content[i]
              /\ ~(Cardinality(Above(content, i)) < Window) => Shown(content)[i] = 0
              /\ Shown(content)[i] \in {content[i], 0} /\ content[i] \in Nat
              /\ Shown(content)[i] # 0 =>
                   Shown(content)[i] = content[i] /\ Cardinality(Above(content, i)) < Window
<1>1. \A i \in Items :
        Shown(content)[i] = IF Cardinality(Above(content, i)) < Window THEN content[i] ELSE 0
  BY DEF Shown, Above
<1>2. \A i \in Items : content[i] \in Nat
  BY StreamNumbers DEF Contents
<1> QED BY <1>1, <1>2, ShownContents

\* Of what is shown no more is above a conversation.
LEMMA ShownAbove ==
  ASSUME topic = "sessions", NEW content \in Contents, NEW i \in Items, Shown(content)[i] # 0
  PROVE  Cardinality(Above(Shown(content), i)) < Window
<1>1. Shown(content)[i] = content[i] /\ Cardinality(Above(content, i)) < Window
  BY ShownOf
<1>2. Above(Shown(content), i) \subseteq Above(content, i)
  <2> SUFFICES ASSUME NEW k \in Items, Shown(content)[k] > Shown(content)[i] PROVE content[k] > content[i]
    BY DEF Above
  <2>1. Shown(content)[k] \in {content[k], 0} /\ content[k] \in Nat /\ content[i] \in Nat
    BY ShownOf
  <2> QED BY <1>1, <2>1
<1>3. Above(content, i) \in SUBSET Items
  BY DEF Above
<1> QED BY <1>1, <1>2, <1>3, WindowSets, StreamNumbers

\* A snapshot begins the window.
LEMMA SnapshotWindow ==
  ASSUME AppTypes, WorkStory, topic = "sessions", UNCHANGED <<topic, current, clock>>, socket'.known = Shown(current)
  PROVE  WindowStory'
<1> DEFINE sent == Shown(current)
<1>0. current \in Contents /\ current' = current /\ clock' = clock /\ socket'.known = sent /\ clock \in Nat
  BY StreamNumbers DEF AppTypes
<1> SUFFICES ASSUME NEW i \in Items PROVE WindowOf(i)'
  BY DEF WindowStory
<1>1. sent[i] \in {current[i], 0} /\ current[i] \in Nat /\ current[i] <= clock
  BY <1>0, ShownOf DEF WorkStory
<1>2. ASSUME sent[i] = 0, current[i] # 0 PROVE Cardinality(Above(current, i) \cup Gone') >= Window
  <2>1. ~(Cardinality(Above(current, i)) < Window)
    BY <1>0, <1>2, ShownOf
  <2> DEFINE X == Above(current, i) \cup Gone'
             Y == Above(current, i)
  <2>2. X \in SUBSET Items /\ Y \in SUBSET X
    BY DEF Above, Gone
  <2> HIDE DEF X, Y
  <2>3. Cardinality(X) \in Nat /\ Cardinality(Y) \in Nat /\ Cardinality(Y) <= Cardinality(X)
    BY <2>2, WindowSets
  <2>4. Cardinality(X) >= Window
    BY <2>1, <2>3, StreamNumbers DEF Y
  <2> QED BY <2>4 DEF X
<1>3. sent[i] # 0 => Cardinality(Above(sent, i)) < Window
  BY <1>0, ShownAbove
<1> HIDE DEF sent
<1>4. Above(current, i)' = Above(current, i) /\ Above(socket.known, i)' = Above(sent, i)
  BY <1>0 DEF Above
<1> QED BY <1>0, <1>1, <1>2, <1>3, <1>4 DEF WindowOf

\* The event of a conversation that is there.
LEMMA EventWindow ==
  ASSUME AppTypes, WorkStory, WindowStory, topic = "sessions", UNCHANGED <<topic, current, clock, work>>, HeadTaken,
         NEW e \in Items, Head(socket.channel).item = e, current[e] # 0,
         socket.known \in Contents, socket'.known = Shown([socket.known EXCEPT ![e] = current[e]])
  PROVE  WindowStory'
<1> DEFINE m    == [socket.known EXCEPT ![e] = current[e]]
           sent == Shown(m)
<1>0. /\ current \in Contents /\ current' = current /\ clock' = clock /\ socket'.known = sent /\ clock \in Nat
      /\ \A j \in Items : current[j] \in Nat /\ current[j] <= clock
  BY StreamNumbers, ChannelTypes DEF AppTypes, WorkStory
<1>1. m \in Contents /\ m[e] = current[e] /\ \A j \in Items : m[j] \in Nat /\ (j # e => m[j] = socket.known[j])
  BY <1>0, StreamNumbers DEF Contents
<1>2. \A j : Awaited(j)' => Awaited(j)
  <2>1. \A j : Carried(j)' = Carried(j)
    BY SameComing DEF HeadTaken
  <2>2. \A j : Names(socket.channel, j) <=> Names(Tail(socket.channel), j) \/ e = j
    BY ChannelTypes, TailHolds DEF HeadTaken
  <2> QED BY <2>1, <2>2 DEF Awaited, HeadTaken
<1>3. \A j \in Items \ {e} : Awaited(j) => Awaited(j)'
  <2>1. \A j : Carried(j)' = Carried(j)
    BY SameComing DEF HeadTaken
  <2>2. \A j : Names(socket.channel, j) <=> Names(Tail(socket.channel), j) \/ e = j
    BY ChannelTypes, TailHolds DEF HeadTaken
  <2> QED BY <2>1, <2>2 DEF Awaited, HeadTaken
<1>4. Gone' = Gone
  BY <1>0, <1>2, <1>3 DEF Gone
<1> SUFFICES ASSUME ~socket.signal, NEW i \in Items PROVE WindowOf(i)'
  BY DEF WindowStory, HeadTaken
<1>5. \A j \in Items : WindowOf(j)
  BY DEF WindowStory
<1>6. \A j \in Items : /\ m[j] <= clock /\ (m[j] <= current[j] \/ current[j] = 0)
                       /\ ~Awaited(j)' => m[j] \in {current[j], 0}
  <2> TAKE j \in Items
  <2>1. CASE j = e
    BY <1>0, <1>1, <2>1
  <2>2. CASE j # e
    BY <1>1, <1>3, <1>5, <2>2 DEF WindowOf
  <2> QED BY <2>1, <2>2
<1>7. sent[i] \in {m[i], 0} /\ (sent[i] # 0 => sent[i] = m[i])
  BY <1>1, ShownOf
<1>8. sent[i] # 0 => Cardinality(Above(sent, i)) < Window
  BY <1>1, ShownAbove
<1>9. ASSUME ~Awaited(i)', sent[i] = 0, current[i] # 0
      PROVE  Cardinality(Above(current, i) \cup Gone) >= Window
  <2>1. CASE m[i] = 0
    <3>1. i # e /\ socket.known[i] = 0
      BY <1>1, <1>9, <2>1
    <3>2. ~Awaited(i)
      BY <1>3, <1>9, <3>1
    <3> QED BY <1>5, <1>9, <3>1, <3>2 DEF WindowOf
  <2>2. CASE m[i] # 0
    <3>1. m[i] = current[i]
      BY <1>6, <1>9, <2>2
    <3>2. ~(Cardinality(Above(m, i)) < Window)
      BY <1>1, <1>9, <2>2, ShownOf
    <3> DEFINE X == Above(current, i) \cup Gone
               Y == Above(m, i)
    <3>3. Y \subseteq X
      <4> SUFFICES ASSUME NEW k \in Items, m[k] > m[i] PROVE k \in X
        BY DEF Above
      <4>1. m[k] \in Nat /\ m[i] \in Nat /\ current[k] \in Nat /\ m[k] # 0
        BY <1>0, <1>1
      <4>2. CASE m[k] <= current[k]
        <5>1. current[k] > current[i]
          BY <3>1, <4>1, <4>2
        <5> QED BY <5>1 DEF Above
      <4>3. CASE current[k] = 0
        <5>1. Awaited(k)'
          BY <1>6, <4>1, <4>3
        <5>2. Awaited(k)
          BY <5>1, <1>2
        <5> QED BY <4>3, <5>2 DEF Gone
      <4> QED BY <1>6, <4>2, <4>3
    <3>4. X \in SUBSET Items
      BY DEF Above, Gone
    <3> HIDE DEF X, Y
    <3>5. Cardinality(X) \in Nat /\ Cardinality(Y) \in Nat /\ Cardinality(Y) <= Cardinality(X)
      BY <3>3, <3>4, WindowSets
    <3>6. Cardinality(X) >= Window
      BY <3>2, <3>5, StreamNumbers DEF Y
    <3> QED BY <3>6 DEF X
  <2> QED BY <2>1, <2>2
<1> HIDE DEF sent, m
<1>10. Above(current, i)' = Above(current, i) /\ Above(socket.known, i)' = Above(sent, i)
  BY <1>0 DEF Above
<1>11. sent[i] <= clock /\ (sent[i] <= current[i] \/ current[i] = 0)
  BY <1>0, <1>1, <1>6, <1>7
<1>12. ~Awaited(i)' => sent[i] \in {current[i], 0}
  BY <1>6, <1>7
<1> QED BY <1>0, <1>4, <1>8, <1>9, <1>10, <1>11, <1>12 DEF WindowOf

\* A conversation changes, begins or is gone: its event is awaited.
LEMMA ChangeWindow ==
  ASSUME AppTypes, WorkStory, WindowStory, topic = "sessions",
         NEW p \in Publishers, NEW x \in Items, NEW stamp \in 0..MaxStamp, ChangeItem(p, x, stamp),
         \A j \in Items : socket.known[j] \in Int
  PROVE  WindowStory'
<1>1. topic \notin FlaggedTopics \cup {"health"}
  BY DEF FlaggedTopics
<1>2. socket' = socket /\ clock' = clock + 1 /\ (stamp = clock + 1 \/ stamp = 0) /\ stamp \in Nat
  <2>1. stamp \in Nat
    BY StreamNumbers
  <2>2. clock' = clock + 1 /\ (stamp = clock + 1 \/ stamp = 0)
    BY StampCases
  <2>3. socket' = socket
    BY <1>1, ChangeCases
  <2> QED BY <2>1, <2>2, <2>3
<1>3. /\ current'[x] = stamp /\ \A j \in Items \ {x} : current'[j] = current[j]
      /\ \A j \in Items : current[j] \in Nat /\ current[j] <= clock
      /\ clock \in Nat /\ (stamp = 0 \/ \A j \in Items : current[j] < stamp)
  BY StampGrows
<1>4. work'[p] = [at |-> "changed", item |-> x, stamp |-> stamp, to |-> 0] /\ Coming(p)' /\ ~Coming(p)
      /\ \A q \in Publishers \ {p} : work'[q] = work[q] /\ Coming(q)' = Coming(q)
  BY <1>1, ChangeComing
<1>5. Awaited(x)' /\ \A j : Awaited(j) => Awaited(j)'
  BY <1>2, <1>4 DEF Awaited, Carried
<1> SUFFICES ASSUME ~socket.signal, NEW i \in Items PROVE WindowOf(i)'
  BY <1>2 DEF WindowStory
<1>6. WindowOf(i)
  BY DEF WindowStory
<1>7. socket.known[i] <= clock + 1 /\ (socket.known[i] <= current'[i] \/ current'[i] = 0)
  <2>1. socket.known[i] \in Int /\ socket.known[i] <= clock /\ (socket.known[i] <= current[i] \/ current[i] = 0)
    BY <1>6 DEF WindowOf
  <2> QED BY <1>2, <1>3, <2>1
<1>8. ASSUME ~Awaited(i)' PROVE i # x /\ ~Awaited(i) /\ current'[i] = current[i]
  BY <1>3, <1>5, <1>8
<1>9. ASSUME ~Awaited(i)', socket.known[i] = 0, current[i] # 0
      PROVE  Cardinality(Above(current, i)' \cup Gone') >= Window
  <2> DEFINE X == Above(current, i)' \cup Gone'
             Y == Above(current, i) \cup Gone
  <2>1. Cardinality(Y) >= Window
    BY <1>6, <1>8, <1>9 DEF WindowOf
  <2>2. current'[i] = current[i] /\ i # x
    BY <1>8, <1>9
  <2>3. Y \subseteq X
    <3> SUFFICES ASSUME NEW k \in Items, current[k] > current[i] \/ (Awaited(k) /\ current[k] = 0)
                 PROVE  current'[k] > current[i] \/ (Awaited(k)' /\ current'[k] = 0)
      BY <2>2 DEF Above, Gone
    <3>1. CASE k = x
      BY <1>3, <1>5, <3>1
    <3>2. CASE k # x
      BY <1>3, <1>5, <3>2
    <3> QED BY <3>1, <3>2
  <2>4. X \in SUBSET Items
    BY DEF Above, Gone
  <2> HIDE DEF X, Y
  <2>5. Cardinality(X) \in Nat /\ Cardinality(Y) \in Nat /\ Cardinality(Y) <= Cardinality(X)
    BY <2>3, <2>4, WindowSets
  <2>6. Cardinality(X) >= Window
    BY <2>1, <2>5, StreamNumbers
  <2> QED BY <2>6 DEF X
<1>10. socket'.known = socket.known /\ Above(socket.known, i)' = Above(socket.known, i)
  BY <1>2 DEF Above
<1> QED BY <1>2, <1>6, <1>7, <1>8, <1>9, <1>10 DEF WindowOf

\* More events that are awaited.
LEMMA AwaitedWindow ==
  ASSUME AppTypes, WindowStory, UNCHANGED <<current, clock>>, socket'.known = socket.known, socket.signal => socket'.signal,
         \A j \in Items : Awaited(j) => Awaited(j)'
  PROVE  WindowStory'
<1> SUFFICES ASSUME ~socket.signal, NEW i \in Items PROVE WindowOf(i)'
  BY DEF WindowStory
<1>1. WindowOf(i)
  BY DEF WindowStory
<1>2. Above(current, i)' = Above(current, i) /\ Above(socket.known, i)' = Above(socket.known, i)
  BY DEF Above
<1>3. ASSUME Cardinality(Above(current, i) \cup Gone) >= Window
      PROVE  Cardinality(Above(current, i) \cup Gone') >= Window
  <2> DEFINE X == Above(current, i) \cup Gone'
             Y == Above(current, i) \cup Gone
  <2>1. X \in SUBSET Items /\ Y \in SUBSET X
    BY DEF Above, Gone
  <2>2. Cardinality(Y) >= Window
    BY <1>3
  <2> HIDE DEF X, Y
  <2>3. Cardinality(X) \in Nat /\ Cardinality(Y) \in Nat /\ Cardinality(Y) <= Cardinality(X)
    BY <2>1, WindowSets
  <2>4. Cardinality(X) >= Window
    BY <2>2, <2>3, StreamNumbers
  <2> QED BY <2>4 DEF X
<1> QED BY <1>1, <1>2, <1>3 DEF WindowOf

\* With nothing awaited the window is the server's.
LEMMA RestWindow ==
  ASSUME AppTypes, topic = "sessions", ~socket.signal, WindowStory, socket.known \in Contents,
         \A i \in Items : ~Awaited(i)
  PROVE  socket.known = Shown(current)
<1> DEFINE had  == socket.known
           sent == Shown(current)
<1>0. current \in Contents /\ sent \in Contents /\ had \in Contents
  BY ShownContents DEF AppTypes
<1>1. Gone = {}
  BY DEF Gone
<1>2. \A i \in Items : /\ had[i] \in {current[i], 0} /\ current[i] \in Nat
                       /\ had[i] = 0 /\ current[i] # 0 => Cardinality(Above(current, i)) >= Window
                       /\ had[i] # 0 => Cardinality(Above(had, i)) < Window
  <2> TAKE i \in Items
  <2>1. WindowOf(i) /\ ~Awaited(i) /\ Above(current, i) \cup Gone = Above(current, i)
    BY <1>1 DEF WindowStory
  <2> QED BY <2>1, ChannelTypes DEF WindowOf
<1> SUFFICES ASSUME NEW i \in Items PROVE had[i] = sent[i]
  BY <1>0 DEF Contents
<1>3. CASE had[i] = 0
  <2>1. CASE current[i] = 0
    BY <1>0, <1>3, <2>1, ShownOf
  <2>2. CASE current[i] # 0
    <3>1. Cardinality(Above(current, i)) >= Window
      BY <1>2, <1>3, <2>2
    <3>2. Above(current, i) \in SUBSET Items
      BY DEF Above
    <3>3. ~(Cardinality(Above(current, i)) < Window)
      BY <3>1, <3>2, WindowSets, StreamNumbers
    <3> QED BY <1>0, <1>3, <3>3, ShownOf
  <2> QED BY <2>1, <2>2
<1>4. CASE had[i] # 0
  <2>1. had[i] = current[i] /\ Cardinality(Above(had, i)) < Window
    BY <1>2, <1>4
  <2> SUFFICES ASSUME ~(Cardinality(Above(current, i)) < Window) PROVE FALSE
    BY <1>0, <2>1, ShownOf
  <2> DEFINE Left  == {k \in Above(current, i) : had[k] = 0}
             Sets  == {Above(current, k) : k \in Left}
  <2>2. Above(had, i) \in SUBSET Items
    BY DEF Above
  <2>3. ASSUME NEW Y \in SUBSET Above(had, i), ~(Cardinality(Y) < Window) PROVE FALSE
    BY <2>1, <2>2, <2>3, WindowSets, StreamNumbers
  <2>4. \A k \in Items : k \in Left \/ k \notin Above(current, i) \/ k \in Above(had, i)
    BY <1>2, <2>1 DEF Above
  <2>5. Left # {}
    <3>1. Left = {} => Above(current, i) \subseteq Above(had, i)
      BY <2>4 DEF Above
    <3> QED BY <2>3, <3>1
  <2>6. Sets # {} /\ Sets \subseteq FiniteSubsetsOf(Items)
    <3>1. \A k \in Left : Above(current, k) \in SUBSET Items
      BY DEF Above
    <3>2. \A X \in SUBSET Items : IsFiniteSet(X)
      BY StreamAssumption, FS_Subset DEF StreamAssumption
    <3> QED BY <2>5, <3>1, <3>2 DEF FiniteSubsetsOf
  <2>7. PICK least \in Sets : \A X \in Sets : <<X, least>> \notin StrictSubsetOrdering(Items)
    <3>1. IsWellFoundedOn(StrictSubsetOrdering(Items), FiniteSubsetsOf(Items))
      BY FS_StrictSubsetOrderingWellFounded
    <3> HIDE DEF Sets
    <3> QED BY <2>6, <3>1, WFMin
  <2>8. PICK k \in Left : least = Above(current, k)
    BY <2>7
  <2>9. k \in Items /\ current[k] > current[i] /\ had[k] = 0 /\ current[k] \in Nat /\ current[i] \in Nat
    BY <1>2, <2>8 DEF Above
  <2>10. Above(current, k) \subseteq Above(had, i)
    <3> SUFFICES ASSUME NEW j \in Items, current[j] > current[k] PROVE j \in Above(had, i)
      BY DEF Above
    <3>1. current[j] \in Nat /\ current[j] > current[i]
      BY <1>2, <2>9
    <3>2. Above(current, j) \subseteq Above(current, k) /\ j \in Above(current, k) /\ j \notin Above(current, j)
      <4>1. \A m \in Items : current[m] > current[j] => current[m] > current[k]
        BY <1>2, <2>9, <3>1
      <4>2. ~(current[j] > current[j])
        BY <3>1
      <4> QED BY <4>1, <4>2 DEF Above
    <3>3. j \notin Left
      <4> SUFFICES ASSUME j \in Left PROVE FALSE
        OBVIOUS
      <4>1. Above(current, j) \in Sets
        OBVIOUS
      <4>2. Above(current, j) \in SUBSET Items /\ Above(current, k) \in SUBSET Items /\ Above(current, j) # Above(current, k)
        BY <3>2 DEF Above
      <4>3. <<Above(current, j), Above(current, k)>> \in StrictSubsetOrdering(Items)
        BY <3>2, <4>2 DEF StrictSubsetOrdering
      <4> QED BY <2>7, <2>8, <4>1, <4>3
    <3> QED BY <2>4, <3>1, <3>3 DEF Above
  <2>11. ~(Cardinality(Above(current, k)) < Window)
    <3>1. Cardinality(Above(current, k)) >= Window
      BY <1>2, <2>9
    <3>2. Above(current, k) \in SUBSET Items
      BY DEF Above
    <3> QED BY <3>1, <3>2, WindowSets, StreamNumbers
  <2> QED BY <2>3, <2>10, <2>11
<1> QED BY <1>3, <1>4

---------------------------------------------------------------------------
(* What a listener with a snapshot shows *)

\* Of the topics, which are which.
LEMMA TopicNames ==
  /\ StateTopics = {"approvals", "sessions", "chat_state", "connections", "sftp_deletions"}
  /\ PushTopics = {"logs", "model_tests", "tasks", "mcp_activity"}
  /\ FlaggedTopics = {"logs", "model_tests"}
  /\ RevisionTopics = {"tasks", "sftp_deletions"} /\ SampledTopics = {"connections", "health"}
  /\ DeltaTopics = {"logs", "model_tests", "mcp_activity", "connections"}
BY DEF StateTopics, PushTopics, FlaggedTopics, RevisionTopics, DeltaTopics, SampledTopics

\* What is the server's is right to show.
LEMMA CurrentView ==
  ASSUME AppTypes, NEW view, view = current
  PROVE  /\ topic \in RevisionTopics => \A i \in Items : RevisionOf(view, i)
         /\ topic \in DeltaTopics => \A i \in Items : DeltaOf(view, i)
BY ChannelTypes DEF RevisionOf, DeltaOf

\* A step that leaves the channel and what was sent leaves every view right.
LEMMA RestingView ==
  ASSUME AppTypes, ChannelSame, UNCHANGED <<topic, current, clock, work>>, socket'.known = socket.known,
         troubles'.unsignalled = troubles.unsignalled, NEW view, ViewOf(view)
  PROVE  ViewOf(view)'
<1>1. /\ \A q \in Publishers : Coming(q)' = Coming(q) /\ Reaches(q)' = Reaches(q)
      /\ \A i : Carried(i)' = Carried(i)
  BY SameComing DEF ChannelSame
<1>2. /\ socket'.channel = socket.channel /\ socket'.signal = socket.signal /\ socket'.closed = socket.closed
      /\ topic' = topic /\ current' = current /\ work' = work
  BY DEF ChannelSame
<1>3. Moves' = Moves /\ \A i : Awaited(i)' = Awaited(i)
  BY <1>1, <1>2 DEF Moves, Awaited
<1>4. topic = "sessions" => WindowStory'
  BY <1>2, <1>3, AwaitedWindow DEF ViewOf
<1>5. Recovers' = Recovers
  BY <1>1, <1>2 DEF Recovers
<1>6. \A i \in Items : /\ RevisionOf(view, i) => RevisionOf(view, i)'
                       /\ DeltaOf(view, i) => DeltaOf(view, i)'
  <2> TAKE i \in Items
  <2>1. RevisionOf(view, i) => RevisionOf(view, i)'
    BY <1>1, <1>2, <1>5 DEF RevisionOf
  <2>2. DeltaOf(view, i) => DeltaOf(view, i)'
    BY <1>2, <1>3 DEF DeltaOf
  <2> QED BY <2>1, <2>2
<1>7. /\ topic' \in {"health", "chat_state", "sessions"} => view = socket'.known
      /\ topic' = "chat_state" => socket'.known = current' \/ Moves'
      /\ topic' = "approvals" => view = current' \/ Moves'
  BY <1>2, <1>3 DEF ViewOf
<1>8. topic' \in RevisionTopics => \A i \in Items : RevisionOf(view, i)'
  BY <1>2, <1>6 DEF ViewOf
<1>9. topic' \in DeltaTopics => \A i \in Items : DeltaOf(view, i)'
  BY <1>2, <1>6 DEF ViewOf
<1> QED BY <1>2, <1>4, <1>7, <1>8, <1>9 DEF ViewOf

\* A snapshot.
LEMMA SnapshotView ==
  ASSUME AppTypes, WorkStory, UNCHANGED <<topic, current, clock>>, socket'.known = Shown(current) \/ topic \in PushTopics,
         NEW view, view = Shown(current)
  PROVE  ViewOf(view)'
<1>1. topic' = topic /\ current' = current
  OBVIOUS
<1>2. topic # "sessions" => view = current
  BY DEF Shown
<1>3. topic = "sessions" => WindowStory'
  BY SnapshotWindow, TopicNames
<1>4. topic \in {"health", "chat_state", "sessions"} => view = socket'.known
  BY TopicNames
<1>5. topic \in RevisionTopics => \A i \in Items : RevisionOf(view, i)'
  <2> SUFFICES ASSUME topic \in RevisionTopics, NEW i \in Items PROVE RevisionOf(view, i)'
    OBVIOUS
  <2>1. view = current /\ current[i] \in Nat
    BY <1>2, TopicNames, ChannelTypes
  <2> QED BY <1>1, <2>1 DEF RevisionOf
<1>6. topic \in DeltaTopics => \A i \in Items : DeltaOf(view, i)'
  <2> SUFFICES ASSUME topic \in DeltaTopics, NEW i \in Items PROVE DeltaOf(view, i)'
    OBVIOUS
  <2>1. view = current
    BY <1>2, TopicNames
  <2> QED BY <1>1, <2>1 DEF DeltaOf
<1>7. /\ topic = "chat_state" => socket'.known = current'
      /\ topic = "approvals" => view = current'
  BY <1>1, <1>2, <1>4
<1> QED BY <1>1, <1>3, <1>4, <1>5, <1>6, <1>7 DEF ViewOf

\* A sample of the connections or the health.
LEMMA SampleView ==
  ASSUME topic \in SampledTopics, topic' = topic, NEW view, view = socket'.known
  PROVE  ViewOf(view)'
<1>1. topic' \in {"connections", "health"}
  BY TopicNames
<1>2. topic' \in DeltaTopics => \A i \in Items : DeltaOf(view, i)'
  BY <1>1, TopicNames DEF DeltaOf
<1> QED BY <1>1, <1>2, TopicNames DEF ViewOf

\* The difference to what was sent makes of it what is sent.
LEMMA DifferenceView ==
  ASSUME AppTypes, page' \in PageRecords, NEW l \in page.listening, topic \in {"sessions", "chat_state"},
         NEW old \in Contents, NEW new \in Contents, page' = Merges(page, Delta(old, new)), page.view[l] = old
  PROVE  page'.view[l] = new
<1> DEFINE D == {j \in Items : old[j] # new[j]}
<1>1. page \in PageRecords /\ l \in Listeners
  BY DEF AppTypes, PageRecords
<1>2. D \in SUBSET Items /\ Delta(old, new) \in [D -> 0..MaxStamp] /\ \A i \in D : Delta(old, new)[i] = new[i]
  BY DeltaChange DEF Delta
<1> HIDE DEF D
<1>3. \A i \in Items : page'.view[l][i] = IF i \in D /\ Supersedes(Delta(old, new)[i], page.view[l][i])
                                          THEN Delta(old, new)[i] ELSE page.view[l][i]
  BY <1>1, <1>2, MergesPage
<1>4. \A a, b : Supersedes(a, b)
  BY DEF Supersedes
<1>5. \A i \in Items : page'.view[l][i] = new[i]
  <2> TAKE i \in Items
  <2>1. CASE i \in D
    BY <1>2, <1>3, <1>4, <2>1
  <2>2. CASE i \notin D
    <3>1. old[i] = new[i]
      BY <2>2 DEF D
    <3> QED BY <1>3, <2>2, <3>1
  <2> QED BY <2>1, <2>2
<1>6. page'.view[l] \in Contents
  BY <1>1 DEF PageRecords
<1> QED BY <1>5, <1>6 DEF Contents

\* An event of a conversation or of a chat.
LEMMA SentDifference ==
  ASSUME AppTypes, AppTypes', WorkStory, UNCHANGED <<topic, current, clock, work>>, DifferenceMerged,
         NEW l \in page.listening, ViewOf(page.view[l])
  PROVE  ViewOf(page.view[l])'
<1> DEFINE event == Head(socket.channel)
           new   == Now(socket.known, event)
<1>1. /\ HeadTaken /\ event \in Changes /\ topic \in {"sessions", "chat_state"} /\ socket.known \in Contents
      /\ new \in Contents /\ socket'.known = new /\ page' = Merges(page, Delta(socket.known, new))
  BY DEF DifferenceMerged
<1>2. event.item \in Items
  BY <1>1 DEF Changes
<1>3. new = IF topic = "sessions" THEN SessionWindow(socket.known, event.item) ELSE current
  BY DEF Now
<1> HIDE DEF event, new
<1>4. page.view[l] = socket.known /\ (topic = "sessions" => WindowStory)
  BY <1>1 DEF ViewOf
<1>5. page'.view[l] = new
  BY <1>1, <1>4, DifferenceView DEF AppTypes
<1>6. topic = "sessions" => WindowStory'
  <2> SUFFICES ASSUME topic = "sessions" PROVE WindowStory'
    OBVIOUS
  <2>1. CASE current[event.item] = 0
    <3>1. socket'.known = Shown(current)
      BY <1>1, <1>3, <2>1 DEF SessionWindow
    <3> QED BY <3>1, SnapshotWindow
  <2>2. CASE current[event.item] # 0
    <3>1. socket'.known = Shown([socket.known EXCEPT ![event.item] = current[event.item]])
      BY <1>1, <1>3, <2>2 DEF SessionWindow
    <3>2. Head(socket.channel).item = event.item
      BY DEF event
    <3> QED BY <1>1, <1>2, <1>4, <2>2, <3>1, <3>2, EventWindow
  <2> QED BY <2>1, <2>2
<1>7. topic = "chat_state" => socket'.known = current
  BY <1>1, <1>3
<1> QED BY <1>1, <1>5, <1>6, <1>7, TopicNames DEF ViewOf

\* A change that is merged into what is shown.
LEMMA MergedView ==
  ASSUME AppTypes, AppTypes', SocketStory, OrderStory, RevisionStory, UNCHANGED <<topic, current, clock, work>>, ChangeMerged,
         troubles'.unsignalled = troubles.unsignalled, NEW l \in page.listening, ViewOf(page.view[l])
  PROVE  ViewOf(page.view[l])'
<1> DEFINE event == Head(socket.channel)
           ch    == socket.channel
           rest  == Tail(socket.channel)
           was   == page.view[l]
           is    == page'.view[l]
<1>0. /\ event \in Changes /\ event.item \in Items /\ event.stamp \in 0..MaxStamp /\ event.stamp \in Nat
      /\ ch \in Seq(Changes \cup {Resync}) /\ ch # <<>> /\ socket'.channel = rest
      /\ socket'.signal = socket.signal /\ socket'.closed = socket.closed
      /\ socket'.up = socket.up /\ socket'.subscriber = socket.subscriber /\ socket'.known = socket.known
      /\ topic \notin {"sessions", "chat_state", "approvals"}
  <2>1. event \in Changes /\ HeadTaken /\ socket'.known = socket.known /\ topic \notin {"sessions", "chat_state", "approvals"}
    BY DEF ChangeMerged
  <2>2. event.item \in Items /\ event.stamp \in 0..MaxStamp
    BY <2>1 DEF Changes
  <2> HIDE DEF event
  <2> QED BY <2>1, <2>2, ChannelTypes, StreamNumbers DEF HeadTaken
<1>1. /\ \A q \in Publishers : Coming(q)' = Coming(q) /\ Reaches(q)' = Reaches(q)
      /\ \A i : Carried(i)' = Carried(i)
  BY <1>0, SameComing
<1>2. /\ \A x : Holds(ch, x) <=> Holds(rest, x) \/ x = event
      /\ \A i : Names(ch, i) <=> Names(rest, i) \/ event.item = i
  BY <1>0, TailHolds
<1>3. /\ \A i \in Items \ {event.item} : is[i] = was[i]
      /\ is[event.item] = IF Supersedes(event.stamp, was[event.item]) THEN event.stamp ELSE was[event.item]
      /\ \A i \in Items : was[i] \in Nat /\ current[i] \in Nat
  <2> DEFINE D      == {event.item}
             change == [i \in D |-> event.stamp]
  <2>1. page \in PageRecords /\ l \in Listeners /\ page' = Merges(page, change) /\ page.view[l] \in Contents
    BY DEF AppTypes, PageRecords, ChangeMerged
  <2>2. D \in SUBSET Items /\ change \in [D -> 0..MaxStamp] /\ change[event.item] = event.stamp
    BY <1>0
  <2> HIDE DEF change, event
  <2>3. \A i \in Items : is[i] = IF i \in D /\ Supersedes(change[i], was[i]) THEN change[i] ELSE was[i]
    BY <2>1, <2>2, MergesPage
  <2>4. \A i \in Items : was[i] \in Nat /\ current[i] \in Nat
    BY <2>1, ChannelTypes, StreamNumbers DEF Contents
  <2> QED BY <1>0, <2>2, <2>3, <2>4
<1>4. Recovers => Recovers'
  <2>1. Resync # event
    BY <1>0, StreamConstants
  <2> QED BY <1>0, <1>1, <1>2, <2>1 DEF Recovers
<1>5. topic # "health"
  BY <1>0 DEF SocketStory
<1>6. topic \in DeltaTopics /\ ~socket.signal /\ ~socket.closed =>
        event.stamp = current[event.item] \/ Names(rest, event.item) \/ Carried(event.item)
  <2> SUFFICES ASSUME topic \in DeltaTopics, ~socket.signal, ~socket.closed
               PROVE  event.stamp = current[event.item] \/ Names(rest, event.item) \/ Carried(event.item)
    OBVIOUS
  <2>1. /\ 1 \in DOMAIN ch /\ event = ch[1] /\ DOMAIN ch \subseteq Nat \ {0}
        /\ \A k \in DOMAIN ch : k # 1 => k - 1 \in DOMAIN rest /\ rest[k - 1] = ch[k]
    BY <1>0, TailPlaces
  <2>2. ch[1].stamp = current[ch[1].item] \/ Overtaken(ch, 1) \/ Carried(ch[1].item)
    BY <2>1 DEF OrderStory
  <2> HIDE DEF ch, rest, event
  <2>3. Overtaken(ch, 1) => Names(rest, event.item)
    BY <2>1 DEF Overtaken, Names
  <2> QED BY <2>1, <2>2, <2>3
<1>7. topic \in RevisionTopics => event.stamp <= current[event.item]
  <2>1. Holds(ch, event)
    BY <1>2
  <2> QED BY <1>0, <2>1 DEF RevisionStory
<1>8. topic' = topic /\ current' = current /\ work' = work
  OBVIOUS
<1>9. topic \in RevisionTopics => (\A i \in Items : RevisionOf(was, i)) /\ \A a, b : Supersedes(a, b) <=> a > b
  BY TopicNames DEF ViewOf, Supersedes
<1>10. topic \in DeltaTopics => (\A i \in Items : DeltaOf(was, i)) /\ \A a, b : Supersedes(a, b)
  BY TopicNames DEF ViewOf, Supersedes
<1> HIDE DEF event, ch, rest, was, is
<1>11. ASSUME topic \in RevisionTopics, NEW i \in Items PROVE RevisionOf(page.view[l], i)'
  <2>1. was[i] \in Nat /\ current[i] \in Nat /\ was[i] <= current[i]
    BY <1>3, <1>9, <1>11 DEF RevisionOf
  <2>2. is[i] <= current[i] /\ (was[i] = current[i] => is[i] = current[i])
    <3>1. CASE i # event.item
      BY <1>3, <2>1, <3>1
    <3>2. CASE i = event.item
      BY <1>0, <1>3, <1>7, <1>9, <1>11, <2>1, <3>2
    <3> QED BY <3>1, <3>2
  <2>3. event = [item |-> i, stamp |-> current[i]] => is[i] = current[i]
    <3> SUFFICES ASSUME event = [item |-> i, stamp |-> current[i]] PROVE is[i] = current[i]
      OBVIOUS
    <3>1. event.item = i /\ event.stamp = current[i]
      OBVIOUS
    <3>2. is[i] = IF current[i] > was[i] THEN current[i] ELSE was[i]
      BY <1>3, <1>9, <1>11, <3>1
    <3> QED BY <2>1, <3>2
  <2>4. \/ was[i] = current[i] \/ Holds(ch, [item |-> i, stamp |-> current[i]])
        \/ (\E p \in Publishers : Coming(p) /\ work[p].item = i /\ work[p].stamp = current[i])
        \/ Recovers
    BY <1>9, <1>11 DEF RevisionOf, ch
  <2>5. \/ is[i] = current[i] \/ Holds(rest, [item |-> i, stamp |-> current[i]])
        \/ (\E p \in Publishers : Coming(p)' /\ work[p].item = i /\ work[p].stamp = current[i])
        \/ Recovers'
    BY <1>1, <1>2, <1>4, <2>2, <2>3, <2>4
  <2>6. socket'.channel = rest
    BY <1>0
  <2> QED BY <1>8, <2>2, <2>5, <2>6 DEF RevisionOf, is
<1>12. ASSUME topic \in DeltaTopics, NEW i \in Items PROVE DeltaOf(page.view[l], i)'
  <2>1. CASE socket.signal \/ socket.closed
    BY <1>0, <2>1 DEF DeltaOf
  <2>2. CASE ~(socket.signal \/ socket.closed) /\ i = event.item
    <3>1. is[i] = event.stamp
      BY <1>3, <1>10, <1>12, <2>2
    <3>2. event.stamp = current[i] \/ Names(rest, i) \/ Carried(i)
      BY <1>6, <1>12, <2>2
    <3> QED BY <1>0, <1>1, <1>8, <3>1, <3>2 DEF DeltaOf, Awaited, is
  <2>3. CASE ~(socket.signal \/ socket.closed) /\ i # event.item
    <3>1. is[i] = was[i]
      BY <1>3, <2>3
    <3>2. was[i] = current[i] \/ (topic = "connections" /\ was[i] = socket.known[i]) \/ Names(ch, i) \/ Carried(i)
      BY <1>10, <1>12, <2>3 DEF DeltaOf, Awaited, ch
    <3>3. Names(ch, i) => Names(rest, i)
      BY <1>2, <2>3
    <3> QED BY <1>0, <1>1, <1>8, <3>1, <3>2, <3>3 DEF DeltaOf, Awaited, is
  <2> QED BY <2>1, <2>2, <2>3
<1>13. topic' \notin {"health", "sessions", "chat_state", "approvals"}
  BY <1>0, <1>5
<1>14. /\ topic' \in RevisionTopics => \A i \in Items : RevisionOf(page.view[l], i)'
       /\ topic' \in DeltaTopics => \A i \in Items : DeltaOf(page.view[l], i)'
  BY <1>8, <1>11, <1>12
<1> QED BY <1>13, <1>14 DEF ViewOf

LEMMA ViewStoryOutcome ==
  ASSUME AppTypes, AppTypes', SocketStory, PageStory, WorkStory, OrderStory, RevisionStory, ViewStory, Outcome
  PROVE  ViewStory'
<1> SUFFICES ASSUME ~page'.wrong, NEW l \in page'.fresh PROVE ViewOf(page.view[l])'
  BY DEF ViewStory
<1>0. UNCHANGED <<topic, current, clock, work>> /\ troubles'.unsignalled = troubles.unsignalled
  BY DEF Outcome
<1>1. CASE PageRests
  <2>1. page'.view[l] = page.view[l] /\ ViewOf(page.view[l]) /\ ChannelSame /\ socket'.known = socket.known
    BY <1>1 DEF PageRests, ViewStory
  <2> DEFINE was == page.view[l]
  <2>2. ViewOf(was)
    BY <2>1
  <2> HIDE DEF was
  <2>3. \A v : ViewOf(v) => ViewOf(v)'
    BY <1>0, <2>1, RestingView
  <2> QED BY <2>1, <2>3 DEF ViewOf
<1>2. CASE NobodyShown
  BY <1>2 DEF NobodyShown
<1>3. CASE SnapshotShown
  BY <1>0, <1>3, SnapshotView DEF SnapshotShown
<1>4. CASE SampleShown
  BY <1>0, <1>4, SampleView DEF SampleShown
<1>5. ASSUME page'.fresh = page.fresh, page'.wrong = page.wrong
      PROVE  l \in page.listening /\ ViewOf(page.view[l])
  BY <1>5 DEF PageStory, ViewStory
<1>6. CASE DifferenceMerged
  <2>1. page'.fresh = page.fresh /\ page'.wrong = page.wrong
    <3> DEFINE new    == Now(socket.known, Head(socket.channel))
               D      == {j \in Items : socket.known[j] # new[j]}
               change == Delta(socket.known, new)
    <3>1. socket.known \in Contents /\ new \in Contents /\ page' = Merges(page, change) /\ page \in PageRecords
      BY <1>6 DEF DifferenceMerged, AppTypes
    <3> HIDE DEF new
    <3>2. D \in SUBSET Items /\ change \in [D -> 0..MaxStamp]
      BY <3>1, DeltaChange
    <3> HIDE DEF D, change
    <3> QED BY <3>1, <3>2, MergesFields
  <2> QED BY <1>0, <1>5, <1>6, <2>1, SentDifference
<1>7. CASE ChangeMerged
  <2>1. page'.fresh = page.fresh /\ page'.wrong = page.wrong
    <3> DEFINE D      == {Head(socket.channel).item}
               change == [i \in D |-> Head(socket.channel).stamp]
    <3>1. D \in SUBSET Items /\ change \in [D -> 0..MaxStamp]
      BY <1>7 DEF ChangeMerged, Changes
    <3>2. page' = Merges(page, change) /\ page \in PageRecords
      BY <1>7 DEF ChangeMerged, AppTypes
    <3> HIDE DEF D, change
    <3> QED BY <3>1, <3>2, MergesFields
  <2> QED BY <1>0, <1>5, <1>7, <2>1, MergedView
<1> QED BY <1>1, <1>2, <1>3, <1>4, <1>6, <1>7 DEF Outcome

\* A change leaves right what a listener shows that is served: its event is on its way.
LEMMA ChangedView ==
  ASSUME AppTypes, SocketStory, WorkStory, socket.up, socket.serves, NEW view \in Contents, ViewOf(view),
         NEW p \in Publishers, NEW x \in Items, NEW stamp \in 0..MaxStamp, ChangeItem(p, x, stamp)
  PROVE  ViewOf(view)'
<1>0. /\ topic' = topic /\ troubles' = troubles /\ work[p].at = "idle"
      /\ socket'.known = socket.known /\ socket'.closed = socket.closed
      /\ socket'.up = socket.up /\ socket'.subscriber = socket.subscriber
  BY ChangeCases
<1>1. /\ current'[x] = stamp /\ \A j \in Items \ {x} : current'[j] = current[j]
      /\ \A j \in Items : current[j] \in Nat
      /\ topic \notin {"sessions", "connections"} => current[x] < stamp
  BY StampGrows
<1>2. ~Coming(p) /\ \A q \in Publishers \ {p} : work'[q] = work[q] /\ Coming(q)' = Coming(q) /\ Reaches(q)' = Reaches(q)
  BY ChangeComing
<1>a. stamp \in Nat /\ \A j \in Items : view[j] \in Nat
  BY StreamNumbers DEF Contents
<1>3. topic \notin FlaggedTopics \cup {"health"} =>
        /\ socket' = socket /\ Coming(p)'
        /\ work'[p] = [at |-> "changed", item |-> x, stamp |-> stamp, to |-> 0]
  BY ChangeCases, ChangeComing
<1>4. topic \in {"sessions", "chat_state", "approvals", "connections", "mcp_activity", "tasks", "sftp_deletions"} =>
        topic \notin FlaggedTopics \cup {"health"}
  BY TopicNames
<1>5. topic \notin FlaggedTopics \cup {"health"} => Moves' /\ Awaited(x)' /\ \A j : Awaited(j) => Awaited(j)'
  BY <1>2, <1>3 DEF Moves, Awaited, Carried
<1>6. topic = "sessions" => WindowStory'
  <2>1. \A j \in Items : socket.known[j] \in Int
    BY StreamNumbers DEF AppTypes, SocketRecords, Contents, NotKnown
  <2> QED BY <2>1, ChangeWindow DEF ViewOf
<1>7. ASSUME topic \in RevisionTopics, NEW i \in Items PROVE RevisionOf(view, i)'
  <2>1. /\ RevisionOf(view, i) /\ socket' = socket /\ Coming(p)'
        /\ work'[p] = [at |-> "changed", item |-> x, stamp |-> stamp, to |-> 0] /\ current[x] < stamp
    BY <1>1, <1>3, <1>7, TopicNames DEF ViewOf
  <2>2. work'[p].item = x /\ work'[p].stamp = stamp
    BY <2>1
  <2>3. Recovers => Recovers'
    BY <1>0, <1>2, <2>1 DEF Recovers
  <2>4. CASE i # x
    <3>1. current'[i] = current[i] /\ view[i] <= current[i]
      BY <1>1, <2>1, <2>4 DEF RevisionOf
    <3>2. \/ view[i] = current[i] \/ Holds(socket.channel, [item |-> i, stamp |-> current[i]])
          \/ (\E q \in Publishers : Coming(q)' /\ work'[q].item = i /\ work'[q].stamp = current[i])
          \/ Recovers'
      BY <1>2, <2>1, <2>3 DEF RevisionOf
    <3> QED BY <2>1, <3>1, <3>2 DEF RevisionOf
  <2>5. CASE i = x
    <3>1. view[i] <= current[i] /\ current[i] < stamp /\ current'[i] = stamp /\ current[i] \in Nat
      BY <1>1, <2>1, <2>5 DEF RevisionOf
    <3>2. view[i] <= stamp
      BY <1>a, <3>1
    <3> QED BY <2>1, <2>2, <2>5, <3>1, <3>2 DEF RevisionOf
  <2> QED BY <2>4, <2>5
<1>8. ASSUME topic \in DeltaTopics, NEW i \in Items PROVE DeltaOf(view, i)'
  <2>1. DeltaOf(view, i)
    BY <1>8 DEF ViewOf
  <2>2. CASE topic \notin FlaggedTopics
    <3>1. topic \notin FlaggedTopics \cup {"health"}
      BY <1>8, <2>2, TopicNames
    <3>2. socket' = socket /\ Awaited(x)' /\ \A j : Awaited(j) => Awaited(j)'
      BY <1>3, <1>5, <3>1
    <3>3. CASE i = x
      BY <3>2, <3>3 DEF DeltaOf
    <3>4. CASE i # x
      BY <1>0, <1>1, <2>1, <3>2, <3>4 DEF DeltaOf
    <3> QED BY <3>3, <3>4
  <2>3. CASE topic \in FlaggedTopics
    <3>1. \/ UNCHANGED <<socket, work>> /\ (~(socket.up /\ socket.serves) \/ socket.flagged)
          \/ /\ UNCHANGED work
             /\ socket'.channel = Append(socket.channel, [item |-> x, stamp |-> stamp]) /\ socket'.signal = socket.signal
          \/ socket'.signal = TRUE
      <4>1. \/ topic \in FlaggedTopics /\ UNCHANGED <<socket, work>> /\ (~(socket.up /\ socket.serves) \/ socket.flagged)
            \/ /\ topic \in FlaggedTopics /\ UNCHANGED work /\ socket.up /\ socket.serves
               /\ socket'.channel = Append(socket.channel, [item |-> x, stamp |-> stamp])
               /\ socket'.signal = socket.signal /\ socket'.flagged = socket.flagged
            \/ /\ topic \in FlaggedTopics /\ UNCHANGED work /\ socket.up /\ socket.serves
               /\ socket'.channel = socket.channel /\ socket'.signal = TRUE /\ socket'.flagged = TRUE
            \/ topic = "health" /\ UNCHANGED <<socket, work>>
            \/ /\ topic \notin FlaggedTopics \cup {"health"} /\ UNCHANGED socket
               /\ work' = [work EXCEPT ![p] = [at |-> "changed", item |-> x, stamp |-> stamp, to |-> 0]]
        BY ChangeCases, Zenon
      <4>2. topic # "health"
        BY <2>3, TopicKinds
      <4> QED BY <2>3, <4>1, <4>2
    <3>2. CASE UNCHANGED <<socket, work>> /\ (~(socket.up /\ socket.serves) \/ socket.flagged)
      <4>1. socket.signal
        BY <2>3, <3>2 DEF SocketStory
      <4> QED BY <3>2, <4>1 DEF DeltaOf
    <3>3. CASE UNCHANGED work /\ socket'.channel = Append(socket.channel, [item |-> x, stamp |-> stamp]) /\ socket'.signal = socket.signal
      <4> DEFINE event == [item |-> x, stamp |-> stamp]
      <4>1. event \in Changes \cup {Resync} /\ event.item = x
        BY DEF Changes
      <4>2. socket'.channel = Append(socket.channel, event) /\ socket.channel \in Seq(Changes \cup {Resync})
        BY <3>3, ChannelTypes
      <4> HIDE DEF event
      <4>3. \A j : Names(socket'.channel, j) <=> Names(socket.channel, j) \/ x = j
        BY <4>1, <4>2, AppendHolds
      <4>4. \A j : Carried(j)' = Carried(j)
        BY <1>0, <3>3, SameComing
      <4>5. CASE i = x
        BY <4>3, <4>5 DEF DeltaOf, Awaited
      <4>6. CASE i # x
        BY <1>0, <1>1, <2>1, <3>3, <4>3, <4>4, <4>6 DEF DeltaOf, Awaited
      <4> QED BY <4>5, <4>6
    <3>4. CASE socket'.signal = TRUE
      BY <3>4 DEF DeltaOf
    <3> QED BY <3>1, <3>2, <3>3, <3>4
  <2> QED BY <2>2, <2>3
<1>9. /\ topic \in {"health", "chat_state", "sessions"} => view = socket'.known
      /\ topic \in {"chat_state", "approvals"} => Moves'
  BY <1>0, <1>4, <1>5 DEF ViewOf
<1> QED BY <1>0, <1>6, <1>7, <1>8, <1>9 DEF ViewOf

\* A publisher's step: what is awaited still is, or the socket begins again.
LEMMA PublishingAwaited ==
  ASSUME AppTypes, WorkStory, Registered, NEW p \in Publishers, Publishing(p), topic \in StateTopics \cup {"mcp_activity"}
  PROVE  /\ topic \in StateTopics /\ Moves => Moves'
         /\ socket.signal => socket'.signal
         /\ socket.closed => socket'.closed
         /\ socket'.signal \/ socket'.closed \/ \A j : Awaited(j) => Awaited(j)'
         /\ topic \in StateTopics => socket'.signal \/ \A j : Awaited(j) => Awaited(j)'
<1>0. /\ socket.channel \in Seq(Changes \cup {Resync}) /\ Event(work[p]) \in Changes \cup {Resync} /\ Event(work[p]).item = work[p].item
      /\ socket.signal \in BOOLEAN /\ socket.closed \in BOOLEAN
      /\ socket'.up = socket.up /\ socket'.subscriber = socket.subscriber
  BY ChannelTypes, PublishingCases DEF Event
<1>1. topic # "tasks" /\ work[p].at # "full" /\ (topic = "mcp_activity" => topic \notin StateTopics)
      /\ (topic = "mcp_activity" => work[p].at # "sending")
  BY TopicNames DEF WorkStory, WorkOf
<1>2. \A q \in Publishers \ {p} : work'[q] = work[q] /\ Coming(q)' = Coming(q)
  BY OthersComing
<1>3. \A j : Carried(j) => Carried(j)' \/ (Coming(p) /\ work[p].item = j)
  BY <1>2 DEF Carried
<1>4. CASE UNCHANGED socket /\ (Coming(p) => Coming(p)' /\ work'[p].item = work[p].item)
  <2>1. \A j : Carried(j) => Carried(j)'
    BY <1>3, <1>4 DEF Carried
  <2>2. \A j : Awaited(j) => Awaited(j)'
    BY <1>4, <2>1 DEF Awaited
  <2>3. Moves => Moves'
    BY <1>2, <1>4 DEF Moves
  <2> QED BY <1>4, <2>2, <2>3
<1>5. CASE /\ UNCHANGED socket /\ Registered /\ work[p].at = "changed"
           /\ work' = [work EXCEPT ![p] = [@ EXCEPT !.at = "sending", !.to = socket.subscriber]]
  <2>1. work'[p].at = "sending" /\ work'[p].item = work[p].item /\ work'[p].to = socket.subscriber
    BY <1>5 DEF AppTypes, WorkRecords
  <2>2. Coming(p)'
    BY <1>5, <2>1 DEF Coming, Reaches, Registered
  <2> QED BY <1>4, <1>5, <2>1, <2>2
<1>6. CASE UNCHANGED socket /\ work[p].at = "sending" /\ ~Reaches(p)
  <2>1. ~Coming(p)
    BY <1>6 DEF Coming
  <2> QED BY <1>4, <1>6, <2>1
<1>7. CASE UNCHANGED socket /\ socket.closed /\ topic = "mcp_activity" /\ work[p].at = "changed"
           /\ work' = [work EXCEPT ![p].at = "idle"]
  <2>1. socket'.closed /\ socket'.signal = socket.signal
    BY <1>7
  <2> QED BY <1>1, <1>7, <2>1
<1>8. CASE socket'.channel = Append(socket.channel, Event(work[p])) /\ socket'.closed = socket.closed /\ socket'.signal = socket.signal
  <2>1. \A j : Names(socket'.channel, j) <=> Names(socket.channel, j) \/ work[p].item = j
    BY <1>0, <1>8, AppendHolds
  <2>2. \A j : Awaited(j) => Awaited(j)'
    BY <1>3, <2>1 DEF Awaited
  <2>3. socket'.channel # <<>>
    BY <1>0, <1>8
  <2> QED BY <1>8, <2>2, <2>3 DEF Moves
<1>9. CASE socket'.signal = TRUE /\ socket'.closed = socket.closed
  BY <1>9 DEF Moves
<1>10. CASE socket'.closed = TRUE /\ topic = "mcp_activity" /\ socket'.signal = socket.signal
  BY <1>1, <1>10
<1> QED BY <1>1, <1>4, <1>5, <1>6, <1>7, <1>8, <1>9, <1>10, PublishingCases

\* A publisher's step leaves right what a listener shows that is served.
LEMMA PublishedView ==
  ASSUME AppTypes, WorkStory, socket.up, socket.serves, NEW view, ViewOf(view), NEW p \in Publishers, Publishing(p)
  PROVE  ViewOf(view)'
<1>0. /\ topic' = topic /\ current' = current /\ clock' = clock /\ socket'.known = socket.known
      /\ socket'.up = socket.up /\ socket'.subscriber = socket.subscriber
      /\ socket.channel \in Seq(Changes \cup {Resync}) /\ Event(work[p]) \in Changes
      /\ socket.signal \in BOOLEAN
  BY ChannelTypes, PublishingCases
<1>1. Registered
  BY DEF Registered
<1>2. topic \in StateTopics \cup {"mcp_activity"} =>
        /\ topic \in StateTopics /\ Moves => Moves'
        /\ socket.signal => socket'.signal
        /\ socket.closed => socket'.closed
        /\ socket'.signal \/ socket'.closed \/ \A j : Awaited(j) => Awaited(j)'
        /\ topic \in StateTopics => socket'.signal \/ \A j : Awaited(j) => Awaited(j)'
  BY <1>1, PublishingAwaited
<1>3. topic = "sessions" => WindowStory'
  <2> SUFFICES ASSUME topic = "sessions" PROVE WindowStory'
    OBVIOUS
  <2>1. topic \in StateTopics /\ WindowStory
    BY TopicNames DEF ViewOf
  <2>2. (socket.signal => socket'.signal) /\ (socket'.signal \/ \A j : Awaited(j) => Awaited(j)')
    BY <1>2, <2>1
  <2>3. CASE socket'.signal
    BY <2>3 DEF WindowStory
  <2>4. CASE \A j : Awaited(j) => Awaited(j)'
    BY <1>0, <2>1, <2>2, <2>4, AwaitedWindow
  <2> QED BY <2>2, <2>3, <2>4
<1>4. ASSUME topic \in DeltaTopics, NEW i \in Items PROVE DeltaOf(view, i)'
  <2>1. DeltaOf(view, i)
    BY <1>4 DEF ViewOf
  <2>2. topic \in StateTopics \cup {"mcp_activity"}
    <3>1. work[p].at # "idle"
      BY DEF Publishing, FindSubscriber, SendState, SendTask, AskResync, SendActivity, Advances
    <3>2. topic \notin FlaggedTopics
      BY <3>1 DEF WorkStory, WorkOf
    <3> QED BY <1>4, <3>2, TopicNames
  <2> QED BY <1>0, <1>2, <2>1, <2>2 DEF DeltaOf
<1>5. ASSUME topic \in RevisionTopics, NEW i \in Items PROVE RevisionOf(view, i)'
  <2> DEFINE last == [item |-> i, stamp |-> current[i]]
  <2>1. /\ view[i] <= current[i]
        /\ \/ view[i] = current[i] \/ Holds(socket.channel, last)
           \/ \E q \in Publishers : Coming(q) /\ work[q].item = i /\ work[q].stamp = current[i]
           \/ Recovers
    BY <1>5 DEF ViewOf, RevisionOf
  <2>2. topic # "mcp_activity" /\ WorkOf(p) /\ work[p] \in WorkRecords
    BY <1>5, TopicNames DEF WorkStory, AppTypes
  <2>3. \A q \in Publishers \ {p} : work'[q] = work[q] /\ Coming(q)' = Coming(q) /\ Reaches(q)' = Reaches(q)
    BY OthersComing
  <2>4. (Coming(p) /\ work[p].item = i /\ work[p].stamp = current[i]) => Event(work[p]) = last
    BY DEF Event
  <2> HIDE DEF last
  <2> DEFINE Good == \/ view[i] = current[i] \/ Holds(socket'.channel, last)
                     \/ (\E q \in Publishers : Coming(q)' /\ work'[q].item = i /\ work'[q].stamp = current[i])
                     \/ Recovers'
  <2> SUFFICES Good
    BY <1>0, <2>1 DEF RevisionOf, last
  <2>5. ASSUME \A x \in {last, Resync} : Holds(socket.channel, x) => Holds(socket'.channel, x),
               socket.signal => socket'.signal, troubles.unsignalled => troubles'.unsignalled,
               Coming(p) /\ work[p].item = i /\ work[p].stamp = current[i] => Good,
               work[p].at = "full" /\ Reaches(p) => Recovers'
        PROVE  Good
    <3>1. CASE view[i] = current[i] \/ Holds(socket.channel, last)
      BY <2>5, <3>1
    <3>2. CASE \E q \in Publishers : Coming(q) /\ work[q].item = i /\ work[q].stamp = current[i]
      BY <2>3, <2>5, <3>2
    <3>3. CASE Recovers
      <4>1. CASE socket.signal \/ troubles.unsignalled \/ Holds(socket.channel, Resync)
        BY <2>5, <4>1 DEF Recovers
      <4>2. CASE \E q \in Publishers : work[q].at = "full" /\ Reaches(q)
        BY <2>3, <2>5, <4>2 DEF Recovers
      <4> QED BY <3>3, <4>1, <4>2 DEF Recovers
    <3> QED BY <2>1, <3>1, <3>2, <3>3
  <2>6. CASE /\ UNCHANGED <<socket, troubles>> /\ Registered /\ work[p].at = "changed"
             /\ work' = [work EXCEPT ![p] = [@ EXCEPT !.at = "sending", !.to = socket.subscriber]]
    <3>1. /\ work'[p].at = "sending" /\ work'[p].item = work[p].item /\ work'[p].to = socket.subscriber
          /\ work'[p].stamp = work[p].stamp
      BY <2>6 DEF AppTypes, WorkRecords
    <3>2. Coming(p)'
      BY <2>6, <3>1 DEF Coming, Reaches, Registered
    <3>3. Coming(p) /\ work[p].item = i /\ work[p].stamp = current[i] => Good
      BY <3>1, <3>2
    <3> HIDE DEF Good
    <3> QED BY <2>5, <2>6, <3>3
  <2>7. CASE UNCHANGED <<socket, troubles>> /\ work[p].at = "sending" /\ ~Reaches(p)
    <3>1. ~Coming(p)
      BY <2>7 DEF Coming
    <3> HIDE DEF Good
    <3> QED BY <2>5, <2>7, <3>1
  <2>8. CASE /\ UNCHANGED troubles /\ work[p].at \in {"sending", "changed"}
             /\ socket'.channel = Append(socket.channel, Event(work[p])) /\ socket'.signal = socket.signal
    <3>1. \A x : Holds(socket'.channel, x) <=> Holds(socket.channel, x) \/ x = Event(work[p])
      BY <1>0, <2>8, AppendHolds
    <3>2. Coming(p) /\ work[p].item = i /\ work[p].stamp = current[i] => Good
      BY <2>4, <3>1
    <3> HIDE DEF Good
    <3> QED BY <2>5, <2>8, <3>1, <3>2
  <2>9. CASE socket'.signal = TRUE
    BY <2>9 DEF Recovers
  <2>10. CASE /\ work' = [work EXCEPT ![p].at = "full"] /\ work[p].at = "sending" /\ Reaches(p)
    <3>1. work'[p].at = "full" /\ work'[p].to = work[p].to
      BY <2>2, <2>10 DEF AppTypes, WorkRecords
    <3>2. Reaches(p)'
      BY <1>0, <2>10, <3>1 DEF Reaches
    <3> QED BY <3>1, <3>2 DEF Recovers
  <2>11. CASE /\ work[p].at = "full" /\ Reaches(p)
              /\ \/ socket'.channel = Append(socket.channel, Resync)
                 \/ troubles'.unsignalled = TRUE
    <3>1. CASE socket'.channel = Append(socket.channel, Resync)
      <4>1. Holds(socket'.channel, Resync)
        BY <1>0, <3>1, AppendHolds
      <4> QED BY <4>1 DEF Recovers
    <3>2. CASE troubles'.unsignalled = TRUE
      BY <3>2 DEF Recovers
    <3> QED BY <2>11, <3>1, <3>2
  <2>12. CASE work[p].at = "full" /\ ~Reaches(p) /\ UNCHANGED <<socket, troubles>>
    <3>1. ~Coming(p)
      BY <2>12 DEF Coming
    <3> HIDE DEF Good
    <3> QED BY <2>5, <2>12, <3>1
  <2> HIDE DEF Good
  <2> QED BY <1>1, <2>2, <2>6, <2>7, <2>8, <2>9, <2>10, <2>11, <2>12, PublishingCases
<1>6. /\ topic \in {"health", "chat_state", "sessions"} => view = socket'.known
      /\ topic = "chat_state" => socket'.known = current \/ Moves'
      /\ topic = "approvals" => view = current \/ Moves'
  BY <1>0, <1>2, TopicNames DEF ViewOf
<1> QED BY <1>0, <1>3, <1>4, <1>5, <1>6 DEF ViewOf

LEMMA ViewStoryStep ==
  ASSUME AppTypes, AppTypes', SocketStory, PageStory, WorkStory, OrderStory, RevisionStory, ViewStory, [AppNext]_appVars
  PROVE  ViewStory'
<1>1. ASSUME UNCHANGED page, \A v \in Contents : socket.up /\ socket.serves /\ ViewOf(v) => ViewOf(v)'
      PROVE  ViewStory'
  <2> SUFFICES ASSUME ~page.wrong, NEW l \in page.fresh PROVE ViewOf(page.view[l])'
    BY <1>1 DEF ViewStory
  <2>1. page.view[l] \in Contents /\ socket.up /\ socket.serves /\ ViewOf(page.view[l]) /\ page'.view[l] = page.view[l]
    BY <1>1 DEF AppTypes, PageRecords, PageStory, ViewStory
  <2> QED BY <1>1, <2>1 DEF ViewOf
<1>2. ASSUME NEW p \in Publishers, NEW i \in Items, NEW stamp \in 0..MaxStamp, ChangeItem(p, i, stamp)
      PROVE  ViewStory'
  BY <1>1, <1>2, ChangedView, ChangeCases
<1>3. ASSUME NEW p \in Publishers, Publishing(p)
      PROVE  ViewStory'
  BY <1>1, <1>3, PublishedView, PublishingCases
<1>4. CASE Outcome
  BY <1>4, ViewStoryOutcome
<1> QED BY <1>2, <1>3, <1>4, OutcomeCases

---------------------------------------------------------------------------
(* The page catches up *)

LEMMA StreamInvInit == AppInit => StreamInv
<1> SUFFICES ASSUME AppInit PROVE StreamInv
  OBVIOUS
<1>1. AppTypes
  BY AppTypesInit
<1>2. /\ socket.up = FALSE /\ socket.serves = FALSE /\ socket.channel = <<>> /\ socket.signal = FALSE
      /\ socket.closed = FALSE /\ socket.step = "select" /\ socket.flagged = FALSE
      /\ page.fresh = {} /\ page.opened = {} /\ page.listening = {} /\ page.asks = {}
  BY DEF AppInit, NoSocket, NoPage
<1>3. SocketStory
  BY <1>2, EmptyHolds DEF SocketStory
<1>4. PageStory
  BY <1>2 DEF PageStory
<1>5. WorkStory
  <2>1. \A i \in Items : current[i] = 0 /\ current[i] <= clock
    BY DEF AppInit, Blank
  <2>2. \A p \in Publishers : work[p].at = "idle" /\ work[p].item \in Items /\ work[p].stamp = 0
    BY StreamConstants DEF AppInit, IdleWork, WorkRecords
  <2> QED BY <2>1, <2>2 DEF WorkStory, WorkOf
<1>6. OrderStory /\ RevisionStory /\ ViewStory
  BY <1>2, EmptyHolds DEF OrderStory, RevisionStory, ViewStory
<1> QED BY <1>1, <1>3, <1>4, <1>5, <1>6 DEF StreamInv

LEMMA StreamInvStep == StreamInv /\ [AppNext]_appVars => StreamInv'
<1> SUFFICES ASSUME StreamInv, [AppNext]_appVars PROVE StreamInv'
  OBVIOUS
<1>1. AppTypes /\ SocketStory /\ PageStory /\ WorkStory /\ OrderStory /\ RevisionStory /\ ViewStory
  BY DEF StreamInv
<1>2. AppTypes'
  BY <1>1, AppTypeStep
<1>3. SocketStory' /\ PageStory'
  BY <1>1, SocketStoryStep, PageStoryStep
<1>4. WorkStory'
  BY <1>1, <1>2, WorkStoryStep
<1>5. OrderStory' /\ RevisionStory'
  BY <1>1, OrderStoryStep, RevisionStoryStep
<1>6. ViewStory'
  BY <1>1, <1>2, ViewStoryStep
<1> QED BY <1>2, <1>3, <1>4, <1>5, <1>6 DEF StreamInv

LEMMA RestingPage ==
  ASSUME StreamInv, AtRest, ~page.wrong
  PROVE  /\ \A l \in page.fresh : Right(l) \/ troubles.unsignalled
         /\ page.opened \cap page.listening \subseteq page.fresh
<1>0. AppTypes /\ SocketStory /\ PageStory /\ WorkStory /\ OrderStory /\ RevisionStory /\ ViewStory
  BY DEF StreamInv
<1>1. /\ socket.channel = <<>> /\ ~socket.signal /\ ~socket.closed /\ socket.up /\ socket.step = "select" /\ page.asks = {}
      /\ \A p \in Publishers : work[p].at = "idle"
      /\ topic \in SampledTopics /\ socket.serves => socket.known = current
  BY DEF AtRest
<1>2. page.opened \cap page.listening \subseteq page.fresh
  BY <1>0, <1>1 DEF PageStory
<1>3. /\ \A p \in Publishers : ~Coming(p)
      /\ \A i : ~Carried(i) /\ ~Awaited(i)
      /\ ~Moves
      /\ \A event : ~Holds(socket.channel, event)
  BY <1>1, EmptyHolds DEF Coming, Carried, Awaited, Moves
<1>4. Recovers => troubles.unsignalled
  BY <1>1, <1>3 DEF Recovers
<1>5. ASSUME NEW l \in page.fresh, ~troubles.unsignalled PROVE Right(l)
  <2> DEFINE view == page.view[l]
  <2>1. ViewOf(view) /\ socket.serves /\ view \in Contents /\ current \in Contents
    BY <1>0, <1>5 DEF ViewStory, PageStory, AppTypes, PageRecords
  <2>2. topic # "sessions" => Shown(current) = current
    BY DEF Shown
  <2>3. topic \in StateTopics \cup PushTopics \cup SampledTopics
    BY <1>0, StreamAssumption DEF AppTypes, StreamAssumption
  <2> HIDE DEF view
  <2>4. CASE topic = "health"
    <3>1. view = socket.known /\ socket.known = current
      BY <1>1, <2>1, <2>4, TopicNames DEF ViewOf
    <3> QED BY <2>2, <2>4, <3>1 DEF Right, view
  <2>5. CASE topic = "chat_state"
    <3>1. view = socket.known /\ socket.known = current
      BY <1>3, <2>1, <2>5 DEF ViewOf
    <3> QED BY <2>2, <2>5, <3>1 DEF Right, view
  <2>6. CASE topic = "sessions"
    <3>1. view = socket.known /\ WindowStory
      BY <2>1, <2>6 DEF ViewOf
    <3>2. socket.known = Shown(current)
      BY <1>0, <1>1, <1>3, <2>1, <2>6, <3>1, RestWindow
    <3> QED BY <3>1, <3>2 DEF Right, view
  <2>7. CASE topic = "approvals"
    <3>1. view = current
      BY <1>3, <2>1, <2>7 DEF ViewOf
    <3> QED BY <2>2, <2>7, <3>1 DEF Right, view
  <2>8. CASE topic \in RevisionTopics
    <3>1. \A i \in Items : view[i] = current[i]
      BY <1>3, <1>4, <1>5, <2>1, <2>8 DEF ViewOf, RevisionOf
    <3>2. view = current
      BY <2>1, <3>1 DEF Contents
    <3> QED BY <2>2, <2>8, <3>2, TopicNames DEF Right, view
  <2>9. CASE topic \in DeltaTopics
    <3>1. \A i \in Items : view[i] = current[i] \/ (topic = "connections" /\ view[i] = socket.known[i])
      BY <1>1, <1>3, <2>1, <2>9 DEF ViewOf, DeltaOf
    <3>2. topic = "connections" => socket.known = current
      BY <1>1, <2>1, TopicNames
    <3>3. \A i \in Items : view[i] = current[i]
      BY <3>1, <3>2
    <3>4. view = current
      BY <2>1, <3>3 DEF Contents
    <3> QED BY <2>2, <2>9, <3>4, TopicNames DEF Right, view
  <2> QED BY <2>3, <2>4, <2>5, <2>6, <2>7, <2>8, <2>9, TopicNames
<1> QED BY <1>2, <1>5

\* When nothing is under way, a listener that got a snapshot since it registered shows what
\* the server has, and one that registered while the topic was not served got one; whatever
\* changed, overflowed, was lost or came late, for any numbers of items, publishers,
\* listeners and changes and any room.
THEOREM PagesCatchUp == AppSpec => []PageCatchesUp
<1>1. StreamInv => PageCatchesUp
  BY RestingPage DEF PageCatchesUp
<1> QED BY <1>1, StreamInvInit, StreamInvStep, PTL DEF AppSpec

---------------------------------------------------------------------------
(* All of them together *)

\* A step of the composition is a step of each service or leaves it alone.
LEMMA ServiceSteps ==
  ASSUME [SharedNext]_sharedVars
  PROVE  [LimitNext]_limitVars /\ [EventNext]_eventVars /\ [Next]_vars /\ [AppNext]_appVars
<1>1. CASE UNCHANGED sharedVars
  BY <1>1 DEF sharedVars
<1>2. CASE SharedNext
  BY <1>2 DEF SharedNext
<1> QED
  BY <1>1, <1>2

LEMMA ServicesStart == ASSUME SharedInit PROVE LimitInit /\ EventInit /\ Init /\ AppInit
BY DEF SharedInit

\* A behaviour of the composition is one of each service.
LEMMA ServicesBehave == SharedSpec => LimitSpec /\ EventSpec /\ Spec /\ AppSpec
BY ServiceSteps, ServicesStart, PTL DEF SharedSpec, LimitSpec, EventSpec, Spec, AppSpec

\* Every variable of every service has its type, and who has a channel in a log has a
\* handler that reads it, for any value of the constants.
THEOREM ServiceTypesHold == SharedSpec => []ServiceTypes
<1>1. ASSUME LimitTypes, EventInv, TypeOK, AppTypes
      PROVE  ServiceTypes
  <2>1. EventTypes /\ \A reader \in subscribed : stream[reader] \in {"joining", "live"}
    BY <1>1 DEF EventInv, PageInv, PagePlaces, EventTypes
  <2> QED
    BY <1>1, <2>1 DEF ServiceTypes
<1> QED
  BY <1>1, ServicesBehave, LimitTypesHold, EventsInvariant, TypeCorrect, AppTypesHold, PTL
=============================================================================
