---------------------------- MODULE Shells_proofs ----------------------------
(***************************************************************************)
(* Proofs about InteractiveShells, for any finite set of shells, any hosts *)
(* and any limits, and about ShellEvents, for any batches, buffers,        *)
(* backlogs and numbers of attempts.                                       *)
(*                                                                         *)
(* The properties of the registry speak of open connections, of the final  *)
(* rows and of the limits.  They rest on who acts for a shell: at most one *)
(* goroutine, the one that starts its current generation or the one that   *)
(* waits for its end, and the record of the shell tells which it may be.   *)
(*                                                                         *)
(* ShellHistoryIsWhole is about the history and the page.  Inductive is    *)
(* where the numbers are: the history and, after it, the writer's batch    *)
(* reach up to the last number, and what the page has shown meets what     *)
(* waits in its channel.                                                   *)
(***************************************************************************)
EXTENDS InteractiveShells, ShellEvents, SequenceTheorems, FiniteSetTheorems, TLAPS

---------------------------------------------------------------------------
(* The inductive invariant of the shells *)

\* One goroutine at most, for the current generation: before there is a session, or with it.
ActorOf(s) ==
  /\ starter[s] # NoCall =>
       runner[s] = NoCall /\ starter[s].gen = shell[s].gen /\ shell[s].gen # 0
  /\ runner[s] # NoCall =>
       /\ runner[s].gen = shell[s].gen /\ shell[s].session = shell[s].gen /\ shell[s].gen # 0
       /\ shell[s].status \in {"running", "stopping"} /\ ~shell[s].finished
  /\ runner[s] = NoCall => shell[s].session = 0

\* An open connection is of that goroutine.
ConnectionOf(s) ==
  \A g \in connected[s] :
    /\ g = shell[s].gen
    /\ starter[s] = [at |-> "opened", gen |-> g] \/ runner[s] = [at |-> "waiting", gen |-> g]

\* What is finished has ended; a final row belongs to such a shell, or to one of an
\* earlier process; a terminal has no row.
RowOf(s) ==
  /\ shell[s].finished => shell[s].status \in Ended
  /\ s \in OperatorShells => rows[s] = "none"
  /\ rows[s] \in Ended => shell[s].finished \/ shell[s].status = "none"
  /\ shell[s].status = "none" => starter[s] = NoCall /\ runner[s] = NoCall /\ s \notin registered

Story == \A s \in Shells : ActorOf(s) /\ ConnectionOf(s) /\ RowOf(s)

\* Those that count against the limits.
Counted == {s \in registered : shell[s].status \in Active}
OnHost(set, h) == {s \in set : HostOf[s] = h}
LimitStory ==
  /\ Cardinality(Counted) <= MaxActive
  /\ \A h \in {HostOf[s] : s \in Shells} : Cardinality(OnHost(Counted, h)) <= MaxPerHost

ShellsDoneStory == done => closed /\ \A s \in Shells : starter[s] = NoCall /\ runner[s] = NoCall

ShellInv == ShellTypes /\ Story /\ LimitStory /\ ShellsDoneStory

---------------------------------------------------------------------------
(* Counting *)

LEMMA Subsets ==
  ASSUME NEW A, NEW B, A \subseteq B, B \subseteq Shells
  PROVE  Cardinality(A) \in Nat /\ Cardinality(B) \in Nat /\ Cardinality(A) <= Cardinality(B)
<1>1. IsFiniteSet(B)
  BY ShellAssumption, FS_Subset
<1> QED
  BY <1>1, FS_Subset, FS_CardinalityType

\* A set of shells of which one may join or leave.
LEMMA OneJoinsOrLeaves ==
  ASSUME NEW A \in SUBSET Shells, NEW B \in SUBSET Shells, NEW s \in Shells,
         \A t \in Shells \ {s} : t \in B <=> t \in A
  PROVE  /\ Cardinality(A) \in Nat /\ Cardinality(B) \in Nat
         /\ (s \in A <=> s \in B) => Cardinality(B) = Cardinality(A)
         /\ s \notin A /\ s \in B => Cardinality(B) = Cardinality(A) + 1
         /\ s \in A /\ s \notin B => Cardinality(B) = Cardinality(A) - 1
<1>1. IsFiniteSet(A) /\ IsFiniteSet(B)
  BY ShellAssumption, FS_Subset
<1>2. (s \in A <=> s \in B) => B = A
  OBVIOUS
<1>3. s \notin A /\ s \in B => B = A \cup {s}
  OBVIOUS
<1>4. s \in A /\ s \notin B => B = A \ {s}
  OBVIOUS
<1> QED
  BY <1>1, <1>2, <1>3, <1>4, FS_CardinalityType, FS_AddElement, FS_RemoveElement

---------------------------------------------------------------------------
(* A step of one shell *)

OtherShellsStay(s) ==
  /\ \A t \in Shells \ {s} :
       /\ shell'[t] = shell[t] /\ starter'[t] = starter[t] /\ runner'[t] = runner[t]
       /\ connected'[t] = connected[t] /\ rows'[t] = rows[t]
       /\ t \in registered' <=> t \in registered
  /\ UNCHANGED <<closed, done>>

\* The types, but for the number of workers.
TypesOnly ==
  /\ shell \in [Shells -> ShellRecord] /\ registered \subseteq Shells
  /\ starter \in [Shells -> [at : {"none", "reserved", "opening", "opened", "failing"}, gen : Nat]]
  /\ runner \in [Shells -> [at : {"none", "waiting", "exit", "signal", "lost"}, gen : Nat]]
  /\ connected \in [Shells -> SUBSET Nat] /\ cancelled \in [Shells -> SUBSET Nat]
  /\ resizing \in [Shells -> Nat]
  /\ rows \in [Shells -> {"none"} \cup Active \cup Ended]
  /\ closed \in BOOLEAN /\ done \in BOOLEAN

Tally(s) == (IF starter[s] # NoCall THEN 1 ELSE 0) + (IF runner[s] # NoCall THEN 1 ELSE 0)

LEMMA WorkersCounted ==
  ASSUME ShellTypes, NEW s \in Shells, OtherShellsStay(s), workers' = workers + Tally(s)' - Tally(s)
  PROVE  (workers = Cardinality(Starters) + Cardinality(Runners))'
<1>1. /\ Starters \in SUBSET Shells /\ Starters' \in SUBSET Shells
      /\ \A t \in Shells \ {s} : t \in Starters' <=> t \in Starters
  BY DEF Starters, OtherShellsStay
<1>2. /\ Runners \in SUBSET Shells /\ Runners' \in SUBSET Shells
      /\ \A t \in Shells \ {s} : t \in Runners' <=> t \in Runners
  BY DEF Runners, OtherShellsStay
<1>3. /\ s \in Starters <=> starter[s] # NoCall
      /\ s \in Starters' <=> starter'[s] # NoCall
      /\ s \in Runners <=> runner[s] # NoCall
      /\ s \in Runners' <=> runner'[s] # NoCall
  BY DEF Starters, Runners, NoCall
<1> DEFINE a == Cardinality(Starters)
           b == Cardinality(Starters')
           c == Cardinality(Runners)
           d == Cardinality(Runners')
<1>4. /\ a \in Nat /\ b \in Nat
      /\ b - a = (IF starter'[s] # NoCall THEN 1 ELSE 0) - (IF starter[s] # NoCall THEN 1 ELSE 0)
  BY <1>1, <1>3, OneJoinsOrLeaves
<1>5. /\ c \in Nat /\ d \in Nat
      /\ d - c = (IF runner'[s] # NoCall THEN 1 ELSE 0) - (IF runner[s] # NoCall THEN 1 ELSE 0)
  BY <1>2, <1>3, OneJoinsOrLeaves
<1>6. workers = a + c
  BY DEF ShellTypes
<1>7. NoCall' = NoCall
  BY DEF NoCall
<1> HIDE DEF a, b, c, d
<1>8. workers' = b + d
  BY <1>4, <1>5, <1>6, <1>7 DEF Tally
<1> QED
  BY <1>8 DEF b, d

\* A shell that comes to count was admitted.
LEMMA LimitsKept ==
  ASSUME ShellTypes, LimitStory, NEW s \in Shells, OtherShellsStay(s), registered' \subseteq Shells,
         s \in Counted' => s \in Counted \/ Admitted(s)
  PROVE  LimitStory'
<1>1. Counted \subseteq Shells /\ Counted' \subseteq Shells
  BY DEF Counted, ShellTypes
<1>2. \A t \in Shells \ {s} : t \in Counted' <=> t \in Counted
  BY DEF Counted, OtherShellsStay
<1>3. MaxActive \in Nat /\ MaxPerHost \in Nat
  BY CapacityAssumption
<1>4. CASE s \in Counted \/ s \notin Counted'
  <2>1. Counted' \subseteq Counted
    BY <1>1, <1>2, <1>4
  <2>2. Cardinality(Counted') <= MaxActive
    BY <1>1, <1>3, <2>1, Subsets DEF LimitStory
  <2>3. ASSUME NEW h \in {HostOf[t] : t \in Shells} PROVE Cardinality(OnHost(Counted', h)) <= MaxPerHost
    <3>1. OnHost(Counted', h) \subseteq OnHost(Counted, h) /\ OnHost(Counted, h) \subseteq Shells
      BY <1>1, <2>1 DEF OnHost
    <3>2. Cardinality(OnHost(Counted, h)) <= MaxPerHost
      BY DEF LimitStory
    <3> QED
      BY <1>3, <3>1, <3>2, Subsets
  <2> QED
    BY <2>2, <2>3 DEF LimitStory, OnHost
<1>5. CASE s \notin Counted /\ s \in Counted' /\ Admitted(s)
  <2> DEFINE others == Others(s)
             beside == {t \in Others(s) : HostOf[t] = HostOf[s]}
  <2>1. others \in SUBSET Shells /\ s \notin others /\ \A t \in Shells \ {s} : t \in others <=> t \in Counted
    BY DEF Others, Counted, ShellTypes
  <2>2. Cardinality(others) < MaxActive /\ Cardinality(beside) < MaxPerHost
    BY <1>5 DEF Admitted
  <2>3. beside \in SUBSET Shells /\ s \notin beside /\ \A t \in Shells \ {s} : t \in beside <=> t \in OnHost(Counted, HostOf[s])
    BY <2>1 DEF OnHost
  <2> HIDE DEF others, beside
  <2>4. Cardinality(Counted') <= MaxActive
    <3>1. Cardinality(Counted') = Cardinality(others) + 1 /\ Cardinality(others) \in Nat
      BY <1>1, <1>2, <1>5, <2>1, OneJoinsOrLeaves
    <3> QED
      BY <1>3, <2>2, <3>1
  <2>5. ASSUME NEW h \in {HostOf[t] : t \in Shells} PROVE Cardinality(OnHost(Counted', h)) <= MaxPerHost
    <3>1. OnHost(Counted', h) \in SUBSET Shells /\ OnHost(Counted, h) \in SUBSET Shells
      BY <1>1 DEF OnHost
    <3>2. CASE h = HostOf[s]
      <4>1. s \in OnHost(Counted', h) /\ \A t \in Shells \ {s} : t \in OnHost(Counted', h) <=> t \in beside
        BY <1>2, <1>5, <2>3, <3>2 DEF OnHost
      <4>2. Cardinality(OnHost(Counted', h)) = Cardinality(beside) + 1 /\ Cardinality(beside) \in Nat
        BY <2>3, <3>1, <4>1, OneJoinsOrLeaves
      <4> QED
        BY <1>3, <2>2, <4>2
    <3>3. CASE h # HostOf[s]
      <4>1. OnHost(Counted', h) \subseteq OnHost(Counted, h)
        BY <1>1, <1>2, <3>3 DEF OnHost
      <4>2. Cardinality(OnHost(Counted, h)) <= MaxPerHost
        BY DEF LimitStory
      <4> QED
        BY <1>3, <3>1, <4>1, <4>2, Subsets
    <3> QED
      BY <3>2, <3>3
  <2> QED
    BY <2>4, <2>5 DEF LimitStory, OnHost
<1> QED
  BY <1>4, <1>5

\* The invariant after a step of one shell.
LEMMA Acted ==
  ASSUME ShellInv, NEW s \in Shells, OtherShellsStay(s), TypesOnly', (ActorOf(s) /\ ConnectionOf(s) /\ RowOf(s))',
         workers' = workers + Tally(s)' - Tally(s),
         s \in Counted' => s \in Counted \/ Admitted(s),
         done => starter'[s] = NoCall /\ runner'[s] = NoCall
  PROVE  ShellInv'
<1> USE DEF ShellInv
<1>1. ShellTypes'
  BY WorkersCounted DEF ShellTypes, TypesOnly
<1>2. Story'
  <2>1. ASSUME NEW t \in Shells \ {s} PROVE (ActorOf(t) /\ ConnectionOf(t) /\ RowOf(t))'
    <3>1. ActorOf(t) /\ ConnectionOf(t) /\ RowOf(t)
      BY DEF Story
    <3> QED
      BY <3>1 DEF OtherShellsStay, ActorOf, ConnectionOf, RowOf, NoCall, Ended
  <2> QED
    BY <2>1 DEF Story
<1>3. LimitStory'
  BY LimitsKept DEF TypesOnly
<1>4. ShellsDoneStory'
  BY DEF ShellsDoneStory, OtherShellsStay, NoCall
<1> QED
  BY <1>1, <1>2, <1>3, <1>4

---------------------------------------------------------------------------
(* The end of a shell *)

Statuses == {"none"} \cup Active \cup Ended

\* What finishSSHShellLocked leaves of a shell, whatever could be saved.
FinishedNow(s) ==
  /\ shell' \in [Shells -> ShellRecord] /\ registered' \subseteq Shells
  /\ rows' \in [Shells -> Statuses] /\ cancelled' \in [Shells -> SUBSET Nat]
  /\ \A t \in Shells \ {s} :
       shell'[t] = shell[t] /\ rows'[t] = rows[t] /\ (t \in registered' <=> t \in registered)
  /\ shell'[s].status \in Ended /\ shell'[s].finished /\ shell'[s].session = 0
  /\ shell'[s].gen = shell[s].gen
  /\ rows'[s] = rows[s] \/ s \notin OperatorShells

LEMMA FinishEnds ==
  ASSUME ShellTypes, NEW s \in Shells, NEW g \in Nat, NEW status \in Ended, NEW why \in Causes, NEW remove,
         Finish(s, g, status, why, remove), shell[s].gen = g, ~shell[s].finished \/ status = "closed"
  PROVE  FinishedNow(s)
<1>1. PICK fault \in Faults(s) :
        LET kept == fault = "none"
            end  == [shell[s] EXCEPT !.status = IF kept THEN status ELSE "failed",
                                     !.why = IF kept THEN why ELSE "persistence_failed",
                                     !.session = 0, !.finished = TRUE]
            retained == ~remove /\ s \in OperatorShells /\ end.status = "failed" /\ end.why = "lost"
        IN /\ shell' = [shell EXCEPT ![s] = end]
           /\ IF fault = "row" THEN UNCHANGED rows ELSE WriteRow(s, end.status)
           /\ registered' = IF retained THEN registered ELSE registered \ {s}
           /\ cancelled' = [cancelled EXCEPT ![s] = cancelled[s] \cup {g}]
  BY DEF Finish
<1> DEFINE end == [shell[s] EXCEPT !.status = IF fault = "none" THEN status ELSE "failed",
                                   !.why = IF fault = "none" THEN why ELSE "persistence_failed",
                                   !.session = 0, !.finished = TRUE]
<1>2. shell[s] \in ShellRecord
  BY DEF ShellTypes
<1>3. /\ end \in ShellRecord /\ end.status \in Ended /\ end.finished /\ end.session = 0 /\ end.gen = shell[s].gen
  <2> DEFINE status2 == IF fault = "none" THEN status ELSE "failed"
             why2 == IF fault = "none" THEN why ELSE "persistence_failed"
  <2>1. status2 \in Ended /\ why2 \in Causes
    BY DEF Ended, Causes
  <2> HIDE DEF status2, why2
  <2>2. [shell[s] EXCEPT !.status = status2, !.why = why2, !.session = 0, !.finished = TRUE] \in ShellRecord
    BY <1>2, <2>1 DEF ShellRecord
  <2>3. end = [shell[s] EXCEPT !.status = status2, !.why = why2, !.session = 0, !.finished = TRUE]
    BY DEF status2, why2
  <2> HIDE DEF end
  <2> QED
    BY <1>2, <2>1, <2>2, <2>3 DEF ShellRecord
<1>4. /\ shell' = [shell EXCEPT ![s] = end]
      /\ IF fault = "row" THEN UNCHANGED rows ELSE WriteRow(s, end.status)
      /\ registered' \in {registered, registered \ {s}}
      /\ cancelled' = [cancelled EXCEPT ![s] = cancelled[s] \cup {g}]
  BY <1>1
<1> HIDE DEF end
<1>5. /\ rows' \in [Shells -> Statuses] /\ \A t \in Shells \ {s} : rows'[t] = rows[t]
      /\ rows'[s] = rows[s] \/ s \notin OperatorShells
  <2>1. rows \in [Shells -> Statuses]
    BY DEF ShellTypes, Statuses
  <2>2. rows' = rows \/ (s \notin OperatorShells /\ rows' = [rows EXCEPT ![s] = end.status])
    BY <1>4 DEF WriteRow, AgentShells
  <2>3. end.status \in Statuses
    BY <1>3 DEF Statuses
  <2> QED
    BY <2>1, <2>2, <2>3
<1>6. cancelled' \in [Shells -> SUBSET Nat]
  BY <1>4 DEF ShellTypes
<1>7. /\ shell' \in [Shells -> ShellRecord] /\ shell'[s] = end
      /\ \A t \in Shells \ {s} : shell'[t] = shell[t]
  BY <1>3, <1>4 DEF ShellTypes
<1>8. registered' \subseteq Shells /\ \A t \in Shells \ {s} : t \in registered' <=> t \in registered
  BY <1>4 DEF ShellTypes
<1> QED
  BY <1>3, <1>5, <1>6, <1>7, <1>8 DEF FinishedNow

\* A shell that ends with the goroutine that acted for it, if any.
LEMMA EndedStory ==
  ASSUME NEW s \in Shells, RowOf(s), FinishedNow(s), runner'[s] = NoCall,
         starter'[s] = NoCall \/ (starter'[s] = starter[s] /\ ActorOf(s)), connected'[s] = connected[s],
         ConnectionOf(s), starter'[s] = starter[s] \/ connected[s] = {}, runner[s] = NoCall \/ connected[s] = {}
  PROVE  (ActorOf(s) /\ ConnectionOf(s) /\ RowOf(s))'
<1>1. shell'[s].gen = shell[s].gen /\ shell'[s].session = 0 /\ shell'[s].finished /\ shell'[s].status \in Ended
  BY DEF FinishedNow
<1>2. ActorOf(s)'
  BY <1>1 DEF ActorOf, NoCall
<1>3. ConnectionOf(s)'
  <2>1. CASE connected[s] = {}
    BY <2>1 DEF ConnectionOf
  <2>2. CASE starter'[s] = starter[s] /\ runner[s] = NoCall
    BY <1>1, <2>2 DEF ConnectionOf
  <2> QED
    BY <2>1, <2>2
<1>4. RowOf(s)'
  BY <1>1 DEF RowOf, FinishedNow, Ended
<1> QED
  BY <1>2, <1>3, <1>4

\* Ended shells do not count.
LEMMA EndedCountsNot ==
  ASSUME NEW s \in Shells, FinishedNow(s)
  PROVE  s \notin Counted'
BY DEF FinishedNow, Counted, Active, Ended

---------------------------------------------------------------------------
(* The invariant is inductive *)

LEMMA ShellInvInit == ShellInit => ShellInv
<1> SUFFICES ASSUME ShellInit PROVE ShellInv
  OBVIOUS
<1>1. Starters = {} /\ Runners = {} /\ Counted = {} /\ Cardinality({}) = 0
  BY FS_EmptySet DEF ShellInit, Starters, Runners, Counted
<1>2. ShellTypes
  <2>1. Unopened \in ShellRecord
    BY DEF Unopened, ShellRecord, Causes
  <2>2. shell \in [Shells -> ShellRecord]
    BY <2>1 DEF ShellInit
  <2>3. /\ starter \in [Shells -> [at : {"none", "reserved", "opening", "opened", "failing"}, gen : Nat]]
        /\ runner \in [Shells -> [at : {"none", "waiting", "exit", "signal", "lost"}, gen : Nat]]
    BY DEF ShellInit, NoCall
  <2>4. workers = Cardinality(Starters) + Cardinality(Runners)
    BY <1>1 DEF ShellInit
  <2> QED
    BY <2>2, <2>3, <2>4 DEF ShellInit, ShellTypes
<1>3. Story
  BY DEF ShellInit, Story, ActorOf, ConnectionOf, RowOf, Unopened, NoCall, Ended
<1>4. LimitStory
  <2>1. \A h : OnHost(Counted, h) = {}
    BY <1>1 DEF OnHost
  <2> QED
    BY <1>1, <2>1, CapacityAssumption DEF LimitStory
<1> QED
  BY <1>2, <1>3, <1>4 DEF ShellInv, ShellInit, ShellsDoneStory

\* No connection is open but in the two places that own one.
LEMMA NotConnected ==
  ASSUME NEW s \in Shells, ConnectionOf(s), starter[s].at # "opened", runner[s].at # "waiting"
  PROVE  connected[s] = {}
<1>1. ASSUME NEW g \in connected[s] PROVE FALSE
  <2>1. starter[s] = [at |-> "opened", gen |-> g] \/ runner[s] = [at |-> "waiting", gen |-> g]
    BY <1>1 DEF ConnectionOf
  <2>2. [at |-> "opened", gen |-> g].at = "opened" /\ [at |-> "waiting", gen |-> g].at = "waiting"
    OBVIOUS
  <2> QED
    BY <2>1, <2>2
<1> QED
  BY <1>1

\* A generation is reserved: the shell was ended or new, so nobody acted for it.
LEMMA ReserveInv ==
  ASSUME ShellInv, NEW s \in Shells, NEW gen \in Nat \ {0}, NEW at \in {"opening", "reserved"},
         ~closed, starter[s] = NoCall, runner[s] = NoCall, Admitted(s),
         shell' = [shell EXCEPT ![s] = [Unopened EXCEPT !.status = "starting", !.gen = gen]],
         starter' = [starter EXCEPT ![s] = [at |-> at, gen |-> gen]], workers' = workers + 1,
         registered' \in {registered, registered \cup {s}},
         rows' = rows \/ (s \in AgentShells /\ rows' = [rows EXCEPT ![s] = "starting"]), rows[s] \notin Ended,
         UNCHANGED <<runner, connected, cancelled, resizing, closed, done>>
  PROVE  ShellInv'
<1> USE DEF ShellInv
<1> DEFINE now == [Unopened EXCEPT !.status = "starting", !.gen = gen]
<1>1. /\ now \in ShellRecord /\ now.status = "starting" /\ now.gen = gen /\ now.session = 0 /\ ~now.finished
  BY DEF Unopened, ShellRecord, Causes, Active
<1> HIDE DEF now
<1>2. /\ shell' \in [Shells -> ShellRecord] /\ shell'[s] = now
      /\ \A t \in Shells \ {s} : shell'[t] = shell[t]
  BY <1>1 DEF ShellTypes, now
<1>3. /\ starter' \in [Shells -> [at : {"none", "reserved", "opening", "opened", "failing"}, gen : Nat]]
      /\ starter'[s] = [at |-> at, gen |-> gen]
      /\ \A t \in Shells \ {s} : starter'[t] = starter[t]
  BY DEF ShellTypes
<1>4. /\ rows' \in [Shells -> {"none"} \cup Active \cup Ended] /\ \A t \in Shells \ {s} : rows'[t] = rows[t]
      /\ rows'[s] \notin Ended /\ (s \in OperatorShells => rows'[s] = rows[s])
  BY DEF ShellTypes, AgentShells, Active, Ended
<1>5. /\ TypesOnly'
  BY <1>2, <1>3, <1>4 DEF TypesOnly, ShellTypes
<1>6. OtherShellsStay(s)
  BY <1>2, <1>3, <1>4 DEF OtherShellsStay
<1>7. connected[s] = {} /\ RowOf(s)
  BY NotConnected DEF Story, NoCall
<1>8. starter'[s] # NoCall /\ starter'[s].gen = gen
  BY <1>3 DEF NoCall
<1>9. (ActorOf(s) /\ ConnectionOf(s) /\ RowOf(s))'
  BY <1>1, <1>2, <1>4, <1>7, <1>8 DEF ActorOf, ConnectionOf, RowOf
<1>10. workers' = workers + Tally(s)' - Tally(s)
  <2>1. workers \in Int
    BY Subsets DEF ShellTypes, Starters, Runners
  <2>2. Tally(s) = 0 /\ Tally(s)' = 1
    BY <1>8 DEF Tally
  <2> QED
    BY <2>1, <2>2
<1> QED
  BY <1>5, <1>6, <1>9, <1>10, Acted DEF ShellsDoneStory

LEMMA OpenInv ==
  ASSUME ShellInv, NEW s \in Shells, OpenShell(s) \/ BeginReconnect(s)
  PROVE  ShellInv'
<1>1. CASE OpenShell(s)
  <2>1. /\ ~closed /\ shell[s].status = "none" /\ rows[s] = "none" /\ starter[s] = NoCall /\ Admitted(s)
        /\ shell' = [shell EXCEPT ![s] = [Unopened EXCEPT !.status = "starting", !.gen = 1]]
        /\ registered' = registered \cup {s} /\ WriteRow(s, "starting")
        /\ starter' = [starter EXCEPT ![s] = [at |-> "opening", gen |-> 1]]
        /\ workers' = workers + 1
        /\ UNCHANGED <<runner, connected, cancelled, resizing, closed, done>>
    BY <1>1 DEF OpenShell
  <2>2. runner[s] = NoCall
    BY <2>1 DEF ShellInv, Story, RowOf
  <2> DEFINE gen == 1
             at == "opening"
  <2>3. /\ gen \in Nat \ {0} /\ at \in {"opening", "reserved"}
        /\ shell' = [shell EXCEPT ![s] = [Unopened EXCEPT !.status = "starting", !.gen = gen]]
        /\ starter' = [starter EXCEPT ![s] = [at |-> at, gen |-> gen]]
        /\ rows' = rows \/ (s \in AgentShells /\ rows' = [rows EXCEPT ![s] = "starting"])
        /\ rows[s] \notin Ended
    BY <2>1 DEF WriteRow, Ended
  <2> HIDE DEF gen, at
  <2> QED
    BY <2>1, <2>2, <2>3, ReserveInv
<1>2. CASE BeginReconnect(s)
  <2> DEFINE gen == shell[s].gen + 1
             at == "reserved"
  <2>1. /\ ~closed /\ Reconnectable(s) /\ starter[s] = NoCall /\ Admitted(s)
        /\ shell' = [shell EXCEPT ![s] = [Unopened EXCEPT !.status = "starting", !.gen = gen]]
        /\ starter' = [starter EXCEPT ![s] = [at |-> at, gen |-> gen]]
        /\ workers' = workers + 1
        /\ UNCHANGED <<registered, runner, connected, cancelled, resizing, rows, closed, done>>
    BY <1>2 DEF BeginReconnect
  <2>2. runner[s] = NoCall /\ rows[s] \notin Ended
    BY <2>1 DEF ShellInv, Story, ActorOf, RowOf, Reconnectable, Ended
  <2>3. gen \in Nat \ {0} /\ at \in {"opening", "reserved"}
    <3>1. shell[s].gen \in Nat
      BY DEF ShellInv, ShellTypes, ShellRecord
    <3> QED
      BY <3>1
  <2> HIDE DEF gen, at
  <2> QED
    BY <2>1, <2>2, <2>3, ReserveInv
<1> QED
  BY <1>1, <1>2

\* The steps that leave the record of the shell alone: its goroutines move on.
LEMMA MoveInv ==
  ASSUME ShellInv, NEW s \in Shells,
         ConfirmReconnect(s) \/ TransportAnswers(s) \/ TransportEnds(s)
  PROVE  ShellInv'
<1> USE DEF ShellInv
<1>1. ActorOf(s) /\ ConnectionOf(s) /\ RowOf(s)
  BY DEF Story
<1>2. UNCHANGED <<shell, registered, rows, resizing, closed, done>>
  BY DEF ConfirmReconnect, TransportAnswers, TransportEnds
<1>3. workers \in Int
  BY Subsets DEF ShellTypes, Starters, Runners
<1>4. s \in Counted' => s \in Counted
  BY <1>2 DEF Counted
<1>5. /\ starter[s] \in [at : {"none", "reserved", "opening", "opened", "failing"}, gen : Nat]
      /\ runner[s] \in [at : {"none", "waiting", "exit", "signal", "lost"}, gen : Nat]
  BY DEF ShellTypes
<1>6. CASE ConfirmReconnect(s)
  <2>1. starter[s].at = "reserved" /\ UNCHANGED <<runner, connected>>
    BY <1>6 DEF ConfirmReconnect
  <2>2. starter[s] # NoCall /\ runner[s] = NoCall /\ connected[s] = {}
    BY <1>1, <2>1, NotConnected DEF NoCall, ActorOf
  <2>3. CASE starter' = [starter EXCEPT ![s].at = "opening"] /\ UNCHANGED <<cancelled, workers>>
    <3>1. /\ starter' \in [Shells -> [at : {"none", "reserved", "opening", "opened", "failing"}, gen : Nat]]
          /\ starter'[s].at = "opening" /\ starter'[s].gen = starter[s].gen
          /\ \A t \in Shells \ {s} : starter'[t] = starter[t]
      BY <2>3 DEF ShellTypes
    <3>2. starter'[s] # NoCall
      BY <3>1 DEF NoCall
    <3>3. TypesOnly' /\ OtherShellsStay(s)
      BY <1>2, <2>1, <2>3, <3>1 DEF TypesOnly, ShellTypes, OtherShellsStay
    <3>4. (ActorOf(s) /\ ConnectionOf(s) /\ RowOf(s))'
      BY <1>1, <1>2, <2>1, <2>2, <3>1, <3>2 DEF ActorOf, ConnectionOf, RowOf
    <3>5. workers' = workers + Tally(s)' - Tally(s)
      BY <1>3, <2>1, <2>2, <2>3, <3>2 DEF Tally
    <3> QED
      BY <1>4, <2>2, <3>3, <3>4, <3>5, Acted DEF ShellsDoneStory
  <2>4. CASE StarterLeaves(s) /\ cancelled' = [cancelled EXCEPT ![s] = @ \cup {starter[s].gen}]
    <3>1. /\ starter' = [starter EXCEPT ![s] = NoCall] /\ workers' = workers - 1
          /\ cancelled' \in [Shells -> SUBSET Nat]
      BY <1>5, <2>4 DEF StarterLeaves, ShellTypes
    <3>2. /\ starter' \in [Shells -> [at : {"none", "reserved", "opening", "opened", "failing"}, gen : Nat]]
          /\ starter'[s] = NoCall /\ \A t \in Shells \ {s} : starter'[t] = starter[t]
      BY <3>1 DEF ShellTypes, NoCall
    <3>3. TypesOnly' /\ OtherShellsStay(s)
      BY <1>2, <2>1, <3>1, <3>2 DEF TypesOnly, ShellTypes, OtherShellsStay
    <3>4. (ActorOf(s) /\ ConnectionOf(s) /\ RowOf(s))'
      BY <1>1, <1>2, <2>1, <2>2, <3>2 DEF ActorOf, ConnectionOf, RowOf, NoCall
    <3>5. workers' = workers + Tally(s)' - Tally(s)
      BY <1>3, <2>1, <2>2, <3>1, <3>2 DEF Tally, NoCall
    <3> QED
      BY <1>4, <2>1, <2>2, <3>2, <3>3, <3>4, <3>5, Acted
  <2> QED
    BY <1>6, <2>3, <2>4 DEF ConfirmReconnect
<1>7. CASE TransportAnswers(s)
  <2>1. starter[s].at = "opening" /\ UNCHANGED <<runner, cancelled, workers>>
    BY <1>7 DEF TransportAnswers
  <2>2. starter[s] # NoCall /\ runner[s] = NoCall /\ connected[s] = {} /\ starter[s].gen = shell[s].gen
    BY <1>1, <2>1, NotConnected DEF NoCall, ActorOf
  <2>3. /\ starter' \in [Shells -> [at : {"none", "reserved", "opening", "opened", "failing"}, gen : Nat]]
        /\ starter'[s].gen = starter[s].gen /\ \A t \in Shells \ {s} : starter'[t] = starter[t]
        /\ connected' \in [Shells -> SUBSET Nat] /\ \A t \in Shells \ {s} : connected'[t] = connected[t]
        /\ \/ starter'[s].at = "opened" /\ connected'[s] = {starter[s].gen}
           \/ starter'[s].at = "failing" /\ connected'[s] = {}
    <3>1. CASE /\ starter' = [starter EXCEPT ![s].at = "opened"]
               /\ connected' = [connected EXCEPT ![s] = @ \cup {starter[s].gen}]
      BY <1>5, <2>2, <3>1 DEF ShellTypes
    <3>2. CASE starter' = [starter EXCEPT ![s].at = "failing"] /\ UNCHANGED connected
      BY <2>2, <3>2 DEF ShellTypes
    <3> QED
      BY <1>7, <3>1, <3>2 DEF TransportAnswers
  <2>4. starter'[s] # NoCall
    BY <2>3 DEF NoCall
  <2>5. TypesOnly' /\ OtherShellsStay(s)
    BY <1>2, <2>1, <2>3 DEF TypesOnly, ShellTypes, OtherShellsStay
  <2>6. ConnectionOf(s)'
    <3>1. CASE starter'[s].at = "opened" /\ connected'[s] = {starter[s].gen}
      <4>1. starter'[s] = [at |-> "opened", gen |-> starter[s].gen]
        BY <2>3, <3>1
      <4> QED
        BY <1>2, <2>2, <3>1, <4>1 DEF ConnectionOf
    <3>2. CASE connected'[s] = {}
      BY <3>2 DEF ConnectionOf
    <3> QED
      BY <2>3, <3>1, <3>2
  <2>7. ActorOf(s)' /\ RowOf(s)'
    BY <1>1, <1>2, <2>1, <2>2, <2>3, <2>4 DEF ActorOf, RowOf
  <2>8. workers' = workers + Tally(s)' - Tally(s)
    BY <1>3, <2>1, <2>2, <2>4 DEF Tally
  <2> QED
    BY <1>4, <2>2, <2>5, <2>6, <2>7, <2>8, Acted DEF ShellsDoneStory
<1>8. CASE TransportEnds(s)
  <2>1. runner[s].at = "waiting" /\ UNCHANGED <<starter, cancelled, workers>>
    BY <1>8 DEF TransportEnds
  <2>2. runner[s] # NoCall /\ starter[s] = NoCall /\ runner[s].gen = shell[s].gen
    BY <1>1, <2>1 DEF NoCall, ActorOf
  <2>3. /\ runner' \in [Shells -> [at : {"none", "waiting", "exit", "signal", "lost"}, gen : Nat]]
        /\ runner'[s].at \in {"exit", "signal", "lost"} /\ runner'[s].gen = runner[s].gen
        /\ \A t \in Shells \ {s} : runner'[t] = runner[t]
        /\ connected' \in [Shells -> SUBSET Nat] /\ \A t \in Shells \ {s} : connected'[t] = connected[t]
        /\ connected'[s] = connected[s] \ {runner[s].gen}
    BY <1>8 DEF TransportEnds, ShellTypes
  <2>4. runner'[s] # NoCall
    BY <2>3 DEF NoCall
  <2>5. TypesOnly' /\ OtherShellsStay(s)
    BY <1>2, <2>1, <2>3 DEF TypesOnly, ShellTypes, OtherShellsStay
  <2>6. connected'[s] = {}
    BY <1>1, <2>2, <2>3 DEF ConnectionOf
  <2>7. ConnectionOf(s)'
    BY <2>6 DEF ConnectionOf
  <2>8. ActorOf(s)' /\ RowOf(s)'
    BY <1>1, <1>2, <2>1, <2>2, <2>3, <2>4 DEF ActorOf, RowOf, NoCall
  <2>9. workers' = workers + Tally(s)' - Tally(s)
    BY <1>3, <2>1, <2>2, <2>4 DEF Tally
  <2> QED
    BY <1>4, <2>2, <2>5, <2>7, <2>8, <2>9, Acted DEF ShellsDoneStory
<1> QED
  BY <1>6, <1>7, <1>8

\* The connection goes to the goroutine that waits for its end, or is closed.
LEMMA GenerationInv ==
  ASSUME ShellInv, NEW s \in Shells, StartGeneration(s)
  PROVE  ShellInv'
<1> USE DEF ShellInv
<1> DEFINE g == starter[s].gen
<1>1. ActorOf(s) /\ ConnectionOf(s) /\ RowOf(s)
  BY DEF Story
<1>2. /\ starter[s].at = "opened" /\ workers' = workers
      /\ UNCHANGED <<registered, cancelled, resizing, closed, done>>
  BY DEF StartGeneration
<1>3. workers \in Int
  BY Subsets DEF ShellTypes, Starters, Runners
<1>4. /\ starter[s] \in [at : {"none", "reserved", "opening", "opened", "failing"}, gen : Nat]
      /\ shell[s] \in ShellRecord
  BY DEF ShellTypes
<1>5. starter[s] # NoCall /\ runner[s] = NoCall /\ g = shell[s].gen /\ g # 0 /\ g \in Nat
  BY <1>1, <1>2, <1>4 DEF NoCall, ActorOf
<1> HIDE DEF g
<1>6. CASE shell[s].status = "starting" /\ UseConnection(s, g)
  <2> DEFINE now == [shell[s] EXCEPT !.session = g, !.status = "running"]
  <2>1. now \in ShellRecord /\ now.session = g /\ now.status = "running" /\ now.gen = g /\ now.finished = shell[s].finished
    BY <1>4, <1>5 DEF ShellRecord, Active
  <2>2. /\ shell' = [shell EXCEPT ![s] = now] /\ WriteRow(s, "running")
        /\ runner' = [runner EXCEPT ![s] = [at |-> "waiting", gen |-> g]]
        /\ starter' = [starter EXCEPT ![s] = NoCall] /\ UNCHANGED connected
    BY <1>6 DEF UseConnection
  <2> HIDE DEF now
  <2>3. /\ shell' \in [Shells -> ShellRecord] /\ shell'[s] = now /\ \A t \in Shells \ {s} : shell'[t] = shell[t]
    BY <2>1, <2>2 DEF ShellTypes
  <2>4. /\ runner' \in [Shells -> [at : {"none", "waiting", "exit", "signal", "lost"}, gen : Nat]]
        /\ runner'[s] = [at |-> "waiting", gen |-> g] /\ \A t \in Shells \ {s} : runner'[t] = runner[t]
    BY <1>5, <2>2 DEF ShellTypes
  <2>5. /\ starter' \in [Shells -> [at : {"none", "reserved", "opening", "opened", "failing"}, gen : Nat]]
        /\ starter'[s] = NoCall /\ \A t \in Shells \ {s} : starter'[t] = starter[t]
    BY <2>2 DEF ShellTypes, NoCall
  <2>6. /\ rows' \in [Shells -> {"none"} \cup Active \cup Ended] /\ \A t \in Shells \ {s} : rows'[t] = rows[t]
        /\ rows'[s] \in {rows[s], "running"} /\ (s \in OperatorShells => rows'[s] = rows[s])
    BY <2>2 DEF ShellTypes, WriteRow, AgentShells, Active
  <2>7. TypesOnly' /\ OtherShellsStay(s)
    BY <1>2, <2>2, <2>3, <2>4, <2>5, <2>6 DEF TypesOnly, ShellTypes, OtherShellsStay
  <2>8. runner'[s] # NoCall /\ runner'[s].gen = g
    BY <2>4 DEF NoCall
  <2>9. ~shell[s].finished
    BY <1>1, <1>6 DEF RowOf, Ended
  <2>10. ActorOf(s)'
    BY <1>5, <2>1, <2>3, <2>5, <2>8, <2>9 DEF ActorOf, NoCall
  <2>11. ConnectionOf(s)'
    <3>1. \A c \in connected[s] : c = g
      BY <1>1, <1>5 DEF ConnectionOf
    <3> QED
      BY <2>1, <2>2, <2>3, <2>4, <3>1 DEF ConnectionOf
  <2>12. RowOf(s)'
    BY <1>1, <2>1, <2>3, <2>6, <2>9, <1>6 DEF RowOf, Ended
  <2>13. workers' = workers + Tally(s)' - Tally(s)
    BY <1>2, <1>3, <1>5, <2>5, <2>8 DEF Tally, NoCall
  <2>14. s \in Counted' => s \in Counted
    BY <1>2, <1>6 DEF Counted, Active
  <2> QED
    BY <1>5, <2>7, <2>10, <2>11, <2>12, <2>13, <2>14, Acted DEF ShellsDoneStory
<1>7. CASE DropConnection(s, g)
  <2>1. /\ connected' = [connected EXCEPT ![s] = @ \ {g}] /\ starter' = [starter EXCEPT ![s].at = "failing"]
        /\ UNCHANGED <<shell, rows, runner>>
    BY <1>7 DEF DropConnection
  <2>2. /\ starter' \in [Shells -> [at : {"none", "reserved", "opening", "opened", "failing"}, gen : Nat]]
        /\ starter'[s].at = "failing" /\ starter'[s].gen = starter[s].gen
        /\ \A t \in Shells \ {s} : starter'[t] = starter[t]
        /\ connected' \in [Shells -> SUBSET Nat] /\ \A t \in Shells \ {s} : connected'[t] = connected[t]
        /\ connected'[s] = connected[s] \ {g}
    BY <2>1 DEF ShellTypes
  <2>3. TypesOnly' /\ OtherShellsStay(s)
    BY <1>2, <2>1, <2>2 DEF TypesOnly, ShellTypes, OtherShellsStay
  <2>4. starter'[s] # NoCall
    BY <2>2 DEF NoCall
  <2>5. connected'[s] = {}
    BY <1>1, <1>5, <2>2 DEF ConnectionOf
  <2>6. ConnectionOf(s)'
    BY <2>5 DEF ConnectionOf
  <2>7. ActorOf(s)' /\ RowOf(s)'
    BY <1>1, <1>2, <1>5, <2>1, <2>2, <2>4 DEF ActorOf, RowOf
  <2>8. workers' = workers + Tally(s)' - Tally(s)
    BY <1>2, <1>3, <1>5, <2>1, <2>4 DEF Tally
  <2>9. s \in Counted' => s \in Counted
    BY <1>2, <2>1 DEF Counted
  <2> QED
    BY <1>5, <2>3, <2>6, <2>7, <2>8, <2>9, Acted DEF ShellsDoneStory
<1> QED
  BY <1>6, <1>7 DEF StartGeneration, g

\* A start that failed ends its shell, unless that ended meanwhile.
LEMMA FailInv ==
  ASSUME ShellInv, NEW s \in Shells, FailStart(s)
  PROVE  ShellInv'
<1> USE DEF ShellInv
<1> DEFINE g == starter[s].gen
<1>1. ActorOf(s) /\ ConnectionOf(s) /\ RowOf(s)
  BY DEF Story
<1>2. /\ starter[s].at = "failing" /\ starter' = [starter EXCEPT ![s] = NoCall] /\ workers' = workers - 1
      /\ UNCHANGED <<runner, connected, resizing, closed, done>>
  BY DEF FailStart, StarterLeaves
<1>3. workers \in Int
  BY Subsets DEF ShellTypes, Starters, Runners
<1>4. /\ starter[s] # NoCall /\ runner[s] = NoCall /\ connected[s] = {} /\ g = shell[s].gen /\ g \in Nat
  BY <1>1, <1>2, NotConnected DEF NoCall, ActorOf, ShellTypes
<1>5. /\ starter' \in [Shells -> [at : {"none", "reserved", "opening", "opened", "failing"}, gen : Nat]]
      /\ starter'[s] = NoCall /\ \A t \in Shells \ {s} : starter'[t] = starter[t]
  BY <1>2 DEF ShellTypes, NoCall
<1>6. workers' = workers + Tally(s)' - Tally(s)
  BY <1>2, <1>3, <1>4, <1>5 DEF Tally, NoCall
<1>7. CASE UNCHANGED <<shell, registered, rows, cancelled>>
  <2>1. TypesOnly' /\ OtherShellsStay(s)
    BY <1>2, <1>5, <1>7 DEF TypesOnly, ShellTypes, OtherShellsStay
  <2>2. (ActorOf(s) /\ ConnectionOf(s) /\ RowOf(s))'
    BY <1>1, <1>2, <1>4, <1>5, <1>7 DEF ActorOf, ConnectionOf, RowOf, NoCall
  <2>3. s \in Counted' => s \in Counted
    BY <1>7 DEF Counted
  <2> QED
    BY <1>2, <1>4, <1>5, <1>6, <2>1, <2>2, <2>3, Acted
<1>8. CASE FinishedNow(s)
  <2>1. TypesOnly' /\ OtherShellsStay(s)
    BY <1>2, <1>5, <1>8 DEF TypesOnly, ShellTypes, OtherShellsStay, FinishedNow, Statuses
  <2>2. (ActorOf(s) /\ ConnectionOf(s) /\ RowOf(s))'
    BY <1>1, <1>2, <1>4, <1>5, <1>8, EndedStory DEF NoCall
  <2> QED
    BY <1>2, <1>4, <1>5, <1>6, <1>8, <2>1, <2>2, EndedCountsNot, Acted
<1>9. ASSUME ~UNCHANGED <<shell, registered, rows, cancelled>> PROVE FinishedNow(s)
  <2>1. /\ shell[s].gen = g /\ ~shell[s].finished
        /\ CASE shell[s].reason = "requested_close" -> Finish(s, g, "closed", shell[s].reason, g = 1)
             [] shell[s].reason = "persistence_failed" -> Finish(s, g, "failed", shell[s].reason, g = 1)
             [] shell[s].reason = "" /\ closed -> Finish(s, g, "interrupted", "service_stopped", g = 1)
             [] shell[s].reason = "" /\ ~closed ->
                  Finish(s, g, "failed", IF g = 1 THEN "start_failed" ELSE "lost", g = 1)
    BY <1>9 DEF FailStart
  <2>2. shell[s].reason \in {"", "requested_close", "persistence_failed"}
    BY DEF ShellTypes, ShellRecord
  <2>3. \E status \in Ended, why \in Causes : Finish(s, g, status, why, g = 1)
    BY <2>1, <2>2 DEF Ended, Causes
  <2> QED
    BY <1>4, <2>1, <2>3, FinishEnds
<1> QED
  BY <1>7, <1>8, <1>9

\* The steps in which nobody comes or goes: the record or the row of a shell changes,
\* but for what tells who acts.
LEMMA NotedInv ==
  ASSUME ShellInv, NEW s \in Shells, NEW now \in ShellRecord,
         shell' = [shell EXCEPT ![s] = now], now.gen = shell[s].gen, now.session = shell[s].session,
         now.finished = shell[s].finished, now.status \in {shell[s].status, "stopping"},
         now.status # shell[s].status => shell[s].status = "running",
         rows' = rows \/ (s \in AgentShells /\ rows[s] \notin Ended /\ \E x \in Active : rows' = [rows EXCEPT ![s] = x]),
         cancelled' \in [Shells -> SUBSET Nat], resizing' \in [Shells -> Nat],
         UNCHANGED <<registered, starter, runner, connected, workers, closed, done>>
  PROVE  ShellInv'
<1> USE DEF ShellInv
<1>1. ActorOf(s) /\ ConnectionOf(s) /\ RowOf(s)
  BY DEF Story
<1>2. /\ shell' \in [Shells -> ShellRecord] /\ shell'[s] = now /\ \A t \in Shells \ {s} : shell'[t] = shell[t]
  BY DEF ShellTypes
<1>3. /\ rows' \in [Shells -> {"none"} \cup Active \cup Ended] /\ \A t \in Shells \ {s} : rows'[t] = rows[t]
      /\ rows'[s] = rows[s] \/ rows'[s] \notin Ended
      /\ s \in OperatorShells => rows'[s] = rows[s]
  BY ZenonT(60) DEF ShellTypes, AgentShells, Active, Ended
<1>4. TypesOnly' /\ OtherShellsStay(s)
  BY <1>2, <1>3 DEF TypesOnly, ShellTypes, OtherShellsStay
<1>5. shell[s].finished => now.status = shell[s].status
  BY <1>1 DEF RowOf, Ended
<1>6. ActorOf(s)'
  BY <1>1, <1>2 DEF ActorOf, NoCall
<1>7. ConnectionOf(s)'
  BY <1>1, <1>2 DEF ConnectionOf
<1>8. RowOf(s)'
  BY <1>1, <1>2, <1>3, <1>5 DEF RowOf, NoCall, Ended
<1>9. workers' = workers + Tally(s)' - Tally(s)
  <2>1. workers \in Int
    BY Subsets DEF ShellTypes, Starters, Runners
  <2>2. Tally(s)' = Tally(s) /\ Tally(s) \in Int
    BY DEF Tally, NoCall
  <2> QED
    BY <2>1, <2>2
<1>10. s \in Counted' => s \in Counted
  BY <1>2 DEF Counted, Active
<1> QED
  BY <1>4, <1>6, <1>7, <1>8, <1>9, <1>10, Acted DEF ShellsDoneStory

LEMMA CloseShellInv ==
  ASSUME ShellInv, NEW s \in Shells, CloseShell(s)
  PROVE  ShellInv'
<1> USE DEF ShellInv
<1>1. ActorOf(s) /\ ConnectionOf(s) /\ RowOf(s) /\ shell[s] \in ShellRecord
  BY DEF Story, ShellTypes
<1>2. CASE shell[s].status = "running"
  <2> DEFINE now == [shell[s] EXCEPT !.reason = "requested_close", !.status = "stopping"]
  <2>1. /\ now \in ShellRecord /\ now.gen = shell[s].gen /\ now.session = shell[s].session
        /\ now.finished = shell[s].finished /\ now.status = "stopping"
    BY <1>1 DEF ShellRecord, Active
  <2>2. /\ shell' = [shell EXCEPT ![s] = now] /\ (WriteRow(s, "stopping") \/ UNCHANGED rows) /\ CancelCurrent(s)
        /\ UNCHANGED <<registered, starter, runner, connected, resizing, workers, closed, done>>
    BY <1>2 DEF CloseShell
  <2> HIDE DEF now
  <2>3. rows[s] \notin Ended
    BY <1>1, <1>2 DEF RowOf, Ended
  <2>4. rows' = rows \/ (s \in AgentShells /\ rows[s] \notin Ended /\ \E x \in Active : rows' = [rows EXCEPT ![s] = x])
    BY <2>2, <2>3 DEF WriteRow, Active
  <2>5. cancelled' \in [Shells -> SUBSET Nat] /\ resizing' \in [Shells -> Nat]
    BY <1>1, <2>2 DEF CancelCurrent, ShellTypes, ShellRecord
  <2> QED
    BY <1>2, <2>1, <2>2, <2>4, <2>5, NotedInv
<1>3. CASE shell[s].status # "running"
  <2>1. /\ Finish(s, shell[s].gen, "closed", "requested_close", TRUE)
        /\ shell[s].status \in {"starting", "failed"}
        /\ UNCHANGED <<starter, runner, connected, resizing, workers, closed, done>>
    BY <1>3 DEF CloseShell, Reconnectable
  <2>2. FinishedNow(s)
    BY <1>1, <2>1, FinishEnds DEF ShellRecord, Ended, Causes
  <2>3. runner[s] = NoCall
    BY <1>1, <2>1 DEF ActorOf
  <2>4. TypesOnly' /\ OtherShellsStay(s)
    BY <2>1, <2>2 DEF TypesOnly, ShellTypes, OtherShellsStay, FinishedNow, Statuses
  <2>5. (ActorOf(s) /\ ConnectionOf(s) /\ RowOf(s))'
    BY <1>1, <2>1, <2>2, <2>3, EndedStory
  <2>6. workers' = workers + Tally(s)' - Tally(s)
    <3>1. workers \in Int
      BY Subsets DEF ShellTypes, Starters, Runners
    <3>2. Tally(s)' = Tally(s) /\ Tally(s) \in Int
      BY <2>1 DEF Tally, NoCall
    <3> QED
      BY <2>1, <3>1, <3>2
  <2> QED
    BY <2>1, <2>2, <2>4, <2>5, <2>6, EndedCountsNot, Acted DEF ShellsDoneStory
<1> QED
  BY <1>2, <1>3

LEMMA PersistenceInv ==
  ASSUME ShellInv, NEW s \in Shells, PersistenceFails(s)
  PROVE  ShellInv'
<1> USE DEF ShellInv
<1>1. shell[s] \in ShellRecord
  BY DEF ShellTypes
<1> DEFINE now == [shell[s] EXCEPT !.reason = IF shell[s].reason = "" THEN "persistence_failed" ELSE shell[s].reason]
<1>2. /\ now \in ShellRecord /\ now.gen = shell[s].gen /\ now.session = shell[s].session
      /\ now.finished = shell[s].finished /\ now.status = shell[s].status
  BY <1>1 DEF ShellRecord
<1>3. shell' = [shell EXCEPT ![s] = now]
  BY <1>1 DEF PersistenceFails, ShellTypes
<1> HIDE DEF now
<1>4. cancelled' \in [Shells -> SUBSET Nat] /\ resizing' \in [Shells -> Nat]
  BY <1>1 DEF PersistenceFails, CancelCurrent, ShellTypes, ShellRecord
<1>5. UNCHANGED <<registered, starter, runner, connected, rows, workers, closed, done>>
  BY DEF PersistenceFails
<1> QED
  BY <1>2, <1>3, <1>4, <1>5, NotedInv

LEMMA ResizeInv ==
  ASSUME ShellInv, NEW s \in Shells, BeginResize(s) \/ EndResize(s)
  PROVE  ShellInv'
<1> USE DEF ShellInv
<1> DEFINE now == shell[s]
<1>1. /\ now \in ShellRecord /\ shell' = [shell EXCEPT ![s] = now]
      /\ UNCHANGED <<registered, starter, runner, connected, cancelled, workers, closed, done>>
  BY DEF BeginResize, EndResize, ShellTypes
<1>2. cancelled' \in [Shells -> SUBSET Nat] /\ resizing' \in [Shells -> Nat]
  <2>1. shell[s].session \in Nat
    BY DEF ShellTypes, ShellRecord
  <2>2. resizing \in [Shells -> Nat] /\ cancelled \in [Shells -> SUBSET Nat]
    BY DEF ShellTypes
  <2>3. \E n \in Nat : resizing' = [resizing EXCEPT ![s] = n]
    BY <2>1 DEF BeginResize, EndResize
  <2> QED
    BY <1>1, <2>2, <2>3
<1>3. rows' = rows \/ (s \in AgentShells /\ rows[s] \notin Ended /\ \E x \in Active : rows' = [rows EXCEPT ![s] = x])
  <2>1. rows' = rows \/ (shell[s].status = "running" /\ WriteRow(s, "running"))
    BY DEF BeginResize, EndResize
  <2>2. shell[s].status = "running" => rows[s] \notin Ended
    BY DEF Story, RowOf, Ended
  <2> QED
    BY <2>1, <2>2 DEF WriteRow, Active
<1> QED
  BY <1>1, <1>2, <1>3, NotedInv

\* Wait has returned: the shell ends with its session.
LEMMA EndInv ==
  ASSUME ShellInv, NEW s \in Shells, EndShell(s)
  PROVE  ShellInv'
<1> USE DEF ShellInv
<1> DEFINE g == runner[s].gen
           result == runner[s].at
<1>1. ActorOf(s) /\ ConnectionOf(s) /\ RowOf(s)
  BY DEF Story
<1>2. /\ result \in {"exit", "signal", "lost"} /\ runner' = [runner EXCEPT ![s] = NoCall] /\ workers' = workers - 1
      /\ UNCHANGED <<starter, connected, resizing, closed, done>>
  BY DEF EndShell
<1>3. workers \in Int
  BY Subsets DEF ShellTypes, Starters, Runners
<1>4. /\ runner[s] # NoCall /\ starter[s] = NoCall /\ connected[s] = {} /\ g \in Nat
      /\ shell[s].gen = g /\ shell[s].session = g /\ ~shell[s].finished
  BY <1>1, <1>2, NotConnected DEF NoCall, ActorOf, ShellTypes
<1>5. /\ runner' \in [Shells -> [at : {"none", "waiting", "exit", "signal", "lost"}, gen : Nat]]
      /\ runner'[s] = NoCall /\ \A t \in Shells \ {s} : runner'[t] = runner[t]
  BY <1>2 DEF ShellTypes, NoCall
<1>6. FinishedNow(s)
  <2>1. (CASE shell[s].reason = "requested_close" -> Finish(s, g, "closed", shell[s].reason, FALSE)
          [] shell[s].reason = "persistence_failed" -> Finish(s, g, "failed", shell[s].reason, FALSE)
          [] shell[s].reason = "" /\ Cancelled(s, g) -> Finish(s, g, "interrupted", "service_stopped", FALSE)
          [] shell[s].reason = "" /\ ~Cancelled(s, g) ->
               Finish(s, g, IF result = "exit" THEN "completed" ELSE "failed", result, FALSE))
    BY <1>4 DEF EndShell
  <2>2. shell[s].reason \in {"", "requested_close", "persistence_failed"}
    BY DEF ShellTypes, ShellRecord
  <2>3. \E status \in Ended, why \in Causes : Finish(s, g, status, why, FALSE)
    BY <1>2, <2>1, <2>2 DEF Ended, Causes
  <2> QED
    BY <1>4, <2>3, FinishEnds
<1>7. TypesOnly' /\ OtherShellsStay(s)
  BY <1>2, <1>5, <1>6 DEF TypesOnly, ShellTypes, OtherShellsStay, FinishedNow, Statuses
<1>8. (ActorOf(s) /\ ConnectionOf(s) /\ RowOf(s))'
  BY <1>1, <1>2, <1>4, <1>5, <1>6, EndedStory DEF NoCall
<1>9. workers' = workers + Tally(s)' - Tally(s)
  BY <1>2, <1>3, <1>4, <1>5 DEF Tally, NoCall
<1> QED
  BY <1>2, <1>4, <1>5, <1>6, <1>7, <1>8, <1>9, EndedCountsNot, Acted

\* The registry as a whole: it closes, it is done once no goroutine is left, and a new
\* process starts with the rows of the last one.
LEMMA RegistryInv ==
  ASSUME ShellInv, ShutShells \/ ShellsDone \/ UNCHANGED shellVars
  PROVE  ShellInv'
<1> USE DEF ShellInv
<1>1. UNCHANGED <<shell, registered, starter, runner, connected, cancelled, resizing, rows, workers>>
  BY DEF ShutShells, ShellsDone, shellVars
<1>2. closed' \in BOOLEAN /\ done' \in BOOLEAN
  BY DEF ShutShells, ShellsDone, shellVars, ShellTypes
<1>3. ShellTypes'
  BY <1>1, <1>2 DEF ShellTypes, Starters, Runners, NoCall
<1>4. Story'
  BY <1>1 DEF Story, ActorOf, ConnectionOf, RowOf, NoCall, Ended
<1>5. LimitStory'
  BY <1>1 DEF LimitStory, Counted, OnHost, Active
<1>6. workers = 0 => \A s \in Shells : starter[s] = NoCall /\ runner[s] = NoCall
  <2>1. /\ IsFiniteSet(Starters) /\ IsFiniteSet(Runners)
    BY ShellAssumption, FS_Subset DEF Starters, Runners
  <2>2. Cardinality(Starters) \in Nat /\ Cardinality(Runners) \in Nat
    BY <2>1, FS_CardinalityType
  <2>3. workers = 0 => Cardinality(Starters) = 0 /\ Cardinality(Runners) = 0
    BY <2>2 DEF ShellTypes
  <2>4. workers = 0 => Starters = {} /\ Runners = {}
    BY <2>1, <2>3, FS_EmptySet
  <2> QED
    BY <2>4 DEF Starters, Runners
<1>7. ShellsDoneStory'
  BY <1>1, <1>6 DEF ShellsDoneStory, ShutShells, ShellsDone, shellVars, NoCall
<1> QED
  BY <1>3, <1>4, <1>5, <1>7

LEMMA RestartInv ==
  ASSUME ShellInv, RestartShells
  PROVE  ShellInv'
<1> USE DEF ShellInv
<1>1. /\ shell' = [s \in Shells |-> Unopened] /\ registered' = {}
      /\ starter' = [s \in Shells |-> NoCall] /\ runner' = [s \in Shells |-> NoCall]
      /\ connected' = [s \in Shells |-> {}] /\ cancelled' = [s \in Shells |-> {}]
      /\ resizing' = [s \in Shells |-> 0] /\ workers' = 0 /\ closed' = FALSE /\ done' = FALSE
  BY DEF RestartShells
<1>2. Starters' = {} /\ Runners' = {} /\ Counted' = {} /\ Cardinality({}) = 0
  BY <1>1, FS_EmptySet DEF Starters, Runners, Counted, NoCall
<1>3. /\ rows' \in [Shells -> {"none"} \cup Active \cup Ended]
      /\ \A s \in Shells : s \in OperatorShells => rows'[s] = "none"
  <2>1. rows' = [s \in Shells |-> AfterRestart(rows[s])]
    BY DEF RestartShells
  <2>2. \A s \in Shells : AfterRestart(rows[s]) \in {"none"} \cup Active \cup Ended
    BY DEF AfterRestart, ShellTypes, Ended
  <2>3. \A s \in Shells : s \in OperatorShells => AfterRestart(rows[s]) = "none"
    BY DEF Story, RowOf, AfterRestart, Active
  <2> QED
    BY <2>1, <2>2, <2>3
<1>4. ShellTypes'
  <2>1. Unopened \in ShellRecord
    BY DEF Unopened, ShellRecord, Causes
  <2>2. shell' \in [Shells -> ShellRecord]
    BY <1>1, <2>1
  <2>3. /\ starter' \in [Shells -> [at : {"none", "reserved", "opening", "opened", "failing"}, gen : Nat]]
        /\ runner' \in [Shells -> [at : {"none", "waiting", "exit", "signal", "lost"}, gen : Nat]]
    BY <1>1 DEF NoCall
  <2>4. (workers = Cardinality(Starters) + Cardinality(Runners))'
    BY <1>1, <1>2
  <2> QED
    BY <1>1, <1>3, <2>2, <2>3, <2>4 DEF ShellTypes
<1>5. Story'
  BY <1>1, <1>3 DEF Story, ActorOf, ConnectionOf, RowOf, Unopened, NoCall
<1>6. LimitStory'
  <2>1. \A h : OnHost(Counted', h) = {}
    BY <1>2 DEF OnHost
  <2> QED
    BY <1>2, <2>1, CapacityAssumption DEF LimitStory, OnHost
<1> QED
  BY <1>1, <1>4, <1>5, <1>6 DEF ShellsDoneStory

LEMMA ShellInvStep == ShellInv /\ [ShellNext]_shellVars => ShellInv'
<1> SUFFICES ASSUME ShellInv, [ShellNext]_shellVars PROVE ShellInv'
  OBVIOUS
<1>1. ASSUME NEW s \in Shells,
             \/ OpenShell(s) \/ BeginReconnect(s) \/ Prepare(s) \/ CloseShell(s) \/ PersistenceFails(s)
             \/ TransportEnds(s) \/ EndShell(s) \/ BeginResize(s) \/ EndResize(s)
      PROVE  ShellInv'
  BY <1>1, OpenInv, MoveInv, GenerationInv, FailInv, CloseShellInv, PersistenceInv, EndInv, ResizeInv DEF Prepare
<1> QED
  BY <1>1, RegistryInv, RestartInv DEF ShellNext

---------------------------------------------------------------------------
(* What follows *)

LEMMA IInvOwned == ShellInv => ConnectionsAreOwned
<1> SUFFICES ASSUME ShellInv PROVE ConnectionsAreOwned
  OBVIOUS
<1> USE DEF ShellInv
<1>1. \A s \in Shells : \A g \in connected[s] :
        /\ g = shell[s].gen
        /\ starter[s] = [at |-> "opened", gen |-> g] \/ runner[s] = [at |-> "waiting", gen |-> g]
  BY DEF Story, ConnectionOf
<1>2. done => \A s \in Shells : connected[s] = {} /\ starter[s] = NoCall /\ runner[s] = NoCall
  <2>1. ASSUME done, NEW s \in Shells PROVE connected[s] = {} /\ starter[s] = NoCall /\ runner[s] = NoCall
    <3>1. starter[s] = NoCall /\ runner[s] = NoCall
      BY <2>1 DEF ShellsDoneStory
    <3>2. starter[s].at # "opened" /\ runner[s].at # "waiting"
      BY <3>1 DEF NoCall
    <3> QED
      BY <3>1, <3>2, NotConnected DEF Story
  <2> QED
    BY <2>1
<1>3. Connecting \subseteq Counted /\ Counted \subseteq Shells
  BY DEF Connecting, Counted, Active, ShellTypes
<1>4. MaxActive \in Nat /\ MaxPerHost \in Nat
  BY CapacityAssumption
<1>5. Cardinality(Connecting) <= MaxActive
  BY <1>3, <1>4, Subsets DEF LimitStory
<1>6. ASSUME NEW h \in {HostOf[s] : s \in Shells}
      PROVE  Cardinality({s \in Connecting : HostOf[s] = h}) <= MaxPerHost
  <2>1. {s \in Connecting : HostOf[s] = h} \subseteq OnHost(Counted, h) /\ OnHost(Counted, h) \subseteq Shells
    BY <1>3 DEF OnHost
  <2>2. Cardinality(OnHost(Counted, h)) <= MaxPerHost
    BY DEF LimitStory
  <2> QED
    BY <1>4, <2>1, <2>2, Subsets
<1> QED
  BY <1>1, <1>2, <1>5, <1>6 DEF ConnectionsAreOwned

\* The registry keeps its types, and counts its goroutines.
THEOREM ShellTypesHold == ShellSpec => []ShellTypes
<1>1. ShellInv => ShellTypes
  BY DEF ShellInv
<1> QED
  BY ShellInvInit, ShellInvStep, <1>1, PTL DEF ShellSpec

\* An open connection is of the current generation and of a goroutine of
\* startInteractiveShellGeneration or runSSHShell; shellRegistry.done is closed when no
\* connection is left; and the shells that connect keep the limits of the admission.
THEOREM ConnectionsOwned == ShellSpec => []ConnectionsAreOwned
BY ShellInvInit, ShellInvStep, IInvOwned, PTL DEF ShellSpec

---------------------------------------------------------------------------
(* Final rows *)

\* Who may write the row of a shell, and has not ended it.
LEMMA NotEnded ==
  ASSUME ShellInv, NEW s \in Shells
  PROVE  /\ shell[s].status \in Active => rows[s] \notin Ended
         /\ starter[s] # NoCall /\ ~shell[s].finished => rows[s] \notin Ended
         /\ runner[s] # NoCall => rows[s] \notin Ended
         /\ s \in OperatorShells => rows[s] = "none"
<1>1. ActorOf(s) /\ RowOf(s)
  BY DEF ShellInv, Story
<1> QED
  BY <1>1 DEF ActorOf, RowOf, Active, Ended

\* One action writes the row of its own shell at most, and only if that is not final.
LEMMA WrittenBefore ==
  ASSUME ShellInv, NEW s \in Shells,
         rows' = rows \/ (rows[s] \notin Ended /\ \E x : rows' = [rows EXCEPT ![s] = x])
  PROVE  \A t \in Shells : rows[t] \in Ended => rows'[t] = rows[t]
BY DEF ShellInv, ShellTypes

LEMMA FinishWrites ==
  ASSUME NEW s, NEW g, NEW status, NEW why, NEW remove, Finish(s, g, status, why, remove)
  PROVE  \/ rows' = rows
         \/ s \in AgentShells /\ \E x : rows' = [rows EXCEPT ![s] = x]
BY DEF Finish, WriteRow

LEMMA ShellWrites ==
  ASSUME ShellInv, NEW s \in Shells,
         \/ OpenShell(s) \/ BeginReconnect(s) \/ Prepare(s) \/ CloseShell(s) \/ PersistenceFails(s)
         \/ TransportEnds(s) \/ EndShell(s) \/ BeginResize(s) \/ EndResize(s)
  PROVE  rows' = rows \/ (rows[s] \notin Ended /\ \E x : rows' = [rows EXCEPT ![s] = x])
<1>1. CASE OpenShell(s)
  BY <1>1 DEF OpenShell, WriteRow, Ended
<1>2. CASE BeginReconnect(s) \/ ConfirmReconnect(s) \/ TransportAnswers(s) \/ PersistenceFails(s)
           \/ TransportEnds(s) \/ BeginResize(s)
  BY <1>2 DEF BeginReconnect, ConfirmReconnect, TransportAnswers, PersistenceFails, TransportEnds,
              BeginResize
<1>3. CASE StartGeneration(s)
  <2>1. rows' = rows \/ (shell[s].status = "starting" /\ WriteRow(s, "running"))
    BY <1>3 DEF StartGeneration, UseConnection, DropConnection
  <2> QED
    BY <2>1, NotEnded DEF WriteRow, Active
<1>4. CASE FailStart(s)
  <2> DEFINE g == starter[s].gen
             remove == g = 1
  <2>1. starter[s].at = "failing"
    BY <1>4 DEF FailStart
  <2>2. starter[s] # NoCall
    BY <2>1 DEF NoCall
  <2>3. CASE shell[s].gen # g \/ shell[s].finished
    BY <1>4, <2>3 DEF FailStart
  <2>4. CASE shell[s].gen = g /\ ~shell[s].finished
    <3>1. (CASE shell[s].reason = "requested_close" -> Finish(s, g, "closed", shell[s].reason, remove)
            [] shell[s].reason = "persistence_failed" -> Finish(s, g, "failed", shell[s].reason, remove)
            [] shell[s].reason = "" /\ closed -> Finish(s, g, "interrupted", "service_stopped", remove)
            [] shell[s].reason = "" /\ ~closed ->
                 Finish(s, g, "failed", IF remove THEN "start_failed" ELSE "lost", remove))
      BY <1>4, <2>4 DEF FailStart
    <3>2. shell[s].reason \in {"", "requested_close", "persistence_failed"} /\ closed \in BOOLEAN
      BY DEF ShellInv, ShellTypes, ShellRecord
    <3> HIDE DEF g, remove
    <3>3. \E status, why : Finish(s, g, status, why, remove)
      BY <3>1, <3>2
    <3> QED
      BY <2>2, <2>4, <3>3, FinishWrites, NotEnded
  <2> QED
    BY <2>3, <2>4
<1>5. CASE CloseShell(s)
  <2>1. CASE shell[s].status \in {"running", "starting"}
    <3>1. \/ rows' = rows \/ WriteRow(s, "stopping")
          \/ \E g, status, why, remove : Finish(s, g, status, why, remove)
      BY <1>5 DEF CloseShell
    <3>2. rows[s] \notin Ended
      BY <2>1, NotEnded DEF Active
    <3> QED
      BY <3>1, <3>2, FinishWrites DEF WriteRow
  <2>2. CASE Reconnectable(s)
    <3>1. s \in OperatorShells
      BY <2>2 DEF Reconnectable
    <3>2. rows[s] \notin Ended
      BY <3>1, NotEnded DEF Ended
    <3>3. \/ rows' = rows \/ WriteRow(s, "stopping")
          \/ \E g, status, why, remove : Finish(s, g, status, why, remove)
      BY <1>5 DEF CloseShell
    <3> QED
      BY <3>2, <3>3, FinishWrites DEF WriteRow
  <2> QED
    BY <1>5, <2>1, <2>2 DEF CloseShell
<1>6. CASE EndShell(s)
  <2> DEFINE g == runner[s].gen
             result == runner[s].at
  <2>1. result \in {"exit", "signal", "lost"}
    BY <1>6 DEF EndShell
  <2>2. runner[s] # NoCall
    BY <2>1 DEF NoCall
  <2>3. CASE shell[s].gen # g \/ shell[s].session # g
    BY <1>6, <2>3 DEF EndShell
  <2>4. CASE shell[s].gen = g /\ shell[s].session = g
    <3>1. (CASE shell[s].reason = "requested_close" -> Finish(s, g, "closed", shell[s].reason, FALSE)
            [] shell[s].reason = "persistence_failed" -> Finish(s, g, "failed", shell[s].reason, FALSE)
            [] shell[s].reason = "" /\ Cancelled(s, g) -> Finish(s, g, "interrupted", "service_stopped", FALSE)
            [] shell[s].reason = "" /\ ~Cancelled(s, g) ->
                 Finish(s, g, IF result = "exit" THEN "completed" ELSE "failed", result, FALSE))
      BY <1>6, <2>4 DEF EndShell
    <3>2. shell[s].reason \in {"", "requested_close", "persistence_failed"}
      BY DEF ShellInv, ShellTypes, ShellRecord
    <3> HIDE DEF g, result
    <3>3. \E status, why : Finish(s, g, status, why, FALSE)
      BY <3>1, <3>2
    <3> QED
      BY <2>2, <3>3, FinishWrites, NotEnded
  <2> QED
    BY <2>3, <2>4
<1>7. CASE EndResize(s)
  <2>1. rows' = rows \/ (shell[s].status = "running" /\ WriteRow(s, "running"))
    BY <1>7 DEF EndResize
  <2> QED
    BY <2>1, NotEnded DEF WriteRow, Active
<1> QED
  BY <1>1, <1>2, <1>3, <1>4, <1>5, <1>6, <1>7 DEF Prepare

LEMMA FinalStep ==
  ShellInv /\ [ShellNext]_shellVars => [\A s \in Shells : rows[s] \in Ended => rows'[s] = rows[s]]_shellVars
<1> SUFFICES ASSUME ShellInv, ShellNext
             PROVE  \A s \in Shells : rows[s] \in Ended => rows'[s] = rows[s]
  OBVIOUS
<1>1. CASE \E s \in Shells :
             \/ OpenShell(s) \/ BeginReconnect(s) \/ Prepare(s) \/ CloseShell(s)
             \/ PersistenceFails(s) \/ TransportEnds(s) \/ EndShell(s) \/ BeginResize(s)
             \/ EndResize(s)
  BY <1>1, ShellWrites, WrittenBefore
<1>2. CASE ShutShells \/ ShellsDone
  BY <1>2 DEF ShutShells, ShellsDone
<1>3. CASE RestartShells
  BY <1>3 DEF RestartShells, AfterRestart, Active, Ended
<1> QED
  BY <1>1, <1>2, <1>3 DEF ShellNext

\* The row of an Agent's shell that has ended is final: no call that began before its end,
\* no late generation and no restart writes it again.
THEOREM EndedRowsFinal == ShellSpec => EndedRowsStay
BY ShellInvInit, ShellInvStep, FinalStep, PTL DEF ShellSpec, EndedRowsStay

---------------------------------------------------------------------------
(* The inductive invariant of the events of a shell *)

Writers == [events : Seq(Nat), attempts : Nat, fatal : BOOLEAN, timer : Nat, closed : BOOLEAN]
Entries0 == [gen : Nat, kind : {"output", "input", "end"}]

\* What the history holds, and after it what waits for it, is in the order of the numbers.
InOrder(kept, waiting, last) ==
  /\ \A i \in 1..Len(kept) : kept[i] \in 1..last
  /\ \A i \in 1..Len(waiting) : waiting[i] \in 1..last
  /\ \A i, j \in 1..Len(kept) : i < j => kept[i] < kept[j]
  /\ \A i, j \in 1..Len(waiting) : i < j => waiting[i] < waiting[j]
  /\ \A i \in 1..Len(kept), j \in 1..Len(waiting) : kept[i] < waiting[j]

\* Nothing is missing up to the last number, but for the oldest events that memory dropped.
NothingMissing(kept, waiting, last) ==
  /\ Len(kept) + Len(waiting) <= last
  /\ \A i \in 1..Len(kept) : kept[i] = last - Len(waiting) - Len(kept) + i
  /\ \A i \in 1..Len(waiting) : waiting[i] = last - Len(waiting) + i
  /\ persistent \/ last <= MaxKept => Len(kept) + Len(waiting) = last
  /\ last > 0 => Len(kept) + Len(waiting) > 0

TimerStory == IsFiniteSet(fired) /\ Cardinality(fired) <= MaxFired
LogOrderStory == InOrder(history, writer.events, Len(log))
LogWholeStory == ~writer.fatal => NothingMissing(history, writer.events, Len(log))

\* How a generation ends, and what its failure is known by.
LogEndStory ==
  /\ finishing \/ writer.closed => outputClosed
  /\ outputClosed => log # <<>>
  /\ outputClosed /\ ~finishing => writer.closed /\ (writer.fatal \/ writer.events = <<>>)
  /\ writer.attempts >= MaxAttempts => writer.fatal
  /\ writer.fatal <=> reason = "persistence_failed"

LogStory ==
  /\ \A i \in 1..Len(log) : /\ log[i].gen <= generation
                            /\ log[i].gen = generation /\ log[i].kind = "end" => outputClosed
  /\ \A i, j \in 1..Len(log) : i < j =>
       log[i].gen < log[j].gen \/ (log[i].gen = log[j].gen /\ log[i].kind # "end")

\* Everything up to the last event is shown, in the history, or waits in the page's channel.
NothingDropped == (persistent \/ Len(log) <= MaxKept) /\ ~writer.fatal
PageStory ==
  NothingDropped =>
    /\ Len(shown) <= Len(log) /\ \A i \in 1..Len(shown) : shown[i] = i
    /\ stream # "off" /\ ~overflow =>
         /\ Len(channel) <= Len(log) /\ \A i \in 1..Len(channel) : channel[i] = Len(log) - Len(channel) + i
         /\ stream = "flushed" => Len(log) - Len(channel) <= Len(history)
         /\ stream = "live" => Len(log) - Len(channel) <= Len(shown)

ShellEventInv ==
  /\ ShellEventTypes /\ TimerStory /\ LogOrderStory /\ LogWholeStory /\ LogEndStory /\ LogStory /\ PageStory

\* A step that leaves history, log and writer alone keeps what is said of them.
LEMMA HistoryStays ==
  ASSUME LogOrderStory, LogWholeStory, LogEndStory, LogStory,
         UNCHANGED <<persistent, generation, outputClosed, reason, log, history, writer, finishing>>
  PROVE  LogOrderStory' /\ LogWholeStory' /\ LogEndStory' /\ LogStory'
<1>1. LogOrderStory'
  BY DEF LogOrderStory, InOrder
<1>2. LogWholeStory'
  BY DEF LogWholeStory, NothingMissing
<1>3. LogEndStory'
  BY DEF LogEndStory
<1>4. LogStory'
  BY DEF LogStory
<1> QED
  BY <1>1, <1>2, <1>3, <1>4

\* The same of the page.
LEMMA PageUntouched ==
  ASSUME PageStory, UNCHANGED <<persistent, log, history, writer>>, UNCHANGED pageVars
  PROVE  PageStory'
<1>1. UNCHANGED <<stream, channel, overflow, shown>>
  BY DEF pageVars
<1>2. NothingDropped' = NothingDropped
  BY DEF NothingDropped
<1> QED
  BY <1>1, <1>2 DEF PageStory

\* A step that changes at most the output that has not been recorded.
LEMMA ShellEventsStay ==
  ASSUME ShellEventInv, UNCHANGED <<persistent, generation, outputClosed, reason, log, finishing>>,
         UNCHANGED writerVars, UNCHANGED pageVars, output' \in SUBSET Nat
  PROVE  ShellEventInv'
<1>1. UNCHANGED <<history, writer, fired>> /\ UNCHANGED <<stream, channel, overflow, shown>>
  BY DEF writerVars, pageVars
<1>2. ShellEventTypes'
  BY <1>1 DEF ShellEventInv, ShellEventTypes
<1>3. TimerStory'
  BY <1>1 DEF ShellEventInv, TimerStory
<1>4. LogOrderStory' /\ LogWholeStory' /\ LogEndStory' /\ LogStory'
  BY <1>1, HistoryStays DEF ShellEventInv
<1>5. PageStory'
  BY <1>1, PageUntouched DEF ShellEventInv
<1> QED
  BY <1>2, <1>3, <1>4, <1>5 DEF ShellEventInv

---------------------------------------------------------------------------
(* Sequences of numbers *)

\* What memory keeps of a batch and the history before it: the last events.
LEMMA AppendedFacts ==
  ASSUME NEW batch \in Seq(Nat), history \in Seq(Nat), persistent \in BOOLEAN
  PROVE  /\ Appended(batch) \in Seq(Nat)
         /\ Len(Appended(batch)) <= Len(history) + Len(batch)
         /\ \A i \in 1..Len(Appended(batch)) :
              LET k == Len(history) + Len(batch) - Len(Appended(batch)) + i IN
              Appended(batch)[i] = IF k <= Len(history) THEN history[k] ELSE batch[k - Len(history)]
         /\ persistent \/ Len(history) + Len(batch) <= MaxKept => Len(Appended(batch)) = Len(history) + Len(batch)
         /\ Len(history) + Len(batch) > 0 => Len(Appended(batch)) > 0
<1> DEFINE all == history \o batch
<1>1. /\ all \in Seq(Nat) /\ Len(all) = Len(history) + Len(batch) /\ Len(history) \in Nat /\ Len(batch) \in Nat
      /\ \A i \in 1..Len(all) : all[i] \in Nat /\ all[i] = IF i <= Len(history) THEN history[i] ELSE batch[i - Len(history)]
  OBVIOUS
<1>2. MaxKept \in Nat /\ MaxKept > 0
  BY ShellEventAssumption
<1>3. PICK n \in Nat : n = Len(all)
  BY <1>1
<1> HIDE DEF all
<1>4. \E r \in Seq(Nat) :
        /\ r = Appended(batch) /\ Len(r) <= n
        /\ \A i \in 1..Len(r) : r[i] = all[n - Len(r) + i]
        /\ persistent \/ n <= MaxKept => Len(r) = n
        /\ n > 0 => Len(r) > 0
  <2>1. CASE persistent \/ n <= MaxKept
    <3>1. Appended(batch) = all
      BY <2>1, <1>3 DEF Appended, all
    <3>2. PICK r \in Seq(Nat) : r = Appended(batch) /\ r = all /\ Len(r) = n
      BY <1>1, <1>3, <3>1
    <3>3. \A i \in 1..n : n - n + i = i
      OBVIOUS
    <3>4. \A i \in 1..Len(r) : r[i] = all[n - Len(r) + i]
      BY <3>2, <3>3
    <3>5. Len(r) <= n /\ (n > 0 => Len(r) > 0)
      BY <3>2
    <3> QED
      BY <3>2, <3>4, <3>5
  <2>2. CASE ~(persistent \/ n <= MaxKept)
    <3>1. PICK from \in Nat : from = n - MaxKept + 1
      BY <1>2, <2>2
    <3>2. Appended(batch) = SubSeq(all, from, n)
      BY <1>3, <2>2, <3>1 DEF Appended, all
    <3>3. from \in Int /\ n \in Int /\ from <= n /\ 1 <= from /\ n - from + 1 = MaxKept
      BY <1>2, <2>2, <3>1
    <3>4. \A i \in from..n : all[i] \in Nat
      BY <1>1, <1>3, <3>3
    <3>5. /\ SubSeq(all, from, n) \in Seq(Nat)
          /\ Len(SubSeq(all, from, n)) = IF from <= n THEN n - from + 1 ELSE 0
          /\ \A i \in 1..(n - from + 1) : SubSeq(all, from, n)[i] = all[from + i - 1]
      BY <3>3, <3>4, SubSeqProperties
    <3>6. PICK r \in Seq(Nat) : r = Appended(batch) /\ Len(r) = MaxKept /\ \A i \in 1..MaxKept : r[i] = all[from + i - 1]
      BY <3>2, <3>3, <3>5
    <3>7. \A i \in 1..MaxKept : from + i - 1 = n - MaxKept + i
      BY <1>2, <3>1
    <3>8. \A i \in 1..Len(r) : r[i] = all[n - Len(r) + i]
      BY <3>6, <3>7
    <3>9. Len(r) <= n /\ Len(r) > 0
      BY <1>2, <2>2, <3>6
    <3> QED
      BY <2>2, <3>6, <3>8, <3>9
  <2> QED
    BY <2>1, <2>2
<1>5. PICK r \in Seq(Nat) :
        /\ r = Appended(batch) /\ Len(r) <= n
        /\ \A i \in 1..Len(r) : r[i] = all[n - Len(r) + i]
        /\ persistent \/ n <= MaxKept => Len(r) = n
        /\ n > 0 => Len(r) > 0
  BY <1>4
<1>6. \A i \in 1..Len(r) : n - Len(r) + i \in 1..n
  BY <1>5
<1>7. ASSUME NEW i \in 1..Len(r)
      PROVE  LET k == Len(history) + Len(batch) - Len(r) + i IN
             r[i] = IF k <= Len(history) THEN history[k] ELSE batch[k - Len(history)]
  <2>1. r[i] = all[n - Len(r) + i] /\ n - Len(r) + i \in 1..n
    BY <1>5, <1>6
  <2>2. PICK k \in 1..n : k = n - Len(r) + i /\ k = Len(history) + Len(batch) - Len(r) + i
    BY <1>1, <1>3, <2>1
  <2>3. r[i] = all[k] /\ k \in 1..Len(all)
    BY <1>3, <2>1, <2>2
  <2>4. all[k] = IF k <= Len(history) THEN history[k] ELSE batch[k - Len(history)]
    BY <1>1, <2>3
  <2> QED
    BY <2>2, <2>3, <2>4
<1>8. Len(history) + Len(batch) = n
  BY <1>1, <1>3
<1> QED
  BY <1>5, <1>7, <1>8

\* A batch that is written stays in order, and nothing is missing then.
LEMMA WrittenOrder ==
  ASSUME NEW batch \in Seq(Nat), NEW last \in Nat, history \in Seq(Nat), persistent \in BOOLEAN, InOrder(history, batch, last)
  PROVE  InOrder(Appended(batch), <<>>, last)
<1>1. Len(<<>>) = 0 /\ Len(history) \in Nat /\ Len(batch) \in Nat /\ Len(Appended(batch)) \in Nat
  BY AppendedFacts
<1> DEFINE k(i) == Len(history) + Len(batch) - Len(Appended(batch)) + i
<1>2. ASSUME NEW i \in 1..Len(Appended(batch))
      PROVE  /\ k(i) \in 1..(Len(history) + Len(batch))
             /\ k(i) <= Len(history) => k(i) \in 1..Len(history) /\ Appended(batch)[i] = history[k(i)]
             /\ k(i) > Len(history) => k(i) - Len(history) \in 1..Len(batch) /\ Appended(batch)[i] = batch[k(i) - Len(history)]
  BY <1>1, AppendedFacts
<1>3. ASSUME NEW i \in 1..Len(Appended(batch)), NEW j \in 1..Len(Appended(batch)), i < j PROVE k(i) < k(j)
  BY <1>1, <1>3
<1> HIDE DEF k
<1>4. \A i \in 1..Len(Appended(batch)) : Appended(batch)[i] \in 1..last
  <2> TAKE i \in 1..Len(Appended(batch))
  <2>1. CASE k(i) <= Len(history)
    BY <1>2, <2>1 DEF InOrder
  <2>2. CASE k(i) > Len(history)
    BY <1>2, <2>2 DEF InOrder
  <2> QED
    BY <1>1, <1>2, <2>1, <2>2
<1>5. ASSUME NEW i \in 1..Len(Appended(batch)), NEW j \in 1..Len(Appended(batch)), i < j
      PROVE  Appended(batch)[i] < Appended(batch)[j]
  <2>1. k(i) < k(j) /\ k(i) \in Nat /\ k(j) \in Nat
    BY <1>1, <1>2, <1>3, <1>5
  <2>2. CASE k(j) <= Len(history)
    <3>1. k(i) <= Len(history)
      BY <1>1, <2>1, <2>2
    <3> QED
      BY <1>2, <2>1, <2>2, <3>1 DEF InOrder
  <2>3. CASE k(i) > Len(history)
    <3>1. k(j) > Len(history) /\ k(i) - Len(history) < k(j) - Len(history)
      BY <1>1, <2>1, <2>3
    <3> QED
      BY <1>2, <2>3, <3>1 DEF InOrder
  <2>4. CASE k(i) <= Len(history) /\ k(j) > Len(history)
    BY <1>2, <2>4 DEF InOrder
  <2> QED
    BY <1>1, <2>1, <2>2, <2>3, <2>4
<1> QED
  BY <1>1, <1>4, <1>5 DEF InOrder

\* Nor does a batch that was written leave anything out.
LEMMA WrittenWhole ==
  ASSUME NEW batch \in Seq(Nat), NEW last \in Nat, history \in Seq(Nat), persistent \in BOOLEAN,
         NothingMissing(history, batch, last)
  PROVE  NothingMissing(Appended(batch), <<>>, last)
<1>1. Len(<<>>) = 0 /\ Len(history) \in Nat /\ Len(batch) \in Nat /\ Len(Appended(batch)) \in Nat
  BY AppendedFacts
<1>2. ASSUME NEW i \in 1..Len(Appended(batch)) PROVE Appended(batch)[i] = last - Len(Appended(batch)) + i
  <2> DEFINE k == Len(history) + Len(batch) - Len(Appended(batch)) + i
  <2>1. Appended(batch)[i] = IF k <= Len(history) THEN history[k] ELSE batch[k - Len(history)]
    BY AppendedFacts
  <2>2. k \in 1..(Len(history) + Len(batch))
    BY <1>1, AppendedFacts
  <2>3. CASE k <= Len(history)
    <3>1. k \in 1..Len(history)
      BY <1>1, <2>2, <2>3
    <3>2. history[k] = last - Len(batch) - Len(history) + k
      BY <3>1 DEF NothingMissing
    <3> QED
      BY <1>1, <2>1, <2>3, <3>2
  <2>4. CASE k > Len(history)
    <3>1. k - Len(history) \in 1..Len(batch)
      BY <1>1, <2>2, <2>4
    <3>2. batch[k - Len(history)] = last - Len(batch) + (k - Len(history))
      BY <3>1 DEF NothingMissing
    <3> QED
      BY <1>1, <2>1, <2>2, <2>4, <3>2
  <2> QED
    BY <1>1, <2>2, <2>3, <2>4
<1>3. /\ Len(Appended(batch)) <= last
      /\ persistent \/ last <= MaxKept => Len(Appended(batch)) = last
      /\ last > 0 => Len(Appended(batch)) > 0
  BY <1>1, AppendedFacts, ShellEventAssumption DEF NothingMissing
<1>4. \A i \in 1..Len(<<>>) : <<>>[i] = last - Len(<<>>) + i
  BY <1>1
<1> QED
  BY <1>1, <1>2, <1>3, <1>4 DEF NothingMissing

\* The next number waits after the others; or it is dropped, and the others stay in order.
LEMMA NextNumber ==
  ASSUME NEW batch \in Seq(Nat), NEW last \in Nat, history \in Seq(Nat), InOrder(history, batch, last)
  PROVE  /\ batch \o <<last + 1>> \in Seq(Nat) /\ batch \o <<last + 1>> # <<>>
         /\ InOrder(history, batch \o <<last + 1>>, last + 1) /\ InOrder(history, batch, last + 1)
         /\ persistent \in BOOLEAN /\ NothingMissing(history, batch, last) =>
              NothingMissing(history, batch \o <<last + 1>>, last + 1)
<1> DEFINE more == batch \o <<last + 1>>
<1>1. /\ more \in Seq(Nat) /\ Len(more) = Len(batch) + 1 /\ Len(batch) \in Nat /\ Len(history) \in Nat
      /\ \A i \in 1..Len(batch) : more[i] = batch[i]
      /\ more[Len(batch) + 1] = last + 1
  OBVIOUS
<1> HIDE DEF more
<1>2. more # <<>>
  BY <1>1
<1>3. \A i \in 1..Len(more) : i \in 1..Len(batch) \/ i = Len(batch) + 1
  BY <1>1
<1>4. InOrder(history, batch, last + 1)
  BY <1>1 DEF InOrder
<1>5. InOrder(history, more, last + 1)
  <2>1. ASSUME NEW i \in 1..Len(more) PROVE more[i] \in 1..(last + 1) /\ \A n \in 1..Len(history) : history[n] < more[i]
    <3>1. CASE i \in 1..Len(batch)
      <4>1. more[i] = batch[i] /\ batch[i] \in 1..last /\ \A n \in 1..Len(history) : history[n] < batch[i]
        BY <1>1, <3>1 DEF InOrder
      <4> QED
        BY <4>1
    <3>2. CASE i = Len(batch) + 1
      <4>1. more[i] = last + 1
        BY <1>1, <3>2
      <4>2. \A n \in 1..Len(history) : history[n] \in 1..last
        BY DEF InOrder
      <4> QED
        BY <4>1, <4>2
    <3> QED
      BY <1>3, <3>1, <3>2
  <2>2. ASSUME NEW i \in 1..Len(more), NEW j \in 1..Len(more), i < j PROVE more[i] < more[j]
    <3>1. i \in 1..Len(batch)
      BY <1>1, <2>2
    <3>2. CASE j \in 1..Len(batch)
      BY <1>1, <2>2, <3>1, <3>2 DEF InOrder
    <3>3. CASE j = Len(batch) + 1
      BY <1>1, <3>1, <3>3, SMTT(30) DEF InOrder
    <3> QED
      BY <1>3, <3>2, <3>3
  <2> QED
    BY <1>4, <2>1, <2>2 DEF InOrder
<1>6. ASSUME persistent \in BOOLEAN, NothingMissing(history, batch, last) PROVE NothingMissing(history, more, last + 1)
  <2>1. \A i \in 1..Len(more) : more[i] = (last + 1) - Len(more) + i
    <3> TAKE i \in 1..Len(more)
    <3>1. CASE i \in 1..Len(batch)
      <4>1. more[i] = last - Len(batch) + i
        BY <1>1, <1>6, <3>1 DEF NothingMissing
      <4> QED
        BY <1>1, <4>1
    <3>2. CASE i = Len(batch) + 1
      BY <1>1, <3>2
    <3> QED
      BY <1>3, <3>1, <3>2
  <2>2. \A i \in 1..Len(history) : history[i] = (last + 1) - Len(more) - Len(history) + i
    BY <1>1, <1>6 DEF NothingMissing
  <2>3. /\ Len(history) + Len(more) <= last + 1 /\ Len(history) + Len(more) > 0
        /\ persistent \/ last + 1 <= MaxKept => Len(history) + Len(more) = last + 1
    <3>1. MaxKept \in Nat
      BY ShellEventAssumption
    <3>2. last + 1 <= MaxKept => last <= MaxKept
      BY <3>1
    <3> QED
      BY <1>1, <1>6, <3>2 DEF NothingMissing
  <2> QED
    BY <2>1, <2>2, <2>3 DEF NothingMissing
<1> QED
  BY <1>1, <1>2, <1>4, <1>5, <1>6 DEF more

---------------------------------------------------------------------------
(* The writer *)

\* There is always a number for a new timer.
LEMMA TimerIsNew ==
  ASSUME TimerStory
  PROVE  FreshTimer \in Nat
<1>1. MaxFired \in Nat
  BY ShellEventAssumption
<1> DEFINE taken == fired \cup {writer.timer}
<1>2. IsFiniteSet(taken) /\ Cardinality(taken) <= MaxFired + 1
  <2>1. IsFiniteSet(fired) /\ Cardinality(fired) <= MaxFired /\ Cardinality(fired) \in Nat
    BY FS_CardinalityType DEF TimerStory
  <2>2. IsFiniteSet(taken)
    BY <2>1, FS_AddElement
  <2>3. Cardinality(taken) = IF writer.timer \in fired THEN Cardinality(fired) ELSE Cardinality(fired) + 1
    BY <2>1, FS_AddElement
  <2> QED
    BY <1>1, <2>1, <2>2, <2>3
<1>3. IsFiniteSet(1..(MaxFired + 2)) /\ Cardinality(1..(MaxFired + 2)) = MaxFired + 2
  <2>1. 1 \in Int /\ MaxFired + 2 \in Int /\ ~(1 > MaxFired + 2) /\ (MaxFired + 2) - 1 + 1 = MaxFired + 2
    BY <1>1
  <2> QED
    BY <2>1, FS_Interval
<1>4. \E t \in 1..(MaxFired + 2) : t \notin taken
  <2> SUFFICES ASSUME 1..(MaxFired + 2) \subseteq taken PROVE FALSE
    OBVIOUS
  <2>1. Cardinality(1..(MaxFired + 2)) <= Cardinality(taken)
    BY <1>2, FS_Subset
  <2>2. Cardinality(taken) \in Nat
    BY <1>2, FS_CardinalityType
  <2> QED
    BY <1>1, <1>2, <1>3, <2>1, <2>2
<1>5. FreshTimer \in 1..(MaxFired + 2)
  BY <1>4 DEF FreshTimer
<1> QED
  BY <1>1, <1>5

\* A writer that is scheduled has the same events.
LEMMA ScheduledIs ==
  ASSUME TimerStory, NEW w \in Writers
  PROVE  /\ Scheduled(w) \in Writers /\ Scheduled(w).events = w.events /\ Scheduled(w).attempts = w.attempts
         /\ Scheduled(w).fatal = w.fatal /\ Scheduled(w).closed = w.closed
<1>1. PICK t \in Nat : t = FreshTimer
  BY TimerIsNew
<1>2. Scheduled(w) = w \/ Scheduled(w) = [w EXCEPT !.timer = t]
  BY <1>1 DEF Scheduled
<1>3. CASE Scheduled(w) = w
  BY <1>3
<1>4. CASE Scheduled(w) = [w EXCEPT !.timer = t]
  BY <1>4 DEF Writers
<1> QED
  BY <1>2, <1>3, <1>4

\* What a step of the writer does to what it and the history hold.
HeldBy(w, last) ==
  /\ w.attempts >= MaxAttempts => w.fatal
  /\ InOrder(history, w.events, last) /\ (~w.fatal => NothingMissing(history, w.events, last))

Holds(w, last) ==
  /\ writer' \in Writers /\ history' \in Seq(Nat)
  /\ InOrder(history', writer'.events, last) /\ (~writer'.fatal => NothingMissing(history', writer'.events, last))
  /\ writer'.attempts >= MaxAttempts => writer'.fatal
  /\ w.fatal => writer'.fatal
  /\ writer'.closed = w.closed
  /\ ~writer'.fatal /\ (persistent \/ last <= MaxKept) => Len(history') >= Len(history)

\* A flush: the batch joins the history, or the attempt counts.
LEMMA FlushHolds ==
  ASSUME TimerStory, NEW w \in Writers, NEW last \in Nat, NEW again \in BOOLEAN, HeldBy(w, last),
         history \in Seq(Nat), persistent \in BOOLEAN, Flush(w, again)
  PROVE  Holds(w, last)
<1>1. /\ w.events \in Seq(Nat) /\ w.attempts \in Nat /\ w.fatal \in BOOLEAN /\ w.closed \in BOOLEAN
      /\ MaxAttempts \in Nat /\ MaxAttempts > 0 /\ Len(history) \in Nat
  BY ShellEventAssumption DEF Writers
<1>2. PICK v \in Writers :
        /\ \/ /\ w.events = <<>> /\ history' = history
              /\ v = [w EXCEPT !.timer = 0]
           \/ /\ w.events # <<>> /\ history' = Appended(w.events)
              /\ v = Written(w)
           \/ /\ w.events # <<>> /\ history' = history
              /\ v = NotWritten(w)
        /\ writer' = (IF again THEN Scheduled(v) ELSE v)
  <2>1. /\ [w EXCEPT !.timer = 0] \in Writers
        /\ Written(w) \in Writers
        /\ NotWritten(w) \in Writers
    <3>1. [w EXCEPT !.timer = 0] \in Writers
      BY DEF Writers
    <3>2. Written(w) \in Writers
      <4>1. <<>> \in Seq(Nat)
        OBVIOUS
      <4> QED
        BY <4>1 DEF Written, Writers
    <3>3. NotWritten(w) \in Writers
      <4>1. PICK n \in Nat, f \in BOOLEAN :
              n = (IF w.attempts < MaxAttempts THEN w.attempts + 1 ELSE w.attempts) /\ f = (w.fatal \/ w.attempts + 1 >= MaxAttempts)
        <5>1. (IF w.attempts < MaxAttempts THEN w.attempts + 1 ELSE w.attempts) \in Nat
          BY <1>1
        <5>2. (w.fatal \/ w.attempts + 1 >= MaxAttempts) \in BOOLEAN
          BY <1>1, Zenon
        <5> QED
          BY <5>1, <5>2, Zenon
      <4>2. NotWritten(w) = [w EXCEPT !.attempts = n, !.timer = 0, !.fatal = f]
        BY <4>1 DEF NotWritten, Writers
      <4>3. [w EXCEPT !.attempts = n, !.timer = 0, !.fatal = f] \in Writers
        BY DEF Writers
      <4> QED
        BY <4>2, <4>3
    <3> QED
      BY <3>1, <3>2, <3>3
  <2> QED
    BY <2>1 DEF Flush
<1>3. /\ writer' \in Writers /\ writer'.events = v.events /\ writer'.attempts = v.attempts
      /\ writer'.fatal = v.fatal /\ writer'.closed = v.closed
  BY <1>2, ScheduledIs
<1>4. CASE w.events = <<>> /\ history' = history /\ v = [w EXCEPT !.timer = 0]
  <2>1. v.events = w.events /\ v.attempts = w.attempts /\ v.fatal = w.fatal /\ v.closed = w.closed
    BY <1>4 DEF Writers
  <2> QED
    BY <1>1, <1>3, <1>4, <2>1 DEF HeldBy, Holds
<1>5. CASE w.events # <<>> /\ history' = Appended(w.events) /\ v = Written(w)
  <2>1. v.events = <<>> /\ v.attempts = 0 /\ v.fatal = w.fatal /\ v.closed = w.closed
    BY <1>5 DEF Written, Writers
  <2>2. history' \in Seq(Nat) /\ InOrder(history', <<>>, last)
    BY <1>1, <1>5, AppendedFacts, WrittenOrder DEF HeldBy
  <2>3. ~w.fatal => NothingMissing(history', <<>>, last)
    BY <1>1, <1>5, WrittenWhole DEF HeldBy
  <2>4. ~w.fatal /\ (persistent \/ last <= MaxKept) => Len(history') >= Len(history)
    <3>1. PICK m \in Nat : m = Len(w.events)
      BY <1>1
    <3>2. w.fatal \/ Len(history) + m <= last
      BY <3>1 DEF HeldBy, NothingMissing
    <3>3. persistent \/ Len(history) + m <= MaxKept => Len(history') = Len(history) + m
      BY <1>1, <1>5, <3>1, AppendedFacts
    <3>4. MaxKept \in Nat
      BY ShellEventAssumption
    <3>5. last <= MaxKept /\ ~w.fatal => Len(history) + m <= MaxKept
      BY <1>1, <3>2, <3>4
    <3> QED
      BY <1>1, <3>3, <3>5
  <2> QED
    BY <1>1, <1>3, <2>1, <2>2, <2>3, <2>4 DEF Holds
<1>6. CASE w.events # <<>> /\ history' = history /\ v = NotWritten(w)
  <2>1. v.events = w.events /\ v.closed = w.closed /\ (w.fatal => v.fatal) /\ (v.attempts >= MaxAttempts => v.fatal)
    BY <1>1, <1>6 DEF NotWritten, Writers, HeldBy
  <2> QED
    BY <1>1, <1>3, <1>6, <2>1 DEF HeldBy, Holds
<1> QED
  BY <1>2, <1>4, <1>5, <1>6

---------------------------------------------------------------------------
(* The parts of the invariant, after a step of the writer *)

\* The types of the parts of a shell.
LEMMA TypesOfEvents ==
  ASSUME ShellEventTypes
  PROVE  /\ persistent \in BOOLEAN /\ generation \in Nat /\ outputClosed \in BOOLEAN /\ finishing \in BOOLEAN
         /\ reason \in {"", "persistence_failed"}
         /\ log \in Seq(Entries0) /\ Len(log) \in Nat
         /\ history \in Seq(Nat) /\ writer \in Writers
         /\ writer.events \in Seq(Nat) /\ writer.attempts \in Nat /\ writer.fatal \in BOOLEAN /\ writer.timer \in Nat
         /\ writer.closed \in BOOLEAN
         /\ channel \in Seq(Nat) /\ shown \in Seq(Nat) /\ stream \in {"off", "subscribed", "flushed", "live"}
         /\ overflow \in BOOLEAN
<1>1. writer \in Writers /\ log \in Seq(Entries0)
  BY DEF ShellEventTypes, Writers, Entries0
<1>2. Len(log) \in Nat
  BY <1>1
<1>3. /\ writer.events \in Seq(Nat) /\ writer.attempts \in Nat /\ writer.fatal \in BOOLEAN /\ writer.timer \in Nat
      /\ writer.closed \in BOOLEAN
  BY <1>1 DEF Writers
<1> QED
  BY <1>1, <1>2, <1>3 DEF ShellEventTypes

\* The writer holds what comes after the history.
LEMMA HeldNow == ASSUME ShellEventInv PROVE HeldBy(writer, Len(log))
BY DEF ShellEventInv, LogOrderStory, LogWholeStory, LogEndStory, HeldBy

\* A failure of the writer is noted.
LEMMA FailureNoted ==
  ASSUME ShellEventInv, NoteFatal, writer' \in Writers, writer.fatal => writer'.fatal
  PROVE  reason' \in {"", "persistence_failed"} /\ (writer'.fatal <=> reason' = "persistence_failed")
<1>1. reason \in {"", "persistence_failed"} /\ (writer.fatal <=> reason = "persistence_failed")
  BY TypesOfEvents DEF ShellEventInv, LogEndStory
<1>2. "" # "persistence_failed"
  OBVIOUS
<1>3. CASE writer'.fatal /\ ~writer.fatal
  BY <1>1, <1>2, <1>3 DEF NoteFatal
<1>4. CASE ~(writer'.fatal /\ ~writer.fatal)
  BY <1>1, <1>2, <1>4 DEF NoteFatal
<1> QED
  BY <1>3, <1>4

\* A step of the writer that gives out no number.
WriterOnly ==
  /\ Holds(writer, Len(log)) /\ NoteFatal /\ log' = log /\ persistent' = persistent

\* A step of the writer alone keeps the stories of the writer and the history.
LEMMA WriterOnlyKeeps ==
  ASSUME ShellEventInv, WriterOnly
  PROVE  /\ LogOrderStory' /\ LogWholeStory' /\ writer' \in Writers /\ history' \in Seq(Nat)
         /\ reason' \in {"", "persistence_failed"} /\ (writer'.fatal <=> reason' = "persistence_failed")
         /\ writer'.attempts >= MaxAttempts => writer'.fatal
         /\ writer.fatal => writer'.fatal
         /\ NothingDropped' => NothingDropped /\ Len(history') >= Len(history)
<1>1. /\ writer' \in Writers /\ history' \in Seq(Nat)
      /\ InOrder(history', writer'.events, Len(log)) /\ (~writer'.fatal => NothingMissing(history', writer'.events, Len(log)))
      /\ writer'.attempts >= MaxAttempts => writer'.fatal
      /\ writer.fatal => writer'.fatal
      /\ ~writer'.fatal /\ (persistent \/ Len(log) <= MaxKept) => Len(history') >= Len(history)
      /\ log' = log /\ persistent' = persistent /\ NoteFatal
  BY DEF WriterOnly, Holds
<1>2. LogOrderStory' /\ LogWholeStory'
  BY <1>1 DEF LogOrderStory, LogWholeStory, InOrder, NothingMissing
<1>3. NothingDropped' => NothingDropped /\ Len(history') >= Len(history)
  BY <1>1 DEF NothingDropped
<1> QED
  BY <1>1, <1>2, <1>3, FailureNoted

\* The page, when no number is given out and its part stays.
LEMMA PageStays ==
  ASSUME PageStory, NothingDropped' => NothingDropped /\ Len(history') >= Len(history), log' = log, UNCHANGED pageVars,
         history \in Seq(Nat), history' \in Seq(Nat), log \in Seq(Entries0), channel \in Seq(Nat)
  PROVE  PageStory'
<1>1. Len(log) \in Nat /\ Len(channel) \in Nat /\ Len(history) \in Nat /\ Len(history') \in Nat
  OBVIOUS
<1>2. stream' = stream /\ channel' = channel /\ overflow' = overflow /\ shown' = shown
  BY DEF pageVars
<1> QED
  BY <1>1, <1>2 DEF PageStory

\* What the rest of the invariant depends on stays.
LEMMA LogStays == ASSUME LogStory, UNCHANGED <<log, generation, outputClosed>> PROVE LogStory'
BY DEF LogStory

---------------------------------------------------------------------------
(* A number is given out *)

\* The writer holds one more number after an append.
LEMMA WriteHolds ==
  ASSUME ShellEventInv, NEW immediate \in BOOLEAN, ~writer.closed, Write(<<Len(log) + 1>>, immediate)
  PROVE  Holds(writer, Len(log) + 1)
<1> DEFINE last == Len(log) + 1
<1>1. /\ writer \in Writers /\ writer.events \in Seq(Nat) /\ Len(log) \in Nat /\ last \in Nat /\ history \in Seq(Nat)
      /\ persistent \in BOOLEAN /\ TimerStory /\ HeldBy(writer, Len(log)) /\ Len(history) \in Nat
      /\ writer.fatal \in BOOLEAN /\ MaxBacklog \in Nat
  <2>1. /\ writer \in Writers /\ writer.events \in Seq(Nat) /\ Len(log) \in Nat /\ history \in Seq(Nat)
        /\ persistent \in BOOLEAN /\ TimerStory /\ writer.fatal \in BOOLEAN
    BY TypesOfEvents DEF ShellEventInv
  <2>2. Len(history) \in Nat /\ last \in Nat
    BY <2>1
  <2>3. MaxBacklog \in Nat
    BY ShellEventAssumption
  <2> QED
    BY <2>1, <2>2, <2>3, HeldNow
<1>2. PICK w \in Writers :
        /\ w = [writer EXCEPT !.events = @ \o <<last>>] /\ w.events = writer.events \o <<last>>
        /\ w.attempts = writer.attempts /\ w.fatal = writer.fatal /\ w.closed = writer.closed
  <2>1. PICK more \in Seq(Nat) : more = writer.events \o <<last>>
    BY <1>1, NextNumber DEF HeldBy
  <2>2. [writer EXCEPT !.events = more] \in Writers
    BY <1>1 DEF Writers
  <2>3. /\ [writer EXCEPT !.events = more].events = more
        /\ [writer EXCEPT !.events = more].attempts = writer.attempts /\ [writer EXCEPT !.events = more].fatal = writer.fatal
        /\ [writer EXCEPT !.events = more].closed = writer.closed
    BY <1>1 DEF Writers
  <2> QED
    BY <2>1, <2>2, <2>3
<1>3. HeldBy(w, last)
  <2>1. InOrder(history, w.events, last)
    BY <1>1, <1>2, NextNumber DEF HeldBy
  <2>2. ~w.fatal => NothingMissing(history, w.events, last)
    BY <1>1, <1>2, NextNumber DEF HeldBy
  <2> QED
    BY <1>1, <1>2, <2>1, <2>2 DEF HeldBy
<1>4. CASE Len(w.events) > MaxBacklog
  <2>1. writer' = [writer EXCEPT !.fatal = TRUE, !.timer = IF writer.fatal THEN @ ELSE 0] /\ history' = history
    BY <1>2, <1>4 DEF Write
  <2>2. /\ writer' \in Writers /\ writer'.events = writer.events /\ writer'.fatal /\ writer'.closed = writer.closed
    <3>1. (IF writer.fatal THEN writer.timer ELSE 0) \in Nat
      BY <1>1 DEF Writers
    <3> QED
      BY <1>1, <2>1, <3>1 DEF Writers
  <2>3. InOrder(history, writer.events, last)
    BY <1>1, NextNumber DEF HeldBy
  <2> QED
    BY <1>1, <2>1, <2>2, <2>3 DEF Holds
<1>5. CASE Len(w.events) <= MaxBacklog /\ Flush(w, TRUE)
  <2>1. Holds(w, last)
    BY <1>1, <1>3, <1>5, FlushHolds
  <2> QED
    BY <1>2, <2>1 DEF Holds
<1>6. CASE Len(w.events) <= MaxBacklog /\ writer' = Scheduled(w) /\ history' = history
  <2>1. /\ writer' \in Writers /\ writer'.events = w.events /\ writer'.attempts = w.attempts /\ writer'.fatal = w.fatal
        /\ writer'.closed = w.closed
    BY <1>1, <1>6, ScheduledIs
  <2>2. InOrder(history', writer'.events, last) /\ (~writer'.fatal => NothingMissing(history', writer'.events, last))
    BY <1>3, <1>6, <2>1 DEF HeldBy
  <2>3. (writer'.attempts >= MaxAttempts => writer'.fatal) /\ (writer.fatal => writer'.fatal) /\ writer'.closed = writer.closed
    BY <1>2, <1>3, <2>1 DEF HeldBy
  <2>4. history' \in Seq(Nat) /\ Len(history') >= Len(history)
    BY <1>1, <1>6
  <2> QED
    BY <2>1, <2>2, <2>3, <2>4 DEF Holds
<1>7. Len(w.events) \in Nat
  BY DEF Writers
<1>8. \/ Len(w.events) > MaxBacklog
      \/ Len(w.events) <= MaxBacklog /\ Flush(w, TRUE)
      \/ Len(w.events) <= MaxBacklog /\ writer' = Scheduled(w) /\ history' = history
  <2>1. CASE Len(w.events) > MaxBacklog
    BY <2>1
  <2>2. CASE ~(Len(w.events) > MaxBacklog)
    <3>1. \/ Flush(w, TRUE)
          \/ writer' = Scheduled(w) /\ history' = history
      BY <1>2, <2>2 DEF Write
    <3>2. Len(w.events) <= MaxBacklog
      BY <1>1, <1>7, <2>2
    <3> QED
      BY <3>1, <3>2, Zenon
  <2> QED
    BY <2>1, <2>2
<1> QED
  BY <1>4, <1>5, <1>6, <1>8

\* An event that is recorded has the next number in the log, the writer and the channel.
LEMMA RecordKeeps ==
  ASSUME ShellEventInv, NEW kind \in {"output", "input", "end"}, NEW immediate \in BOOLEAN, Record(kind, immediate),
         ~outputClosed, UNCHANGED <<persistent, generation, fired, stream, shown>>, output' \in SUBSET Nat,
         outputClosed' \in BOOLEAN, finishing' = outputClosed', kind = "end" => outputClosed'
  PROVE  ShellEventInv'
<1> USE DEF ShellEventInv
<1> DEFINE last == Len(log) + 1
<1>1. /\ log \in Seq(Entries0) /\ Len(log) \in Nat /\ generation \in Nat /\ last \in Nat
      /\ writer \in Writers /\ ~writer.closed /\ ~finishing
  <2>1. log \in Seq(Entries0) /\ Len(log) \in Nat /\ generation \in Nat /\ writer \in Writers /\ finishing \in BOOLEAN
    BY TypesOfEvents
  <2>2. ~writer.closed /\ ~finishing
    BY DEF LogEndStory
  <2> QED
    BY <2>1, <2>2
<1>2. /\ log' = Append(log, [gen |-> generation, kind |-> kind]) /\ Write(<<last>>, immediate) /\ NoteFatal /\ Deliver(last)
  BY DEF Record, LastSequence
<1>3. /\ log' \in Seq(Entries0) /\ Len(log') = last /\ log' # <<>>
      /\ \A i \in 1..Len(log) : log'[i] = log[i]
      /\ log'[last].gen = generation /\ log'[last].kind = kind
  <2>1. [gen |-> generation, kind |-> kind] \in Entries0
    BY <1>1 DEF Entries0
  <2> QED
    BY <1>1, <1>2, <2>1
<1>4. Holds(writer, last)
  BY <1>1, <1>2, WriteHolds
<1>5. /\ writer' \in Writers /\ history' \in Seq(Nat) /\ ~writer'.closed
      /\ InOrder(history', writer'.events, last) /\ (~writer'.fatal => NothingMissing(history', writer'.events, last))
      /\ writer'.attempts >= MaxAttempts => writer'.fatal
      /\ writer.fatal => writer'.fatal
      /\ ~writer'.fatal /\ (persistent \/ last <= MaxKept) => Len(history') >= Len(history)
  BY <1>1, <1>4 DEF Holds
<1>6. reason' \in {"", "persistence_failed"} /\ (writer'.fatal <=> reason' = "persistence_failed")
  BY <1>2, <1>5, FailureNoted
<1>7. LogOrderStory' /\ LogWholeStory'
  BY <1>3, <1>5 DEF LogOrderStory, LogWholeStory, InOrder, NothingMissing
<1>8. LogEndStory'
  BY <1>3, <1>5, <1>6 DEF LogEndStory
<1>9. \A i \in 1..Len(log') : i \in 1..Len(log) \/ i = last
  BY <1>1, <1>3
<1>10. LogStory'
  <2>1. ASSUME NEW i \in 1..Len(log) PROVE log[i].gen <= generation /\ (log[i].gen = generation => log[i].kind # "end") /\ log[i].gen \in Nat
    <3>1. log[i] \in Entries0
      BY <1>1
    <3> QED
      BY <3>1 DEF LogStory, Entries0
  <2>2. \A i \in 1..Len(log') : log'[i].gen <= generation /\ (log'[i].gen = generation /\ log'[i].kind = "end" => outputClosed')
    BY <1>1, <1>3, <1>9, <2>1
  <2>3. ASSUME NEW i \in 1..Len(log'), NEW j \in 1..Len(log'), i < j
        PROVE  log'[i].gen < log'[j].gen \/ (log'[i].gen = log'[j].gen /\ log'[i].kind # "end")
    <3>1. i \in 1..Len(log)
      BY <1>1, <1>3, <2>3
    <3>2. CASE j \in 1..Len(log)
      BY <1>3, <2>3, <3>1, <3>2 DEF LogStory
    <3>3. CASE j = last
      BY <1>1, <1>3, <2>1, <3>1, <3>3
    <3> QED
      BY <1>9, <3>2, <3>3
  <2> QED
    BY <2>2, <2>3 DEF LogStory
<1>11. channel' \in Seq(Nat) /\ overflow' \in BOOLEAN
  <2>1. channel \in Seq(Nat) /\ overflow \in BOOLEAN
    BY TypesOfEvents
  <2>2. \/ channel' = channel /\ overflow' = overflow
        \/ channel' = Append(channel, last) /\ overflow' = overflow
        \/ channel' = channel /\ overflow' = TRUE
    BY <1>2 DEF Deliver
  <2>3. Append(channel, last) \in Seq(Nat)
    BY <1>1, <2>1
  <2> QED
    BY <2>1, <2>2, <2>3
<1>12. ShellEventTypes' /\ TimerStory'
  <2>1. ShellEventTypes'
    BY <1>3, <1>5, <1>6, <1>11 DEF ShellEventTypes, Writers, Entries0
  <2> QED
    BY <2>1 DEF TimerStory
<1>13. PageStory'
  <2> SUFFICES ASSUME NothingDropped' PROVE PageStory'
    BY DEF PageStory
  <2>1. MaxKept \in Nat
    BY ShellEventAssumption
  <2>2. NothingDropped
    BY <1>1, <1>3, <1>5, <2>1 DEF NothingDropped
  <2>3. Len(history') >= Len(history) /\ Len(history) \in Nat /\ Len(history') \in Nat
    <3>1. Len(history) \in Nat /\ Len(history') \in Nat
      <4>1. history \in Seq(Nat)
        BY TypesOfEvents
      <4> QED
        BY <1>5, <4>1
    <3> QED
      BY <3>1, <1>3, <1>5 DEF NothingDropped
  <2>4. Len(shown') <= last /\ \A i \in 1..Len(shown') : shown'[i] = i
    <3>1. shown' = shown /\ shown \in Seq(Nat)
      BY TypesOfEvents
    <3>2. Len(shown) \in Nat
      BY <3>1
    <3>3. Len(shown) <= Len(log) /\ \A i \in 1..Len(shown) : shown[i] = i
      BY <2>2 DEF PageStory
    <3> QED
      BY <1>1, <3>1, <3>2, <3>3
  <2>5. ASSUME stream' # "off", ~overflow'
        PROVE  /\ Len(channel') <= last /\ \A i \in 1..Len(channel') : channel'[i] = last - Len(channel') + i
               /\ stream' = "flushed" => last - Len(channel') <= Len(history')
               /\ stream' = "live" => last - Len(channel') <= Len(shown')
    <3>1. stream # "off" /\ ~overflow /\ channel' = Append(channel, last)
      BY <1>2, <2>5 DEF Deliver
    <3>2. channel \in Seq(Nat)
      BY TypesOfEvents
    <3>3. /\ Len(channel) \in Nat /\ Len(channel') = Len(channel) + 1 /\ channel'[Len(channel) + 1] = last
          /\ \A i \in 1..Len(channel) : channel'[i] = channel[i]
      BY <1>1, <3>1, <3>2
    <3>4. /\ Len(channel) <= Len(log) /\ \A i \in 1..Len(channel) : channel[i] = Len(log) - Len(channel) + i
          /\ stream = "flushed" => Len(log) - Len(channel) <= Len(history)
          /\ stream = "live" => Len(log) - Len(channel) <= Len(shown)
      BY <2>2, <3>1 DEF PageStory
    <3>5. last - Len(channel') = Len(log) - Len(channel)
      BY <1>1, <3>3
    <3>6. \A i \in 1..Len(channel') : i \in 1..Len(channel) \/ i = Len(channel) + 1
      BY <3>3
    <3>7. \A i \in 1..Len(channel') : channel'[i] = last - Len(channel') + i
      <4> TAKE i \in 1..Len(channel')
      <4>1. CASE i \in 1..Len(channel)
        BY <1>1, <3>3, <3>4, <3>5, <4>1
      <4>2. CASE i = Len(channel) + 1
        BY <1>1, <3>3, <3>5, <4>2
      <4> QED
        BY <3>6, <4>1, <4>2
    <3>8. Len(channel') <= last
      BY <1>1, <3>3, <3>4
    <3>9. stream' = "flushed" => last - Len(channel') <= Len(history')
      BY <1>1, <2>3, <3>3, <3>4, <3>5
    <3> QED
      BY <3>4, <3>5, <3>7, <3>8, <3>9
  <2> QED
    BY <1>3, <2>4, <2>5 DEF PageStory
<1> QED
  BY <1>7, <1>8, <1>10, <1>12, <1>13

\* Output keeps the invariant, and so do the other steps, each in a lemma of its own.
LEMMA RecordOutputKeeps == ASSUME ShellEventInv, RecordOutput PROVE ShellEventInv'
<1>1. PICK g \in output :
        /\ output' = output \ {g} /\ ~finishing /\ UNCHANGED <<persistent, generation, outputClosed, finishing>>
        /\ \/ /\ IsCurrent(g) /\ Record("output", FALSE) /\ UNCHANGED <<fired, stream, shown>>
           \/ UNCHANGED <<reason, log>> /\ UNCHANGED writerVars /\ UNCHANGED pageVars
  BY DEF RecordOutput
<1>2. output' \in SUBSET Nat /\ outputClosed \in BOOLEAN /\ finishing \in BOOLEAN
  BY <1>1 DEF ShellEventInv, ShellEventTypes
<1>3. CASE IsCurrent(g) /\ Record("output", FALSE) /\ UNCHANGED <<fired, stream, shown>>
  <2>1. ~outputClosed
    BY <1>3 DEF IsCurrent
  <2> QED
    BY <1>1, <1>2, <1>3, <2>1, RecordKeeps
<1>4. CASE UNCHANGED <<reason, log>> /\ UNCHANGED writerVars /\ UNCHANGED pageVars
  BY <1>1, <1>2, <1>4, ShellEventsStay
<1> QED
  BY <1>1, <1>3, <1>4

\* Input, which is written at once.
LEMMA RecordInputKeeps == ASSUME ShellEventInv, RecordInput PROVE ShellEventInv'
<1>1. /\ ~finishing /\ ~outputClosed /\ Record("input", TRUE)
      /\ UNCHANGED <<persistent, generation, outputClosed, output, fired, finishing, stream, shown>>
  BY DEF RecordInput
<1>2. output \in SUBSET Nat /\ outputClosed \in BOOLEAN /\ finishing \in BOOLEAN
  BY DEF ShellEventInv, ShellEventTypes
<1> QED
  BY <1>1, <1>2, RecordKeeps

\* The last event of a generation.
LEMMA FinishOutputKeeps == ASSUME ShellEventInv, FinishOutput PROVE ShellEventInv'
<1>1. /\ ~outputClosed /\ Record("end", TRUE) /\ outputClosed' = TRUE /\ finishing' = TRUE
      /\ UNCHANGED <<persistent, generation, output, fired, stream, shown>>
  BY DEF FinishOutput
<1>2. output \in SUBSET Nat
  BY DEF ShellEventInv, ShellEventTypes
<1> QED
  BY <1>1, <1>2, RecordKeeps

---------------------------------------------------------------------------
(* The other steps *)

\* Output that has not been recorded.
LEMMA OutputArrivesKeeps == ASSUME ShellEventInv, OutputArrives PROVE ShellEventInv'
<1>1. output' \in SUBSET Nat
  BY DEF OutputArrives, ShellEventInv, ShellEventTypes
<1>2. /\ UNCHANGED <<persistent, generation, outputClosed, reason, log, finishing>>
      /\ UNCHANGED writerVars /\ UNCHANGED pageVars
  BY DEF OutputArrives
<1> QED
  BY <1>1, <1>2, ShellEventsStay

\* A timer fires.
LEMMA TimerFiresKeeps == ASSUME ShellEventInv, TimerFires PROVE ShellEventInv'
<1>1. /\ writer.timer \notin fired /\ Cardinality(fired) < MaxFired /\ fired' = fired \cup {writer.timer}
      /\ UNCHANGED <<persistent, generation, outputClosed, reason, log, history, writer, output, finishing>>
      /\ UNCHANGED pageVars
  BY DEF TimerFires
<1>2. fired' \in SUBSET Nat
  BY <1>1, TypesOfEvents DEF ShellEventInv, ShellEventTypes
<1>3. TimerStory'
  <2>1. IsFiniteSet(fired) /\ Cardinality(fired) \in Nat /\ MaxFired \in Nat
    BY FS_CardinalityType, ShellEventAssumption DEF ShellEventInv, TimerStory
  <2>2. IsFiniteSet(fired') /\ Cardinality(fired') = Cardinality(fired) + 1
    BY <1>1, <2>1, FS_AddElement
  <2> QED
    BY <1>1, <2>1, <2>2 DEF TimerStory
<1>4. ShellEventTypes'
  BY <1>1, <1>2 DEF ShellEventInv, ShellEventTypes, pageVars
<1>5. LogOrderStory' /\ LogWholeStory' /\ LogEndStory' /\ LogStory'
  BY <1>1, HistoryStays DEF ShellEventInv
<1>6. PageStory'
  BY <1>1, PageUntouched DEF ShellEventInv
<1> QED
  BY <1>3, <1>4, <1>5, <1>6 DEF ShellEventInv

\* A timer that has run is no longer waited for.
LEMMA FewerTimers ==
  ASSUME TimerStory, fired \in SUBSET Nat, NEW t \in fired, fired' = fired \ {t}
  PROVE  TimerStory' /\ fired' \in SUBSET Nat
<1>1. IsFiniteSet(fired) /\ Cardinality(fired) \in Nat /\ Cardinality(fired) <= MaxFired /\ MaxFired \in Nat
  BY FS_CardinalityType, ShellEventAssumption DEF TimerStory
<1>2. IsFiniteSet(fired') /\ Cardinality(fired') = Cardinality(fired) - 1
  BY <1>1, FS_RemoveElement
<1> QED
  BY <1>1, <1>2 DEF TimerStory

\* Leaving the writer alone is a step of the writer too.
LEMMA WriterStays ==
  ASSUME ShellEventInv, UNCHANGED <<writer, history, log, persistent>>, NoteFatal
  PROVE  WriterOnly
<1>1. writer \in Writers /\ history \in Seq(Nat)
  BY TypesOfEvents DEF ShellEventInv
<1>2. Len(history) \in Nat
  BY <1>1
<1> QED
  BY <1>1, <1>2, HeldNow DEF WriterOnly, Holds, HeldBy

\* A flush is a step of the writer alone.
LEMMA WriterFlushes ==
  ASSUME ShellEventInv, NEW again \in BOOLEAN, Flush(writer, again), UNCHANGED <<log, persistent>>, NoteFatal
  PROVE  WriterOnly
<1>1. writer \in Writers /\ history \in Seq(Nat) /\ persistent \in BOOLEAN /\ Len(log) \in Nat /\ TimerStory
  BY TypesOfEvents DEF ShellEventInv
<1>2. PICK w \in Writers : w = writer
  BY <1>1
<1>3. Flush(w, again) /\ HeldBy(w, Len(log))
  BY <1>2, HeldNow
<1>4. Holds(w, Len(log))
  BY <1>1, <1>3, FlushHolds
<1> QED
  BY <1>2, <1>4 DEF WriterOnly

\* What is flushed and not written stays with the writer.
LEMMA FlushedEvents ==
  ASSUME ShellEventInv, NEW again \in BOOLEAN, Flush(writer, again)
  PROVE  /\ writer'.events = <<>> \/ writer'.events = writer.events
         /\ writer.events = <<>> => writer'.events = <<>>
<1>1. writer \in Writers /\ TimerStory
  BY TypesOfEvents DEF ShellEventInv
<1>2. PICK v \in Writers :
        /\ v.events = <<>> \/ v.events = writer.events
        /\ writer.events = <<>> => v.events = <<>>
        /\ writer' = (IF again THEN Scheduled(v) ELSE v)
  <2>1. CASE writer.events = <<>>
    <3>1. [writer EXCEPT !.timer = 0] \in Writers /\ [writer EXCEPT !.timer = 0].events = writer.events
      BY <1>1 DEF Writers
    <3> QED
      BY <2>1, <3>1 DEF Flush
  <2>2. CASE writer.events # <<>>
    <3>1. Written(writer) \in Writers /\ Written(writer).events = <<>>
      <4>1. <<>> \in Seq(Nat)
        OBVIOUS
      <4> QED
        BY <1>1, <4>1 DEF Written, Writers
    <3>2. NotWritten(writer) \in Writers /\ NotWritten(writer).events = writer.events
      <4>1. writer.attempts \in Nat /\ writer.fatal \in BOOLEAN /\ MaxAttempts \in Nat
        BY <1>1, ShellEventAssumption DEF Writers
      <4>2. PICK n \in Nat : n = IF writer.attempts < MaxAttempts THEN writer.attempts + 1 ELSE writer.attempts
        BY <4>1
      <4>3. PICK f \in BOOLEAN : f = (writer.fatal \/ writer.attempts + 1 >= MaxAttempts)
        BY <4>1, Zenon
      <4>4. NotWritten(writer) = [writer EXCEPT !.attempts = n, !.timer = 0, !.fatal = f]
        BY <1>1, <4>2, <4>3 DEF NotWritten, Writers
      <4>5. /\ [writer EXCEPT !.attempts = n, !.timer = 0, !.fatal = f] \in Writers
            /\ [writer EXCEPT !.attempts = n, !.timer = 0, !.fatal = f].events = writer.events
        BY <1>1 DEF Writers
      <4> QED
        BY <4>4, <4>5
    <3> QED
      BY <2>2, <3>1, <3>2 DEF Flush
  <2> QED
    BY <2>1, <2>2
<1> QED
  BY <1>1, <1>2, ScheduledIs

\* The callback of a timer writes the batch or finds itself stopped.
LEMMA TimerFlushesKeeps == ASSUME ShellEventInv, TimerFlushes PROVE ShellEventInv'
<1> USE DEF ShellEventInv
<1>1. PICK t \in fired :
        /\ fired' = fired \ {t} /\ NoteFatal
        /\ \/ writer' = writer /\ history' = history
           \/ ~writer.closed /\ Flush(writer, TRUE)
        /\ UNCHANGED <<persistent, generation, outputClosed, log, output, finishing>> /\ UNCHANGED pageVars
  BY DEF TimerFlushes
<1>2. WriterOnly
  BY <1>1, WriterStays, WriterFlushes
<1>3. TimerStory' /\ fired' \in SUBSET Nat
  BY <1>1, FewerTimers DEF ShellEventTypes
<1>4. ShellEventTypes'
  BY <1>1, <1>2, <1>3, WriterOnlyKeeps DEF ShellEventTypes, Writers, pageVars
<1>5. writer'.closed = writer.closed
  BY <1>2 DEF WriterOnly, Holds
<1>6. LogEndStory'
  <2>1. /\ finishing' = finishing /\ outputClosed' = outputClosed /\ log' = log
        /\ (writer'.attempts >= MaxAttempts => writer'.fatal) /\ (writer'.fatal <=> reason' = "persistence_failed")
    BY <1>1, <1>2, WriterOnlyKeeps
  <2>2. writer.closed => writer' = writer
    BY <1>1
  <2> QED
    BY <1>5, <2>1, <2>2 DEF LogEndStory
<1>7. PageStory'
  BY <1>1, <1>2, WriterOnlyKeeps, PageStays, TypesOfEvents
<1> QED
  BY <1>1, <1>2, <1>3, <1>4, <1>6, <1>7, WriterOnlyKeeps, LogStays

\* The writer closes.
LEMMA CloseWriterKeeps == ASSUME ShellEventInv, CloseWriter PROVE ShellEventInv'
<1> USE DEF ShellEventInv
<1>1. /\ finishing /\ writer' = [writer EXCEPT !.closed = TRUE, !.timer = 0]
      /\ UNCHANGED <<persistent, generation, outputClosed, reason, log, history, fired, output, finishing>>
      /\ UNCHANGED pageVars
  BY DEF CloseWriter
<1>2. /\ writer' \in Writers /\ writer'.events = writer.events /\ writer'.attempts = writer.attempts
      /\ writer'.fatal = writer.fatal /\ writer'.closed
  BY <1>1, TypesOfEvents DEF Writers
<1>3. ShellEventTypes'
  BY <1>1, <1>2 DEF ShellEventTypes, Writers, pageVars
<1>4. LogOrderStory' /\ LogWholeStory' /\ TimerStory'
  BY <1>1, <1>2 DEF LogOrderStory, LogWholeStory, TimerStory, InOrder, NothingMissing
<1>5. LogEndStory'
  BY <1>1, <1>2 DEF LogEndStory
<1>6. NothingDropped' => NothingDropped /\ Len(history') >= Len(history)
  <2>1. Len(history) \in Nat
    <3>1. history \in Seq(Nat)
      BY TypesOfEvents
    <3> QED
      BY <3>1
  <2> QED
    BY <1>1, <1>2, <2>1 DEF NothingDropped
<1>7. PageStory'
  BY <1>1, <1>6, PageStays, TypesOfEvents
<1> QED
  BY <1>1, <1>3, <1>4, <1>5, <1>7, LogStays

\* The last attempts of a writer that is closed.
LEMMA FinalFlushKeeps == ASSUME ShellEventInv, FinalFlush PROVE ShellEventInv'
<1> USE DEF ShellEventInv
<1>1. /\ finishing /\ writer.closed /\ Flush(writer, FALSE) /\ NoteFatal
      /\ finishing' = (writer'.events # <<>> /\ writer'.attempts < MaxAttempts)
      /\ UNCHANGED <<persistent, generation, outputClosed, log, fired, output>> /\ UNCHANGED pageVars
  BY DEF FinalFlush
<1>2. WriterOnly
  BY <1>1, WriterFlushes
<1>3. finishing' \in BOOLEAN
  BY <1>1, Zenon
<1>4. ShellEventTypes' /\ TimerStory'
  BY <1>1, <1>2, <1>3, WriterOnlyKeeps DEF ShellEventTypes, Writers, pageVars, TimerStory
<1>5. writer'.closed = writer.closed
  BY <1>2 DEF WriterOnly, Holds
<1>6. LogEndStory'
  <2>1. /\ outputClosed' = outputClosed /\ log' = log /\ writer' \in Writers
        /\ (writer'.attempts >= MaxAttempts => writer'.fatal) /\ (writer'.fatal <=> reason' = "persistence_failed")
    BY <1>1, <1>2, WriterOnlyKeeps
  <2>2. writer'.attempts \in Nat /\ MaxAttempts \in Nat
    BY <2>1, ShellEventAssumption DEF Writers
  <2>3. ~finishing' => writer'.events = <<>> \/ writer'.fatal
    <3>1. ~finishing' => writer'.events = <<>> \/ ~(writer'.attempts < MaxAttempts)
      BY <1>1, Zenon
    <3>2. ~(writer'.attempts < MaxAttempts) => writer'.attempts >= MaxAttempts
      BY <2>2
    <3> QED
      BY <2>1, <3>1, <3>2, Zenon
  <2> QED
    BY <1>1, <1>5, <2>1, <2>3 DEF LogEndStory
<1>7. PageStory'
  BY <1>1, <1>2, WriterOnlyKeeps, PageStays, TypesOfEvents
<1> QED
  BY <1>1, <1>2, <1>4, <1>6, <1>7, WriterOnlyKeeps, LogStays

\* A new writer begins where the last one ended.
LEMMA NextGenerationKeeps == ASSUME ShellEventInv, NextGeneration PROVE ShellEventInv'
<1> USE DEF ShellEventInv
<1>1. /\ outputClosed /\ ~finishing /\ reason # "persistence_failed" /\ generation' = generation + 1 /\ outputClosed' = FALSE /\ writer' = NewWriter
      /\ UNCHANGED <<persistent, reason, log, history, fired, output, finishing>> /\ UNCHANGED pageVars
  <2>1. "" # "persistence_failed"
    OBVIOUS
  <2> QED
    BY <2>1, Zenon DEF NextGeneration
<1>2. generation \in Nat /\ history \in Seq(Nat) /\ log \in Seq(Entries0) /\ Len(log) \in Nat
  BY TypesOfEvents
<1>3. <<>> \in Seq(Nat) /\ MaxAttempts \in Nat /\ MaxAttempts > 0
  <2>1. MaxAttempts \in Nat /\ MaxAttempts > 0
    BY ShellEventAssumption
  <2> QED
    BY <2>1
<1>4. /\ writer' \in Writers /\ writer'.events = <<>> /\ writer'.attempts = 0 /\ ~writer'.fatal /\ ~writer'.closed
  BY <1>1, <1>3 DEF NewWriter, Writers
<1>5. ~writer.fatal /\ writer.events = <<>>
  BY <1>1 DEF LogEndStory
<1>6. LogOrderStory' /\ LogWholeStory' /\ TimerStory'
  BY <1>1, <1>4, <1>5 DEF LogOrderStory, LogWholeStory, TimerStory, InOrder, NothingMissing
<1>7. LogEndStory'
  BY <1>1, <1>3, <1>4 DEF LogEndStory
<1>8. LogStory'
  <2>1. \A i \in 1..Len(log) : log[i].gen \in Nat
    <3>1. \A i \in 1..Len(log) : log[i] \in Entries0
      BY <1>2
    <3> QED
      BY <3>1 DEF Entries0
  <2>2. \A i \in 1..Len(log) : log[i].gen <= generation /\ log[i].gen # generation + 1 /\ log[i].gen <= generation + 1
    BY <1>2, <2>1 DEF LogStory
  <2> QED
    BY <1>1, <2>2 DEF LogStory
<1>9. ShellEventTypes'
  <2>1. generation' \in Nat \ {0} /\ outputClosed' \in BOOLEAN
    <3>1. generation' = generation + 1
      BY <1>1
    <3>2. generation' \in Nat \ {0}
      BY <1>2, <3>1
    <3> QED
      BY <1>1, <3>2
  <2>2. /\ UNCHANGED <<persistent, reason, log, history, fired, output, finishing>> /\ UNCHANGED pageVars
        /\ writer' \in Writers
    BY <1>1, <1>4
  <2> QED
    BY <2>1, <2>2 DEF ShellEventTypes, Writers, pageVars
<1>10. NothingDropped' => NothingDropped /\ Len(history') >= Len(history)
  <2>1. Len(history) \in Nat
    BY <1>2
  <2> QED
    BY <1>1, <1>5, <2>1 DEF NothingDropped
<1>11. PageStory'
  BY <1>1, <1>2, <1>10, PageStays, TypesOfEvents
<1> QED
  BY <1>6, <1>7, <1>8, <1>9, <1>11

---------------------------------------------------------------------------
(* The page *)

\* What is not shown yet: nothing is missing before it, so it follows what is shown.
LEMMA NotShownIs ==
  ASSUME NEW numbers \in Seq(Nat), shown \in Seq(Nat)
  PROVE  NotShown(numbers) \in Seq(Nat)
<1> DEFINE seen == {i \in DOMAIN numbers : numbers[i] <= After}
<1>1. DOMAIN numbers = 1..Len(numbers) /\ Len(numbers) \in Nat
  OBVIOUS
<1>2. IsFiniteSet(1..Len(numbers)) /\ seen \subseteq 1..Len(numbers)
  <2>1. 1 \in Int /\ Len(numbers) \in Int
    BY <1>1
  <2> QED
    BY <1>1, <2>1, FS_Interval
<1>3. IsFiniteSet(seen) /\ Cardinality(seen) \in Nat
  BY <1>2, FS_Subset, FS_CardinalityType
<1>4. Cardinality(seen) + 1 \in Int /\ Len(numbers) \in Int /\ 1 <= Cardinality(seen) + 1
  BY <1>1, <1>3
<1> HIDE DEF seen
<1>5. \A i \in (Cardinality(seen) + 1)..Len(numbers) : numbers[i] \in Nat
  BY <1>1, <1>4
<1>6. SubSeq(numbers, Cardinality(seen) + 1, Len(numbers)) \in Seq(Nat)
  BY <1>4, <1>5, SubSeqProperties
<1> QED
  BY <1>6 DEF NotShown, seen

\* Of the numbers from one on, those that are not shown follow the ones that are.
LEMMA NotShownFollows ==
  ASSUME NEW numbers \in Seq(Nat), shown \in Seq(Nat), \A i \in 1..Len(shown) : shown[i] = i,
         NEW from \in Nat, from <= Len(shown), \A i \in 1..Len(numbers) : numbers[i] = from + i
  PROVE  LET all == shown \o NotShown(numbers) IN
         /\ all \in Seq(Nat) /\ \A i \in 1..Len(all) : all[i] = i
         /\ Len(all) = IF from + Len(numbers) > Len(shown) THEN from + Len(numbers) ELSE Len(shown)
<1>1. Len(shown) \in Nat /\ Len(numbers) \in Nat /\ DOMAIN numbers = 1..Len(numbers)
  OBVIOUS
<1>2. After = Len(shown)
  <2>1. CASE shown = <<>>
    <3>1. Len(shown) = 0
      BY <2>1
    <3> QED
      BY <2>1, <3>1 DEF After
  <2>2. CASE shown # <<>>
    <3>1. Len(shown) \in 1..Len(shown)
      BY <2>2, <1>1
    <3> QED
      BY <2>2, <3>1 DEF After, Last
  <2> QED
    BY <2>1, <2>2
<1>3. PICK k \in 0..Len(numbers) :
        /\ {i \in 1..Len(numbers) : numbers[i] <= Len(shown)} = 1..k
        /\ k = IF from + Len(numbers) > Len(shown) THEN Len(shown) - from ELSE Len(numbers)
  <2>1. PICK n \in Nat, m \in Nat : n = Len(numbers) /\ m = Len(shown) /\ from <= m
    BY <1>1
  <2>2. PICK k \in 0..n : k = IF from + n > m THEN m - from ELSE n
    <3>1. CASE from + n > m
      <4>1. m - from \in 0..n
        BY <2>1, <3>1
      <4> QED
        BY <3>1, <4>1
    <3>2. CASE ~(from + n > m)
      BY <3>2
    <3> QED
      BY <3>1, <3>2
  <2>3. ASSUME NEW i \in 1..n PROVE numbers[i] <= m <=> i <= k
    <3>1. numbers[i] = from + i
      BY <2>1
    <3> QED
      BY <2>1, <2>2, <3>1
  <2>4. 1..k = {i \in 1..n : i <= k}
    OBVIOUS
  <2> QED
    BY <2>1, <2>2, <2>3, <2>4
<1>4. Cardinality(1..k) = k
  <2>1. 1 \in Int /\ k \in Int /\ Cardinality(1..k) = (IF 1 > k THEN 0 ELSE k - 1 + 1)
    BY <1>1, FS_Interval
  <2> QED
    BY <1>1, <2>1
<1>5. NotShown(numbers) = SubSeq(numbers, k + 1, Len(numbers))
  BY <1>1, <1>2, <1>3, <1>4 DEF NotShown
<1>6. k + 1 \in Int /\ Len(numbers) \in Int /\ k \in Nat /\ k <= Len(numbers) /\ \A i \in (k + 1)..Len(numbers) : numbers[i] \in Nat
  BY <1>1
<1>7. /\ SubSeq(numbers, k + 1, Len(numbers)) \in Seq(Nat)
      /\ Len(SubSeq(numbers, k + 1, Len(numbers))) = (IF k + 1 <= Len(numbers) THEN Len(numbers) - (k + 1) + 1 ELSE 0)
      /\ \A i \in 1..(Len(numbers) - (k + 1) + 1) : SubSeq(numbers, k + 1, Len(numbers))[i] = numbers[(k + 1) + i - 1]
  BY <1>6, SubSeqProperties
<1>8. PICK rest \in Seq(Nat) :
        /\ rest = NotShown(numbers) /\ Len(rest) = Len(numbers) - k
        /\ \A i \in 1..(Len(numbers) - k) : rest[i] = from + k + i
  <2>1. Len(numbers) - (k + 1) + 1 = Len(numbers) - k /\ (k + 1 <= Len(numbers) \/ Len(numbers) - k = 0)
    BY <1>6
  <2>2. ASSUME NEW i \in 1..(Len(numbers) - k) PROVE NotShown(numbers)[i] = from + k + i
    <3>1. NotShown(numbers)[i] = numbers[(k + 1) + i - 1]
      BY <1>5, <1>7, <2>1
    <3>2. (k + 1) + i - 1 = k + i /\ k + i \in 1..Len(numbers)
      BY <1>6
    <3>3. numbers[k + i] = from + (k + i)
      BY <3>2
    <3> QED
      BY <1>6, <3>1, <3>2, <3>3
  <2>3. NotShown(numbers) \in Seq(Nat) /\ Len(NotShown(numbers)) = Len(numbers) - k
    BY <1>5, <1>7, <2>1
  <2> QED
    BY <2>2, <2>3
<1>9. PICK all \in Seq(Nat) :
        /\ all = shown \o rest /\ Len(all) = Len(shown) + Len(rest)
        /\ \A i \in 1..Len(all) : all[i] = IF i <= Len(shown) THEN shown[i] ELSE rest[i - Len(shown)]
  <2>1. /\ shown \o rest \in Seq(Nat) /\ Len(shown \o rest) = Len(shown) + Len(rest)
        /\ \A i \in 1..Len(shown \o rest) : (shown \o rest)[i] = IF i <= Len(shown) THEN shown[i] ELSE rest[i - Len(shown)]
    OBVIOUS
  <2> QED
    BY <2>1
<1>10. Len(all) = IF from + Len(numbers) > Len(shown) THEN from + Len(numbers) ELSE Len(shown)
  <2>1. PICK n \in Nat, m \in Nat : n = Len(numbers) /\ m = Len(shown) /\ from <= m
    BY <1>1
  <2>2. Len(all) = m + (n - k) /\ k = (IF from + n > m THEN m - from ELSE n)
    BY <1>3, <1>8, <1>9, <2>1
  <2>3. m + (n - k) = IF from + n > m THEN from + n ELSE m
    BY <2>1, <2>2
  <2> QED
    BY <2>1, <2>2, <2>3
<1>11. ASSUME NEW i \in 1..Len(all) PROVE all[i] = i
  <2>1. CASE i <= Len(shown)
    BY <1>1, <1>9, <2>1
  <2>2. CASE i > Len(shown)
    <3>1. i - Len(shown) \in 1..(Len(numbers) - k) /\ k < Len(numbers)
      BY <1>1, <1>6, <1>8, <1>9, <2>2
    <3>2. all[i] = from + k + (i - Len(shown))
      BY <1>1, <1>8, <1>9, <2>2, <3>1
    <3>3. from + k = Len(shown)
      <4>1. k = Len(shown) - from
        BY <1>3, <1>6, <3>1
      <4> QED
        BY <1>1, <4>1
    <3>4. i \in Nat /\ Len(shown) \in Nat /\ from \in Nat /\ k \in Nat
      BY <1>1, <1>6, <1>9
    <3>5. PICK m \in Nat, n \in Nat : m = Len(shown) /\ n = from + k
      BY <3>4
    <3>6. n = m
      BY <3>3, <3>5
    <3>7. m + (i - m) = i
      BY <3>4
    <3> QED
      BY <3>2, <3>5, <3>6, <3>7
  <2> QED
    BY <1>1, <1>9, <2>1, <2>2
<1> QED
  BY <1>8, <1>9, <1>10, <1>11

\* A page that leaves has no channel.
LEMMA PageLeavesKeeps == ASSUME ShellEventInv, PageLeaves PROVE ShellEventInv'
<1>1. /\ stream' = "off" /\ channel' = <<>> /\ overflow' = FALSE
      /\ UNCHANGED <<persistent, generation, outputClosed, reason, log, output, finishing, shown>>
      /\ UNCHANGED <<history, writer, fired>>
  BY DEF PageLeaves, Hangup, writerVars
<1>2. <<>> \in Seq(Nat)
  OBVIOUS
<1>3. ShellEventTypes'
  BY <1>1, <1>2 DEF ShellEventInv, ShellEventTypes
<1>4. TimerStory' /\ PageStory'
  BY <1>1 DEF ShellEventInv, TimerStory, PageStory, NothingDropped
<1>5. LogOrderStory' /\ LogWholeStory' /\ LogEndStory' /\ LogStory'
  BY <1>1, HistoryStays DEF ShellEventInv
<1> QED
  BY <1>3, <1>4, <1>5 DEF ShellEventInv

\* A page that subscribes has an empty channel.
LEMMA SubscribePageKeeps == ASSUME ShellEventInv, SubscribePage PROVE ShellEventInv'
<1>1. /\ stream' = "subscribed" /\ channel' = <<>> /\ overflow' = FALSE
      /\ UNCHANGED <<persistent, generation, outputClosed, reason, log, output, finishing, shown>>
      /\ UNCHANGED <<history, writer, fired>>
  BY DEF SubscribePage, writerVars
<1>2. <<>> \in Seq(Nat) /\ Len(<<>>) = 0 /\ Len(log) \in Nat
  <2>1. log \in Seq(Entries0)
    BY TypesOfEvents DEF ShellEventInv
  <2> QED
    BY <2>1
<1>3. ShellEventTypes'
  BY <1>1, <1>2 DEF ShellEventInv, ShellEventTypes
<1>4. PageStory'
  BY <1>1, <1>2 DEF ShellEventInv, PageStory, NothingDropped
<1>5. TimerStory'
  BY <1>1 DEF ShellEventInv, TimerStory
<1>6. LogOrderStory' /\ LogWholeStory' /\ LogEndStory' /\ LogStory'
  BY <1>1, HistoryStays DEF ShellEventInv
<1> QED
  BY <1>3, <1>4, <1>5, <1>6 DEF ShellEventInv

\* What the page subscribed to before is in the history then.
LEMMA FlushForPageKeeps == ASSUME ShellEventInv, FlushForPage PROVE ShellEventInv'
<1> USE DEF ShellEventInv
<1>1. /\ stream = "subscribed" /\ ~finishing /\ NoteFatal
      /\ \/ writer.closed /\ writer' = writer /\ history' = history
         \/ ~writer.closed /\ Flush(writer, TRUE)
      /\ UNCHANGED <<persistent, generation, outputClosed, log, fired, output, finishing, shown>>
  BY DEF FlushForPage
<1>2. \/ stream' = "off" /\ channel' = <<>> /\ overflow' = FALSE
      \/ /\ ~Registered \/ writer'.events = <<>>
         /\ stream' = "flushed" /\ channel' = channel /\ overflow' = overflow
  BY DEF FlushForPage, Hangup
<1>3. WriterOnly
  BY <1>1, WriterStays, WriterFlushes
<1>4. <<>> \in Seq(Nat) /\ channel \in Seq(Nat) /\ overflow \in BOOLEAN /\ log \in Seq(Entries0) /\ history \in Seq(Nat)
  <2>1. <<>> \in Seq(Nat)
    OBVIOUS
  <2> QED
    BY <2>1, TypesOfEvents
<1>5. channel' \in Seq(Nat) /\ overflow' \in BOOLEAN /\ stream' \in {"off", "subscribed", "flushed", "live"}
  BY <1>2, <1>4
<1>6. ShellEventTypes' /\ TimerStory'
  BY <1>1, <1>3, <1>5, WriterOnlyKeeps DEF ShellEventTypes, Writers, TimerStory
<1>7. LogEndStory'
  <2>1. /\ finishing' = finishing /\ outputClosed' = outputClosed /\ log' = log /\ writer'.closed = writer.closed
        /\ (writer'.attempts >= MaxAttempts => writer'.fatal) /\ (writer'.fatal <=> reason' = "persistence_failed")
    BY <1>1, <1>3, WriterOnlyKeeps DEF WriterOnly, Holds
  <2>2. writer.closed => writer' = writer
    BY <1>1
  <2> QED
    BY <2>1, <2>2 DEF LogEndStory
<1>8. PageStory'
  <2> SUFFICES ASSUME NothingDropped' PROVE PageStory'
    BY DEF PageStory
  <2>1. NothingDropped /\ Len(history') >= Len(history) /\ history' \in Seq(Nat)
    BY <1>3, WriterOnlyKeeps
  <2>2. shown' = shown /\ log' = log /\ Len(shown) <= Len(log) /\ \A i \in 1..Len(shown) : shown[i] = i
    BY <1>1, <2>1 DEF PageStory
  <2>3. CASE stream' = "off"
    BY <2>2, <2>3 DEF PageStory
  <2>4. CASE /\ ~Registered \/ writer'.events = <<>>
             /\ stream' = "flushed" /\ channel' = channel /\ overflow' = overflow
    <3>1. ~writer'.fatal /\ NothingMissing(history', writer'.events, Len(log)) /\ (persistent \/ Len(log) <= MaxKept)
      <4>1. ~writer'.fatal /\ (persistent \/ Len(log) <= MaxKept)
        BY <1>1 DEF NothingDropped
      <4>2. Holds(writer, Len(log))
        BY <1>3 DEF WriterOnly
      <4> QED
        BY <4>1, <4>2 DEF Holds
    <3>2. writer'.events = <<>>
      <4>1. CASE writer'.events = <<>>
        BY <4>1
      <4>2. CASE ~Registered
        <5>1. outputClosed /\ writer.closed /\ ~writer.fatal
          BY <1>1, <2>1, <4>2 DEF Registered, LogEndStory, NothingDropped
        <5>2. writer' = writer /\ writer.events = <<>>
          BY <1>1, <5>1 DEF LogEndStory
        <5> QED
          BY <5>2
      <4> QED
        BY <2>4, <4>1, <4>2
    <3>3. Len(history') = Len(log) /\ Len(log) \in Nat /\ Len(channel) \in Nat
      <4>1. Len(<<>>) = 0 /\ Len(history') \in Nat /\ Len(log) \in Nat /\ Len(channel) \in Nat
        BY <1>4, <2>1
      <4>2. Len(history') + Len(writer'.events) = Len(log)
        BY <3>1 DEF NothingMissing
      <4> QED
        BY <3>2, <4>1, <4>2
    <3>4. ~overflow => Len(channel) <= Len(log) /\ \A i \in 1..Len(channel) : channel[i] = Len(log) - Len(channel) + i
      BY <1>1, <2>1 DEF PageStory
    <3> QED
      BY <2>2, <2>4, <3>3, <3>4 DEF PageStory
  <2> QED
    BY <1>2, <2>3, <2>4
<1> QED
  BY <1>1, <1>3, <1>6, <1>7, <1>8, WriterOnlyKeeps, LogStays

\* The snapshot reaches up to what waits in the channel.
LEMMA SendSnapshotKeeps == ASSUME ShellEventInv, SendSnapshot PROVE ShellEventInv'
<1> USE DEF ShellEventInv
<1>1. /\ stream = "flushed" /\ shown' = shown \o NotShown(history)
      /\ UNCHANGED <<persistent, generation, outputClosed, reason, log, output, finishing, history, writer, fired>>
      /\ \/ stream' = "off" /\ channel' = <<>> /\ overflow' = FALSE
         \/ stream' = "live" /\ channel' = channel /\ overflow' = overflow
  BY DEF SendSnapshot, Hangup, writerVars
<1>2. <<>> \in Seq(Nat) /\ channel \in Seq(Nat) /\ overflow \in BOOLEAN /\ log \in Seq(Entries0) /\ history \in Seq(Nat) /\ shown \in Seq(Nat)
  <2>1. <<>> \in Seq(Nat)
    OBVIOUS
  <2> QED
    BY <2>1, TypesOfEvents
<1>3. /\ Len(log) \in Nat /\ Len(history) \in Nat /\ Len(shown) \in Nat /\ Len(channel) \in Nat
  BY <1>2
<1>4. shown' \in Seq(Nat)
  <2>1. NotShown(history) \in Seq(Nat)
    BY <1>2, NotShownIs
  <2> QED
    BY <1>1, <1>2, <2>1
<1>5. ShellEventTypes' /\ TimerStory'
  BY <1>1, <1>2, <1>4 DEF ShellEventTypes, TimerStory
<1>6. LogOrderStory' /\ LogWholeStory' /\ LogEndStory' /\ LogStory'
  BY <1>1, HistoryStays
<1>7. PageStory'
  <2> SUFFICES ASSUME NothingDropped' PROVE PageStory'
    BY DEF PageStory
  <2>1. NothingDropped /\ log' = log /\ history' = history
    BY <1>1 DEF NothingDropped
  <2>2. NothingMissing(history, writer.events, Len(log)) /\ (persistent \/ Len(log) <= MaxKept) /\ Len(writer.events) \in Nat
    <3>1. writer.events \in Seq(Nat)
      BY TypesOfEvents
    <3> QED
      BY <2>1, <3>1 DEF NothingDropped, LogWholeStory
  <2>3. Len(history) <= Len(log) /\ \A i \in 1..Len(history) : history[i] = 0 + i
    <3>1. PICK h \in Nat, w \in Nat, l \in Nat : h = Len(history) /\ w = Len(writer.events) /\ l = Len(log)
      BY <1>3, <2>2
    <3>2. h + w = l /\ \A i \in 1..h : history[i] = l - w - h + i
      BY <2>2, <3>1 DEF NothingMissing
    <3>3. h <= l /\ \A i \in 1..h : l - w - h + i = 0 + i
      BY <3>2
    <3> QED
      BY <3>1, <3>2, <3>3
  <2>4. Len(shown) <= Len(log) /\ \A i \in 1..Len(shown) : shown[i] = i
    BY <2>1 DEF PageStory
  <2>5. PICK all \in Seq(Nat) :
          /\ all = shown \o NotShown(history) /\ \A i \in 1..Len(all) : all[i] = i
          /\ Len(all) = IF 0 + Len(history) > Len(shown) THEN 0 + Len(history) ELSE Len(shown)
    <3>1. 0 \in Nat /\ 0 <= Len(shown)
      BY <1>3
    <3> QED
      BY <1>2, <2>3, <2>4, <3>1, NotShownFollows
  <2>6. /\ shown' = all /\ Len(all) >= Len(history) /\ Len(all) <= Len(log)
    BY <1>1, <1>3, <2>3, <2>4, <2>5
  <2>7. ASSUME stream' # "off", ~overflow'
        PROVE  /\ stream' = "live" /\ channel' = channel /\ Len(log) - Len(channel) <= Len(all)
               /\ Len(channel) <= Len(log) /\ \A i \in 1..Len(channel) : channel[i] = Len(log) - Len(channel) + i
    <3>1. stream' = "live" /\ channel' = channel /\ ~overflow
      BY <1>1, <2>7
    <3>2. /\ Len(log) - Len(channel) <= Len(history) /\ Len(channel) <= Len(log)
          /\ \A i \in 1..Len(channel) : channel[i] = Len(log) - Len(channel) + i
      BY <1>1, <2>1, <3>1 DEF PageStory
    <3> QED
      BY <1>3, <2>6, <3>1, <3>2
  <2> QED
    BY <2>1, <2>5, <2>6, <2>7 DEF PageStory
<1> QED
  BY <1>5, <1>6, <1>7

\* A live event is shown unless the snapshot had it.
LEMMA SendLiveKeeps == ASSUME ShellEventInv, SendLive PROVE ShellEventInv'
<1> USE DEF ShellEventInv
<1>1. /\ stream = "live" /\ channel # <<>> /\ ~overflow /\ shown' = shown \o NotShown(<<Head(channel)>>)
      /\ UNCHANGED <<persistent, generation, outputClosed, reason, log, output, finishing, history, writer, fired>>
      /\ \/ stream' = "off" /\ channel' = <<>> /\ overflow' = FALSE
         \/ stream' = "live" /\ channel' = Tail(channel) /\ overflow' = overflow
  BY DEF SendLive, Hangup, writerVars
<1>2. channel \in Seq(Nat) /\ overflow \in BOOLEAN /\ log \in Seq(Entries0) /\ history \in Seq(Nat) /\ shown \in Seq(Nat)
  BY TypesOfEvents
<1>3. /\ Len(log) \in Nat /\ Len(shown) \in Nat /\ Len(channel) \in Nat /\ Len(channel) > 0 /\ <<>> \in Seq(Nat)
      /\ Head(channel) = channel[1] /\ channel[1] \in Nat /\ Tail(channel) \in Seq(Nat)
      /\ Len(Tail(channel)) = Len(channel) - 1 /\ \A i \in 1..(Len(channel) - 1) : Tail(channel)[i] = channel[i + 1]
  BY <1>1, <1>2
<1>4. <<Head(channel)>> \in Seq(Nat) /\ Len(<<Head(channel)>>) = 1 /\ <<Head(channel)>>[1] = Head(channel)
  BY <1>3
<1>5. shown' \in Seq(Nat)
  <2>1. NotShown(<<Head(channel)>>) \in Seq(Nat)
    BY <1>2, <1>4, NotShownIs
  <2> QED
    BY <1>1, <1>2, <2>1
<1>6. ShellEventTypes' /\ TimerStory'
  BY <1>1, <1>2, <1>3, <1>5 DEF ShellEventTypes, TimerStory
<1>7. LogOrderStory' /\ LogWholeStory' /\ LogEndStory' /\ LogStory'
  BY <1>1, HistoryStays
<1>8. PageStory'
  <2> SUFFICES ASSUME NothingDropped' PROVE PageStory'
    BY DEF PageStory
  <2>1. NothingDropped /\ log' = log
    BY <1>1 DEF NothingDropped
  <2>2. PICK from \in Nat : /\ from = Len(log) - Len(channel) /\ from <= Len(shown) /\ from < Len(log)
                            /\ \A i \in 1..Len(channel) : channel[i] = from + i
    <3>1. /\ Len(log) - Len(channel) <= Len(shown) /\ Len(channel) <= Len(log)
          /\ \A i \in 1..Len(channel) : channel[i] = Len(log) - Len(channel) + i
      BY <1>1, <2>1 DEF PageStory
    <3>2. Len(log) - Len(channel) \in Nat /\ Len(log) - Len(channel) < Len(log)
      BY <1>3, <3>1
    <3> QED
      BY <3>1, <3>2
  <2>3. Len(shown) <= Len(log) /\ \A i \in 1..Len(shown) : shown[i] = i
    BY <2>1 DEF PageStory
  <2>4. \A i \in 1..Len(<<Head(channel)>>) : <<Head(channel)>>[i] = from + i
    <3>1. Head(channel) = from + 1
      BY <1>3, <2>2
    <3> QED
      BY <1>4, <3>1
  <2>5. PICK all \in Seq(Nat) :
          /\ all = shown \o NotShown(<<Head(channel)>>) /\ \A i \in 1..Len(all) : all[i] = i
          /\ Len(all) = IF from + Len(<<Head(channel)>>) > Len(shown) THEN from + Len(<<Head(channel)>>) ELSE Len(shown)
    BY <1>2, <1>4, <2>2, <2>3, <2>4, NotShownFollows
  <2>6. shown' = all /\ Len(all) >= from + 1 /\ Len(all) <= Len(log)
    BY <1>1, <1>3, <1>4, <2>2, <2>3, <2>5
  <2>7. ASSUME stream' # "off", ~overflow'
        PROVE  /\ stream' = "live" /\ Len(channel') <= Len(log) /\ Len(log) - Len(channel') <= Len(all)
               /\ \A i \in 1..Len(channel') : channel'[i] = Len(log) - Len(channel') + i
    <3>1. stream' = "live" /\ channel' = Tail(channel)
      BY <1>1, <2>7
    <3>2. PICK rest \in Seq(Nat) : /\ rest = channel' /\ Len(rest) = Len(channel) - 1
                                   /\ \A i \in 1..(Len(channel) - 1) : rest[i] = channel[i + 1]
      BY <1>3, <3>1
    <3>3. Len(log) - Len(rest) = from + 1 /\ Len(rest) <= Len(log)
      BY <1>3, <2>2, <3>2
    <3>4. ASSUME NEW i \in 1..Len(rest) PROVE rest[i] = Len(log) - Len(rest) + i
      <4>1. rest[i] = channel[i + 1] /\ i + 1 \in 1..Len(channel) /\ i \in Nat
        BY <1>3, <3>2
      <4>2. channel[i + 1] = from + (i + 1)
        BY <2>2, <4>1
      <4>3. from + (i + 1) = (from + 1) + i
        BY <4>1
      <4> QED
        BY <3>3, <4>1, <4>2, <4>3
    <3> QED
      BY <1>3, <2>6, <3>1, <3>2, <3>3, <3>4
  <2> QED
    BY <2>1, <2>5, <2>6, <2>7 DEF PageStory
<1> QED
  BY <1>6, <1>7, <1>8

---------------------------------------------------------------------------
(* The invariant holds, and implies the property *)

\* A new shell has nothing to write.
LEMMA ShellEventInvAtFirst == ASSUME ShellEventInit PROVE ShellEventInv
<1>1. /\ persistent \in BOOLEAN /\ generation = 1 /\ ~outputClosed /\ outputClosed \in BOOLEAN
      /\ log = <<>> /\ history = <<>> /\ writer = NewWriter /\ fired = {} /\ output = {}
      /\ stream = "off" /\ channel = <<>> /\ ~overflow /\ overflow \in BOOLEAN /\ shown = <<>> /\ ~finishing /\ finishing \in BOOLEAN
  BY ShellEventAssumption DEF ShellEventInit
<1>2. <<>> \in Seq(Nat) /\ <<>> \in Seq(Entries0) /\ Len(<<>>) = 0
  OBVIOUS
<1>3. MaxAttempts \in Nat /\ MaxAttempts > 0 /\ MaxFired \in Nat
  BY ShellEventAssumption
<1>4. writer \in Writers /\ writer.events = <<>> /\ writer.attempts = 0 /\ ~writer.fatal /\ ~writer.closed
  BY <1>1, <1>2 DEF NewWriter, Writers
<1>5. reason \in {"", "persistence_failed"} /\ reason # "persistence_failed"
  BY Zenon DEF ShellEventInit
<1>6. ShellEventTypes
  <2>1. /\ persistent \in BOOLEAN /\ generation \in Nat \ {0} /\ outputClosed \in BOOLEAN /\ finishing \in BOOLEAN
        /\ log \in Seq(Entries0) /\ history \in Seq(Nat) /\ fired \in SUBSET Nat /\ output \in SUBSET Nat
        /\ stream \in {"off", "subscribed", "flushed", "live"} /\ channel \in Seq(Nat)
        /\ overflow \in BOOLEAN /\ shown \in Seq(Nat)
    BY <1>1, <1>2
  <2> QED
    BY <1>4, <1>5, <2>1, Zenon DEF ShellEventTypes, Writers, Entries0
<1>7. TimerStory
  <2>1. IsFiniteSet({}) /\ Cardinality({}) = 0
    BY FS_EmptySet
  <2> QED
    BY <1>1, <1>3, <2>1 DEF TimerStory
<1>8. LogOrderStory /\ LogWholeStory /\ LogStory /\ PageStory
  <2>1. Len(history) = 0 /\ Len(log) = 0 /\ Len(writer.events) = 0 /\ Len(shown) = 0
    BY <1>1, <1>2, <1>4
  <2> QED
    BY <1>1, <2>1 DEF LogOrderStory, LogWholeStory, LogStory, PageStory, InOrder, NothingMissing
<1>9. LogEndStory
  <2>1. reason # "persistence_failed"
    BY <1>5
  <2>2. ~(writer.attempts >= MaxAttempts)
    BY <1>3, <1>4
  <2> QED
    BY <1>1, <1>4, <2>1, <2>2 DEF LogEndStory
<1> QED
  BY <1>6, <1>7, <1>8, <1>9 DEF ShellEventInv

\* Every step keeps the invariant.
LEMMA ShellEventInvStep == ASSUME ShellEventInv, [ShellEventNext]_shellEventVars PROVE ShellEventInv'
<1>1. CASE UNCHANGED shellEventVars
  <2>1. /\ UNCHANGED <<persistent, generation, outputClosed, reason, log, finishing, output>>
        /\ UNCHANGED writerVars /\ UNCHANGED pageVars
    BY <1>1 DEF shellEventVars, writerVars, pageVars
  <2>2. output' \in SUBSET Nat
    BY <2>1 DEF ShellEventInv, ShellEventTypes
  <2> QED
    BY <2>1, <2>2, ShellEventsStay
<1>2. CASE ShellEventNext
  BY <1>2, OutputArrivesKeeps, RecordOutputKeeps, RecordInputKeeps, TimerFiresKeeps, TimerFlushesKeeps, FinishOutputKeeps,
     CloseWriterKeeps, FinalFlushKeeps, NextGenerationKeeps, SubscribePageKeeps, FlushForPageKeeps, SendSnapshotKeeps,
     SendLiveKeeps, PageLeavesKeeps
  DEF ShellEventNext, Finalise, PageStep
<1> QED
  BY <1>1, <1>2

\* The invariant implies that the history and the page are whole.
LEMMA ShellEventInvImplies == ASSUME ShellEventInv PROVE ShellHistoryIsWhole
<1> USE DEF ShellEventInv
<1>1. /\ history \in Seq(Nat) /\ log \in Seq(Entries0) /\ shown \in Seq(Nat) /\ writer.events \in Seq(Nat)
  BY TypesOfEvents
<1>2. /\ DOMAIN history = 1..Len(history) /\ DOMAIN log = 1..Len(log) /\ Len(history) \in Nat /\ Len(log) \in Nat
      /\ Len(shown) \in Nat /\ Len(<<>>) = 0
  BY <1>1
<1>3. \A i, j \in DOMAIN history : i < j => history[i] < history[j]
  BY <1>2 DEF LogOrderStory, InOrder
<1>4. ASSUME outputClosed, ~finishing, ~writer.fatal
      PROVE  Consecutive(history) /\ history # <<>> /\ Last(history) = LastSequence
  <2>1. writer.events = <<>> /\ Len(log) > 0
    BY <1>1, <1>2, <1>4 DEF LogEndStory
  <2>2. NothingMissing(history, <<>>, Len(log))
    BY <1>4, <2>1 DEF LogWholeStory
  <2>3. PICK h \in Nat, l \in Nat : h = Len(history) /\ l = Len(log)
    BY <1>2
  <2>4. \A i \in 1..h : history[i] = l - 0 - h + i
    BY <1>2, <2>2, <2>3 DEF NothingMissing
  <2>5. h > 0
    <3>1. h + 0 > 0
      BY <1>2, <2>1, <2>2, <2>3 DEF NothingMissing
    <3> QED
      BY <3>1
  <2>6. history # <<>> /\ Last(history) = LastSequence
    <3>1. history[h] = l - 0 - h + h
      BY <2>4, <2>5
    <3>2. l - 0 - h + h = l
      OBVIOUS
    <3>3. history # <<>>
      BY <1>2, <2>3, <2>5
    <3> QED
      BY <2>3, <3>1, <3>2, <3>3 DEF Last, LastSequence
  <2>7. ASSUME NEW i \in 1..(h - 1) PROVE history[i + 1] = history[i] + 1
    <3>1. history[i] = l - 0 - h + i /\ history[i + 1] = l - 0 - h + (i + 1)
      BY <2>4
    <3>2. l - 0 - h + (i + 1) = (l - 0 - h + i) + 1
      OBVIOUS
    <3> QED
      BY <3>1, <3>2
  <2> QED
    BY <2>3, <2>6, <2>7 DEF Consecutive
<1>5. \A i, j \in DOMAIN log : i < j => log[i].gen < log[j].gen \/ (log[i].gen = log[j].gen /\ log[i].kind # "end")
  BY <1>2 DEF LogStory
<1>6. ASSUME persistent \/ Len(log) <= MaxKept, ~writer.fatal PROVE Consecutive(shown)
  <2>1. \A i \in 1..Len(shown) : shown[i] = i
    BY <1>6 DEF PageStory, NothingDropped
  <2> QED
    BY <1>2, <2>1 DEF Consecutive
<1> QED
  BY <1>3, <1>4, <1>5, <1>6 DEF ShellHistoryIsWhole

\* Every variable of a shell's events has its type.
THEOREM ShellEventTypesHold == ShellEventSpec => []ShellEventTypes
<1>1. ShellEventInv => ShellEventTypes
  BY DEF ShellEventInv
<1> QED
  BY <1>1, ShellEventInvAtFirst, ShellEventInvStep, PTL DEF ShellEventSpec

\* However the writer's batches fail, timers fire late, generations follow each other and pages
\* come and go: the history is in order and whole, and a page shows every event once, in order.
THEOREM ShellHistoryWhole == ShellEventSpec => []ShellHistoryIsWhole
<1> QED
  BY ShellEventInvAtFirst, ShellEventInvStep, ShellEventInvImplies, PTL DEF ShellEventSpec
=============================================================================
