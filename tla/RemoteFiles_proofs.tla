------------------------- MODULE RemoteFiles_proofs --------------------------
(***************************************************************************)
(* Proofs about SftpSessions, for any requests, any finite set of session  *)
(* objects and any limit of the pool, about TreeDeletion, for any finite   *)
(* tree of paths, any workers and any change of the tree beside them, and  *)
(* about FileChanges, for any changes of one file, and about TextEdits,    *)
(* for any files and any edits.                                            *)
(*                                                                         *)
(* SessionsAreLeased counts the holders of a session and speaks of who     *)
(* sleeps.  What is inductive is who owns what: a lease belongs to one     *)
(* request and makes its session busy, a session that is being started or  *)
(* open is in the pool, and a sleeper has seen a full pool without a free  *)
(* session, which nobody changes without waking it.                        *)
(*                                                                         *)
(* DeletionIsOrderly is about what the removers find.  What is inductive   *)
(* is where each discovered entry is: with the scanner, among the          *)
(* directories that wait for their level, at work in one hand or the       *)
(* queue, or with one verdict.                                             *)
(*                                                                         *)
(* NothingLostUnseen compares what a change replaced with what it saw.     *)
(* What is inductive is what a change that is about to put its file in     *)
(* place knows of the target: it is what it looked for, or came since.     *)
(*                                                                         *)
(* RemoteEditsAlike compares two programs for one edit.  It rests on how a *)
(* text is cut into lines: the first line starts after the byte-order      *)
(* mark, every line but the last one has an ending (LinesOfText), so that  *)
(* both programs cut at one place and take one ending for the new lines.   *)
(***************************************************************************)
EXTENDS SftpSessions, TreeDeletion, FileChanges, TextEdits,
        FiniteSetTheorems, FunctionTheorems, SequenceTheorems, TLAPS

---------------------------------------------------------------------------
(* The inductive invariant of the session pool *)

\* A request is at work with a session of its own, which is marked busy; one that is being
\* started has no client yet and stays in the pool.
Leased(r) == request[r].lease # NoSession
LeaseOf(r) ==
  /\ Leased(r) <=> request[r].at \in {"starting", "leased", "failing"}
  /\ Leased(r) => session[request[r].lease].busy /\ session[request[r].lease].why # "idle"
  /\ request[r].at = "starting" => request[r].lease \in pooled /\ session[request[r].lease].client = "none"
  /\ \A q \in SftpRequests : Leased(r) /\ request[r].lease = request[q].lease => r = q
LeaseStory == \A r \in SftpRequests : LeaseOf(r)

\* An open client is one of the pool, a closed one is not.
ClientStory ==
  \A s \in Sessions : /\ session[s].client = "open" => s \in pooled
                      /\ session[s].client = "closed" => s \notin pooled

\* The pool keeps its limit, and has ended once it is empty.
PoolStory == Cardinality(pooled) <= PoolLimit /\ (poolClosed => poolDone /\ pooled = {})

\* Who sleeps would find no session now either.
SleepStory ==
  \A r \in SftpRequests : request[r].at = "waiting" =>
    ~poolDone /\ Cardinality(pooled) >= PoolLimit /\ \A s \in pooled : ~Leasable(s)

SftpInv == SftpTypes /\ LeaseStory /\ ClientStory /\ PoolStory /\ SleepStory

---------------------------------------------------------------------------
(* Operators *)

LEMMA PoolFinite == SftpTypes => IsFiniteSet(pooled) /\ Cardinality(pooled) \in Nat
<1> SUFFICES ASSUME SftpTypes PROVE IsFiniteSet(pooled) /\ Cardinality(pooled) \in Nat
  OBVIOUS
<1>1. pooled \in SUBSET Sessions /\ IsFiniteSet(Sessions)
  BY SftpAssumption DEF SftpTypes
<1>2. IsFiniteSet(pooled)
  BY <1>1, FS_Subset
<1> QED
  BY <1>2, FS_CardinalityType

\* No request that slept still does, once all were woken; nothing else of them changes.
LEMMA NotifiedWakes ==
  ASSUME NEW reqs \in [SftpRequests -> RequestRecord]
  PROVE  /\ Notified(reqs) \in [SftpRequests -> RequestRecord]
         /\ \A r \in SftpRequests :
              /\ Notified(reqs)[r].at = IF reqs[r].at = "waiting" THEN "acquiring" ELSE reqs[r].at
              /\ Notified(reqs)[r].lease = reqs[r].lease
<1>1. \A r \in SftpRequests : Woken(reqs[r].at) \in {"none", "acquiring", "waiting", "starting", "leased", "failing"}
  BY DEF RequestRecord, Woken
<1> QED
  BY <1>1 DEF Notified, RequestRecord, Woken

\* The end of a session's context: the first cause stays.
LEMMA CancelledSession ==
  ASSUME session \in [Sessions -> SessionRecord], NEW s \in Sessions,
         NEW why \in {"request", "start", "lost", "idle", "close"}
  PROVE  /\ SessionCancelled(s, why) \in [Sessions -> SessionRecord]
         /\ \A t \in Sessions :
              /\ SessionCancelled(s, why)[t].busy = session[t].busy
              /\ SessionCancelled(s, why)[t].client = session[t].client
              /\ SessionCancelled(s, why)[t].why = IF t = s /\ session[t].why = "" THEN why ELSE session[t].why
BY DEF SessionCancelled, SessionRecord

\* One request, or one session, changes.
LEMMA OneRequest ==
  ASSUME request \in [SftpRequests -> RequestRecord], NEW r \in SftpRequests, NEW now \in RequestRecord,
         request' = [request EXCEPT ![r] = now]
  PROVE  request' \in [SftpRequests -> RequestRecord] /\ request'[r] = now
         /\ \A q \in SftpRequests \ {r} : request'[q] = request[q]
OBVIOUS

LEMMA OneSession ==
  ASSUME session \in [Sessions -> SessionRecord], NEW s \in Sessions, NEW now \in SessionRecord,
         session' = [session EXCEPT ![s] = now]
  PROVE  session' \in [Sessions -> SessionRecord] /\ session'[s] = now
         /\ \A t \in Sessions \ {s} : session'[t] = session[t]
OBVIOUS

\* A request that gets a session.
LEMMA GivenLease ==
  ASSUME NEW was \in RequestRecord, NEW at \in {"starting", "leased"}, NEW s \in Sessions
  PROVE  /\ [was EXCEPT !.at = at, !.lease = s] \in RequestRecord
         /\ [was EXCEPT !.at = at, !.lease = s].at = at
         /\ [was EXCEPT !.at = at, !.lease = s].lease = s
BY DEF RequestRecord

\* The leases of a step in which one request acts: the others keep theirs, and so do their
\* sessions what the leases rest on.
Stands(r) ==
  /\ session[request[r].lease].busy /\ session[request[r].lease].why # "idle"
  /\ request[r].at = "starting" => request[r].lease \in pooled /\ session[request[r].lease].client = "none"
AtWork(r) == request[r].at \in {"starting", "leased", "failing"}

OthersStand(r) ==
  \A q \in SftpRequests \ {r} :
    /\ request'[q].lease = request[q].lease
    /\ AtWork(q)' <=> AtWork(q)
    /\ Leased(q) => Stands(q)'
OwnStands(r) ==
  /\ Leased(r)' <=> AtWork(r)'
  /\ Leased(r)' => Stands(r)' /\ \A q \in SftpRequests \ {r} : request[q].lease # request'[r].lease

LEMMA LeasesKept ==
  ASSUME LeaseStory, NEW r \in SftpRequests, OthersStand(r), OwnStands(r)
  PROVE  LeaseStory'
<1> USE DEF OthersStand, OwnStands
<1>1. ASSUME NEW q \in SftpRequests PROVE (Leased(q)' <=> AtWork(q)') /\ (Leased(q)' => Stands(q)')
  <2>1. q # r => (Leased(q) <=> AtWork(q))
    BY DEF LeaseStory, LeaseOf, AtWork
  <2>2. q # r => (Leased(q)' <=> Leased(q))
    BY DEF Leased
  <2> QED
    BY <2>1, <2>2
<1>2. ASSUME NEW q \in SftpRequests, NEW p \in SftpRequests, Leased(q)', request'[q].lease = request'[p].lease
      PROVE  q = p
  <2>1. Leased(p)'
    BY <1>2 DEF Leased
  <2>2. CASE q = r
    BY <1>2, <2>2
  <2>3. CASE p = r
    BY <1>2, <2>1, <2>3
  <2>4. CASE q # r /\ p # r
    <3>1. Leased(q) /\ request[q].lease = request[p].lease
      BY <1>2, <2>4 DEF Leased
    <3> QED
      BY <3>1 DEF LeaseStory, LeaseOf
  <2> QED
    BY <2>2, <2>3, <2>4
<1>3. ASSUME NEW q \in SftpRequests PROVE LeaseOf(q)'
  <2>1. Leased(q)' => Stands(q)'
    BY <1>1
  <2>2. (Leased(q) <=> request[q].at \in {"starting", "leased", "failing"})'
    BY <1>1 DEF AtWork
  <2>3. (request[q].at = "starting" => Leased(q) /\ Stands(q))'
    BY <2>1, <2>2
  <2>4. (Leased(q) => session[request[q].lease].busy /\ session[request[q].lease].why # "idle")'
    BY <2>1 DEF Stands
  <2>5. (request[q].at = "starting" => request[q].lease \in pooled /\ session[request[q].lease].client = "none")'
    BY <2>3 DEF Stands
  <2>6. (\A p \in SftpRequests : Leased(q) /\ request[q].lease = request[p].lease => q = p)'
    BY <1>2
  <2> QED
    BY <2>2, <2>4, <2>5, <2>6 DEF LeaseOf
<1> QED
  BY <1>3 DEF LeaseStory

LEMMA LeasesUntouched ==
  ASSUME LeaseStory,
         \A q \in SftpRequests :
           /\ request'[q].lease = request[q].lease
           /\ AtWork(q)' <=> AtWork(q)
           /\ Leased(q) => Stands(q)'
  PROVE  LeaseStory'
<1>1. ASSUME NEW r \in SftpRequests PROVE LeaseStory'
  <2>1. OthersStand(r)
    BY DEF OthersStand
  <2>2. Leased(r) <=> AtWork(r)
    BY DEF LeaseStory, LeaseOf, AtWork
  <2>3. Leased(r)' <=> Leased(r)
    BY DEF Leased
  <2>4. Leased(r) => \A q \in SftpRequests \ {r} : request[q].lease # request[r].lease
    BY DEF LeaseStory, LeaseOf
  <2>5. OwnStands(r)
    BY <2>2, <2>3, <2>4 DEF OwnStands
  <2> QED
    BY <2>1, <2>5, LeasesKept
<1> QED
  BY <1>1 DEF LeaseStory

\* What a lease says of its session, and of the other leases.
LEMMA StandsNow ==
  ASSUME SftpTypes, LeaseStory, NEW q \in SftpRequests
  PROVE  /\ Leased(q) <=> AtWork(q)
         /\ Leased(q) => Stands(q) /\ request[q].lease \in Sessions
         /\ Leased(q) => \A p \in SftpRequests \ {q} : request[p].lease # request[q].lease
<1>1. request[q].lease \in Sessions \cup {NoSession}
  BY DEF SftpTypes, RequestRecord
<1> QED
  BY <1>1 DEF LeaseStory, LeaseOf, Leased, Stands, AtWork

---------------------------------------------------------------------------
(* The invariant is inductive *)

LEMMA SftpInvInit == SftpInit => SftpInv
<1> SUFFICES ASSUME SftpInit PROVE SftpInv
  OBVIOUS
<1>1. SftpTypes
  BY DEF SftpInit, SftpTypes, Asleep, NoUse, RequestRecord, SessionRecord
<1>2. LeaseStory /\ ClientStory /\ SleepStory
  BY DEF SftpInit, LeaseStory, LeaseOf, ClientStory, SleepStory, Leased, Asleep, NoUse
<1>3. PoolStory
  BY FS_EmptySet, SftpAssumption DEF SftpInit, PoolStory
<1> QED
  BY <1>1, <1>2, <1>3 DEF SftpInv

\* What a request does before it has a session, and the end of its context: it stays
\* without one, or with the one it has.
LEMMA AskingInv ==
  ASSUME SftpInv, NEW r \in SftpRequests,
         AskSftp(r) \/ RefuseLease(r) \/ AwaitSession(r) \/ EndRequest(r)
  PROVE  SftpInv'
<1> USE DEF SftpInv
<1> DEFINE with == {"starting", "leased", "failing"}
<1>1. /\ UNCHANGED <<session, idleTimer, pooled, poolDone, poolClosed>>
      /\ \A q \in SftpRequests \ {r} : request'[q] = request[q]
  BY DEF AskSftp, RefuseLease, AwaitSession, EndRequest, SftpTypes
<1>2. /\ request' \in [SftpRequests -> RequestRecord] /\ request'[r].lease = request[r].lease
      /\ request'[r].at = request[r].at \/ (request'[r].at \notin with /\ request[r].at \notin with)
      /\ request'[r].at = "waiting" => AwaitSession(r)
  <2>1. CASE AskSftp(r)
    <3>1. request[r].at = "none" /\ request' = [request EXCEPT ![r].at = "acquiring"]
      BY <2>1 DEF AskSftp, Asleep
    <3> QED
      BY <3>1 DEF SftpTypes, RequestRecord
  <2>2. CASE RefuseLease(r)
    <3>1. request[r].lease = NoSession
      BY <2>2 DEF RefuseLease, SftpTypes, LeaseStory, LeaseOf, Leased
    <3> QED
      BY <2>2, <3>1 DEF RefuseLease, SftpTypes, Asleep, RequestRecord
  <2>3. CASE AwaitSession(r)
    BY <2>3 DEF AwaitSession, MayLease, SftpTypes, RequestRecord
  <2>4. CASE EndRequest(r)
    <3>1. Woken(request[r].at) \in {"none", "acquiring", "waiting", "starting", "leased", "failing"} \ {"waiting"}
      BY DEF SftpTypes, Woken, RequestRecord
    <3>2. request' = [request EXCEPT ![r] = [request[r] EXCEPT !.ended = TRUE, !.at = Woken(request[r].at)]]
      BY <2>4 DEF EndRequest
    <3>3. request' \in [SftpRequests -> RequestRecord]
      BY <3>1, <3>2 DEF SftpTypes, RequestRecord
    <3>4. request'[r].lease = request[r].lease /\ request'[r].at = Woken(request[r].at)
      <4> DEFINE now == [request[r] EXCEPT !.ended = TRUE, !.at = Woken(request[r].at)]
      <4> request[r] \in [at : {"none", "acquiring", "waiting", "starting", "leased", "failing"},
                           lease : Sessions \cup {NoSession}, ended : BOOLEAN, cleanup : BOOLEAN]
        BY DEF SftpTypes, RequestRecord
      <4>1. now.lease = request[r].lease /\ now.at = Woken(request[r].at)
        OBVIOUS
      <4> HIDE DEF now
      <4>2. request'[r] = now
        BY <3>2 DEF SftpTypes, now
      <4> QED
        BY <4>1, <4>2
    <3> QED
      BY <3>1, <3>3, <3>4 DEF Woken
  <2> QED
    BY <2>1, <2>2, <2>3, <2>4
<1>3. SftpTypes'
  BY <1>1, <1>2 DEF SftpTypes, RequestRecord
<1>4. LeaseStory'
  BY <1>1, <1>2 DEF LeaseStory, LeaseOf, Leased
<1>5. ClientStory' /\ PoolStory'
  BY <1>1 DEF ClientStory, PoolStory
<1>6. SleepStory'
  BY <1>1, <1>2 DEF SleepStory, AwaitSession, MayLease, Leasable, Live
<1> QED
  BY <1>3, <1>4, <1>5, <1>6

LEMMA ReuseInv ==
  ASSUME SftpInv, NEW r \in SftpRequests, NEW s \in Sessions, ReuseSession(r, s)
  PROVE  SftpInv'
<1> USE DEF SftpInv
<1>1. request' \in [SftpRequests -> RequestRecord] /\ request'[r].at = "leased" /\ request'[r].lease = s
      /\ \A q \in SftpRequests \ {r} : request'[q] = request[q]
  <2>1. request[r] \in RequestRecord /\ request' = [request EXCEPT ![r] = [request[r] EXCEPT !.at = "leased", !.lease = s]]
    BY DEF ReuseSession, SftpTypes
  <2> DEFINE now == [request[r] EXCEPT !.at = "leased", !.lease = s]
  <2>2. now \in RequestRecord /\ now.at = "leased" /\ now.lease = s
    BY <2>1, GivenLease
  <2> HIDE DEF now
  <2> QED
    BY <2>1, <2>2, OneRequest DEF SftpTypes, now
<1>2. session' \in [Sessions -> SessionRecord] /\ session'[s].busy /\ session'[s].client = session[s].client
      /\ session'[s].why = session[s].why /\ \A t \in Sessions \ {s} : session'[t] = session[t]
  BY DEF ReuseSession, SftpTypes, SessionRecord
<1>3. /\ s \in pooled /\ ~session[s].busy /\ session[s].why = "" /\ ~poolDone /\ s # NoSession
      /\ UNCHANGED <<pooled, poolDone, poolClosed>>
  BY SftpAssumption DEF ReuseSession, Leasable, Live, MayLease
<1>4. SftpTypes'
  BY <1>1, <1>2, <1>3 DEF ReuseSession, StopTimer, SftpTypes
<1>5. \A q \in SftpRequests : Leased(q) => Stands(q) /\ request[q].lease # s
  <2> TAKE q \in SftpRequests
  <2>1. Leased(q) => session[request[q].lease].busy /\ Stands(q)
    BY DEF LeaseStory, LeaseOf, Stands
  <2> QED
    BY <1>3, <2>1
<1>6. LeaseStory'
  <2>1. ASSUME NEW q \in SftpRequests \ {r}, Leased(q) PROVE Stands(q)'
    <3>1. request[q].lease \in Sessions \ {s} /\ Stands(q)
      BY <1>5, <2>1 DEF Leased, SftpTypes, RequestRecord
    <3> QED
      BY <3>1, <1>1, <1>2, <1>3 DEF Stands
  <2>2. Leased(r)' /\ AtWork(r)' /\ Stands(r)'
    BY <1>1, <1>2, <1>3 DEF Leased, AtWork, Stands
  <2>3. OthersStand(r)
    BY <1>1, <2>1 DEF OthersStand, AtWork
  <2>4. OwnStands(r)
    BY <1>1, <1>3, <1>5, <2>2 DEF OwnStands, Leased
  <2> QED
    BY <2>3, <2>4, LeasesKept
<1>7. ClientStory' /\ PoolStory'
  BY <1>2, <1>3 DEF ClientStory, PoolStory
<1>8. SleepStory'
  BY <1>1, <1>2, <1>3 DEF SleepStory, Leasable, Live, SftpTypes
<1> QED
  BY <1>4, <1>6, <1>7, <1>8

LEMMA CreateInv ==
  ASSUME SftpInv, NEW r \in SftpRequests, NEW s \in Sessions, CreateSession(r, s)
  PROVE  SftpInv'
<1> USE DEF SftpInv
<1>1. /\ request' \in [SftpRequests -> RequestRecord] /\ request'[r].at = "starting" /\ request'[r].lease = s
      /\ \A q \in SftpRequests \ {r} : request'[q] = request[q]
  <2>1. request[r] \in RequestRecord /\ request' = [request EXCEPT ![r] = [request[r] EXCEPT !.at = "starting", !.lease = s]]
    BY DEF CreateSession, SftpTypes
  <2> DEFINE now == [request[r] EXCEPT !.at = "starting", !.lease = s]
  <2>2. now \in RequestRecord /\ now.at = "starting" /\ now.lease = s
    BY <2>1, GivenLease
  <2> HIDE DEF now
  <2> QED
    BY <2>1, <2>2, OneRequest DEF SftpTypes, now
<1>2. /\ session' \in [Sessions -> SessionRecord] /\ session'[s].busy /\ session'[s].client = "none"
      /\ session'[s].why = "" /\ \A t \in Sessions \ {s} : session'[t] = session[t]
  BY DEF CreateSession, NoUse, SftpTypes, SessionRecord
<1>3. /\ pooled' = pooled \cup {s} /\ Cardinality(pooled) < PoolLimit
      /\ UNCHANGED <<idleTimer, poolDone, poolClosed>> /\ ~poolDone /\ s \notin pooled
      /\ \A q \in SftpRequests : request[q].lease # s
  BY DEF CreateSession, MayLease, Spare, Holders
<1>4. SftpTypes'
  BY <1>1, <1>2, <1>3 DEF SftpTypes
<1>5. LeaseStory'
  <2>1. ASSUME NEW q \in SftpRequests \ {r}, Leased(q) PROVE Stands(q)'
    <3>1. request[q].lease \in Sessions \ {s} /\ Stands(q)
      BY <1>3, <2>1, StandsNow
    <3> QED
      BY <3>1, <1>1, <1>2, <1>3 DEF Stands
  <2>2. s # NoSession
    BY SftpAssumption
  <2>3. Leased(r)' /\ AtWork(r)' /\ Stands(r)'
    BY <1>1, <1>2, <1>3, <2>2 DEF Leased, AtWork, Stands
  <2>4. OthersStand(r)
    BY <1>1, <2>1 DEF OthersStand, AtWork
  <2>5. OwnStands(r)
    BY <1>1, <1>3, <2>3 DEF OwnStands
  <2> QED
    BY <2>4, <2>5, LeasesKept
<1>6. ClientStory'
  BY <1>2, <1>3 DEF ClientStory
<1>7. PoolStory'
  <2>1. Cardinality(pooled') = Cardinality(pooled) + 1 /\ Cardinality(pooled) \in Nat
    BY <1>3, PoolFinite, FS_AddElement
  <2> QED
    BY <1>3, <2>1, SftpAssumption DEF PoolStory
<1>8. SleepStory'
  <2>1. Cardinality(pooled) \in Nat /\ PoolLimit \in Nat
    BY PoolFinite, SftpAssumption
  <2>2. \A q \in SftpRequests : request'[q].at # "waiting"
    BY <1>1, <1>3, <2>1 DEF SleepStory
  <2> QED
    BY <2>2 DEF SleepStory
<1> QED
  BY <1>4, <1>5, <1>6, <1>7, <1>8

\* The end of a session's context, for whatever cause.
LEMMA CancelInv ==
  ASSUME SftpInv, NEW s \in Sessions, NEW why \in {"request", "start", "lost", "idle", "close"},
         why = "idle" => ~session[s].busy, session' = SessionCancelled(s, why),
         idleTimer' \in [Sessions -> {"none", "set", "fired", "stale"}],
         UNCHANGED <<request, pooled, poolDone, poolClosed>>
  PROVE  SftpInv'
<1> USE DEF SftpInv
<1>1. /\ session' \in [Sessions -> SessionRecord]
      /\ \A t \in Sessions :
           /\ session'[t].busy = session[t].busy
           /\ session'[t].client = session[t].client
           /\ session'[t].why = IF t = s /\ session[t].why = "" THEN why ELSE session[t].why
  BY CancelledSession, ZenonT(60) DEF SftpTypes
<1>2. SftpTypes'
  BY <1>1 DEF SftpTypes
<1>3. LeaseStory'
  <2>1. ASSUME NEW q \in SftpRequests, Leased(q) PROVE Stands(q)'
    <3>1. request[q].lease \in Sessions /\ Stands(q)
      BY <2>1, StandsNow
    <3> QED
      BY <3>1, <1>1 DEF Stands
  <2> QED
    BY <2>1, LeasesUntouched DEF AtWork
<1>4. ClientStory' /\ PoolStory'
  BY <1>1 DEF ClientStory, PoolStory
<1>5. SleepStory'
  <2>1. \A t \in Sessions : Leasable(t)' => Leasable(t)
    BY <1>1 DEF Leasable, Live
  <2>2. pooled \subseteq Sessions
    BY DEF SftpTypes
  <2> QED
    BY <2>1, <2>2 DEF SleepStory
<1> QED
  BY <1>2, <1>3, <1>4, <1>5

\* The session of a request that is starting is one of the pool; its client comes to be,
\* or fails with the session.
LEMMA StartSessionInv ==
  ASSUME SftpInv, NEW r \in SftpRequests, StartClient(r)
  PROVE  SftpInv'
<1> USE DEF SftpInv
<1> DEFINE s == request[r].lease
<1>1. request[r].at = "starting" /\ UNCHANGED <<idleTimer, pooled, poolDone, poolClosed>>
  BY DEF StartClient
<1>2. /\ Leased(r) /\ s \in Sessions /\ Stands(r) /\ s \in pooled /\ session[s].busy
      /\ \A q \in SftpRequests \ {r} : request[q].lease # s
  BY <1>1, StandsNow DEF AtWork, Stands
<1> HIDE DEF s
<1>3. /\ request' \in [SftpRequests -> RequestRecord]
      /\ request'[r].at \in {"leased", "failing"} /\ request'[r].lease = s
      /\ \A q \in SftpRequests \ {r} : request'[q] = request[q]
  <2>1. request' = [request EXCEPT ![r].at = "leased"] \/ request' = [request EXCEPT ![r].at = "failing"]
    BY DEF StartClient
  <2>2. s = request[r].lease
    BY DEF s
  <2> QED
    BY <2>1, <2>2 DEF SftpTypes, RequestRecord
<1>4. /\ session' \in [Sessions -> SessionRecord] /\ session'[s].busy
      /\ session'[s].why \in {session[s].why, "start"}
      /\ \A t \in Sessions \ {s} : session'[t] = session[t]
      /\ session'[s].client \in {"open", "failed"}
  <2>1. CASE session' = [session EXCEPT ![s].client = "open"]
    BY <1>2, <2>1 DEF SftpTypes, SessionRecord
  <2>2. CASE session' = [SessionCancelled(s, "start") EXCEPT ![s].client = "failed"]
    <3>1. /\ SessionCancelled(s, "start") \in [Sessions -> SessionRecord]
          /\ \A t \in Sessions :
               /\ SessionCancelled(s, "start")[t].busy = session[t].busy
               /\ SessionCancelled(s, "start")[t].client = session[t].client
               /\ SessionCancelled(s, "start")[t].why = IF t = s /\ session[t].why = "" THEN "start" ELSE session[t].why
      BY <1>2, CancelledSession DEF SftpTypes
    <3>2. \A t \in Sessions \ {s} : SessionCancelled(s, "start")[t] = session[t]
      BY DEF SessionCancelled, SftpTypes
    <3> QED
      BY <1>2, <2>2, <3>1, <3>2 DEF SessionRecord
  <2> QED
    BY <2>1, <2>2 DEF StartClient, s
<1>5. SftpTypes'
  BY <1>1, <1>3, <1>4 DEF SftpTypes
<1>6. LeaseStory'
  <2>1. ASSUME NEW q \in SftpRequests \ {r}, Leased(q) PROVE Stands(q)'
    <3>1. request[q].lease \in Sessions \ {s} /\ Stands(q)
      BY <1>2, <2>1, StandsNow
    <3> QED
      BY <3>1, <1>1, <1>3, <1>4 DEF Stands
  <2>2. session[s].why # "idle" /\ s # NoSession
    BY <1>2 DEF Stands, Leased, s
  <2>3. Leased(r)' /\ AtWork(r)' /\ Stands(r)'
    BY <1>3, <1>4, <2>2 DEF Leased, AtWork, Stands
  <2>4. OthersStand(r)
    BY <1>3, <2>1 DEF OthersStand, AtWork
  <2>5. OwnStands(r)
    BY <1>2, <1>3, <2>3 DEF OwnStands
  <2> QED
    BY <2>4, <2>5, LeasesKept
<1>7. ClientStory' /\ PoolStory'
  BY <1>1, <1>2, <1>4 DEF ClientStory, PoolStory
<1>8. SleepStory'
  <2>1. \A t \in pooled : Leasable(t)' => Leasable(t)
    BY <1>2, <1>4 DEF Leasable, Live, SftpTypes
  <2> QED
    BY <1>1, <1>3, <2>1 DEF SleepStory
<1> QED
  BY <1>5, <1>6, <1>7, <1>8

\* The end of a session: whoever waits looks at the pool again.
LEMMA ForgetInv ==
  ASSUME SftpInv, NEW s \in Sessions, ForgetSession(s)
  PROVE  SftpInv'
<1> USE DEF SftpInv
<1>1. /\ s \in pooled /\ session[s].client \in {"open", "failed"} /\ pooled' = pooled \ {s}
      /\ request' = Notified(request) /\ UNCHANGED <<poolDone, poolClosed>>
  BY DEF ForgetSession
<1>2. /\ request' \in [SftpRequests -> RequestRecord]
      /\ \A r \in SftpRequests : /\ request'[r].at = IF request[r].at = "waiting" THEN "acquiring" ELSE request[r].at
                                 /\ request'[r].lease = request[r].lease
  BY <1>1, NotifiedWakes DEF SftpTypes
<1>3. /\ session' \in [Sessions -> SessionRecord] /\ session'[s].client \in {"none", "closed"}
      /\ \A t \in Sessions \ {s} : session'[t] = session[t]
      /\ Holders(s) # {} => session'[s].busy = session[s].busy /\ session'[s].why = session[s].why
  <2>1. CASE Holders(s) = {} /\ session' = [session EXCEPT ![s] = NoUse]
    BY <2>1 DEF SftpTypes, SessionRecord, NoUse
  <2>2. CASE session' = [session EXCEPT ![s] = [session[s] EXCEPT !.client = "closed"]]
    BY <2>2 DEF SftpTypes, SessionRecord
  <2>3. \/ Holders(s) = {} /\ session' = [session EXCEPT ![s] = NoUse]
        \/ session' = [session EXCEPT ![s] = [session[s] EXCEPT !.client = "closed"]]
    <3>1. session' = [session EXCEPT ![s] = IF Holders(s) = {} THEN NoUse ELSE [session[s] EXCEPT !.client = "closed"]]
      BY DEF ForgetSession
    <3> QED
      BY <3>1
  <2> QED
    BY <2>1, <2>2, <2>3
<1>4. SftpTypes'
  BY <1>1, <1>2, <1>3 DEF SftpTypes, ForgetSession, StopTimer
<1>5. LeaseStory'
  <2>1. ASSUME NEW q \in SftpRequests, Leased(q) PROVE Stands(q)'
    <3>1. request[q].lease \in Sessions /\ Stands(q)
      BY <2>1, StandsNow
    <3>2. request[q].lease = s => Holders(s) # {}
      BY DEF Holders
    <3>3. request[q].at = "starting" => request[q].lease # s
      BY <1>1, <3>1 DEF Stands
    <3>4. request'[q].lease = request[q].lease /\ (request'[q].at = "starting" => request[q].at = "starting")
      BY <1>2
    <3> QED
      BY <3>1, <3>2, <3>3, <3>4, <1>1, <1>3 DEF Stands
  <2>2. \A q \in SftpRequests : request'[q].lease = request[q].lease /\ (AtWork(q)' <=> AtWork(q))
    BY <1>2 DEF AtWork
  <2> QED
    BY <2>1, <2>2, LeasesUntouched
<1>6. ClientStory'
  BY <1>1, <1>3 DEF ClientStory
<1>7. PoolStory'
  <2>1. Cardinality(pooled') = Cardinality(pooled) - 1 /\ Cardinality(pooled) \in Nat
    BY <1>1, PoolFinite, FS_RemoveElement
  <2> QED
    BY <1>1, <2>1, SftpAssumption DEF PoolStory
<1>8. SleepStory'
  BY <1>2 DEF SleepStory
<1> QED
  BY <1>4, <1>5, <1>6, <1>7, <1>8

\* What is left of a request that returns its session.
LEMMA ReturnWithout ==
  ASSUME NEW r \in SftpRequests, NEW left \in BOOLEAN
  PROVE  /\ Return(r, left) \in RequestRecord /\ Return(r, left).lease = NoSession
         /\ Return(r, left).at \in {"none", "acquiring"}
BY DEF Return, Asleep, RequestRecord

LEMMA CloseSessionInv ==
  ASSUME SftpInv, NEW r \in SftpRequests, CloseLease(r)
  PROVE  SftpInv'
<1> USE DEF SftpInv
<1> DEFINE s == request[r].lease
<1>1. PICK left \in BOOLEAN : Release(r, s, left)
  BY DEF CloseLease, MayLeave
<1>2. AtWork(r) /\ UNCHANGED <<pooled, poolDone, poolClosed>>
  BY DEF CloseLease, AtWork
<1>3. Leased(r) /\ s \in Sessions /\ \A q \in SftpRequests \ {r} : request[q].lease # s
  BY <1>2, StandsNow
<1> HIDE DEF s
<1>4. /\ request' \in [SftpRequests -> RequestRecord] /\ request'[r].lease = NoSession
      /\ request'[r].at \in {"none", "acquiring"}
      /\ \A q \in SftpRequests \ {r} : request'[q].lease = request[q].lease
      /\ \/ \A q \in SftpRequests \ {r} : request'[q].at = request[q].at
         \/ \A q \in SftpRequests \ {r} :
              request'[q].at = IF request[q].at = "waiting" THEN "acquiring" ELSE request[q].at
  <2> DEFINE back == [request EXCEPT ![r] = Return(r, left)]
  <2>1. /\ back \in [SftpRequests -> RequestRecord] /\ back[r] = Return(r, left)
        /\ \A q \in SftpRequests \ {r} : back[q] = request[q]
    BY ReturnWithout DEF SftpTypes
  <2>2. request' = back \/ request' = Notified(back)
    BY <1>1 DEF Release
  <2> HIDE DEF back
  <2>3. /\ Notified(back) \in [SftpRequests -> RequestRecord]
        /\ \A q \in SftpRequests :
             /\ Notified(back)[q].at = IF back[q].at = "waiting" THEN "acquiring" ELSE back[q].at
             /\ Notified(back)[q].lease = back[q].lease
    BY <2>1, NotifiedWakes
  <2>4. Return(r, left).lease = NoSession /\ Return(r, left).at \in {"none", "acquiring"}
    BY ReturnWithout
  <2>5. CASE request' = back
    BY <2>1, <2>4, <2>5
  <2>6. CASE request' = Notified(back)
    BY <2>1, <2>3, <2>4, <2>6
  <2> QED
    BY <2>2, <2>5, <2>6
<1>5. /\ session' \in [Sessions -> SessionRecord]
      /\ \A t \in Sessions \ {s} : session'[t] = session[t]
      /\ session'[s].client \in {session[s].client, "none"}
  <2>1. \/ session' = [session EXCEPT ![s] = NoUse]
        \/ session' = SessionCancelled(s, "request")
        \/ session' = session
        \/ session' = [session EXCEPT ![s].busy = FALSE]
    BY <1>1 DEF Release
  <2>2. CASE session' = SessionCancelled(s, "request")
    <3>1. \A t \in Sessions \ {s} : session'[t] = session[t]
      BY <2>2 DEF SftpTypes, SessionCancelled
    <3> QED
      BY <1>3, <2>2, <3>1, CancelledSession DEF SftpTypes
  <2>3. CASE session' = [session EXCEPT ![s] = NoUse]
    BY <1>3, <2>3 DEF SftpTypes, NoUse, SessionRecord
  <2>4. CASE session' = session
    BY <2>4 DEF SftpTypes
  <2>5. CASE session' = [session EXCEPT ![s].busy = FALSE]
    BY <1>3, <2>5 DEF SftpTypes, SessionRecord
  <2> QED
    BY <2>1, <2>2, <2>3, <2>4, <2>5
<1>6. SftpTypes'
  <2>1. idleTimer' = idleTimer \/ idleTimer' = [idleTimer EXCEPT ![s] = IF @ = "fired" THEN "stale" ELSE "set"]
    BY <1>1 DEF Release
  <2>2. idleTimer' \in [Sessions -> {"none", "set", "fired", "stale"}]
    BY <2>1 DEF SftpTypes
  <2> QED
    BY <1>2, <1>4, <1>5, <2>2 DEF SftpTypes
<1>7. LeaseStory'
  <2>1. ASSUME NEW q \in SftpRequests \ {r}, Leased(q) PROVE Stands(q)'
    <3>1. request[q].lease \in Sessions \ {s} /\ Stands(q)
      BY <1>3, <2>1, StandsNow
    <3>2. request'[q].lease = request[q].lease /\ (request'[q].at = "starting" => request[q].at = "starting")
      BY <1>4
    <3> QED
      BY <3>1, <3>2, <1>2, <1>5 DEF Stands
  <2>2. \A q \in SftpRequests \ {r} : request'[q].lease = request[q].lease /\ (AtWork(q)' <=> AtWork(q))
    BY <1>4 DEF AtWork
  <2>3. OthersStand(r)
    BY <2>1, <2>2 DEF OthersStand
  <2>4. OwnStands(r)
    BY <1>4 DEF OwnStands, Leased, AtWork
  <2> QED
    BY <2>3, <2>4, LeasesKept
<1>8. ClientStory' /\ PoolStory'
  BY <1>2, <1>5 DEF ClientStory, PoolStory
<1>9. SleepStory'
  <2>1. CASE \A q \in SftpRequests : request'[q].at # "waiting"
    BY <2>1 DEF SleepStory
  <2>2. CASE /\ request' = [request EXCEPT ![r] = Return(r, left)]
             /\ \/ session' = [session EXCEPT ![s] = NoUse] /\ s \notin pooled
                \/ session' = SessionCancelled(s, "request")
                \/ session' = session
    <3>1. \A q \in SftpRequests : request'[q].at = "waiting" => request[q].at = "waiting"
      BY <1>4, <2>2 DEF SftpTypes
    <3>2. \A t \in pooled : Leasable(t)' => Leasable(t)
      <4>1. CASE session' = SessionCancelled(s, "request")
        BY <1>3, <4>1, CancelledSession, ZenonT(60) DEF SftpTypes, Leasable, Live
      <4>2. CASE session' = [session EXCEPT ![s] = NoUse] /\ s \notin pooled
        BY <1>5, <4>2 DEF SftpTypes, Leasable, Live
      <4>3. CASE session' = session
        BY <4>3 DEF Leasable, Live
      <4> QED
        BY <2>2, <4>1, <4>2, <4>3
    <3> QED
      BY <1>2, <3>1, <3>2 DEF SleepStory
  <2>3. CASE request' = Notified([request EXCEPT ![r] = Return(r, left)])
    <3>1. [request EXCEPT ![r] = Return(r, left)] \in [SftpRequests -> RequestRecord]
      BY ReturnWithout DEF SftpTypes
    <3>2. \A q \in SftpRequests : request'[q].at # "waiting"
      BY <2>3, <3>1, NotifiedWakes
    <3> QED
      BY <2>1, <3>2
  <2>4. session[s].client = "closed" => s \notin pooled
    BY <1>3 DEF ClientStory
  <2> QED
    BY <1>1, <2>2, <2>3, <2>4 DEF Release
<1> QED
  BY <1>6, <1>7, <1>8, <1>9

LEMMA ClosePoolInv ==
  ASSUME SftpInv, ClosePool
  PROVE  SftpInv'
<1> USE DEF SftpInv
<1>1. /\ request' = Notified(request) /\ poolDone' = TRUE /\ ~poolDone /\ UNCHANGED <<idleTimer, pooled, poolClosed>>
      /\ session' = [s \in Sessions |-> IF s \in pooled THEN SessionCancelled(s, "close")[s] ELSE session[s]]
  BY DEF ClosePool
<1>2. /\ request' \in [SftpRequests -> RequestRecord]
      /\ \A r \in SftpRequests : /\ request'[r].at = IF request[r].at = "waiting" THEN "acquiring" ELSE request[r].at
                                 /\ request'[r].lease = request[r].lease
  BY <1>1, NotifiedWakes DEF SftpTypes
<1>3. \A s \in Sessions : /\ session'[s] \in SessionRecord /\ session'[s].busy = session[s].busy
                          /\ session'[s].client = session[s].client
                          /\ session'[s].why \in {session[s].why, "close"}
  <2> TAKE s \in Sessions
  <2>1. SessionCancelled(s, "close") \in [Sessions -> SessionRecord]
    BY CancelledSession DEF SftpTypes
  <2>2. /\ SessionCancelled(s, "close")[s].busy = session[s].busy
        /\ SessionCancelled(s, "close")[s].client = session[s].client
        /\ SessionCancelled(s, "close")[s].why \in {session[s].why, "close"}
    BY CancelledSession, ZenonT(60) DEF SftpTypes
  <2>3. session'[s] = SessionCancelled(s, "close")[s] \/ session'[s] = session[s]
    BY <1>1
  <2> QED
    BY <2>1, <2>2, <2>3 DEF SftpTypes
<1>4. SftpTypes'
  BY <1>1, <1>2, <1>3 DEF SftpTypes
<1>5. LeaseStory'
  <2>1. ASSUME NEW q \in SftpRequests, Leased(q) PROVE Stands(q)'
    <3>1. request[q].lease \in Sessions /\ Stands(q)
      BY <2>1, StandsNow
    <3>2. request'[q].lease = request[q].lease /\ (request'[q].at = "starting" => request[q].at = "starting")
      BY <1>2
    <3> QED
      BY <3>1, <3>2, <1>1, <1>3 DEF Stands
  <2>2. \A q \in SftpRequests : request'[q].lease = request[q].lease /\ (AtWork(q)' <=> AtWork(q))
    BY <1>2 DEF AtWork
  <2> QED
    BY <2>1, <2>2, LeasesUntouched
<1>6. ClientStory' /\ PoolStory'
  BY <1>1, <1>3 DEF ClientStory, PoolStory
<1>7. SleepStory'
  BY <1>2 DEF SleepStory
<1> QED
  BY <1>4, <1>5, <1>6, <1>7

LEMMA SftpInvStep == SftpInv /\ [SftpNext]_sftpVars => SftpInv'
<1> SUFFICES ASSUME SftpInv, [SftpNext]_sftpVars PROVE SftpInv'
  OBVIOUS
<1> DEFINE still == UNCHANGED <<request, session, pooled, poolDone>>
<1>1. ASSUME NEW r \in SftpRequests, CancelLease(r) PROVE SftpInv'
  <2>1. Leased(r)
    BY <1>1 DEF CancelLease, Leased
  <2>2. request[r].lease \in Sessions
    BY <2>1, StandsNow DEF SftpInv
  <2> QED
    BY <1>1, <2>2, CancelInv DEF CancelLease, SftpInv, SftpTypes
<1>2. ASSUME NEW s \in Sessions, LoseSession(s) PROVE SftpInv'
  BY <1>2, CancelInv DEF LoseSession, SftpInv, SftpTypes
<1>3. ASSUME still, idleTimer' \in [Sessions -> {"none", "set", "fired", "stale"}],
             poolClosed' \in BOOLEAN, poolClosed' => poolDone /\ pooled = {}
      PROVE  SftpInv'
  BY <1>3 DEF SftpInv, SftpTypes, LeaseStory, LeaseOf, Leased, ClientStory, PoolStory, SleepStory, Leasable, Live
<1>4. ASSUME NEW s \in Sessions, IdleTimerFires(s) PROVE SftpInv'
  BY <1>3, <1>4 DEF IdleTimerFires, SftpInv, SftpTypes, PoolStory
<1>5. ASSUME NEW s \in Sessions, ExpireSession(s) PROVE SftpInv'
  <2>1. /\ idleTimer' \in [Sessions -> {"none", "set", "fired", "stale"}]
        /\ UNCHANGED <<request, pooled, poolDone, poolClosed>>
    BY <1>5 DEF ExpireSession, SftpInv, SftpTypes
  <2>2. CASE session' = session
    BY <1>3, <2>1, <2>2 DEF SftpInv, SftpTypes, PoolStory
  <2>3. CASE ~session[s].busy /\ session' = SessionCancelled(s, "idle")
    BY <2>1, <2>3, CancelInv
  <2> QED
    BY <1>5, <2>2, <2>3 DEF ExpireSession, ExpireIdle
<1>6. CASE PoolCloses
  BY <1>3, <1>6 DEF PoolCloses, SftpInv, SftpTypes
<1>7. CASE UNCHANGED sftpVars
  BY <1>3, <1>7 DEF sftpVars, SftpInv, SftpTypes, PoolStory
<1>8. ASSUME NEW r \in SftpRequests, Lease(r) PROVE SftpInv'
  BY <1>8, AskingInv, ReuseInv, CreateInv, StartSessionInv, CloseSessionInv DEF Lease
<1> QED
  BY <1>1, <1>2, <1>4, <1>5, <1>6, <1>7, <1>8, AskingInv, ForgetInv, ClosePoolInv DEF SftpNext

---------------------------------------------------------------------------
(* What follows *)

\* Two holders of a session would be one request; and the limit of the pool is met exactly.
LEMMA IInvLeases == SftpInv => SessionsAreLeased
<1> SUFFICES ASSUME SftpInv PROVE SessionsAreLeased
  OBVIOUS
<1> USE DEF SftpInv
<1>1. ASSUME NEW s \in Sessions
      PROVE  Cardinality(Holders(s)) <= 1 /\ (session[s].why = "idle" => Holders(s) = {})
  <2>1. CASE Holders(s) = {}
    BY <2>1, FS_EmptySet
  <2>2. CASE Holders(s) # {}
    <3>1. PICK r \in SftpRequests : request[r].lease = s
      BY <2>2 DEF Holders
    <3>2. Leased(r)
      BY <3>1, SftpAssumption DEF Leased
    <3>3. Holders(s) = {r}
      BY <3>1, <3>2, StandsNow DEF Holders
    <3>4. session[s].why # "idle"
      BY <3>1, <3>2, StandsNow DEF Stands
    <3>5. Cardinality({r}) = 1
      BY FS_Singleton
    <3> QED
      BY <3>3, <3>4, <3>5
  <2> QED
    BY <2>1, <2>2
<1>2. ASSUME NEW r \in SftpRequests, request[r].at = "waiting"
      PROVE  ~poolDone /\ Cardinality(pooled) = PoolLimit /\ \A s \in pooled : ~Leasable(s)
  <2>1. Cardinality(pooled) \in Nat /\ PoolLimit \in Nat
    BY PoolFinite, SftpAssumption
  <2> QED
    BY <1>2, <2>1 DEF PoolStory, SleepStory
<1>3. poolClosed => \A s \in Sessions : session[s].client # "open"
  BY DEF PoolStory, ClientStory
<1> QED
  BY <1>1, <1>2, <1>3 DEF SessionsAreLeased

\* The types of the pool, for any requests and any limit.
THEOREM SftpTypesHold == SftpSpec => []SftpTypes
<1>1. SftpInv => SftpTypes
  BY DEF SftpInv
<1> QED
  BY SftpInvInit, SftpInvStep, <1>1, PTL DEF SftpSpec

\* A session of acquireSFTPSession serves one request at a time and does not expire under
\* it; a request sleeps only while the pool is full and busy, so that no notification is
\* lost; and closeSFTPPool returns when no client is open any more.
THEOREM SessionsLeased == SftpSpec => []SessionsAreLeased
BY SftpInvInit, SftpInvStep, IInvLeases, PTL DEF SftpSpec

---------------------------------------------------------------------------
(* The tree *)

\* A directory is higher up than what is below it.
LEMMA DepthGrows ==
  ASSUME NEW e \in Entries
  PROVE  /\ IsFiniteSet(Above[e]) /\ Depth(e) \in Nat /\ Above[e] \subseteq Directories /\ e \notin Above[e]
         /\ \A d \in Above[e] : Depth(d) < Depth(e)
<1>1. IsFiniteSet(Directories)
  BY TreeAssumption, FS_Subset
<1>2. \A x \in Entries : Above[x] \subseteq Directories /\ IsFiniteSet(Above[x])
  BY <1>1, TreeAssumption, FS_Subset
<1>3. Depth(e) \in Nat
  BY <1>2, FS_CardinalityType DEF Depth
<1>4. ASSUME NEW d \in Above[e] PROVE Depth(d) < Depth(e)
  <2>1. d \in Entries /\ Above[d] \subseteq Above[e] /\ Above[d] # Above[e]
    BY <1>2, TreeAssumption
  <2> QED
    BY <2>1, <1>2, FS_Subset, FS_CardinalityType DEF Depth
<1> QED
  BY <1>2, <1>3, <1>4, TreeAssumption

\* The depth of a directory is a level of the tree.
LEMMA DepthBound ==
  /\ MaxDepth \in Nat
  /\ \A d \in Directories : Depth(d) \in Nat /\ Depth(d) < MaxDepth
<1>1. IsFiniteSet(Directories)
  BY TreeAssumption, FS_Subset
<1>2. MaxDepth \in Nat
  BY <1>1, FS_CardinalityType DEF MaxDepth
<1>3. ASSUME NEW d \in Directories PROVE Depth(d) \in Nat /\ Depth(d) < MaxDepth
  <2>1. Above[d] \subseteq Directories /\ Above[d] # Directories /\ Depth(d) \in Nat
    BY DepthGrows, TreeAssumption
  <2> QED
    BY <2>1, <1>1, FS_Subset, FS_CardinalityType DEF Depth, MaxDepth
<1> QED
  BY <1>2, <1>3

\* An entry is found in one directory.
LEMMA OneParent ==
  ASSUME NEW c \in Entries, NEW d \in Directories, NEW f \in Directories,
         c \in ChildrenOf(d), c \in ChildrenOf(f)
  PROVE  d = f
<1>1. d \in Above[c] /\ f \in Above[c] /\ Depth(d) = Depth(f)
  BY DepthGrows, TreeAssumption DEF ChildrenOf
<1>2. d \in Entries /\ f \in Entries
  BY TreeAssumption
<1>3. d \notin Above[f] /\ f \notin Above[d]
  BY <1>1, <1>2, DepthGrows
<1> QED
  BY <1>1, <1>3, TreeAssumption

\* The way from a directory down to an entry below it begins with one found in the directory.
LEMMA WayDown ==
  ASSUME NEW e \in Entries, NEW d \in Above[e]
  PROVE  \E c \in ChildrenOf(d) : c = e \/ c \in Above[e]
<1> DEFINE Below == {f \in Above[e] \cup {e} : d \in Above[f]}
           Paths == {Above[f] : f \in Below}
<1>1. d \in Entries /\ \A f \in Below : f \in Entries /\ IsFiniteSet(Above[f]) /\ Above[f] \subseteq Directories
  BY DepthGrows, TreeAssumption
<1>2. Paths # {} /\ Paths \subseteq FiniteSubsetsOf(Directories)
  BY <1>1 DEF FiniteSubsetsOf
<1>3. PICK P \in Paths : \A Q \in Paths : <<Q, P>> \notin StrictSubsetOrdering(Directories)
  <2>1. IsWellFoundedOn(StrictSubsetOrdering(Directories), FiniteSubsetsOf(Directories))
    BY FS_StrictSubsetOrderingWellFounded
  <2> HIDE DEF Paths
  <2> QED
    BY <2>1, <1>2, WFMin
<1>4. PICK c \in Below : P = Above[c]
  BY <1>3
<1>5. c \in Entries /\ d \in Above[c] /\ (c = e \/ c \in Above[e])
  BY <1>1, <1>4
<1>6. Above[c] = Above[d] \cup {d}
  <2>1. Above[d] \cup {d} \subseteq Above[c]
    BY <1>5, TreeAssumption
  <2>2. ASSUME NEW f \in Above[c], f \notin Above[d], f # d PROVE FALSE
    <3>1. d \in Above[f]
      BY <1>5, <2>2, TreeAssumption
    <3>2. f \in Above[e] /\ f \in Entries /\ Above[f] \subseteq Above[c] /\ Above[f] # Above[c]
      BY <1>5, <2>2, DepthGrows, TreeAssumption
    <3>3. Above[f] \in Paths /\ f \in Below
      BY <3>1, <3>2
    <3>4. <<Above[f], Above[c]>> \in StrictSubsetOrdering(Directories)
      BY <3>2, <3>3, <1>1, <1>4 DEF StrictSubsetOrdering
    <3> QED
      BY <3>3, <3>4, <1>3, <1>4
  <2> QED
    BY <2>1, <2>2
<1>7. Depth(c) = Depth(d) + 1
  BY <1>1, <1>5, <1>6, DepthGrows, FS_AddElement DEF Depth
<1> QED
  BY <1>5, <1>7 DEF ChildrenOf

---------------------------------------------------------------------------
(* The inductive invariant of a deletion *)

\* The directories that still wait for their level, and the entries with a verdict.
Later == {d \in scan.listed : Depth(d) < level}
Verdict == progress.removed \cup progress.failed \cup progress.skipped

\* An entry has one remover.
HandStory ==
  \A r \in Removers : /\ \A a, b \in hands[r] : a = b
                      /\ hands[r] \cap queue = {}
                      /\ \A q \in Removers \ {r} : hands[r] \cap hands[q] = {}

\* Where the entries come from: each was found in a directory that was read.
ScanStory ==
  /\ scan.stack \cup scan.listed \subseteq progress.discovered
  /\ scan.stack \cap scan.listed = {}
  /\ \A e \in progress.discovered \ {Top} : \E d \in scan.listed : e \in ChildrenOf(d)
  /\ scan.stack # {} => level = MaxDepth /\ Pending \cap Directories = {}

\* Every entry discovered is at one place, and only the end of the context loses one.
DeletionPlaceStory ==
  /\ scan.stack \cup Later \cup Pending \cup Verdict \subseteq progress.discovered
  /\ ~jobEnded => progress.discovered \subseteq scan.stack \cup Later \cup Pending \cup Verdict
  /\ scan.stack \cap (Later \cup Pending \cup Verdict) = {}
  /\ Later \cap (Pending \cup Verdict) = {} /\ Pending \cap Verdict = {}
  /\ progress.removed \cap (progress.failed \cup progress.skipped) = {}
  /\ progress.failed \cap progress.skipped = {}

\* A failure blocks all that is above it; a blocked directory is skipped.
BlockStory ==
  /\ \A e \in progress.failed : Above[e] \subseteq blocked
  /\ \A d \in blocked : Above[d] \subseteq blocked
  /\ progress.skipped \subseteq blocked

\* What exists is reached through what exists; what was removed does not.
TreeStory ==
  /\ \A e \in present : Above[e] \subseteq present
  /\ progress.removed \cap present = {}

\* A level waits until everything found in its directories is removed.
DeletionOrderStory ==
  scan.listed # {} => \A d \in Pending \cap Directories : ChildrenOf(d) \cap progress.discovered \subseteq progress.removed

\* How the job ends, and what is known then.
DeletionEndStory ==
  /\ job = "none" => progress.discovered = {} /\ level = MaxDepth
  /\ job \in {"completed", "cancelled", "failed"} => Pending = {} /\ (jobEnded \/ scan.stack = {})
  /\ job = "completed" => Top \in progress.removed
  /\ job = "failed" /\ progress.discovered # {} => ~jobEnded /\ scan.stack = {} /\ level = 0

DeletionInv ==
  DeletionTypes /\ HandStory /\ ScanStory /\ DeletionPlaceStory /\ BlockStory /\ TreeStory /\ DeletionOrderStory /\ DeletionEndStory

---------------------------------------------------------------------------
(* What the steps do *)

ProgressRecord == [discovered : SUBSET Entries, removed : SUBSET Entries,
                   failed : SUBSET Entries, skipped : SUBSET Entries]

\* What is at work after an entry was taken, or its removal is over.
LEMMA TakeMoves ==
  ASSUME DeletionTypes, HandStory, NEW r \in Removers, TakeJob(r)
  PROVE  /\ Pending' \subseteq Pending /\ (~jobEnded => Pending' = Pending) /\ HandStory'
         /\ hands' \in [Removers -> SUBSET Entries] /\ queue' \subseteq Entries
<1>1. PICK e \in queue : queue' = queue \ {e} /\ hands' = [hands EXCEPT ![r] = IF jobEnded THEN {} ELSE {e}] /\ hands[r] = {}
  BY DEF TakeJob
<1>2. /\ e \in Entries /\ hands \in [Removers -> SUBSET Entries]
      /\ hands'[r] = (IF jobEnded THEN {} ELSE {e}) /\ \A q \in Removers \ {r} : hands'[q] = hands[q]
  BY <1>1 DEF DeletionTypes
<1>3. hands' \in [Removers -> SUBSET Entries] /\ queue' \subseteq Entries
  BY <1>1, <1>2 DEF DeletionTypes
<1>4. Pending' \subseteq Pending /\ (~jobEnded => Pending' = Pending)
  <2>1. ASSUME NEW x \in Pending' PROVE x \in Pending
    BY <1>1, <1>2, <2>1 DEF Pending
  <2>2. ASSUME ~jobEnded, NEW x \in Pending PROVE x \in Pending'
    BY <1>1, <1>2, <2>2 DEF Pending
  <2> QED
    BY <2>1, <2>2
<1>5. HandStory'
  BY <1>1, <1>2 DEF HandStory
<1> QED
  BY <1>3, <1>4, <1>5

\* An entry whose removal is over leaves the hand, and was at work nowhere else.
LEMMA RemoveMoves ==
  ASSUME DeletionTypes, HandStory, NEW r \in Removers, NEW e \in hands[r], queue' = queue,
         hands' = [hands EXCEPT ![r] = {}]
  PROVE  /\ e \in Entries /\ e \in Pending /\ Pending' = Pending \ {e} /\ HandStory'
         /\ hands' \in [Removers -> SUBSET Entries]
<1>1. /\ e \in Entries /\ hands \in [Removers -> SUBSET Entries]
      /\ hands'[r] = {} /\ \A q \in Removers \ {r} : hands'[q] = hands[q]
  BY DEF DeletionTypes
<1>2. hands' \in [Removers -> SUBSET Entries] /\ e \in Pending
  BY <1>1 DEF Pending
<1>3. Pending' = Pending \ {e}
  <2>1. ASSUME NEW x \in Pending' PROVE x \in Pending /\ x # e
    BY <1>1, <2>1 DEF Pending, HandStory
  <2>2. ASSUME NEW x \in Pending, x # e PROVE x \in Pending'
    BY <1>1, <2>2 DEF Pending, HandStory
  <2> QED
    BY <2>1, <2>2
<1>4. HandStory'
  BY <1>1 DEF HandStory
<1> QED
  BY <1>1, <1>2, <1>3, <1>4

\* Entries that were not at work join the channel.
LEMMA QueueMoves ==
  ASSUME DeletionTypes, HandStory, NEW X \in SUBSET Entries, queue' = queue \cup X, hands' = hands, X \cap Pending = {}
  PROVE  Pending' = Pending \cup X /\ HandStory'
<1>1. Pending' = Pending \cup X
  BY DEF Pending
<1>2. HandStory'
  BY DEF HandStory, Pending
<1> QED
  BY <1>1, <1>2

\* A directory that is read: what is found in it was not known.
LEMMA FoundIsNew ==
  ASSUME DeletionTypes, ScanStory, NEW d \in scan.stack
  PROVE  ChildrenOf(d) \cap progress.discovered = {} /\ d \in Directories
<1>1. d \in Directories /\ scan.listed \subseteq Directories /\ d \notin scan.listed
  BY DEF DeletionTypes, ScanStory
<1>2. ASSUME NEW c \in ChildrenOf(d), c \in progress.discovered PROVE FALSE
  <2>1. c \in Entries /\ c # Top
    BY <1>2, <1>1, TreeAssumption DEF ChildrenOf
  <2>2. PICK f \in scan.listed : c \in ChildrenOf(f)
    BY <2>1, <1>2 DEF ScanStory
  <2> QED
    BY <2>1, <2>2, <1>1, <1>2, OneParent
<1> QED
  BY <1>1, <1>2

---------------------------------------------------------------------------
(* The invariant, step by step *)

\* Nothing is at work before the job starts.
LEMMA StartsDeletion == DeletionInit => DeletionInv
<1> SUFFICES ASSUME DeletionInit PROVE DeletionInv
  OBVIOUS
<1>1. Pending = {} /\ Later = {}
  BY DEF DeletionInit, Nobody, Pending, Later
<1>2. DeletionTypes
  <2>1. MaxDepth \in Nat /\ Top \in Entries
    BY DepthBound, TreeAssumption
  <2>2. level \in 0..MaxDepth
    BY <2>1 DEF DeletionInit
  <2> QED
    BY <2>2 DEF DeletionTypes, DeletionInit, Nobody
<1>3. TreeStory
  BY TreeAssumption DEF TreeStory, DeletionInit
<1> QED
  BY <1>1, <1>2, <1>3
  DEF DeletionInv, DeletionInit, Nobody, HandStory, ScanStory, DeletionPlaceStory, Verdict, BlockStory, DeletionOrderStory, DeletionEndStory

\* The start discovers the root alone.
LEMMA StartKeeps ==
  ASSUME DeletionInv, NEW recursive \in BOOLEAN, StartDeletion(recursive) PROVE DeletionInv'
<1> USE DEF DeletionInv
<1>1. /\ job = "none" /\ job' = "running" /\ progress' = [progress EXCEPT !.discovered = {Top}]
      /\ UNCHANGED <<present, jobEnded, hands, blocked>>
  BY DEF StartDeletion
<1>2. /\ progress.discovered = {} /\ level = MaxDepth /\ scan.stack = {} /\ scan.listed = {} /\ Pending = {} /\ Verdict = {}
      /\ queue = {} /\ (\A r \in Removers : hands[r] = {}) /\ Top \in Entries /\ MaxDepth \in Nat
  BY <1>1, DepthBound, TreeAssumption DEF DeletionEndStory, ScanStory, DeletionPlaceStory, Pending
<1>3. /\ progress' = [discovered |-> {Top}, removed |-> {}, failed |-> {}, skipped |-> {}] /\ Verdict' = {}
      /\ progress' \in ProgressRecord
  BY <1>1, <1>2 DEF DeletionTypes, Verdict, ProgressRecord
<1>4. CASE Top \in Directories /\ recursive
  <2>1. scan' = [stack |-> {Top}, listed |-> {}] /\ UNCHANGED <<level, queue>>
    BY <1>1, <1>2, <1>4 DEF StartDeletion, DeletionTypes
  <2>2. Pending' = {} /\ Later' = {}
    BY <1>1, <1>2, <2>1 DEF Pending, Later
  <2>3. DeletionTypes'
    BY <1>1, <1>3, <1>4, <2>1 DEF DeletionTypes, ProgressRecord
  <2>4. TreeStory' /\ BlockStory'
    BY <1>1, <1>2, <1>3 DEF TreeStory, BlockStory, Verdict
  <2> QED
    BY <1>1, <1>2, <1>3, <2>1, <2>2, <2>3, <2>4 DEF HandStory, ScanStory, DeletionPlaceStory, DeletionOrderStory, DeletionEndStory
<1>5. CASE ~(Top \in Directories /\ recursive)
  <2>1. queue' = {Top} /\ level' = 0 /\ scan' = scan
    BY <1>1, <1>5 DEF StartDeletion
  <2>2. Pending' = {Top} /\ Later' = {}
    BY <1>1, <1>2, <2>1 DEF Pending, Later
  <2>3. DeletionTypes'
    BY <1>1, <1>2, <1>3, <2>1 DEF DeletionTypes, ProgressRecord
  <2>4. TreeStory' /\ BlockStory'
    BY <1>1, <1>2, <1>3 DEF TreeStory, BlockStory, Verdict
  <2> QED
    BY <1>1, <1>2, <1>3, <2>1, <2>2, <2>3, <2>4 DEF HandStory, ScanStory, DeletionPlaceStory, DeletionOrderStory, DeletionEndStory
<1> QED
  BY <1>4, <1>5

\* A root that cannot be inspected ends the job with nothing discovered.
LEMMA InspectKeeps == ASSUME DeletionInv, InspectFails PROVE DeletionInv'
<1> USE DEF DeletionInv
<1>1. /\ job = "none" /\ job' = "failed" /\ UNCHANGED <<present, jobEnded, scan, level, queue, hands, progress, blocked>>
  BY DEF InspectFails
<1>2. UNCHANGED <<Pending, Later, Verdict>> /\ progress.discovered = {} /\ Pending = {}
  BY <1>1 DEF Pending, Later, Verdict, DeletionEndStory, DeletionPlaceStory
<1> QED
  BY <1>1, <1>2 DEF DeletionTypes, HandStory, ScanStory, DeletionPlaceStory, BlockStory, TreeStory, DeletionOrderStory, DeletionEndStory

\* What was found joins what is known; the files are queued, the directories read later.
LEMMA ReadKeeps == ASSUME DeletionInv, NEW d \in Directories, ReadDirectory(d) PROVE DeletionInv'
<1> USE DEF DeletionInv
<1>1. d \in scan.stack /\ ~jobEnded /\ UNCHANGED <<present, job, jobEnded, level, hands>>
  BY DEF ReadDirectory
<1>2. /\ level = MaxDepth /\ Depth(d) \in Nat /\ Depth(d) < MaxDepth /\ Pending \cap Directories = {}
      /\ (\A x \in scan.stack \cup scan.listed : x \in Directories /\ Depth(x) < level)
  BY <1>1, DepthBound DEF ScanStory, DeletionTypes
<1>3. Later = scan.listed
  BY <1>2 DEF Later
<1>4. job \notin {"none", "completed", "cancelled", "failed"}
  BY <1>1 DEF DeletionEndStory, ScanStory
<1>5. CASE /\ Failed(d) /\ scan' = [scan EXCEPT !.stack = @ \ {d}] /\ queue' = queue
  <2>1. /\ progress' = [progress EXCEPT !.failed = @ \cup {d}] /\ blocked' = blocked \cup Above[d]
        /\ scan'.stack = scan.stack \ {d} /\ scan'.listed = scan.listed
        /\ scan' \in [stack : SUBSET Directories, listed : SUBSET Directories]
    BY <1>5 DEF Failed, Blocks, DeletionTypes
  <2>2. /\ progress'.discovered = progress.discovered /\ progress'.removed = progress.removed
        /\ progress'.failed = progress.failed \cup {d} /\ progress'.skipped = progress.skipped
        /\ progress' \in ProgressRecord /\ d \in Entries /\ Above[d] \subseteq Directories
    BY <2>1, TreeAssumption DEF DeletionTypes, ProgressRecord
  <2>3. Pending' = Pending /\ Later' = Later /\ Verdict' = Verdict \cup {d}
    BY <1>1, <1>5, <2>1, <2>2 DEF Pending, Later, Verdict
  <2>4. DeletionTypes'
    BY <1>1, <1>5, <2>1, <2>2 DEF DeletionTypes, ProgressRecord
  <2>5. DeletionPlaceStory'
    BY <1>1, <2>1, <2>2, <2>3 DEF DeletionPlaceStory, Verdict
  <2>6. BlockStory'
    BY <2>1, <2>2, TreeAssumption DEF BlockStory, DeletionTypes
  <2>7. DeletionOrderStory'
    BY <1>2, <2>3 DEF DeletionOrderStory
  <2>8. HandStory' /\ ScanStory' /\ TreeStory' /\ DeletionEndStory'
    BY <1>1, <1>2, <1>4, <1>5, <2>1, <2>2, <2>3 DEF HandStory, ScanStory, TreeStory, DeletionEndStory
  <2> QED
    BY <2>4, <2>5, <2>6, <2>7, <2>8
<1>6. ASSUME NEW found, found = ChildrenOf(d) \cap present,
             progress' = [progress EXCEPT !.discovered = @ \cup found],
             scan' = [stack |-> (scan.stack \ {d}) \cup (found \cap Directories), listed |-> scan.listed \cup {d}],
             queue' = queue \cup (found \ Directories), blocked' = blocked
      PROVE  DeletionInv'
  <2>1. found \subseteq Entries /\ found \subseteq ChildrenOf(d) /\ found \cap progress.discovered = {}
    BY <1>1, <1>6, FoundIsNew DEF ChildrenOf
  <2>2. /\ progress'.discovered = progress.discovered \cup found /\ progress'.removed = progress.removed
        /\ progress'.failed = progress.failed /\ progress'.skipped = progress.skipped
        /\ progress' \in ProgressRecord
    BY <1>6, <2>1 DEF DeletionTypes, ProgressRecord
  <2>3. /\ scan'.stack = (scan.stack \ {d}) \cup (found \cap Directories) /\ scan'.listed = scan.listed \cup {d}
        /\ scan' \in [stack : SUBSET Directories, listed : SUBSET Directories]
    BY <1>6 DEF DeletionTypes
  <2>4. Pending \subseteq progress.discovered /\ scan.stack \cup scan.listed \cup Verdict \subseteq progress.discovered
    BY DEF DeletionPlaceStory, ScanStory
  <2>5. Pending' = Pending \cup (found \ Directories) /\ HandStory'
    <3>1. found \ Directories \in SUBSET Entries /\ (found \ Directories) \cap Pending = {}
      BY <2>1, <2>4
    <3> QED
      BY <3>1, <1>1, <1>6, QueueMoves
  <2>6. Later' = Later \cup {d} /\ Verdict' = Verdict
    BY <1>1, <1>2, <1>3, <2>2, <2>3 DEF Later, Verdict
  <2>7. DeletionTypes'
    BY <1>1, <1>6, <2>1, <2>2, <2>3 DEF DeletionTypes, ProgressRecord
  <2>8. DeletionPlaceStory'
    <3>1. /\ (scan.stack \cup Later \cup Pending \cup Verdict)' =
                (scan.stack \cup Later \cup Pending \cup Verdict) \cup found
      BY <1>1, <2>1, <2>3, <2>5, <2>6
    <3> QED
      BY <3>1, <1>1, <2>1, <2>2, <2>3, <2>4, <2>5, <2>6 DEF DeletionPlaceStory
  <2>9. ScanStory'
    BY <1>1, <1>2, <2>1, <2>2, <2>3, <2>4, <2>5 DEF ScanStory
  <2>10. DeletionOrderStory'
    BY <1>2, <2>5 DEF DeletionOrderStory
  <2>11. BlockStory' /\ TreeStory' /\ DeletionEndStory'
    BY <1>1, <1>4, <1>6, <2>2, <2>5 DEF BlockStory, TreeStory, DeletionEndStory
  <2> QED
    BY <2>5, <2>7, <2>8, <2>9, <2>10, <2>11
<1> QED
  BY <1>5, <1>6 DEF ReadDirectory

\* A remover takes an entry, or lets it go when the context is over.
LEMMA TakeKeeps == ASSUME DeletionInv, NEW r \in Removers, TakeJob(r) PROVE DeletionInv'
<1> USE DEF DeletionInv
<1>1. UNCHANGED <<present, job, jobEnded, scan, level, progress, blocked>>
  BY DEF TakeJob
<1>2. /\ Pending' \subseteq Pending /\ (~jobEnded => Pending' = Pending) /\ HandStory'
      /\ hands' \in [Removers -> SUBSET Entries] /\ queue' \subseteq Entries
  BY TakeMoves
<1>3. Later' = Later /\ Verdict' = Verdict
  BY <1>1 DEF Later, Verdict
<1>4. DeletionTypes' /\ ScanStory' /\ DeletionPlaceStory'
  BY <1>1, <1>2, <1>3 DEF DeletionTypes, ScanStory, DeletionPlaceStory
<1> QED
  BY <1>1, <1>2, <1>3, <1>4 DEF BlockStory, TreeStory, DeletionOrderStory, DeletionEndStory

\* Nothing exists below a directory in which nothing is found.
LEMMA NothingBelow ==
  ASSUME TreeStory, present \subseteq Entries, NEW e \in Entries, ChildrenOf(e) \cap present = {}
  PROVE  \A x \in present : e \notin Above[x]
<1> SUFFICES ASSUME NEW x \in present, e \in Above[x] PROVE FALSE
  OBVIOUS
<1>1. PICK c \in ChildrenOf(e) : c = x \/ c \in Above[x]
  BY WayDown
<1> QED
  BY <1>1 DEF TreeStory

\* The entry in a hand gets its verdict.
LEMMA RemoveKeeps == ASSUME DeletionInv, NEW r \in Removers, RemoveEntry(r) PROVE DeletionInv'
<1> USE DEF DeletionInv
<1>1. PICK e \in hands[r] :
        /\ hands' = [hands EXCEPT ![r] = {}]
        /\ \/ /\ ChildrenOf(e) \cap present = {} /\ present' = present \ {e}
              /\ progress' = [progress EXCEPT !.removed = @ \cup {e}] /\ UNCHANGED blocked
           \/ /\ ~jobEnded /\ Failed(e) /\ UNCHANGED present
           \/ /\ jobEnded /\ UNCHANGED <<present, progress, blocked>>
        /\ UNCHANGED <<job, jobEnded, scan, level, queue>>
  BY DEF RemoveEntry
<1>2. e \in Entries /\ e \in Pending /\ Pending' = Pending \ {e} /\ HandStory' /\ hands' \in [Removers -> SUBSET Entries]
  BY <1>1, RemoveMoves
<1>3. Later' = Later /\ job \notin {"none", "completed", "failed"} /\ e \in progress.discovered
  BY <1>1, <1>2 DEF Later, DeletionEndStory, DeletionPlaceStory
<1>4. CASE /\ ChildrenOf(e) \cap present = {} /\ present' = present \ {e}
           /\ progress' = [progress EXCEPT !.removed = @ \cup {e}] /\ UNCHANGED blocked
  <2>1. /\ progress'.discovered = progress.discovered /\ progress'.removed = progress.removed \cup {e}
        /\ progress'.failed = progress.failed /\ progress'.skipped = progress.skipped /\ progress' \in ProgressRecord
    BY <1>2, <1>4 DEF DeletionTypes, ProgressRecord
  <2>2. Verdict' = Verdict \cup {e}
    BY <2>1 DEF Verdict
  <2>3. DeletionPlaceStory'
    BY <1>1, <1>2, <1>3, <2>1, <2>2 DEF DeletionPlaceStory, Verdict
  <2>4. TreeStory'
    <3>1. \A x \in present : e \notin Above[x]
      BY <1>2, <1>4, NothingBelow DEF DeletionTypes
    <3> QED
      BY <3>1, <1>4, <2>1 DEF TreeStory
  <2>5. DeletionTypes' /\ ScanStory' /\ DeletionOrderStory'
    BY <1>1, <1>2, <1>4, <2>1 DEF DeletionTypes, ProgressRecord, ScanStory, DeletionOrderStory
  <2> QED
    BY <1>1, <1>2, <1>3, <1>4, <2>1, <2>3, <2>4, <2>5 DEF BlockStory, DeletionEndStory
<1>5. CASE ~jobEnded /\ Failed(e) /\ UNCHANGED present
  <2>1. /\ progress'.discovered = progress.discovered /\ progress'.removed = progress.removed
        /\ progress'.failed = progress.failed \cup {e} /\ progress'.skipped = progress.skipped /\ progress' \in ProgressRecord
        /\ blocked' = blocked \cup Above[e] /\ Above[e] \subseteq Directories
    BY <1>2, <1>5, TreeAssumption DEF DeletionTypes, ProgressRecord, Failed, Blocks
  <2>2. Verdict' = Verdict \cup {e}
    BY <2>1 DEF Verdict
  <2>3. DeletionPlaceStory'
    BY <1>1, <1>2, <1>3, <2>1, <2>2 DEF DeletionPlaceStory, Verdict
  <2>4. BlockStory'
    BY <1>2, <2>1, TreeAssumption DEF BlockStory, DeletionTypes
  <2>5. DeletionTypes' /\ ScanStory' /\ DeletionOrderStory'
    BY <1>1, <1>2, <1>5, <2>1 DEF DeletionTypes, ProgressRecord, ScanStory, DeletionOrderStory
  <2> QED
    BY <1>1, <1>2, <1>3, <1>5, <2>1, <2>3, <2>4, <2>5 DEF TreeStory, DeletionEndStory
<1>6. CASE jobEnded /\ UNCHANGED <<present, progress, blocked>>
  <2>1. Verdict' = Verdict
    BY <1>6 DEF Verdict
  <2>2. DeletionTypes' /\ ScanStory' /\ DeletionPlaceStory' /\ DeletionOrderStory'
    BY <1>1, <1>2, <1>3, <1>6, <2>1 DEF DeletionTypes, ScanStory, DeletionPlaceStory, DeletionOrderStory
  <2> QED
    BY <1>1, <1>2, <1>3, <1>6, <2>2 DEF BlockStory, TreeStory, DeletionEndStory
<1> QED
  BY <1>1, <1>4, <1>5, <1>6

\* The next level: what was found in its directories is gone, or they are blocked.
LEMMA LevelKeeps == ASSUME DeletionInv, QueueLevel PROVE DeletionInv'
<1> USE DEF DeletionInv
<1> DEFINE targets == {d \in scan.listed : Depth(d) = level - 1}
<1>1. /\ ~jobEnded /\ scan.stack = {} /\ Pending = {} /\ level > 0 /\ level' = level - 1
      /\ queue' = targets \ blocked /\ progress' = [progress EXCEPT !.skipped = @ \cup (targets \cap blocked)]
      /\ job \in {"running", "stopping"} /\ UNCHANGED <<present, job, jobEnded, scan, hands, blocked>>
  BY DEF QueueLevel, AllDone, Running
<1>2. /\ queue = {} /\ targets \subseteq Directories /\ Directories \subseteq Entries /\ level \in Nat /\ level' \in Nat
      /\ MaxDepth \in Nat /\ (\A d \in scan.listed : Depth(d) \in Nat)
  BY <1>1, TreeAssumption, DepthBound DEF Pending, DeletionTypes
<1>3. Later = Later' \cup targets /\ targets \cap Later' = {} /\ Later' \subseteq Later
  BY <1>1, <1>2 DEF Later
<1>4. Pending' = targets \ blocked /\ HandStory'
  <2>1. targets \ blocked \in SUBSET Entries /\ queue' = queue \cup (targets \ blocked) /\ (targets \ blocked) \cap Pending = {}
    BY <1>1, <1>2
  <2> HIDE DEF targets
  <2> QED
    BY <2>1, <1>1, QueueMoves
<1>5. /\ progress'.discovered = progress.discovered /\ progress'.removed = progress.removed
      /\ progress'.failed = progress.failed /\ progress'.skipped = progress.skipped \cup (targets \cap blocked)
      /\ progress' \in ProgressRecord
  BY <1>1, <1>2 DEF DeletionTypes, ProgressRecord
<1>6. Verdict' = Verdict \cup (targets \cap blocked)
  BY <1>5 DEF Verdict
<1>7. DeletionTypes'
  <2>1. level' \in 0..MaxDepth
    BY <1>1, <1>2 DEF DeletionTypes
  <2> QED
    BY <2>1, <1>1, <1>2, <1>5 DEF DeletionTypes, ProgressRecord
<1>8. DeletionPlaceStory'
  <2> HIDE DEF targets
  <2> QED
    BY <1>1, <1>3, <1>4, <1>5, <1>6 DEF DeletionPlaceStory, Verdict
<1>9. DeletionOrderStory'
  <2> SUFFICES ASSUME NEW d \in targets \ blocked, NEW c \in ChildrenOf(d), c \in progress.discovered PROVE c \in progress.removed
    BY <1>4, <1>5 DEF DeletionOrderStory
  <2>1. c \in Entries /\ d \in Above[c] /\ Depth(c) = level
    BY <1>2 DEF ChildrenOf
  <2>2. c \notin Later
    BY <2>1, <1>2 DEF Later
  <2>3. c \in Verdict
    BY <2>2, <1>1 DEF DeletionPlaceStory
  <2>4. c \notin progress.failed
    BY <2>1 DEF BlockStory
  <2>5. c \notin progress.skipped
    BY <2>1, TreeAssumption DEF BlockStory
  <2> QED
    BY <2>3, <2>4, <2>5 DEF Verdict
<1>10. ScanStory' /\ BlockStory' /\ TreeStory' /\ DeletionEndStory'
  BY <1>1, <1>5 DEF ScanStory, BlockStory, TreeStory, DeletionEndStory
<1> QED
  BY <1>4, <1>7, <1>8, <1>9, <1>10

\* A step of which only the job and the end of its context are seen.
LEMMA EndKeeps == ASSUME DeletionInv, EndDeletion \/ CancelDeletion \/ UNCHANGED deletionVars PROVE DeletionInv'
<1> USE DEF DeletionInv
<1>1. UNCHANGED <<present, scan, level, queue, hands, progress, blocked>>
  BY DEF EndDeletion, CancelDeletion, deletionVars
<1>2. UNCHANGED <<Pending, Later, Verdict>>
  BY <1>1 DEF Pending, Later, Verdict
<1>3. HandStory' /\ ScanStory' /\ BlockStory' /\ TreeStory' /\ DeletionOrderStory'
  BY <1>1, <1>2 DEF HandStory, ScanStory, BlockStory, TreeStory, DeletionOrderStory
<1>4. CASE EndDeletion
  <2>1. DeletionTypes' /\ DeletionEndStory'
    BY <1>1, <1>2, <1>4 DEF EndDeletion, DeletionTypes, DeletionEndStory, Running
  <2>2. DeletionPlaceStory'
    BY <1>1, <1>2, <1>4 DEF EndDeletion, DeletionPlaceStory
  <2> QED
    BY <1>3, <2>1, <2>2
<1>5. CASE CancelDeletion
  <2>1. DeletionTypes' /\ DeletionEndStory'
    BY <1>1, <1>2, <1>5 DEF CancelDeletion, DeletionTypes, DeletionEndStory
  <2>2. DeletionPlaceStory'
    BY <1>1, <1>2, <1>5 DEF CancelDeletion, DeletionPlaceStory
  <2> QED
    BY <1>3, <2>1, <2>2
<1>6. CASE UNCHANGED deletionVars
  BY <1>2, <1>3, <1>6 DEF deletionVars, DeletionTypes, DeletionEndStory, DeletionPlaceStory
<1> QED
  BY <1>4, <1>5, <1>6

\* Every step keeps the stories of the deletion.
LEMMA DeletionStep == DeletionInv /\ [DeletionNext]_deletionVars => DeletionInv'
BY StartKeeps, InspectKeeps, ReadKeeps, TakeKeeps, RemoveKeeps, LevelKeeps, EndKeeps DEF DeletionNext, Deleting

\* The state of a deletion keeps its type: the job, the scan, the hands and the verdicts.
THEOREM DeletionTypesHold == DeletionSpec => []DeletionTypes
<1>1. DeletionInv => DeletionTypes
  BY DEF DeletionInv
<1> QED
  BY <1>1, StartsDeletion, DeletionStep, PTL DEF DeletionSpec

\* The stories imply the order of the deletion.
LEMMA StoriesOrder == DeletionInv => DeletionIsOrderly
<1> SUFFICES ASSUME DeletionInv PROVE DeletionIsOrderly
  OBVIOUS
<1> USE DEF DeletionInv
<1>1. job = "completed" => \A e \in Entries : e = Top \/ Top \in Above[e] => e \notin present
  BY DEF DeletionEndStory, TreeStory
<1>2. job = "failed" /\ progress.discovered # {} =>
        progress.discovered = progress.removed \cup progress.failed \cup progress.skipped
  <2> SUFFICES ASSUME job = "failed", progress.discovered # {} PROVE progress.discovered = Verdict
    BY DEF Verdict
  <2>1. ~jobEnded /\ scan.stack = {} /\ level = 0 /\ Pending = {}
    BY DEF DeletionEndStory
  <2>2. Later = {}
    BY <2>1, DepthBound DEF Later, DeletionTypes
  <2> QED
    BY <2>1, <2>2 DEF DeletionPlaceStory
<1>3. \A i, j \in 1..3 : i # j => Accounted[i] \cap Accounted[j] = {}
  BY DEF DeletionPlaceStory, Accounted
<1> QED
  BY <1>1, <1>2, <1>3 DEF DeletionIsOrderly, DeletionOrderStory

\* No directory is tried before everything found in it is gone, and every entry discovered
\* gets one verdict (deleteSFTPTree).
THEOREM DeletionOrderly == DeletionSpec => []DeletionIsOrderly
BY StartsDeletion, DeletionStep, StoriesOrder, PTL DEF DeletionSpec

---------------------------------------------------------------------------
(* How one file is changed *)

Under(c) == step[c] \in {"begin", "stage", "fill", "check", "look", "put"}

\* A change under way has told and replaced nothing; what it is about to replace is what
\* it looked for, or came since; what it has replaced stays what it was.
ChangeStory(c) ==
  /\ Under(c) => result[c] = "" /\ ~Applied(c)
  /\ step[c] = "begin" => staged[c] = "none"
  /\ step[c] = "clean" => result[c] # ""
  /\ step[c] = "put" /\ how[c].wants = "seen" => target \in {seen[c]} \cup since[c]
  /\ step[c] = "put" /\ how[c].wants = "old" => target \in {"old"} \cup since[c]
  /\ Applied(c) => /\ how[c].exclusive => replaced[c] = "none"
                   /\ how[c].wants = "seen" => replaced[c] \in {seen[c]} \cup since[c]
                   /\ how[c].wants = "old" => replaced[c] \in {"old"} \cup since[c]
  /\ result[c] = "refused" => ~Applied(c)
  /\ result[c] = "ok" => Applied(c)
  /\ step[c] = "done" /\ result[c] \in {"ok", "refused"} => staged[c] = "none"

FileInv ==
  /\ FileTypes /\ since \in [Changes -> SUBSET FileContents]
  /\ \A c \in Changes : ChangeStory(c)
  /\ target = "torn" => \E c \in Changes : ~how[c].synced

\* Who wants the content that it saw, or the one it was told of, looks twice.
LEMMA SecondLook ==
  ASSUME FileTypes, NEW c \in Changes, how[c].wants \in {"seen", "old"}
  PROVE  how[c].again
<1>1. how[c] \in Ways
  BY FileAssumption DEF FileTypes
<1> QED
  BY <1>1 DEF Ways, WorkspaceEdit, WorkspaceCreate, SaveText, Upload, RemoteEdit, RemoteCreate, SftpUpload, SftpReplace,
              TransferCreate, TransferReplace

LEMMA ContentWords ==
  /\ {"none", "old", "other", "torn"} \cup Changes = FileContents /\ "" \notin FileContents
  /\ "none" \in FileContents /\ "old" \in FileContents /\ "other" \in FileContents /\ "torn" \in FileContents
  /\ \A c \in Changes : c \in FileContents /\ c # "" /\ c # "torn" /\ c # "none"
BY FileAssumption DEF FileContents

LEMMA StartsFile == FileInit => FileInv
<1> SUFFICES ASSUME FileInit PROVE FileInv
  OBVIOUS
<1>1. FileTypes /\ since \in [Changes -> SUBSET FileContents]
  <2>1. target \in FileContents
    BY ContentWords DEF FileInit
  <2> QED
    BY <2>1, ContentWords DEF FileInit, FileTypes
<1>2. \A c \in Changes : ChangeStory(c)
  BY DEF FileInit, ChangeStory, Under, Applied
<1>3. target # "torn"
  BY DEF FileInit
<1> QED
  BY <1>1, <1>2, <1>3 DEF FileInv

\* What a change does is no matter of another one, unless it is about to replace the target.
LEMMA OtherStories ==
  ASSUME NEW c \in Changes, NEW d \in Changes \ {c}, ChangeStory(d), FileTypes, how' = how,
         step'[d] = step[d], seen'[d] = seen[d], staged'[d] = staged[d], result'[d] = result[d], replaced'[d] = replaced[d],
         since[d] \subseteq since'[d], target' = target \/ target' \in since'[d]
  PROVE  ChangeStory(d)'
BY DEF ChangeStory, Under, Applied

\* A step that leaves the target alone: the stories of the others stay.
LEMMA InspectFile == ASSUME FileInv, NEW c \in Changes, Inspect(c) PROVE FileInv'
<1> USE DEF FileInv, FileTypes
<1>1. FileTypes' /\ since' \in [Changes -> SUBSET FileContents]
  BY ZenonT(60) DEF Inspect, Go, Tell, LooksNow
<1>2. \A d \in Changes \ {c} : ChangeStory(d)'
  <2>1. TAKE d \in Changes \ {c}
  <2>2. /\ step'[d] = step[d] /\ seen'[d] = seen[d] /\ result'[d] = result[d] /\ replaced'[d] = replaced[d]
        /\ staged'[d] = staged[d] /\ how' = how
    BY DEF Inspect, Go, Tell, LooksNow
  <2>3. since[d] \subseteq since'[d] /\ target' = target
    BY DEF Inspect, Go, Tell, LooksNow
  <2> QED
    BY <2>2, <2>3, OtherStories
<1>3. ChangeStory(c)'
  BY ZenonT(60) DEF Inspect, Go, Tell, LooksNow, ChangeStory, Under, Applied
<1> QED
  BY <1>1, <1>2, <1>3 DEF Inspect

LEMMA StageFile == ASSUME FileInv, NEW c \in Changes, Stage(c) \/ Fill(c) PROVE FileInv'
<1> USE DEF FileInv, FileTypes
<1>1. FileTypes' /\ since' \in [Changes -> SUBSET FileContents]
  BY DEF Stage, Fill, Go
<1>2. \A d \in Changes \ {c} : ChangeStory(d)'
  BY OtherStories DEF Stage, Fill, Go
<1>3. ChangeStory(c)'
  BY DEF Stage, Fill, Go, ChangeStory, Under, Applied
<1> QED
  BY <1>1, <1>2, <1>3 DEF Stage, Fill

LEMMA CheckFile == ASSUME FileInv, NEW c \in Changes, CheckStaged(c) PROVE FileInv'
<1> USE DEF FileInv, FileTypes
<1>1. FileTypes' /\ since' \in [Changes -> SUBSET FileContents]
  BY DEF CheckStaged, Go, Tell
<1>2. \A d \in Changes \ {c} : ChangeStory(d)'
  <2>1. TAKE d \in Changes \ {c}
  <2>2. /\ step'[d] = step[d] /\ seen'[d] = seen[d] /\ result'[d] = result[d] /\ replaced'[d] = replaced[d]
        /\ staged'[d] = staged[d] /\ how' = how
    BY DEF CheckStaged, Go, Tell
  <2>3. since[d] \subseteq since'[d] /\ target' = target
    BY DEF CheckStaged, Go, Tell
  <2> QED
    BY <2>2, <2>3, OtherStories
<1>3. ChangeStory(c)'
  BY SecondLook, ZenonT(60) DEF CheckStaged, Go, Tell, ChangeStory, Under, Applied
<1> QED
  BY <1>1, <1>2, <1>3 DEF CheckStaged

LEMMA LookAtFile == ASSUME FileInv, NEW c \in Changes, LookAgain(c) PROVE FileInv'
<1> USE DEF FileInv, FileTypes
<1>1. FileTypes' /\ since' \in [Changes -> SUBSET FileContents]
  BY DEF LookAgain, Go, Tell
<1>2. \A d \in Changes \ {c} : ChangeStory(d)'
  <2>1. TAKE d \in Changes \ {c}
  <2>2. /\ step'[d] = step[d] /\ seen'[d] = seen[d] /\ result'[d] = result[d] /\ replaced'[d] = replaced[d]
        /\ staged'[d] = staged[d] /\ how' = how
    BY DEF LookAgain, Go, Tell
  <2>3. since[d] \subseteq since'[d] /\ target' = target
    BY DEF LookAgain, Go, Tell
  <2> QED
    BY <2>2, <2>3, OtherStories
<1>3. ChangeStory(c)'
  BY ZenonT(60) DEF LookAgain, Go, Tell, ChangeStory, Under, Applied, StillWanted, Accepts
<1> QED
  BY <1>1, <1>2, <1>3 DEF LookAgain

LEMMA PutFile == ASSUME FileInv, NEW c \in Changes, Put(c) PROVE FileInv'
<1> USE DEF FileInv, FileTypes
<1>1. CASE how[c].exclusive /\ target # "none"
  <2>1. FileTypes' /\ since' \in [Changes -> SUBSET FileContents]
    BY <1>1 DEF Put, Go, Tell
  <2>2. \A d \in Changes \ {c} : ChangeStory(d)'
    BY <1>1, OtherStories DEF Put, Go, Tell
  <2>3. ChangeStory(c)'
    BY <1>1 DEF Put, Go, Tell, ChangeStory, Under, Applied
  <2> QED
    BY <1>1, <2>1, <2>2, <2>3 DEF Put
<1>2. CASE ~(how[c].exclusive /\ target # "none")
  <2>1. /\ step[c] = "put" /\ step' = [step EXCEPT ![c] = "clean"] /\ target' = c
        /\ since' = [d \in Changes |-> since[d] \cup {c}] /\ replaced' = [replaced EXCEPT ![c] = target]
        /\ staged' = (IF how[c].exclusive THEN staged ELSE [staged EXCEPT ![c] = "none"])
        /\ result' = [result EXCEPT ![c] = "ok"] /\ how' = how /\ seen' = seen
    BY <1>2 DEF Put, Go, Tell, Becomes
  <2>2. c \in FileContents /\ c # "torn"
    BY ContentWords
  <2>3. since' \in [Changes -> SUBSET FileContents]
    BY <2>1, <2>2
  <2>4. FileTypes'
    <3>1. staged' \in [Changes -> {"none", "part", "whole"}]
      BY <2>1
    <3>2. step' \in [Changes -> {"begin", "stage", "fill", "check", "look", "put", "clean", "done"}]
      BY <2>1
    <3>3. replaced' \in [Changes -> {""} \cup FileContents]
      BY <2>1
    <3>4. result' \in [Changes -> {"", "ok", "refused", "failed"}]
      BY <2>1
    <3> QED
      BY <2>1, <2>2, <3>1, <3>2, <3>3, <3>4
  <2>5. \A d \in Changes \ {c} : ChangeStory(d)'
    <3>1. TAKE d \in Changes \ {c}
    <3>2. /\ step'[d] = step[d] /\ seen'[d] = seen[d] /\ result'[d] = result[d] /\ replaced'[d] = replaced[d]
          /\ since[d] \subseteq since'[d] /\ target' \in since'[d]
      BY <2>1
    <3>3. staged'[d] = staged[d]
      BY <2>1
    <3> QED
      BY <2>1, <3>2, <3>3, OtherStories
  <2>6. ChangeStory(c)'
    <3>1. /\ step'[c] = "clean" /\ result'[c] = "ok" /\ replaced'[c] = target /\ seen'[c] = seen[c]
          /\ since[c] \subseteq since'[c]
      BY <2>1
    <3>2. target # "" /\ (how[c].exclusive => target = "none")
      BY <1>2, ContentWords
    <3> QED
      BY <2>1, <3>1, <3>2 DEF ChangeStory, Under, Applied
  <2> QED
    BY <2>1, <2>2, <2>3, <2>4, <2>5, <2>6
<1> QED
  BY <1>1, <1>2

LEMMA EndFile == ASSUME FileInv, NEW c \in Changes, Fail(c) \/ Clean(c) PROVE FileInv'
<1> USE DEF FileInv, FileTypes
<1>1. FileTypes' /\ since' \in [Changes -> SUBSET FileContents]
  BY DEF Fail, Clean, Go, Tell
<1>2. \A d \in Changes \ {c} : ChangeStory(d)'
  BY OtherStories DEF Fail, Clean, Go, Tell
<1>3. ChangeStory(c)'
  BY DEF Fail, Clean, Go, Tell, ChangeStory, Under, Applied
<1> QED
  BY <1>1, <1>2, <1>3 DEF Fail, Clean

LEMMA TakeFileBack == ASSUME FileInv, NEW c \in Changes, TakeBack(c) PROVE FileInv'
<1> USE DEF FileInv, FileTypes
<1>1. FileTypes' /\ since' \in [Changes -> SUBSET FileContents]
  BY ContentWords DEF TakeBack, Tell, Becomes
<1>2. \A d \in Changes \ {c} : ChangeStory(d)'
  <2>1. TAKE d \in Changes \ {c}
  <2>2. /\ step'[d] = step[d] /\ seen'[d] = seen[d] /\ result'[d] = result[d] /\ replaced'[d] = replaced[d]
        /\ staged'[d] = staged[d] /\ how' = how
    BY DEF TakeBack, Tell, Becomes
  <2>3. since[d] \subseteq since'[d] /\ target' \in since'[d]
    BY DEF TakeBack, Tell, Becomes
  <2> QED
    BY <2>2, <2>3, OtherStories
<1>3. ChangeStory(c)'
  BY DEF TakeBack, Tell, Becomes, ChangeStory, Under, Applied
<1>4. target' # "torn"
  BY DEF TakeBack, Becomes
<1> QED
  BY <1>1, <1>2, <1>3, <1>4

LEMMA OutsideFile == ASSUME FileInv, Outside PROVE FileInv'
<1> USE DEF FileInv, FileTypes
<1>1. FileTypes' /\ since' \in [Changes -> SUBSET FileContents]
  BY ContentWords DEF Outside, Becomes
<1>2. \A d \in Changes : ChangeStory(d)'
  BY DEF Outside, Becomes, ChangeStory, Under, Applied
<1>3. target' # "torn"
  BY DEF Outside, Becomes
<1> QED
  BY <1>1, <1>2, <1>3

LEMMA StopFile == ASSUME FileInv, MachineStops PROVE FileInv'
<1> USE DEF FileInv, FileTypes
<1>1. FileTypes' /\ since' \in [Changes -> SUBSET FileContents]
  BY ContentWords DEF MachineStops
<1>2. \A d \in Changes : ChangeStory(d)'
  BY DEF MachineStops, ChangeStory, Under, Applied
<1>3. target' = "torn" => \E c \in Changes : ~how'[c].synced
  BY DEF MachineStops
<1> QED
  BY <1>1, <1>2, <1>3

\* Every step keeps the stories of the changes.
LEMMA FileStep == FileInv /\ [FileNext]_fileVars => FileInv'
<1>1. FileInv /\ UNCHANGED fileVars => FileInv'
  BY ZenonT(60) DEF fileVars, FileInv, FileTypes, ChangeStory, Under, Applied
<1> QED
  BY <1>1, InspectFile, StageFile, CheckFile, LookAtFile, PutFile, EndFile, TakeFileBack, OutsideFile, StopFile
  DEF FileNext

\* The types of a file that changes, of the changes and of what they see, hold.
THEOREM FileTypesHold == FileSpec => []FileTypes
<1>1. FileInv => FileTypes
  BY DEF FileInv
<1> QED
  BY <1>1, StartsFile, FileStep, PTL DEF FileSpec

\* Nothing is lost that a change has not seen, a refused change has changed nothing, and a
\* Workspace never has a torn file (fileedit, sftp, transfer).
THEOREM FileLosesNothing == FileSpec => []NothingLostUnseen
<1>1. FileInv => NothingLostUnseen
  BY DEF FileInv, ChangeStory, NothingLostUnseen
<1> QED
  BY <1>1, StartsFile, FileStep, PTL DEF FileSpec

---------------------------------------------------------------------------
(* The text of an edit, here and on a host *)

\* How many members of a set are smaller: its place in the sorted set, counted from 0.
Rank(set, i) == Cardinality({j \in set : j < i})

\* A function on 1..n is a sequence of length n.
LEMMA ListLength ==
  ASSUME NEW n \in Nat, NEW f, f = [k \in 1..n |-> f[k]]
  PROVE  Len(f) = n /\ DOMAIN f = 1..n /\ f \in Seq({f[k] : k \in 1..n})
<1> DEFINE R == {f[k] : k \in 1..n}
<1>1. f \in [1..n -> R] OBVIOUS
<1>2. f \in Seq(R) BY <1>1
<1>3. Len(f) \in Nat /\ DOMAIN f = 1..Len(f) BY <1>2, LenProperties
<1>4. DOMAIN f = 1..n BY <1>1
<1>5. 1..n = 1..Len(f) BY <1>3, <1>4
<1>6. n = Len(f)
  <2>1. n <= Len(f)
    <3>1. CASE n = 0 BY <3>1, <1>3
    <3>2. CASE n > 0
      <4>1. n \in 1..n BY <3>2
      <4> QED BY <4>1, <1>5, <1>3
    <3> QED BY <3>1, <3>2
  <2>2. Len(f) <= n
    <3>1. CASE Len(f) = 0 BY <3>1
    <3>2. CASE Len(f) > 0
      <4>1. Len(f) \in 1..Len(f) BY <3>2, <1>3
      <4> QED BY <4>1, <1>5
    <3> QED BY <3>1, <3>2, <1>3
  <2> QED BY <2>1, <2>2, <1>3
<1> QED BY <1>2, <1>4, <1>6

\* A smaller member of a finite set has a smaller place.
LEMMA RankGrows ==
  ASSUME NEW set \in SUBSET Nat, IsFiniteSet(set), NEW i \in set, NEW j \in Nat, i < j
  PROVE  Rank(set, i) \in Nat /\ Rank(set, j) \in Nat /\ Rank(set, i) < Rank(set, j)
<1> DEFINE A == {k \in set : k < i}
           B == {k \in set : k < j}
<1>1. A \in SUBSET set /\ B \in SUBSET set OBVIOUS
<1>2. IsFiniteSet(A) /\ IsFiniteSet(B) BY <1>1, FS_Subset
<1>3. Cardinality(A) \in Nat /\ Cardinality(B) \in Nat
  <2>1. Cardinality(A) \in Nat BY <1>2, FS_CardinalityType
  <2>2. Cardinality(B) \in Nat BY <1>2, FS_CardinalityType
  <2> QED BY <2>1, <2>2
<1>4. A \in SUBSET B
  <2> SUFFICES ASSUME NEW k \in set, k < i PROVE k < j OBVIOUS
  <2>1. k \in Nat /\ i \in Nat OBVIOUS
  <2> QED BY <2>1
<1>5. i \in B /\ i \notin A OBVIOUS
<1>6. A # B BY <1>5
<1>7. Cardinality(A) <= Cardinality(B) /\ (Cardinality(B) = Cardinality(A) => B = A)
  BY <1>2, <1>4, FS_Subset
<1>8. Cardinality(A) < Cardinality(B) BY <1>3, <1>6, <1>7
<1> QED BY <1>3, <1>8 DEF Rank

\* The members of a finite set of numbers have all the places there are.
LEMMA RankIsOnto ==
  ASSUME NEW set \in SUBSET Nat, IsFiniteSet(set), NEW k \in 1..Cardinality(set)
  PROVE  \E i \in set : Rank(set, i) = k - 1
<1> DEFINE n == Cardinality(set)
           places == 0..(n - 1)
           f == [i \in set |-> Rank(set, i)]
<1>1. n \in Nat BY FS_CardinalityType
<1>2. \A i \in set : Rank(set, i) \in places
  <2> TAKE i \in set
  <2> DEFINE A == {j \in set : j < i}
  <2>1. A \in SUBSET set OBVIOUS
  <2>2. i \notin A OBVIOUS
  <2>3. IsFiniteSet(A) BY <2>1, FS_Subset
  <2>4. Cardinality(A) <= n /\ (n = Cardinality(A) => set = A) BY <2>1, FS_Subset
  <2>5. Cardinality(A) \in Nat BY <2>3, FS_CardinalityType
  <2>6. Cardinality(A) # n BY <2>2, <2>4
  <2>7. Cardinality(A) \in places BY <2>4, <2>5, <2>6, <1>1
  <2> QED BY <2>7 DEF Rank
<1>3. \A i, j \in set : Rank(set, i) = Rank(set, j) => i = j
  <2> TAKE i \in set, j \in set
  <2>1. i \in Nat /\ j \in Nat OBVIOUS
  <2>2. CASE i < j BY <2>1, <2>2, RankGrows
  <2>3. CASE j < i BY <2>1, <2>3, RankGrows
  <2> QED BY <2>1, <2>2, <2>3
<1>4. f \in [set -> places] BY <1>2
<1>5. f \in Injection(set, places)
  <2>1. DOMAIN f = set /\ \A i \in set : f[i] = Rank(set, i) OBVIOUS
  <2> HIDE DEF f
  <2>2. \A i, j \in DOMAIN f : f[i] = f[j] => i = j
    <3> TAKE i \in DOMAIN f, j \in DOMAIN f
    <3>1. i \in set /\ j \in set BY <2>1
    <3>2. f[i] = Rank(set, i) /\ f[j] = Rank(set, j) BY <2>1, <3>1
    <3> QED BY <3>1, <3>2, <1>3
  <2> QED BY <2>2, <1>4 DEF Injection, IsInjective
<1>6. IsFiniteSet(places) /\ Cardinality(places) = n
  <2>1. 0 \in Int /\ n - 1 \in Int BY <1>1
  <2>2. /\ IsFiniteSet(places)
        /\ Cardinality(places) = IF 0 > n - 1 THEN 0 ELSE (n - 1) - 0 + 1
    BY <2>1, FS_Interval
  <2> QED BY <2>2, <1>1
<1>7. f \in Surjection(set, places) BY <1>5, <1>6, FS_Injection
<1>8. k - 1 \in places BY <1>1
<1> QED BY <1>7, <1>8 DEF Surjection

\* The sorted set lists its members, one after the other by their size.
LEMMA SortedLists ==
  ASSUME NEW set \in SUBSET Nat, IsFiniteSet(set)
  PROVE  /\ Cardinality(set) \in Nat
         /\ Len(Sorted(set)) = Cardinality(set)
         /\ DOMAIN Sorted(set) = 1..Cardinality(set)
         /\ \A k \in 1..Cardinality(set) : Sorted(set)[k] \in set /\ Rank(set, Sorted(set)[k]) = k - 1
         /\ \A k, l \in 1..Cardinality(set) : k < l => Sorted(set)[k] < Sorted(set)[l]
<1> DEFINE n == Cardinality(set)
<1>1. n \in Nat BY FS_CardinalityType
<1>2. Sorted(set) = [k \in 1..n |-> Sorted(set)[k]] BY SMTT(30) DEF Sorted
<1>3. Len(Sorted(set)) = n /\ DOMAIN Sorted(set) = 1..n BY <1>1, <1>2, ListLength
<1>4. \A k \in 1..n : Sorted(set)[k] = CHOOSE i \in set : Rank(set, i) = k - 1 BY DEF Sorted, Rank
<1>5. \A k \in 1..n : Sorted(set)[k] \in set /\ Rank(set, Sorted(set)[k]) = k - 1
  <2> TAKE k \in 1..n
  <2>1. \E i \in set : Rank(set, i) = k - 1 BY RankIsOnto
  <2> QED BY <2>1, <1>4
<1>6. \A k, l \in 1..n : k < l => Sorted(set)[k] < Sorted(set)[l]
  <2> SUFFICES ASSUME NEW k \in 1..n, NEW l \in 1..n, k < l
               PROVE  Sorted(set)[k] < Sorted(set)[l]
    OBVIOUS
  <2> DEFINE a == Sorted(set)[k]
             b == Sorted(set)[l]
  <2>1. a \in set /\ b \in set /\ Rank(set, a) = k - 1 /\ Rank(set, b) = l - 1 BY <1>5
  <2>2. a \in Nat /\ b \in Nat BY <2>1
  <2> HIDE DEF a, b
  <2>3. a # b BY <2>1, <1>1
  <2>4. ~(b < a)
    <3> SUFFICES ASSUME b < a PROVE FALSE OBVIOUS
    <3>1. Rank(set, b) < Rank(set, a) BY <2>1, <2>2, RankGrows
    <3> QED BY <3>1, <2>1, <1>1
  <2>5. a < b BY <2>2, <2>3, <2>4
  <2> QED BY <2>5 DEF a, b
<1> QED BY <1>1, <1>3, <1>5, <1>6

\* A finite set of numbers that has a member has a smallest one.
LEMMA SmallestExists ==
  ASSUME NEW set \in SUBSET Nat, IsFiniteSet(set), set # {}
  PROVE  \E i \in set : \A j \in set : i <= j
<1> DEFINE n == Cardinality(set)
           a == Sorted(set)[1]
<1>1. n \in Nat /\ n # 0 BY FS_CardinalityType, FS_EmptySet
<1>2. 1 \in 1..n BY <1>1
<1>3. a \in set /\ Rank(set, a) = 0 BY <1>2, SortedLists
<1> HIDE DEF a, n
<1>4. \A j \in set : a <= j
  <2> SUFFICES ASSUME NEW j \in set, ~(a <= j) PROVE FALSE OBVIOUS
  <2>1. a \in Nat /\ j \in Nat BY <1>3
  <2>2. j < a BY <2>1
  <2>3. Rank(set, j) \in Nat /\ Rank(set, j) < Rank(set, a) BY <1>3, <2>1, <2>2, RankGrows
  <2> QED BY <2>3, <1>3
<1> QED BY <1>3, <1>4

\* Where the lines of a text start.
Starts(text) == {i \in Start(text)..Len(text) : i = Start(text) \/ text[i - 1] = "n"}

LEMMA LineStarts == ASSUME NEW text, NEW start PROVE LineAt(text, start).start = start
BY DEF LineAt

\* The ending of a line that a line feed ends.
LEMMA EndedLine ==
  ASSUME NEW text, NEW start,
         {i \in Positions(text, "n") : i >= start} \in SUBSET Nat,
         NEW feed \in {i \in Positions(text, "n") : i >= start},
         \A j \in {i \in Positions(text, "n") : i >= start} : feed <= j
  PROVE  LineAt(text, start).eol
           = Cut(text, IF feed > start /\ text[feed - 1] = "r" THEN feed - 1 ELSE feed, feed)
<1> DEFINE feeds == {i \in Positions(text, "n") : i >= start}
           first == CHOOSE i \in feeds : \A j \in feeds : i <= j
           feed0 == IF feeds = {} THEN Len(text) + 1 ELSE first
           end0 == IF feeds # {} /\ feed0 > start /\ text[feed0 - 1] = "r" THEN feed0 - 1 ELSE feed0
           after0 == IF feeds = {} THEN feed0 ELSE feed0 + 1
           end == IF feed > start /\ text[feed - 1] = "r" THEN feed - 1 ELSE feed
<1>1. LineAt(text, start)
        = [text |-> Cut(text, start, end0 - 1), start |-> start, end |-> end0, after |-> after0,
           eol |-> Cut(text, end0, after0 - 1)]
  BY DEF LineAt
<1>2. feeds # {} /\ feed \in feeds /\ feed \in Nat OBVIOUS
<1>3. first = feed
  <2>1. first \in feeds /\ \A j \in feeds : first <= j OBVIOUS
  <2>2. first <= feed /\ feed <= first BY <2>1, <1>2
  <2>3. first \in Nat BY <2>1
  <2> QED BY <2>2, <2>3, <1>2
<1> HIDE DEF feeds, first
<1>4. feed0 = feed BY <1>2, <1>3
<1>5. end0 = end BY <1>2, <1>4
<1>6. after0 - 1 = feed BY <1>2, <1>4
<1> HIDE DEF feed0, end0, after0
<1>7. LineAt(text, start).eol = Cut(text, end0, after0 - 1) BY <1>1
<1>8. LineAt(text, start).eol = Cut(text, end, feed) BY <1>5, <1>6, <1>7, Zenon
<1> QED BY <1>8

\* A text as editableTextLines cuts it: its first line starts after the byte-order mark,
\* and every line but the last one has an ending.
LEMMA LinesOfText ==
  ASSUME NEW text \in Seq(Bytes)
  PROVE  LET n == Cardinality(Starts(text)) IN
         /\ n \in Nat /\ Len(Lines(text)) = n /\ DOMAIN Lines(text) = 1..n
         /\ \A k \in 1..n : Lines(text)[k] = LineAt(text, Sorted(Starts(text))[k])
         /\ n >= 1 => Lines(text)[1].start = Start(text)
         /\ \A k \in 1..n : k < n => Lines(text)[k].eol # <<>>
<1> DEFINE S == Starts(text)
           n == Cardinality(S)
           s == Sorted(S)
           first == Start(text)
<1>1. Len(text) \in Nat /\ DOMAIN text = 1..Len(text) BY LenProperties
<1>2. first \in {1, 2} BY DEF Start
<1>3. S \in SUBSET (first..Len(text)) /\ S \in SUBSET Nat BY <1>1, <1>2 DEF Starts
<1>4. IsFiniteSet(S)
  <2>1. first \in Int /\ Len(text) \in Int BY <1>1, <1>2
  <2>2. IsFiniteSet(first..Len(text)) BY <2>1, FS_Interval
  <2> QED BY <2>2, <1>3, FS_Subset
<1>5. /\ n \in Nat /\ Len(s) = n /\ DOMAIN s = 1..n
      /\ \A k \in 1..n : s[k] \in S /\ Rank(S, s[k]) = k - 1
      /\ \A k, l \in 1..n : k < l => s[k] < s[l]
  BY <1>3, <1>4, SortedLists
<1>6. Lines(text) = [k \in 1..n |-> LineAt(text, s[k])] BY <1>5 DEF Lines, Starts
<1>7. \A k \in 1..n : Lines(text)[k] = LineAt(text, s[k]) BY <1>6
<1>8. Len(Lines(text)) = n /\ DOMAIN Lines(text) = 1..n
  <2>1. Lines(text) = [k \in 1..n |-> Lines(text)[k]] BY <1>6
  <2> QED BY <2>1, <1>5, ListLength
<1>9. ASSUME n >= 1 PROVE Lines(text)[1].start = first
  <2>1. 1 \in 1..n BY <1>9, <1>5
  <2>2. s[1] \in S /\ Rank(S, s[1]) = 0 BY <2>1, <1>5
  <2>3. Lines(text)[1].start = s[1]
    <3>1. Lines(text)[1] = LineAt(text, s[1]) BY <2>1, <1>7
    <3> QED BY <3>1, LineStarts
  <2>4. first <= Len(text) /\ first <= s[1] BY <2>2, <1>1, <1>2, <1>3
  <2>5. first \in S BY <2>4, <1>1, <1>2 DEF Starts
  <2> HIDE DEF S, n, s, first
  <2>6. s[1] \in Nat /\ first \in Nat BY <2>2, <2>5, <1>3
  <2>7. ~(first < s[1])
    <3> SUFFICES ASSUME first < s[1] PROVE FALSE OBVIOUS
    <3>1. Rank(S, first) \in Nat /\ Rank(S, first) < Rank(S, s[1]) BY <2>5, <2>6, <1>3, <1>4, RankGrows
    <3> QED BY <3>1, <2>2
  <2>8. first = s[1] BY <2>4, <2>6, <2>7
  <2> QED BY <2>3, <2>8
<1>10. ASSUME NEW k \in 1..n, k < n PROVE Lines(text)[k].eol # <<>>
  <2> DEFINE start == s[k]
             next == s[k + 1]
             feeds == {i \in Positions(text, "n") : i >= start}
  <2>1. k + 1 \in 1..n /\ k < k + 1 BY <1>10, <1>5
  <2>2. start \in S /\ next \in S /\ start < next BY <2>1, <1>5
  <2>3. start \in first..Len(text) /\ next \in first..Len(text) BY <2>2, <1>3
  <2>4. next # first BY <2>2, <2>3, <1>1, <1>2
  <2>5. text[next - 1] = "n" BY <2>2, <2>4 DEF Starts
  <2>6. next - 1 \in feeds
    <3>1. next - 1 \in 1..Len(text) /\ next - 1 >= start BY <2>2, <2>3, <1>1, <1>2
    <3> QED BY <3>1, <2>5, <1>1 DEF Positions
  <2>7. feeds \in SUBSET (1..Len(text)) /\ feeds \in SUBSET Nat BY <1>1 DEF Positions
  <2>8. IsFiniteSet(feeds)
    <3>1. IsFiniteSet(1..Len(text)) BY <1>1, FS_Interval
    <3> QED BY <3>1, <2>7, FS_Subset
  <2>9. PICK feed \in feeds : \A j \in feeds : feed <= j BY <2>6, <2>7, <2>8, SmallestExists
  <2> DEFINE end == IF feed > start /\ text[feed - 1] = "r" THEN feed - 1 ELSE feed
  <2>10. feed \in 1..Len(text) /\ feed >= start BY <2>7
  <2>11. Lines(text)[k].eol = Cut(text, end, feed)
    <3>1. Lines(text)[k] = LineAt(text, start) BY <1>7
    <3>2. LineAt(text, start).eol = Cut(text, end, feed) BY <2>7, <2>9, EndedLine
    <3> QED BY <3>1, <3>2
  <2>12. end \in 1..Len(text) /\ end <= feed BY <2>3, <2>10, <1>1, <1>2
  <2> HIDE DEF end
  <2>13. ~(end > feed) BY <2>12, <2>10
  <2>14. Lines(text)[k].eol = SubSeq(text, end, feed) BY <2>11, <2>13 DEF Cut
  <2>15. \A i \in end..feed : text[i] \in Bytes
    <3> TAKE i \in end..feed
    <3>1. i \in 1..Len(text) BY <2>10, <2>12, <1>1
    <3> QED BY <3>1, LenProperties
  <2>16. end \in Int /\ feed \in Int BY <2>10, <2>12
  <2>17. Len(SubSeq(text, end, feed)) = feed - end + 1 BY <2>12, <2>15, <2>16, SubSeqProperties
  <2>18. Len(SubSeq(text, end, feed)) # 0 BY <2>12, <2>16, <2>17
  <2>19. Len(<<>>) = 0 OBVIOUS
  <2> QED BY <2>14, <2>18, <2>19
<1> QED BY <1>5, <1>7, <1>8, <1>9, <1>10

\* Where the lines of a file end alike, new lines get the same ending here and on a host.
LEMMA SameEnding ==
  ASSUME NEW text \in Seq(Bytes), Cardinality(Endings(text)) <= 1,
         NEW from \in 1..Len(Lines(text)), NEW to \in from..Len(Lines(text))
  PROVE  LocalEol(Lines(text), from, to) = RemoteEol(Lines(text), from, to)
<1> DEFINE lines == Lines(text)
           n == Cardinality(Starts(text))
           with == {i \in from..to : lines[i].eol # <<>>}
           first == FirstEol(lines, from, to)
           before == IF from > 1 THEN lines[from - 1].eol ELSE <<>>
<1>1. /\ n \in Nat /\ Len(lines) = n /\ DOMAIN lines = 1..n
      /\ \A k \in 1..n : k < n => lines[k].eol # <<>>
  BY LinesOfText
<1>2. from \in 1..n /\ to \in from..n /\ to \in 1..n BY <1>1
<1>3. \A k, l \in 1..n : lines[k].eol # <<>> /\ lines[l].eol # <<>> => lines[k].eol = lines[l].eol
  <2> DEFINE E == {lines[k].eol : k \in DOMAIN lines} \ {<<>>}
             eol == [k \in 1..n |-> lines[k].eol]
  <2>1. IsFiniteSet(E)
    <3>1. IsFiniteSet(1..n) BY <1>1, FS_Interval
    <3>2. IsFiniteSet({lines[k].eol : k \in DOMAIN lines})
      <4> DEFINE T == {lines[k].eol : k \in DOMAIN lines}
      <4>1. eol \in Surjection(1..n, T) BY <1>1 DEF Surjection
      <4> QED BY <4>1, <3>1, FS_Surjection
    <3> QED BY <3>2, FS_Subset
  <2>2. Cardinality(E) <= 1 BY DEF Endings
  <2>3. Cardinality(E) \in Nat BY <2>1, FS_CardinalityType
  <2>4. \A a, b \in E : a = b
    <3>1. CASE Cardinality(E) = 0 BY <3>1, <2>1, FS_EmptySet
    <3>2. CASE Cardinality(E) = 1
      <4>1. \E x : E = {x} BY <3>2, <2>1, FS_Singleton
      <4> QED BY <4>1
    <3>3. Cardinality(E) = 0 \/ Cardinality(E) = 1 BY <2>2, <2>3
    <3> HIDE DEF E
    <3> QED BY <3>1, <3>2, <3>3
  <2>5. \A k \in 1..n : lines[k].eol # <<>> => lines[k].eol \in E BY <1>1
  <2> QED BY <2>4, <2>5
<1>4. with \in SUBSET (from..to) /\ with \in SUBSET Nat /\ with \in SUBSET (1..n) BY <1>1, <1>2
<1>5. IsFiniteSet(with)
  <2>1. IsFiniteSet(from..to) BY <1>1, <1>2, FS_Interval
  <2> QED BY <2>1, <1>4, FS_Subset
<1>6. with = {} => first = <<>> BY DEF FirstEol
<1>7. ASSUME with # {} PROVE \E i \in with : first = lines[i].eol
  <2> DEFINE i == CHOOSE i \in with : \A j \in with : i <= j
  <2>1. \E i0 \in with : \A j \in with : i0 <= j BY <1>4, <1>5, <1>7, SmallestExists
  <2>2. i \in with BY <2>1
  <2>3. first = lines[i].eol BY <1>7 DEF FirstEol
  <2> QED BY <2>2, <2>3
<1>8. LocalEol(lines, from, to)
        = IF lines[to].eol = <<>> /\ before # <<>> THEN before ELSE IF first # <<>> THEN first ELSE LF
  BY DEF LocalEol
<1>9. RemoteEol(lines, from, to)
        = IF first # <<>> THEN first ELSE IF from > 1 THEN lines[from - 1].eol ELSE LF
  BY DEF RemoteEol
<1>10. from > 1 => from - 1 \in 1..n /\ from - 1 < n BY <1>1, <1>2
<1>11. from > 1 => before = lines[from - 1].eol /\ before # <<>> BY <1>1, <1>10
<1>12. ~(from > 1) => before = <<>> OBVIOUS
<1>13. lines[to].eol # <<>> => first # <<>>
  <2> SUFFICES ASSUME lines[to].eol # <<>> PROVE first # <<>> OBVIOUS
  <2>1. to \in with BY <1>1, <1>2
  <2>2. with # {} BY <2>1
  <2>3. PICK i \in with : first = lines[i].eol BY <2>2, <1>7
  <2> QED BY <2>3
<1>14. first # <<>> /\ from > 1 => first = before
  <2> SUFFICES ASSUME first # <<>>, from > 1 PROVE first = before OBVIOUS
  <2>1. with # {} BY <1>6
  <2>2. PICK i \in with : first = lines[i].eol BY <2>1, <1>7
  <2>3. i \in 1..n BY <1>4
  <2> QED BY <2>2, <2>3, <1>3, <1>10, <1>11
<1> HIDE DEF lines, first, before
<1>15. CASE from > 1
  <2>1. RemoteEol(lines, from, to) = before BY <1>9, <1>11, <1>14, <1>15
  <2>2. LocalEol(lines, from, to) = before BY <1>8, <1>11, <1>13, <1>14, <1>15
  <2> QED BY <2>1, <2>2 DEF lines
<1>16. CASE ~(from > 1)
  <2>1. RemoteEol(lines, from, to) = IF first # <<>> THEN first ELSE LF BY <1>9, <1>16
  <2>2. LocalEol(lines, from, to) = IF first # <<>> THEN first ELSE LF BY <1>8, <1>12, <1>16
  <2> QED BY <2>1, <2>2 DEF lines
<1> QED BY <1>15, <1>16

\* The awk finds the blocks a Workspace finds when no line is respelled.
LEMMA SameMatches ==
  ASSUME NEW text, NEW old, ~Respelled(text, old), Len(old) \in Nat, DOMAIN old = 1..Len(old),
         Len(Lines(text)) \in Nat, DOMAIN Lines(text) = 1..Len(Lines(text))
  PROVE  RemoteMatches(text, Lines(text), old) = Matches(Lines(text), old)
<1> DEFINE lines == Lines(text)
<1>1. \A k \in DOMAIN lines, o \in DOMAIN old : AwkSame(text, lines, k, old[o]) <=> lines[k].text = old[o]
  <2>1. TAKE k \in DOMAIN lines, o \in DOMAIN old
  <2>2. lines[k].text = old[o] => AwkSame(text, lines, k, old[o]) BY DEF AwkSame
  <2>3. lines[k].text # old[o] => ~AwkSame(text, lines, k, old[o]) BY DEF Respelled
  <2> QED BY <2>2, <2>3
<1>2. Len(lines) \in Nat /\ DOMAIN lines = 1..Len(lines) OBVIOUS
<1> HIDE DEF lines
<1>3. \A k \in 1..Len(lines) : k + Len(old) - 1 <= Len(lines) =>
        \A o \in DOMAIN old : (AwkSame(text, lines, k + o - 1, old[o]) <=> lines[k + o - 1].text = old[o])
  <2>1. TAKE k \in 1..Len(lines)
  <2>2. HAVE k + Len(old) - 1 <= Len(lines)
  <2>3. TAKE o \in DOMAIN old
  <2>4. k + o - 1 \in DOMAIN lines BY <1>2, <2>2
  <2> QED BY <1>1, <2>4
<1>4. RemoteMatches(text, lines, old) = Matches(lines, old)
  BY <1>3 DEF RemoteMatches, Matches
<1> QED BY <1>4 DEF lines

\* A host makes of a text what a Workspace makes of it.
LEMMA SameText ==
  ASSUME NEW text \in Seq(Bytes), ~Binary(text), Cardinality(Endings(text)) <= 1,
         NEW old, ~Respelled(text, old), DOMAIN old = 1..Len(old), Len(old) \in Nat \ {0}, Records(old) = old,
         NEW new, Records(new) = new, new # <<>> \/ Start(text) = 1
  PROVE  RemoteApply(text, old, new) = Apply(text, old, new)
<1> DEFINE lines == Lines(text)
           n == Cardinality(Starts(text))
           found == Matches(lines, old)
           from == CHOOSE k \in found : TRUE
           to == from + Len(old) - 1
           last == lines[to]
           rest == IF new = <<>> THEN last.after ELSE last.end
           cut == IF new # <<>> \/ last.after > last.end \/ from = 1 THEN lines[from].start
                  ELSE lines[from - 1].end
           remoteCut == IF new # <<>> \/ last.after > last.end THEN lines[from].start
                        ELSE IF from > 1 THEN lines[from - 1].end ELSE 1
<1>1. Apply(text, old, new)
        = IF Binary(text) \/ Cardinality(found) # 1 THEN Refused
          ELSE Splice(text, cut, rest, Joined(new, LocalEol(lines, from, to)))
  BY DEF Apply
<1>3. /\ n \in Nat /\ Len(lines) = n /\ DOMAIN lines = 1..n
      /\ n >= 1 => lines[1].start = Start(text)
  BY LinesOfText
<1>6. RemoteMatches(text, lines, old) = found BY <1>3, SameMatches
<1>2. RemoteApply(text, old, new)
        = IF Records(old) # old \/ Cardinality(found) # 1 THEN Refused
          ELSE Splice(text, remoteCut, rest, Joined(Records(new), RemoteEol(lines, from, to)))
  BY <1>6 DEF RemoteApply
<1>4. CASE Cardinality(found) # 1 BY <1>1, <1>2, <1>4
<1>5. CASE Cardinality(found) = 1
  <2>1. found \in SUBSET (1..n) BY <1>3 DEF Matches
  <2>2. IsFiniteSet(found)
    <3>1. IsFiniteSet(1..n) BY <1>3, FS_Interval
    <3> QED BY <3>1, <2>1, FS_Subset
  <2>3. found # {} BY <1>5, <2>2, FS_EmptySet
  <2>4. from \in found BY <2>3
  <2>5. from \in 1..Len(lines) /\ to <= Len(lines) BY <2>4, <1>3 DEF Matches
  <2>6. to \in from..Len(lines) BY <2>5, <1>3
  <2>7. LocalEol(lines, from, to) = RemoteEol(lines, from, to) BY <2>5, <2>6, SameEnding
  <2>8. remoteCut = cut
    <3>1. from \in Nat /\ from >= 1 /\ n >= 1 BY <2>5, <1>3
    <3>2. from = 1 /\ new = <<>> => lines[from].start = 1 BY <1>3, <3>1
    <3> HIDE DEF lines, from, last
    <3> QED BY <3>1, <3>2
  <2> HIDE DEF lines, found, from, to, rest, cut, remoteCut
  <2> QED BY <1>1, <1>2, <1>5, <2>7, <2>8
<1> QED BY <1>4, <1>5

\* Normalized text is text.
LEMMA NormalizedIsText ==
  ASSUME NEW text \in Seq(Bytes)
  PROVE  Normalized(text) \in Seq(Bytes)
<1> DEFINE bare == Bare(text)
           S == {i \in DOMAIN bare : ~(bare[i] = "r" /\ i < Len(bare) /\ bare[i + 1] = "n")}
           s == Sorted(S)
           unix == Unix(bare)
<1>1. bare \in Seq(Bytes)
  <2>1. text # <<>> => Tail(text) \in Seq(Bytes) BY HeadTailProperties
  <2> QED BY <2>1 DEF Bare
<1> HIDE DEF bare
<1>2. Len(bare) \in Nat /\ DOMAIN bare = 1..Len(bare) /\ \A i \in 1..Len(bare) : bare[i] \in Bytes
  BY <1>1, LenProperties
<1>3. S \in SUBSET (1..Len(bare)) /\ S \in SUBSET Nat BY <1>2
<1>4. IsFiniteSet(S)
  <2>1. IsFiniteSet(1..Len(bare)) BY <1>2, FS_Interval
  <2> QED BY <2>1, <1>3, FS_Subset
<1>5. /\ Cardinality(S) \in Nat /\ Len(s) = Cardinality(S)
      /\ \A k \in 1..Cardinality(S) : s[k] \in S
  BY <1>3, <1>4, SortedLists
<1>6. unix = [k \in 1..Len(s) |-> bare[s[k]]] BY DEF Unix
<1> HIDE DEF s, S
<1>7. \A k \in 1..Len(s) : bare[s[k]] \in Bytes BY <1>2, <1>3, <1>5
<1>8. unix \in [1..Len(s) -> Bytes] BY <1>6, <1>7
<1>9. unix \in Seq(Bytes) BY <1>5, <1>8
<1>10. Normalized(text) = IF unix # <<>> /\ Last(unix) = "n" THEN Front(unix) ELSE unix
  BY DEF Normalized, bare
<1> HIDE DEF unix
<1>11. Front(unix) \in Seq(Bytes)
  <2>1. Len(unix) \in Nat /\ DOMAIN unix = 1..Len(unix) BY <1>9, LenProperties
  <2>2. Len(unix) - 1 \in Int /\ 1 \in Int BY <2>1
  <2>3. \A i \in 1..(Len(unix) - 1) : unix[i] \in Bytes BY <1>9, <2>1, LenProperties
  <2> QED BY <2>2, <2>3, SubSeqProperties DEF Front
<1> QED BY <1>9, <1>10, <1>11

\* A block that is not empty has a line.
LEMMA BlockHasLines ==
  ASSUME NEW text \in Seq(Bytes), Block(text) # <<>>
  PROVE  Len(Block(text)) \in Nat \ {0} /\ DOMAIN Block(text) = 1..Len(Block(text))
<1> DEFINE t == Normalized(text)
           S == Positions(t, "n") \cup {Len(t) + 1}
           ends == Sorted(S)
<1>1. t \in Seq(Bytes) BY NormalizedIsText
<1>2. Block(text) = Split(t) BY DEF Block
<1> HIDE DEF t
<1>3. Len(t) \in Nat /\ DOMAIN t = 1..Len(t) BY <1>1, LenProperties
<1>4. S \in SUBSET (1..(Len(t) + 1)) /\ S \in SUBSET Nat BY <1>3 DEF Positions
<1>5. IsFiniteSet(S)
  <2>1. Len(t) + 1 \in Int BY <1>3
  <2>2. IsFiniteSet(1..(Len(t) + 1)) BY <2>1, FS_Interval
  <2> QED BY <2>2, <1>4, FS_Subset
<1>6. Cardinality(S) \in Nat /\ Len(ends) = Cardinality(S) BY <1>4, <1>5, SortedLists
<1>7. Cardinality(S) # 0 BY <1>5, FS_EmptySet
<1>8. Split(t) = [k \in 1..Len(ends) |-> Split(t)[k]] BY DEF Split
<1> HIDE DEF ends, S
<1>9. Len(Split(t)) = Len(ends) /\ DOMAIN Split(t) = 1..Len(ends) BY <1>6, <1>8, ListLength
<1> QED BY <1>2, <1>6, <1>7, <1>9

\* Both results are those of the file and of the edit that was asked for.
ResultStory ==
  /\ file \in Seq(Bytes)
  /\ edit # NoEditYet => /\ Len(edit.old) \in Nat \ {0} /\ DOMAIN edit.old = 1..Len(edit.old)
                         /\ local = Apply(file, edit.old, edit.new)
                         /\ remote = RemoteApply(file, edit.old, edit.new)

LEMMA ResultStoryHolds == EditSpec => []ResultStory
<1>1. EditInit => ResultStory BY EditAssumption DEF EditInit, ResultStory
<1>2. ResultStory /\ [EditText]_editVars => ResultStory'
  <2> SUFFICES ASSUME ResultStory, [EditText]_editVars PROVE ResultStory' OBVIOUS
  <2>1. CASE EditText
    <3>1. PICK old \in OldTexts, new \in NewTexts :
            Block(old) # <<>> /\ edit' = [old |-> Block(old), new |-> Block(new)]
      BY <2>1 DEF EditText
    <3>2. old \in Seq(Bytes) BY EditAssumption
    <3>3. Len(edit'.old) \in Nat \ {0} /\ DOMAIN edit'.old = 1..Len(edit'.old) BY <3>1, <3>2, BlockHasLines
    <3>4. /\ local' = Apply(file, edit'.old, edit'.new)
          /\ remote' = RemoteApply(file, edit'.old, edit'.new)
          /\ file' = file
      BY <2>1 DEF EditText
    <3> QED BY <3>3, <3>4 DEF ResultStory
  <2>2. CASE UNCHANGED editVars BY <2>2 DEF ResultStory, editVars
  <2> QED BY <2>1, <2>2
<1> QED BY <1>1, <1>2, PTL DEF EditSpec

\* RemoteEditsAlike: for every file, every edit and every awk, whatever it takes for a number:
\* when the file is UTF-8 text, its lines end alike, none is another spelling of a number of
\* old_text and neither block ends in an empty line, a host makes of the file what a Workspace
\* makes.
THEOREM HostEditsAlike == EditSpec => []RemoteEditsAlike
<1>1. ResultStory => RemoteEditsAlike
  <2> SUFFICES ASSUME ResultStory, edit # NoEditYet, ~Binary(file), Cardinality(Endings(file)) <= 1,
                      ~Respelled(file, edit.old),
                      Records(edit.old) = edit.old, Records(edit.new) = edit.new,
                      edit.new # <<>> \/ Start(file) = 1
               PROVE  remote = local
    BY DEF RemoteEditsAlike
  <2>1. /\ file \in Seq(Bytes) /\ Len(edit.old) \in Nat \ {0} /\ DOMAIN edit.old = 1..Len(edit.old)
        /\ local = Apply(file, edit.old, edit.new)
        /\ remote = RemoteApply(file, edit.old, edit.new)
    BY DEF ResultStory
  <2>2. RemoteApply(file, edit.old, edit.new) = Apply(file, edit.old, edit.new)
    BY <2>1, SameText
  <2> QED BY <2>1, <2>2
<1> QED BY <1>1, ResultStoryHolds, PTL
=============================================================================
