----------------------------- MODULE SftpSessions -----------------------------
(***************************************************************************)
(* The pool of SFTP sessions of one SSH connection (sshx sftp_pool,        *)
(* sftp_session): requests lease a session each, wait while all are taken, *)
(* and return it; a session ends with its transport, with the request that *)
(* leased it, after an idle time, or with the pool.  A section under       *)
(* sftpPoolMu is one action.  An upload that fails releases its session    *)
(* and leases another to remove its temporary file.                        *)
(***************************************************************************)
EXTENDS Naturals, FiniteSets

CONSTANTS
  SftpRequests,  \* requests of the operator: list, download, upload, rename, delete
  Uploads,       \* those that have a temporary file to clean up
  Sessions,      \* bound: the session objects alive at a time
  NoSession,     \* no session
  PoolLimit      \* sftpSessionsPerConnection

ASSUME SftpAssumption ==
  /\ Uploads \subseteq SftpRequests /\ NoSession \notin Sessions
  /\ IsFiniteSet(Sessions) /\ PoolLimit \in Nat \ {0}

VARIABLES
  request,     \* where each request is, the session of its lease, its context
  session,     \* busy, why its context was cancelled, whether its client is open
  idleTimer,   \* of each session: none, set, fired with the callback to come, or stale:
               \* fired, and the session returned since
  pooled,      \* pool.sessions
  poolDone,    \* sftpPoolDone
  poolClosed   \* closeSFTPPool has returned

sftpVars == <<request, session, idleTimer, pooled, poolDone, poolClosed>>

---------------------------------------------------------------------------
Asleep  == [at |-> "none", lease |-> NoSession, ended |-> FALSE, cleanup |-> FALSE]
NoUse   == [busy |-> FALSE, why |-> "", client |-> "none"]

Live(s) == session[s].why = ""
Holders(s) == {r \in SftpRequests : request[r].lease = s}
Leasable(s) == ~session[s].busy /\ Live(s)
StopTimer(timer) == CASE timer = "set" -> "none" [] timer = "stale" -> "fired" [] OTHER -> timer
Spare   == {s \in Sessions \ pooled : Holders(s) = {} /\ idleTimer[s] = "none"}

\* session.cancel: the first cause of the context's end.
SessionCancelled(s, why) == [session EXCEPT ![s].why = IF @ = "" THEN why ELSE @]

Woken(at) == IF at = "waiting" THEN "acquiring" ELSE at

\* pool.notify: every request that waits looks at the pool again.
Notified(reqs) ==
  [r \in SftpRequests |-> [reqs[r] EXCEPT !.at = Woken(reqs[r].at)]]

\* A request without a session is over, but for an upload that leaves its temporary
\* file: it asks for a session again, once, in a context of its own.
Return(r, left) ==
  IF left THEN [Asleep EXCEPT !.at = "acquiring", !.cleanup = TRUE] ELSE Asleep
MayLeave(r) == IF r \in Uploads /\ ~request[r].cleanup /\ request[r].at = "leased" THEN BOOLEAN ELSE {FALSE}

---------------------------------------------------------------------------
AskSftp(r) ==
  /\ request[r] = Asleep
  /\ request' = [request EXCEPT ![r].at = "acquiring"]
  /\ UNCHANGED <<session, idleTimer, pooled, poolDone, poolClosed>>

\* acquireSFTPSession, one turn of its loop.
RefuseLease(r) ==
  /\ request[r].at = "acquiring" /\ (request[r].ended \/ poolDone)
  /\ request' = [request EXCEPT ![r] = Asleep]
  /\ UNCHANGED <<session, idleTimer, pooled, poolDone, poolClosed>>

MayLease(r) == request[r].at = "acquiring" /\ ~request[r].ended /\ ~poolDone

ReuseSession(r, s) ==
  /\ MayLease(r) /\ s \in pooled /\ Leasable(s)
  /\ session' = [session EXCEPT ![s].busy = TRUE]
  /\ idleTimer' = [idleTimer EXCEPT ![s] = StopTimer(@)]
  /\ request' = [request EXCEPT ![r] = [@ EXCEPT !.at = "leased", !.lease = s]]
  /\ UNCHANGED <<pooled, poolDone, poolClosed>>

CreateSession(r, s) ==
  /\ MayLease(r) /\ (\A other \in pooled : ~Leasable(other))
  /\ Cardinality(pooled) < PoolLimit /\ s \in Spare
  /\ pooled' = pooled \cup {s}
  /\ session' = [session EXCEPT ![s] = [NoUse EXCEPT !.busy = TRUE]]
  /\ request' = [request EXCEPT ![r] = [@ EXCEPT !.at = "starting", !.lease = s]]
  /\ UNCHANGED <<idleTimer, poolDone, poolClosed>>

AwaitSession(r) ==
  /\ MayLease(r) /\ (\A s \in pooled : ~Leasable(s)) /\ Cardinality(pooled) >= PoolLimit
  /\ request' = [request EXCEPT ![r].at = "waiting"]
  /\ UNCHANGED <<session, idleTimer, pooled, poolDone, poolClosed>>

\* The context of a request ends: its caller is gone, or its time is over.
EndRequest(r) ==
  /\ request[r].at # "none" /\ ~request[r].ended
  /\ request' = [request EXCEPT ![r] = [@ EXCEPT !.ended = TRUE, !.at = Woken(request[r].at)]]
  /\ UNCHANGED <<session, idleTimer, pooled, poolDone, poolClosed>>

\* The AfterFunc of openSFTP runs in a goroutine of its own.
CancelLease(r) ==
  /\ request[r].ended /\ request[r].lease # NoSession /\ Live(request[r].lease)
  /\ session' = SessionCancelled(request[r].lease, "request")
  /\ UNCHANGED <<request, idleTimer, pooled, poolDone, poolClosed>>

---------------------------------------------------------------------------
\* startSFTPSession: the connection and the client are made, or one of them is not.
StartClient(r) ==
  LET s == request[r].lease
  IN /\ request[r].at = "starting"
     /\ \/ /\ session' = [session EXCEPT ![s].client = "open"]
           /\ request' = [request EXCEPT ![r].at = "leased"]
        \/ /\ session' = [SessionCancelled(s, "start") EXCEPT ![s].client = "failed"]
           /\ request' = [request EXCEPT ![r].at = "failing"]
     /\ UNCHANGED <<idleTimer, pooled, poolDone, poolClosed>>

\* The remote end, the network, or a failed close of a file ends a session.
LoseSession(s) ==
  /\ session[s].client = "open" /\ Live(s)
  /\ session' = SessionCancelled(s, "lost")
  /\ UNCHANGED <<request, idleTimer, pooled, poolDone, poolClosed>>

\* forgetSFTPSession, after a cancellation closed the connection and Wait returned.
ForgetSession(s) ==
  /\ s \in pooled /\ ~Live(s) /\ session[s].client \in {"open", "failed"}
  /\ pooled' = pooled \ {s}
  /\ idleTimer' = [idleTimer EXCEPT ![s] = StopTimer(@)]
  /\ session' = [session EXCEPT ![s] = IF Holders(s) = {} THEN NoUse ELSE [@ EXCEPT !.client = "closed"]]
  /\ request' = Notified(request)
  /\ UNCHANGED <<poolDone, poolClosed>>

\* releaseSFTPSession: an ended session is left to its goroutine; the others are free.
Release(r, s, left) ==
  IF request[r].ended \/ ~Live(s) \/ poolDone
  THEN /\ session' = IF session[s].client = "closed" THEN [session EXCEPT ![s] = NoUse]
                     ELSE IF request[r].ended THEN SessionCancelled(s, "request") ELSE session
       /\ request' = [request EXCEPT ![r] = Return(r, left)]
       /\ UNCHANGED idleTimer
  ELSE /\ session' = [session EXCEPT ![s].busy = FALSE]
       /\ idleTimer' = [idleTimer EXCEPT ![s] = IF @ = "fired" THEN "stale" ELSE "set"]
       /\ request' = Notified([request EXCEPT ![r] = Return(r, left)])

\* The request is over, or has failed: sftpLease.Close.  Once its context ended it waits
\* for the AfterFunc; after a failed start, for the end of the session.
CloseLease(r) ==
  LET s == request[r].lease
  IN /\ \/ request[r].at = "leased"
        \/ request[r].at = "failing" /\ session[s].client = "closed"
     /\ request[r].ended => ~Live(s)
     /\ \E left \in MayLeave(r) : Release(r, s, left)
     /\ UNCHANGED <<pooled, poolDone, poolClosed>>

---------------------------------------------------------------------------
IdleTimerFires(s) ==
  /\ idleTimer[s] \in {"set", "stale"}
  /\ idleTimer' = [idleTimer EXCEPT ![s] = "fired"]
  /\ UNCHANGED <<request, session, pooled, poolDone, poolClosed>>

\* expireSFTPSession: the session may have been leased, and returned, since it fired.
ExpireFired(s) == session' = IF s \in pooled THEN SessionCancelled(s, "idle") ELSE session  \* mutant: without a second look
ExpireIdle(s) ==
  session' = IF s \in pooled /\ ~session[s].busy /\ idleTimer[s] = "fired" THEN SessionCancelled(s, "idle")
             ELSE session

ExpireSession(s) ==
  /\ idleTimer[s] \in {"fired", "stale"}
  /\ ExpireIdle(s)
  /\ idleTimer' = [idleTimer EXCEPT ![s] = IF @ = "stale" THEN "set" ELSE "none"]
  /\ UNCHANGED <<request, pooled, poolDone, poolClosed>>

\* closeSFTPPool
ClosePool ==
  /\ ~poolDone /\ poolDone' = TRUE
  /\ session' = [s \in Sessions |-> IF s \in pooled THEN SessionCancelled(s, "close")[s] ELSE session[s]]
  /\ request' = Notified(request)
  /\ UNCHANGED <<idleTimer, pooled, poolClosed>>

PoolCloses ==
  /\ poolDone /\ pooled = {} /\ ~poolClosed /\ poolClosed' = TRUE
  /\ UNCHANGED <<request, session, idleTimer, pooled, poolDone>>

---------------------------------------------------------------------------
SftpInit ==
  /\ request = [r \in SftpRequests |-> Asleep] /\ session = [s \in Sessions |-> NoUse]
  /\ idleTimer = [s \in Sessions |-> "none"] /\ pooled = {}
  /\ poolDone = FALSE /\ poolClosed = FALSE

Lease(r) ==
  \/ RefuseLease(r) \/ AwaitSession(r) \/ StartClient(r) \/ CloseLease(r)
  \/ \E s \in Sessions : ReuseSession(r, s) \/ CreateSession(r, s)

SftpNext ==
  \/ \E r \in SftpRequests : AskSftp(r) \/ Lease(r) \/ EndRequest(r) \/ CancelLease(r)
  \/ \E s \in Sessions : LoseSession(s) \/ ForgetSession(s) \/ IdleTimerFires(s) \/ ExpireSession(s)
  \/ ClosePool \/ PoolCloses

SftpSpec == SftpInit /\ [][SftpNext]_sftpVars

\* Goroutines run, and an operation on a session ends: with its result, or with the
\* session that a cancellation closes.
SftpFairness ==
  /\ \A r \in SftpRequests : WF_sftpVars(Lease(r)) /\ WF_sftpVars(CancelLease(r))
  /\ \A s \in Sessions : WF_sftpVars(ForgetSession(s))
  /\ WF_sftpVars(PoolCloses)

---------------------------------------------------------------------------
RequestRecord == [at : {"none", "acquiring", "waiting", "starting", "leased", "failing"},
                  lease : Sessions \cup {NoSession}, ended : BOOLEAN, cleanup : BOOLEAN]
SessionRecord == [busy : BOOLEAN, why : {"", "request", "start", "lost", "idle", "close"},
                  client : {"none", "open", "failed", "closed"}]

SftpTypes ==
  /\ request \in [SftpRequests -> RequestRecord] /\ session \in [Sessions -> SessionRecord]
  /\ idleTimer \in [Sessions -> {"none", "set", "fired", "stale"}]
  /\ pooled \subseteq Sessions
  /\ poolDone \in BOOLEAN /\ poolClosed \in BOOLEAN

\* No session serves two requests, or dies of idleness under one; a request sleeps only
\* while every place of the pool is taken; and the pool reports its end only when no
\* client is open.
SessionsAreLeased ==
  /\ \A s \in Sessions :
       /\ Cardinality(Holders(s)) <= 1
       /\ session[s].why = "idle" => Holders(s) = {}
  /\ \A r \in SftpRequests : request[r].at = "waiting" =>
       ~poolDone /\ Cardinality(pooled) = PoolLimit /\ \A s \in pooled : ~Leasable(s)
  /\ poolClosed => \A s \in Sessions : session[s].client # "open"

\* What must come to an end: a request whose context is over, wherever it waits, and the
\* close of the pool.
RequestEnding(r) == request[r].ended
PoolClosing      == poolDone /\ ~poolClosed
=============================================================================
