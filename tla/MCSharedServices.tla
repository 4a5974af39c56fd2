-------------------------- MODULE MCSharedServices --------------------------
(* Small instances, for TLC, of the services that share no state with one    *)
(* another: a behaviour is one of a single service, the others stay at their *)
(* initial state.                                                            *)
EXTENDS ExecutionLimits, ChatEvents, BackgroundTasks, ApplicationStream

CONSTANTS asker1, asker2, asker3, tab, pub1, pub2, part, job

VARIABLE focus  \* the service this behaviour is about

\* One host, two hosts in either order, a host named twice, none.
HostNamings == {<<>>, <<1, 2>>, <<2, 1>>, <<2, 2>>}

sharedVars == <<limitVars, eventVars, vars, appVars, focus>>

SharedInit ==
  /\ LimitInit /\ EventInit /\ Init /\ AppInit
  /\ focus \in {"limits", "events", "tasks", "stream"}
  /\ focus # "stream" => topic = "health"

\* bound: publishers are alike, so the second one starts only while the first is at work;
\* one of them is enough where a ticker repairs the topic.
SecondAfterFirst ==
  work'[pub2].at # "idle" /\ work[pub2].at = "idle" => work[pub1].at # "idle" /\ topic \notin SampledTopics

SharedNext ==
  /\ UNCHANGED focus
  /\ \/ focus = "limits" /\ LimitNext /\ UNCHANGED <<eventVars, vars, appVars>>
     \/ focus = "events" /\ EventNext /\ UNCHANGED <<limitVars, vars, appVars>>
     \/ focus = "tasks" /\ Next /\ UNCHANGED <<limitVars, eventVars, appVars>>
     \/ focus = "stream" /\ AppNext /\ SecondAfterFirst /\ UNCHANGED <<limitVars, eventVars, vars>>

focusVars == CASE focus = "limits" -> limitVars [] focus = "events" -> eventVars [] focus = "tasks" -> vars [] OTHER -> appVars

\* The k-th thing the scheduler owes the service in focus.  A conjunct of the fairness of
\* one service is joined with one of another: only one of them ever acts.
Duty(k) ==
  /\ UNCHANGED focus
  /\ \/ focus = "limits" /\ k <= 3 /\ Proceed(<<asker1, asker2, asker3>>[k])
     \/ focus = "events" /\ k = 1 /\ Serve(tab)
     \/ focus = "tasks" /\ IF k <= 6 THEN TaskDuty(job, k) ELSE Recover

SharedSpec ==
  /\ SharedInit /\ [][SharedNext]_sharedVars
  /\ \A k \in 1..7 : WF_focusVars(Duty(k))
  /\ \A r \in Requests : SF_focusVars(UNCHANGED focus /\ focus = "limits" /\ Take(r))

\* Every variable has its type, and who has a channel in the log has a handler that
\* reads it (the handler of chatEventsStream unsubscribes whenever it returns).
ServiceTypes ==
  /\ LimitTypes /\ EventTypes /\ TypeOK /\ AppTypes
  /\ \A reader \in subscribed : stream[reader] \in {"joining", "live"}

\* A request that waits for slots gets them or gives up in the end: requests that name
\* several hosts, in whatever order, do not block each other for ever.  Who reads a log
\* that has ended comes to the end of the stream: no handler keeps waiting on a channel
\* that nobody will write to or close.  The table learns how a task ended, whatever
\* restarts come in between, unless the end was published before it was registered.
ServicesSettle ==
  /\ \A r \in Requests : []<>~Waits(r)
  /\ Overstays(tab) \/ OutcomeDue(job)
       ~> IF focus = "events" THEN stream[tab] = "away" ELSE OutcomeStored(job)
=============================================================================
