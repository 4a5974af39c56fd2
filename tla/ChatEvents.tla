------------------------------ MODULE ChatEvents ------------------------------
(***************************************************************************)
(* The event log of one conversation (chatEventHub) and the browser pages  *)
(* that follow it.  The run that owns the conversation publishes into the  *)
(* log and hands each event to the POST stream that started it; other      *)
(* pages, and a page whose stream broke, subscribe with the id of the last *)
(* event they saw and get the rest replayed.  A terminal event ends a log: *)
(* the next event opens a new one, whose ids start at 1 again.             *)
(***************************************************************************)
EXTENDS Integers, Sequences, FiniteSets

CONSTANTS
  Pages,             \* browser pages that show the conversation
  SubscriberBuffer,  \* chatEventSubscriberBuffer, 128 in the code
  PostBuffer,        \* the channel of streamAgentEvents, 64 in the code
  MaxEvents,         \* bound: events of one log before its terminal event
  MaxLogs,           \* bound: logs opened for the conversation
  MaxQueued          \* bound: queue requests accepted and not yet announced

ASSUME BufferAssumption == SubscriberBuffer \in Nat \ {0} /\ PostBuffer \in Nat \ {0}
ASSUME EventBounds  == MaxEvents \in Nat /\ MaxLogs \in Nat /\ MaxQueued \in Nat

VARIABLES
  driver,      \* the run that owns the conversation
  poster,      \* the page whose POST stream it serves, if any
  emitting,    \* published, not yet handed to that stream
  accepted,    \* queued messages not yet announced in the log
  deleting,    \* a delete request saw the conversation inactive
  entry,       \* the hub has no log, an open one, or one that ended
  log,         \* kinds of the events of that log, by id
  era,         \* which log it is: no variable of the code
  subscribed,  \* pages with a channel in the log
  stream,      \* what the connection of each page is doing
  replay,      \* events subscribe copied for it
  feed,        \* its channel
  cursor,      \* lastAgentEventIDRef
  origin,      \* the log its cursor started in, 0 if it has no event yet
  got          \* ids of the current log the page has shown

runVars    == <<driver, poster, emitting, accepted, deleting>>
hubVars    == <<entry, log, era, subscribed>>
pageVars   == <<cursor, origin, got>>
streamVars == <<stream, replay, feed>>
eventVars  == <<driver, poster, emitting, accepted, deleting, entry, log, era, subscribed,
                stream, replay, feed, cursor, origin, got>>

---------------------------------------------------------------------------
(* The hub. *)

Active == driver # "idle"  \* chatSessionActive

FullPages(at) == {p \in subscribed : Len(feed[p]) >= at}

LeaveOpen(e) ==  \* mutant: a terminal event does not close the channels
  /\ feed' = [p \in Pages |-> IF p \in subscribed \ FullPages(SubscriberBuffer)
                                THEN Append(feed[p], e) ELSE feed[p]]
  /\ subscribed' = subscribed \ FullPages(SubscriberBuffer)
\* A channel without room is closed and forgotten; a terminal event closes them all.
Broadcast(e) ==
  /\ feed' = [p \in Pages |-> IF p \in subscribed \ FullPages(SubscriberBuffer)
                                THEN Append(feed[p], e) ELSE feed[p]]
  /\ subscribed' = IF e.kind = "end" THEN {} ELSE subscribed \ FullPages(SubscriberBuffer)

NewLog == era < MaxLogs /\ era' = era + 1 /\ got' = [p \in Pages |-> {}]

PublishEvent(kind) ==
  /\ IF entry = "open"
       THEN log' = Append(log, kind) /\ UNCHANGED <<era, got>>
       ELSE log' = <<kind>> /\ NewLog
  /\ kind = "end" \/ Len(log') <= MaxEvents
  /\ entry' = IF kind = "end" THEN "done" ELSE "open"
  /\ Broadcast([log |-> era', id |-> Len(log'), kind |-> kind])
  /\ UNCHANGED <<stream, replay, cursor, origin>>

---------------------------------------------------------------------------
(* The run: runChatTurnLoop and what the agent emits through it. *)

EmitUnlocked == Cardinality(emitting) < 2  \* mutant: two events may be on their way
EmitUnlock   == emitting = {}              \* emitMu

Publish(kind) ==
  /\ EmitUnlock /\ PublishEvent(kind)
  /\ emitting' = emitting \cup {[log |-> era', id |-> Len(log'), kind |-> kind]}
  /\ UNCHANGED <<poster, accepted, deleting>>

\* A page sends a message; its cursor starts anew, and the messages it shows
\* cover what an unfinished log still holds.
Send(p) ==
  /\ stream[p] = "away" /\ ~Active
  /\ driver' = "begun" /\ poster' = {p}
  /\ stream' = [stream EXCEPT ![p] = "posting"]
  /\ cursor' = [cursor EXCEPT ![p] = 0] /\ origin' = [origin EXCEPT ![p] = 0]
  /\ got' = [got EXCEPT ![p] = 1..Len(log)]
  /\ UNCHANGED <<emitting, accepted, deleting, hubVars, replay, feed>>

\* Decided approvals start a run that no page waits for.
ResumeRun ==
  /\ ~Active /\ driver' = "begun"
  /\ UNCHANGED <<poster, emitting, accepted, deleting, hubVars, pageVars, streamVars>>

\* The first event, "session", and every later one that ends nothing.
PublishTurn == driver \in {"begun", "running"} /\ driver' = "running" /\ Publish("turn")

\* done, model_error, interrupted: the run ends, or it goes on after an interrupt
\* of the framework and publishes its own end.
PublishTerminal ==
  /\ \/ driver \in {"begun", "running"} /\ driver' = "ended"
     \/ driver = "running" /\ driver' = "running"
  /\ Publish("end")

\* An error before the session event reaches the POST stream only; a panic none.
EndSilently ==
  /\ driver \in {"begun", "running"} /\ EmitUnlock /\ driver' = "ended"
  /\ UNCHANGED <<poster, emitting, accepted, deleting, hubVars, pageVars, streamVars>>

\* emit: waits for room in the POST stream while its handler serves it.
HandOver ==
  \E e \in emitting :
    /\ emitting' = emitting \ {e}
    /\ \A p \in poster : Len(feed[p]) < PostBuffer
    /\ feed' = [p \in Pages |-> IF p \in poster THEN Append(feed[p], e) ELSE feed[p]]
    /\ UNCHANGED <<driver, poster, accepted, deleting, hubVars, pageVars, stream, replay>>

EndRun ==
  /\ driver = "ended" /\ EmitUnlock
  /\ driver' = "idle" /\ poster' = {}
  /\ UNCHANGED <<emitting, accepted, deleting, hubVars, pageVars, streamVars>>

\* queueChatMessage: the message is in the queue before the log says so.
AcceptQueued ==
  /\ driver \in {"begun", "running"} /\ accepted < MaxQueued /\ accepted' = accepted + 1
  /\ UNCHANGED <<driver, poster, emitting, deleting, hubVars, pageVars, streamVars>>

AnnounceQueued ==
  /\ accepted > 0 /\ accepted' = accepted - 1
  /\ PublishEvent("queued")
  /\ UNCHANGED <<driver, poster, emitting, deleting>>

\* deleteChatSession: the check, then the deletion of the log.
CheckDelete ==
  /\ ~Active /\ ~deleting /\ deleting' = TRUE
  /\ UNCHANGED <<driver, poster, emitting, accepted, hubVars, pageVars, streamVars>>

DeleteLog ==
  /\ deleting /\ deleting' = FALSE
  /\ entry' = "none" /\ log' = <<>> /\ subscribed' = {}
  /\ UNCHANGED <<driver, poster, emitting, accepted, era, pageVars, streamVars>>

\* The store refuses: the log stays.
DeleteFails ==
  /\ deleting /\ deleting' = FALSE
  /\ UNCHANGED <<driver, poster, emitting, accepted, hubVars, pageVars, streamVars>>

---------------------------------------------------------------------------
(* The pages: reconnect in ChatPage.tsx and the handler chatEventsStream. *)

\* The page loads the conversation and forgets its cursor.
OpenConversation(p) ==
  /\ stream[p] = "away"
  /\ cursor' = [cursor EXCEPT ![p] = 0] /\ origin' = [origin EXCEPT ![p] = 0]
  /\ got' = [got EXCEPT ![p] = {}]
  /\ UNCHANGED <<runVars, hubVars, streamVars>>

AskState(p) ==
  /\ stream[p] = "away" /\ Active
  /\ stream' = [stream EXCEPT ![p] = "asked"]
  /\ UNCHANGED <<runVars, hubVars, pageVars, replay, feed>>

\* What a subscriber finds: the log of the hub, opened if there is none.
Subscribe(p) ==
  /\ stream[p] = "asked"
  /\ IF entry = "none" THEN entry' = "open" /\ NewLog ELSE UNCHANGED <<entry, era, got>>
  /\ replay' = [replay EXCEPT ![p] =
       [i \in 1..(Len(log) - cursor[p]) |->
          [log |-> era', id |-> cursor[p] + i, kind |-> log[cursor[p] + i]]]]
  /\ IF entry = "done"
       THEN stream' = [stream EXCEPT ![p] = "reading"] /\ UNCHANGED subscribed
       ELSE stream' = [stream EXCEPT ![p] = "joining"] /\ subscribed' = subscribed \cup {p}
  /\ feed' = [feed EXCEPT ![p] = <<>>]
  /\ UNCHANGED <<runVars, log, cursor, origin>>

\* handleAgentFrames: the cursor only rises.
Show(p, e) ==
  /\ cursor' = [cursor EXCEPT ![p] = IF e.id > @ THEN e.id ELSE @]
  /\ origin' = [origin EXCEPT ![p] = IF @ = 0 THEN e.log ELSE @]
  /\ got' = [got EXCEPT ![p] = IF e.log = era THEN @ \cup {e.id} ELSE @]

WriteReplay(p) ==
  /\ stream[p] \in {"reading", "joining"} /\ replay[p] # <<>>
  /\ Show(p, Head(replay[p])) /\ replay' = [replay EXCEPT ![p] = Tail(@)]
  /\ UNCHANGED <<runVars, hubVars, stream, feed>>

WriteEvent(p) ==
  /\ stream[p] \in {"live", "posting"} /\ feed[p] # <<>>
  /\ Show(p, Head(feed[p])) /\ feed' = [feed EXCEPT ![p] = Tail(@)]
  /\ UNCHANGED <<runVars, hubVars, stream, replay>>

LeaveSubscribed(p) ==  \* mutant: the handler returns without unsubscribing
  /\ stream' = [stream EXCEPT ![p] = "away"] /\ UNCHANGED subscribed
  /\ replay' = [replay EXCEPT ![p] = <<>>] /\ feed' = [feed EXCEPT ![p] = <<>>]
  /\ poster' = poster \ {p}
  /\ UNCHANGED <<driver, emitting, accepted, deleting, entry, log, era, pageVars>>
\* The connection is over, on whichever side: the handler unsubscribes, a POST
\* stream lets its run go on alone.
Leave(p) ==
  /\ stream' = [stream EXCEPT ![p] = "away"] /\ subscribed' = subscribed \ {p}
  /\ replay' = [replay EXCEPT ![p] = <<>>] /\ feed' = [feed EXCEPT ![p] = <<>>]
  /\ poster' = poster \ {p}
  /\ UNCHANGED <<driver, emitting, accepted, deleting, entry, log, era, pageVars>>

GoLive(p) ==
  /\ stream[p] = "joining" /\ replay[p] = <<>> /\ Active
  /\ stream' = [stream EXCEPT ![p] = "live"]
  /\ UNCHANGED <<runVars, hubVars, pageVars, replay, feed>>

\* The log had ended, or the run is over by now.
EndReplay(p) ==
  /\ replay[p] = <<>>
  /\ stream[p] = "reading" \/ (stream[p] = "joining" /\ ~Active)
  /\ Leave(p)

\* The channel is closed and read to its end.
EndStream(p) ==
  /\ feed[p] = <<>>
  /\ \/ stream[p] = "live" /\ p \notin subscribed
     \/ stream[p] = "posting" /\ p \notin poster
  /\ Leave(p)

Disconnect(p) == stream[p] # "away" /\ Leave(p)

\* The process restarts: runs, logs and connections are gone, cursors stay.
RestartServer ==
  /\ driver' = "idle" /\ poster' = {} /\ emitting' = {} /\ accepted' = 0 /\ deleting' = FALSE
  /\ entry' = "none" /\ log' = <<>> /\ subscribed' = {}
  /\ stream' = [p \in Pages |-> "away"]
  /\ replay' = [p \in Pages |-> <<>>] /\ feed' = [p \in Pages |-> <<>>]
  /\ UNCHANGED <<era, pageVars>>

---------------------------------------------------------------------------
EventInit ==
  /\ driver = "idle" /\ poster = {} /\ emitting = {} /\ accepted = 0 /\ deleting = FALSE
  /\ entry = "none" /\ log = <<>> /\ era = 0 /\ subscribed = {}
  /\ stream = [p \in Pages |-> "away"]
  /\ replay = [p \in Pages |-> <<>>] /\ feed = [p \in Pages |-> <<>>]
  /\ cursor = [p \in Pages |-> 0] /\ origin = [p \in Pages |-> 0]
  /\ got = [p \in Pages |-> {}]

Serve(p) == WriteReplay(p) \/ WriteEvent(p) \/ GoLive(p) \/ EndReplay(p) \/ EndStream(p)

EventNext ==
  \/ ResumeRun \/ PublishTurn \/ PublishTerminal \/ EndSilently \/ HandOver \/ EndRun
  \/ AcceptQueued \/ AnnounceQueued \/ CheckDelete \/ DeleteLog \/ DeleteFails
  \/ RestartServer
  \/ \E p \in Pages : \/ Send(p) \/ OpenConversation(p) \/ AskState(p) \/ Subscribe(p)
                      \/ Serve(p) \/ Disconnect(p)

EventSpec == EventInit /\ [][EventNext]_eventVars

\* The handlers of open connections run; nothing is asked of runs or networks.
EventFairness == \A p \in Pages : WF_eventVars(Serve(p))

---------------------------------------------------------------------------
Events == [log : 1..MaxLogs, id : 1..(MaxEvents + 1), kind : {"turn", "queued", "end"}]

EventTypes ==
  /\ driver \in {"idle", "begun", "running", "ended"} /\ poster \subseteq Pages
  /\ emitting \subseteq Events /\ accepted \in 0..MaxQueued /\ deleting \in BOOLEAN
  /\ entry \in {"none", "open", "done"} /\ log \in Seq({"turn", "queued", "end"})
  /\ era \in 0..MaxLogs /\ subscribed \subseteq Pages
  /\ stream \in [Pages -> {"away", "asked", "reading", "joining", "live", "posting"}]
  /\ replay \in [Pages -> Seq(Events)] /\ feed \in [Pages -> Seq(Events)]
  /\ cursor \in [Pages -> Nat] /\ origin \in [Pages -> 0..MaxLogs]
  /\ got \in [Pages -> SUBSET (1..(MaxEvents + 1))]

\* No page that followed one log has a hole before its cursor, however often it
\* lost its stream: a reconnect asks for nothing before the cursor, so a hole
\* would never be filled.  (A POST stream carries no announcements of the queue.)
NothingIsSkipped ==
  \A p \in Pages : origin[p] = era =>
    \A i \in 1..cursor[p] : i \in DOMAIN log /\ log[i] # "queued" => i \in got[p]

\* Who still reads a log that has ended.
Overstays(p) == stream[p] \in {"reading", "joining", "live"} /\ entry = "done"
=============================================================================
