-------------------------- MODULE ApplicationStream --------------------------
(***************************************************************************)
(* The application WebSocket: what a page shows of the tasks, logs, model  *)
(* tests, MCP calls, approvals, conversations, the state of a chat, the    *)
(* connections, deletions and the health of the server.  Every topic has   *)
(* its own way from a change to the page - snapshots, deltas, samples, a   *)
(* channel of bounded room with a way to recover when it is full - and     *)
(* the page may lose the socket, or subscribe while it is subscribed.      *)
(***************************************************************************)
EXTENDS Integers, FiniteSets, Sequences

CONSTANTS
  Watched,     \* bound: the topics of the behaviours, one for each
  Items,       \* bound: tasks, entries, calls, conversations, ... of the topic
  Publishers,  \* goroutines that change the topic
  Listeners,   \* parts of the page that listen to the topic
  Readers,     \* those that read it by HTTP before they register
  Room,        \* capacity of a channel
  Window,      \* applicationSessionLimit
  MaxStamp,    \* bound: changes
  MaxVisits,   \* bound: registrations of listeners
  MaxSockets,  \* bound: WebSocket connections
  MaxErrors    \* bound: snapshots that cannot be read

StateTopics   == {"approvals", "sessions", "chat_state", "connections", "sftp_deletions"}
FlaggedTopics == {"logs", "model_tests"}
PushTopics    == FlaggedTopics \cup {"tasks", "mcp_activity"}
SampledTopics == {"connections", "health"}

ASSUME StreamAssumption ==
  /\ Watched \subseteq StateTopics \cup PushTopics \cup SampledTopics
  /\ {Room, Window} \cup Items \subseteq Nat \ {0}
  /\ IsFiniteSet(Items) /\ Items # {}
  /\ {MaxStamp, MaxVisits, MaxErrors} \subseteq Nat

VARIABLES
  topic,    \* the topic of this behaviour
  current,  \* what the server has: the last change of each item, 0 when it has none
  clock,    \* changes so far
  work,     \* of each publisher: where it is, its event, the subscriber it found
  socket,   \* serveApplicationWebSocket: its subscription, channel and signals
  page,     \* the listeners, what each of them shows, the request on its way
  sample,   \* applicationSnapshots: the cached snapshot of the topic
  troubles  \* snapshots that could not be read, signals that found no room

appVars == <<topic, current, clock, work, socket, page, sample, troubles>>

---------------------------------------------------------------------------
Blank == [i \in Items |-> 0]

\* What a snapshot holds: of the conversations, the last ones.
Shown(content) ==
  IF topic # "sessions" THEN content
  ELSE [i \in Items |->
          IF Cardinality({j \in Items : content[j] > content[i]}) < Window THEN content[i] ELSE 0]

\* A conversation that is gone was the topic's only kind of removal that a listener
\* learns from a snapshot; a tunnel or a shell is removed by its last delta.
Removable == topic \in {"sessions", "connections"}

IdleWork == [at |-> "idle", item |-> CHOOSE i \in Items : TRUE, stamp |-> 0, to |-> 0]
Event(w) == [item |-> w.item, stamp |-> w.stamp]
Resync   == [item |-> 0, stamp |-> 0]
NotKnown == [i \in Items |-> -1]
NoSocket == [id |-> 0, up |-> FALSE, serves |-> FALSE, step |-> "select", known |-> NotKnown,
             subscriber |-> 0, channel |-> <<>>, closed |-> FALSE, flagged |-> FALSE, signal |-> FALSE]
NoPage   == [asks |-> {}, prepared |-> {}, listening |-> {}, view |-> [l \in Listeners |-> Blank],
             fresh |-> {}, opened |-> {}, wrong |-> FALSE, visits |-> 0]

\* The page: a snapshot replaces what its listeners show, a delta is merged into it.
\* Tasks and deletions have revisions: an older one changes nothing.
ShowsAll(p, content) ==
  [p EXCEPT !.view = [l \in Listeners |-> IF l \in p.listening THEN content ELSE @[l]],
            !.fresh = p.listening, !.wrong = FALSE]

Supersedes(stamp, shown) == topic \in {"tasks", "sftp_deletions"} => stamp > shown

Merges(p, change) ==
  [p EXCEPT !.view =
    [l \in Listeners |->
       [i \in Items |-> IF l \in p.listening /\ i \in DOMAIN change /\ Supersedes(change[i], @[l][i])
                        THEN change[i] ELSE @[l][i]]]]

ShowsError(p) == [p EXCEPT !.wrong = TRUE]

\* applicationObjectDelta and applicationSessionsDelta.
Delta(old, new) == [i \in {j \in Items : old[j] # new[j]} |-> new[i]]

---------------------------------------------------------------------------
\* The subscriber that receives now.  State events are subscribed with the socket.
Registered == IF topic \in StateTopics THEN socket.up ELSE socket.up /\ socket.serves

HasRoom == Len(socket.channel) < Room

\* (what finds no room is dropped)
FlaggedQuietly(s, event) ==
  IF ~(s.up /\ s.serves) \/ Len(s.channel) >= Room THEN s ELSE [s EXCEPT !.channel = Append(@, event)]

\* Buffer.add and modelTestJobs.publishLocked: a subscriber that has no room left is told
\* so once and gets nothing more.
Flagged(s, event) ==
  IF ~(s.up /\ s.serves) \/ s.flagged THEN s
  ELSE IF Len(s.channel) < Room THEN [s EXCEPT !.channel = Append(@, event)]
       ELSE [s EXCEPT !.flagged = TRUE, !.signal = TRUE]

\* A change of the topic.  Two publishers do not work on one item at a time where its
\* events carry it and have no revision.
ChangeItem(p, i, stamp) ==
  /\ work[p].at = "idle"
  /\ clock < MaxStamp
  /\ stamp = clock + 1 \/ (Removable /\ stamp = 0 /\ current[i] # 0)
  /\ topic \in {"connections", "mcp_activity"} =>
       \A q \in Publishers \ {p} : work[q].at = "idle" \/ work[q].item # i
  /\ clock' = clock + 1
  /\ current' = [current EXCEPT ![i] = stamp]
  /\ CASE topic \in FlaggedTopics ->
            socket' = Flagged(socket, [item |-> i, stamp |-> stamp]) /\ UNCHANGED work
       [] topic = "health" -> UNCHANGED <<socket, work>>
       [] OTHER -> /\ work' = [work EXCEPT ![p] = [at |-> "changed", item |-> i, stamp |-> stamp, to |-> 0]]
                   /\ UNCHANGED socket
  /\ UNCHANGED <<topic, page, sample, troubles>>

Advances(p, from, to) == work[p].at = from /\ work' = [work EXCEPT ![p].at = to]

\* publishStateEvent and publishTaskEvent collect the subscribers under the lock and send
\* to them without it.
FindSubscriber(p) ==
  /\ work[p].at = "changed" /\ topic # "mcp_activity"
  /\ work' = [work EXCEPT ![p] = IF Registered THEN [@ EXCEPT !.at = "sending", !.to = socket.subscriber]
                                 ELSE IdleWork]
  /\ UNCHANGED <<topic, current, clock, socket, page, sample, troubles>>

Reaches(p) == socket.up /\ work[p].to = socket.subscriber

\* publishStateEvent: a subscriber without room gets a signal instead.
SendState(p) ==
  /\ topic \in StateTopics
  /\ Advances(p, "sending", "idle")
  /\ socket' = IF ~Reaches(p) THEN socket
               ELSE IF HasRoom THEN [socket EXCEPT !.channel = Append(@, Event(work[p]))]
               ELSE [socket EXCEPT !.signal = TRUE]
  /\ UNCHANGED <<topic, current, clock, page, sample, troubles>>

\* publishTaskEvent: the oldest event of a full channel makes room for a request to begin
\* again, in two steps that another publisher may come between.
SendTask(p) ==
  /\ topic = "tasks"
  /\ \/ /\ Reaches(p) => HasRoom
        /\ Advances(p, "sending", "idle")
        /\ socket' = IF Reaches(p) THEN [socket EXCEPT !.channel = Append(@, Event(work[p]))] ELSE socket
     \/ /\ Reaches(p) /\ ~HasRoom
        /\ Advances(p, "sending", "full")
        /\ socket' = [socket EXCEPT !.channel = Tail(@)]
  /\ UNCHANGED <<topic, current, clock, page, sample, troubles>>

AskResync(p) ==
  /\ Advances(p, "full", "idle")
  /\ socket' = IF Reaches(p) /\ HasRoom THEN [socket EXCEPT !.channel = Append(@, Resync)] ELSE socket
  /\ troubles' = [troubles EXCEPT !.unsignalled = @ \/ (Reaches(p) /\ ~HasRoom)]
  /\ UNCHANGED <<topic, current, clock, page, sample>>

\* publishMCPActivity: a subscriber without room is removed and its channel closed.
SendActivity(p) ==
  /\ topic = "mcp_activity"
  /\ Advances(p, "changed", "idle")
  /\ socket' = IF ~Registered \/ socket.closed THEN socket
               ELSE IF HasRoom THEN [socket EXCEPT !.channel = Append(@, Event(work[p]))]
               ELSE [socket EXCEPT !.closed = TRUE]
  /\ UNCHANGED <<topic, current, clock, page, sample, troubles>>

---------------------------------------------------------------------------
\* serveApplicationWebSocket, one case of its select at a time.
Selects == socket.up /\ socket.step = "select"

\* A new subscriber: the events it missed are in the snapshot that goes with it.
NewSubscriber(s) == [s EXCEPT !.subscriber = @ + 1, !.channel = <<>>, !.closed = FALSE, !.flagged = FALSE, !.signal = FALSE]

\* A snapshot that the store is read for is sent, or the error is.
SendSnapshot(s, p) ==
  \/ /\ socket' = [s EXCEPT !.known = Shown(current)]
     /\ page' = ShowsAll(p, Shown(current))
     /\ UNCHANGED troubles
  \/ /\ troubles.errors < MaxErrors
     /\ socket' = s
     /\ page' = ShowsError(p)
     /\ troubles' = [troubles EXCEPT !.errors = @ + 1]

\* SubscribeTaskEvents, Buffer.subscribe, modelTestJobs.subscribe: the snapshot is taken
\* with the registration.
OpenPush(p) ==
  /\ socket' = [NewSubscriber(socket) EXCEPT !.serves = TRUE]
  /\ page' = ShowsAll(p, current)
  /\ UNCHANGED troubles

\* A subscription: what it adds is opened, what it drops is closed, the rest stays.
TakeSubscription ==
  /\ Selects /\ page.asks # {}
  /\ LET wanted == TRUE \in page.asks
         asked  == [page EXCEPT !.asks = {}]
     IN CASE wanted = socket.serves -> socket' = socket /\ page' = asked /\ UNCHANGED troubles
          [] ~wanted /\ socket.serves ->
               /\ socket' = [IF topic \in PushTopics THEN NewSubscriber(socket) ELSE socket
                            EXCEPT !.serves = FALSE, !.known = NotKnown]
               /\ page' = asked
               /\ UNCHANGED troubles
          [] OTHER ->
               IF topic = "mcp_activity"
               THEN /\ socket' = [NewSubscriber(socket) EXCEPT !.serves = TRUE, !.step = "snapshot"]
                    /\ page' = asked
                    /\ UNCHANGED troubles
               ELSE IF topic \in PushTopics THEN OpenPush(asked)
               ELSE SendSnapshot([socket EXCEPT !.serves = TRUE], asked)
  /\ UNCHANGED <<topic, current, clock, work, sample>>

\* The activity of MCP clients is subscribed first and read then.
SendActivitySnapshot ==
  /\ socket.up /\ socket.step = "snapshot"
  /\ SendSnapshot([socket EXCEPT !.step = "select"], page)
  /\ UNCHANGED <<topic, current, clock, work, sample>>

\* applicationSessionsUpdate: the conversation of the event joins the ones already sent; a
\* conversation that is gone has all of them read again.
SessionWindow(known, i) ==
  IF current[i] = 0 THEN Shown(current) ELSE Shown([known EXCEPT ![i] = current[i]])

\* What is sent for an event of the conversations or of a chat: the difference to what was
\* sent before, or an error when there is nothing to compare with.
SendDifference(s, event) ==
  LET now == IF topic = "sessions" THEN SessionWindow(s.known, event.item) ELSE current
  IN IF s.known = NotKnown
     THEN socket' = s /\ page' = ShowsError(page) /\ UNCHANGED troubles
     ELSE \/ /\ socket' = [s EXCEPT !.known = now]
             /\ page' = Merges(page, Delta(s.known, now))
             /\ UNCHANGED troubles
          \/ /\ troubles.errors < MaxErrors
             /\ socket' = s
             /\ page' = ShowsError(page)
             /\ troubles' = [troubles EXCEPT !.errors = @ + 1]

\* The next event of the topic.
TakeEvent ==
  /\ Selects /\ socket.channel # <<>>
  /\ LET event == Head(socket.channel)
         taken == [socket EXCEPT !.channel = Tail(@)]
     IN CASE event = Resync -> OpenPush(page)
          [] ~socket.serves -> socket' = taken /\ UNCHANGED <<page, troubles>>
          [] event # Resync /\ socket.serves /\ topic \in {"sessions", "chat_state"} -> SendDifference(taken, event)
          [] event # Resync /\ socket.serves /\ topic = "approvals" -> SendSnapshot(taken, page)
          [] OTHER -> /\ socket' = taken
                      /\ page' = Merges(page, [i \in {event.item} |-> event.stamp])
                      /\ UNCHANGED troubles
  /\ UNCHANGED <<topic, current, clock, work, sample>>

\* A signal of overflow: the state topics drop what is waiting and send a snapshot, the
\* logs and model tests subscribe again.
TakeSignal ==
  /\ Selects /\ socket.signal
  /\ IF topic \in PushTopics THEN OpenPush(page)
     ELSE LET drained == [socket EXCEPT !.signal = FALSE, !.channel = <<>>]
          IN IF socket.serves THEN SendSnapshot(drained, page)
             ELSE socket' = drained /\ UNCHANGED <<page, troubles>>
  /\ UNCHANGED <<topic, current, clock, work, sample>>

\* The ticker: a snapshot, or one of the last 200 ms, that differs from the last one sent.
SampleNow ==
  /\ Selects /\ socket.serves /\ topic \in SampledTopics
  /\ LET payload == IF sample = NotKnown THEN current ELSE sample
     IN /\ socket.known # payload
        /\ socket' = [socket EXCEPT !.known = payload]
        /\ page' = ShowsAll(page, payload)
        /\ sample' = payload
  /\ UNCHANGED <<topic, current, clock, work, troubles>>

\* applicationTopicSnapshotCached for another socket; the time of the cached snapshot.
SampleForAnother ==
  /\ topic \in SampledTopics /\ sample = NotKnown
  /\ sample' = current
  /\ UNCHANGED <<topic, current, clock, work, socket, page, troubles>>

SampleExpires ==
  /\ sample # NotKnown
  /\ sample' = NotKnown
  /\ UNCHANGED <<topic, current, clock, work, socket, page, troubles>>

\* The socket is lost, or closed because its channel of activity was.
LoseSocket ==
  /\ socket.up
  /\ socket.id < MaxSockets \/ (Selects /\ socket.closed /\ socket.channel = <<>>)
  /\ socket' = [NoSocket EXCEPT !.id = socket.id, !.subscriber = socket.subscriber]
  /\ page' = [page EXCEPT !.asks = {}, !.opened = page.listening, !.fresh = {}]
  /\ UNCHANGED <<topic, current, clock, work, sample, troubles>>

---------------------------------------------------------------------------
\* readApplicationWebSocket: a request replaces the one not yet taken.
Newest(wanted) == IF socket.up THEN {wanted} ELSE {}

\* ApplicationEventClient asks for the topics of its listeners whenever one comes or goes.
Asks(p) == [p EXCEPT !.asks = Newest(p.listening # {})]

\* A part of the page that is about to listen (ChatPage loads the conversation first).
Prepare(l) ==
  /\ l \notin page.listening \cup page.prepared
  /\ page.visits < MaxVisits
  /\ page' = [page EXCEPT !.view[l] = IF l \in Readers THEN Shown(current) ELSE Blank,
                          !.prepared = @ \cup {l}, !.visits = @ + 1]
  /\ UNCHANGED <<topic, current, clock, work, socket, sample, troubles>>

StartListening(l) ==
  /\ l \in page.prepared
  /\ page' = Asks([page EXCEPT !.prepared = @ \ {l}, !.listening = @ \cup {l},
                              !.opened = IF socket.serves THEN @ ELSE @ \cup {l}])
  /\ UNCHANGED <<topic, current, clock, work, socket, sample, troubles>>

StopListening(l) ==
  /\ l \in page.listening
  /\ page' = Asks([page EXCEPT !.listening = @ \ {l}, !.fresh = @ \ {l}, !.opened = @ \ {l}, !.view[l] = Blank])
  /\ UNCHANGED <<topic, current, clock, work, socket, sample, troubles>>

\* The page connects again as long as something listens, and asks for its topics.
Connect ==
  /\ ~socket.up /\ page.listening # {}
  /\ socket' = NewSubscriber([socket EXCEPT !.up = TRUE, !.id = @ + 1])
  /\ page' = [page EXCEPT !.asks = {TRUE}]
  /\ UNCHANGED <<topic, current, clock, work, sample, troubles>>

---------------------------------------------------------------------------
AppInit ==
  /\ topic \in Watched
  /\ current = Blank /\ clock = 0
  /\ work = [p \in Publishers |-> IdleWork]
  /\ socket = NoSocket
  /\ page = NoPage
  /\ sample = NotKnown
  /\ troubles = [errors |-> 0, unsignalled |-> FALSE]

Publishing(p) == FindSubscriber(p) \/ SendState(p) \/ SendTask(p) \/ AskResync(p) \/ SendActivity(p)

ServeSocket == TakeSubscription \/ SendActivitySnapshot \/ TakeEvent \/ TakeSignal \/ SampleNow

AppNext ==
  \/ \E p \in Publishers : Publishing(p) \/ \E i \in Items, stamp \in 0..MaxStamp : ChangeItem(p, i, stamp)
  \/ ServeSocket \/ SampleForAnother \/ SampleExpires \/ LoseSocket \/ Connect
  \/ \E l \in Listeners : Prepare(l) \/ StartListening(l) \/ StopListening(l)

AppSpec == AppInit /\ [][AppNext]_appVars

---------------------------------------------------------------------------
Contents    == [Items -> 0..MaxStamp]
Changes     == [item : Items, stamp : 0..MaxStamp]
WorkPlaces  == {"idle", "changed", "sending", "full"}
WorkRecords == [at : WorkPlaces, item : Items, stamp : 0..MaxStamp, to : Nat]
SocketRecords ==
  [id : Nat, up : BOOLEAN, serves : BOOLEAN, step : {"select", "snapshot"}, known : Contents \cup {NotKnown},
   subscriber : Nat, channel : Seq(Changes \cup {Resync}), closed : BOOLEAN, flagged : BOOLEAN, signal : BOOLEAN]
PageRecords ==
  [asks : SUBSET BOOLEAN, prepared : SUBSET Listeners, listening : SUBSET Listeners,
   view : [Listeners -> Contents], fresh : SUBSET Listeners, opened : SUBSET Listeners,
   wrong : BOOLEAN, visits : 0..MaxVisits]

AppTypes ==
  /\ topic \in Watched /\ clock \in 0..MaxStamp /\ current \in Contents
  /\ work \in [Publishers -> WorkRecords]
  /\ socket \in SocketRecords /\ Len(socket.channel) <= Room
  /\ page \in PageRecords
  /\ sample \in Contents \cup {NotKnown}
  /\ troubles \in [errors : 0..MaxErrors, unsignalled : BOOLEAN]

\* Nothing is under way: publishers, the socket, its channel, the samples.
AtRest ==
  /\ \A p \in Publishers : work[p].at = "idle"
  /\ socket.up /\ socket.step = "select" /\ page.asks = {} /\ page.prepared = {}
  /\ socket.channel = <<>> /\ ~socket.signal /\ ~socket.closed
  /\ topic \in SampledTopics /\ socket.serves => socket.known = current

Right(l) == page.view[l] = Shown(current)

\* When nothing is under way, a listener that got a snapshot since it registered shows
\* what the server has, whatever changed, overflowed, was lost or came late in between;
\* unless an error is shown to it since, or the request to begin again found no room.
\* A listener is in that position when it registered while the topic was not served.
PageCatchesUp ==
  AtRest /\ ~page.wrong =>
    /\ \A l \in page.fresh : Right(l) \/ troubles.unsignalled
    /\ page.opened \cap page.listening \subseteq page.fresh

\* docs/architecture.md says that a snapshot is sent on a subscription, and
\* sessionPlanState.ts that the socket supplies an initial snapshot and ordered deltas:
\* every listener shows what the server has when nothing is under way.
EveryListenerCatchesUp == AtRest /\ ~page.wrong /\ ~troubles.unsignalled => \A l \in page.listening : Right(l)
=============================================================================
