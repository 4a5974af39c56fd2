---------------------------- MODULE McpConnections ----------------------------
(***************************************************************************)
(* The connections to one outbound MCP server (mcpclient, service/mcp,     *)
(* mcp_config, mcp_oauth, mcp_oauth_tokens).  Every attempt to connect,    *)
(* test or authorize reserves a generation; saving, disabling, deleting    *)
(* the server or clearing its authorization replaces the current one.      *)
(* A section under mcpSecretsMu is one step, and so is one under the       *)
(* manager's mu: the sections of the manager that run while mcpSecretsMu   *)
(* is held see the row as the section leaves it.                           *)
(***************************************************************************)
EXTENDS Naturals, FiniteSets

CONSTANTS
  MaxLinks,   \* bound: the generations alive at a time
  ToolCalls,  \* the tool calls of Agents
  MaxChanges  \* bound: requests of the operator

ASSUME McpAssumption == MaxLinks \in Nat \ {0} /\ MaxChanges \in Nat

VARIABLES
  saved,     \* the server's row: there, enabled, and its tokens: none, those of the last
             \* authorization, or older ones
  entry,     \* states[id]: the generation and the status it shows
  link,      \* the generations; asSaved: reserved with the settings saved last;
             \* granted: since the authorization was last cleared
  flowOf,    \* mcpOAuthByServer[id], by its generation
  call,      \* the tool calls that hold a session
  changes,   \* requests of the operator so far
  asks,      \* calls of ReconnectMCPServer that have not reserved a generation
  flowsShut, \* mcpOAuthClosed
  mcpShut    \* Manager.closed

mcpVars == <<saved, entry, link, flowOf, call, changes, asks, flowsShut, mcpShut>>

---------------------------------------------------------------------------
Links  == 1..MaxLinks
NoLink == 0
Unreserved ==
  [kind |-> "unused", asSaved |-> FALSE, granted |-> FALSE, oauth |-> FALSE, at |-> "ended", cancelled |-> FALSE,
   stopped |-> FALSE, open |-> FALSE, tokens |-> "none", flow |-> "none"]
NoEntry == [gen |-> NoLink, status |-> ""]

Change == changes < MaxChanges /\ changes' = changes + 1

UnusedLinks == {g \in Links : link[g].kind = "unused"}
IsNext(g)   == g \in UnusedLinks /\ \A other \in UnusedLinks : g <= other

\* Connection.currentLocked
InActive(g)  == link[g].at \in {"opening", "opened", "refused", "watched", "lost"}
CurrentLink(g) ==
  /\ ~mcpShut /\ InActive(g) /\ ~link[g].cancelled
  /\ link[g].kind = "test" \/ entry.gen = g

\* cancelServerLocked: every active generation of the server, tests too; the startup
\* context ends with the lifetime.
CancelledLinks(old) ==
  [g \in Links |-> IF InActive(g) THEN [old[g] EXCEPT !.cancelled = TRUE, !.stopped = TRUE] ELSE old[g]]

\* cancelMCPOAuthFlow: the flow is forgotten and its startup context ends.
FlowCancelled(old) ==
  [g \in Links |-> IF g = flowOf
                   THEN [old[g] EXCEPT !.stopped = TRUE, !.flow = IF @ = "published" THEN "withdrawn" ELSE @]
                   ELSE old[g]]

Begun(old, g, kind) ==
  LET before == IF kind = "test" THEN old ELSE CancelledLinks(old)
  IN  [before EXCEPT ![g] = [Unreserved EXCEPT !.kind = kind, !.asSaved = TRUE, !.granted = TRUE,
         !.oauth = saved.tokens # "none", !.at = "opening", !.flow = IF kind = "authorize" THEN "running" ELSE "none"]]

\* What the links were reserved with is no longer what the row says.
Outdated(old, cleared) ==
  [g \in Links |-> IF InActive(g) THEN [old[g] EXCEPT !.asSaved = FALSE, !.granted = @ /\ ~cleared] ELSE old[g]]

\* Disconnect
Disconnected(links, status) ==
  /\ link' = CancelledLinks(FlowCancelled(links))
  /\ entry' = IF mcpShut THEN entry ELSE [gen |-> NoLink, status |-> status]

---------------------------------------------------------------------------
(* The requests of the operator. *)

SaveServer(enabled, newUrl) ==
  /\ Change /\ saved.there
  /\ saved' = [saved EXCEPT !.enabled = enabled, !.tokens = IF newUrl THEN "none" ELSE @]
  /\ Disconnected(Outdated(link, newUrl), IF enabled THEN "disconnected" ELSE "disabled")
  /\ flowOf' = NoLink
  /\ asks' = (enabled \/ asks)
  /\ UNCHANGED <<call, flowsShut, mcpShut>>

EnableServer ==
  /\ Change /\ saved.there /\ ~saved.enabled
  /\ saved' = [saved EXCEPT !.enabled = TRUE] /\ asks' = TRUE
  /\ UNCHANGED <<entry, link, flowOf, call, flowsShut, mcpShut>>

DisableServer ==
  /\ Change /\ saved.there
  /\ saved' = [saved EXCEPT !.enabled = FALSE]
  /\ Disconnected(link, "disabled") /\ flowOf' = NoLink
  /\ UNCHANGED <<call, asks, flowsShut, mcpShut>>

\* Forget
DeleteServer ==
  /\ Change /\ saved.there
  /\ saved' = [there |-> FALSE, enabled |-> FALSE, tokens |-> "none"]
  /\ link' = CancelledLinks(FlowCancelled(link)) /\ entry' = NoEntry /\ flowOf' = NoLink
  /\ UNCHANGED <<call, asks, flowsShut, mcpShut>>

ClearOAuth ==
  /\ Change /\ saved.there
  /\ saved' = [saved EXCEPT !.tokens = "none"]
  /\ Disconnected(Outdated(link, TRUE), IF saved.enabled THEN "disconnected" ELSE "disabled")
  /\ flowOf' = NoLink
  /\ asks' = (saved.enabled \/ asks)
  /\ UNCHANGED <<call, flowsShut, mcpShut>>

AskReconnect ==
  /\ Change /\ ~asks /\ asks' = TRUE
  /\ UNCHANGED <<saved, entry, link, flowOf, call, flowsShut, mcpShut>>

\* ReconnectMCPServer, up to Run.  The reservation fails when the manager is closed or
\* the request is over; the flow is gone all the same.
ReconnectServer(g, begins) ==
  /\ asks /\ asks' = FALSE
  /\ IF saved.there /\ saved.enabled
     THEN /\ flowOf' = NoLink
          /\ IF begins
             THEN /\ IsNext(g) /\ ~mcpShut
                  /\ link' = Begun(FlowCancelled(link), g, "connect")
                  /\ entry' = [gen |-> g, status |-> "connecting"]
             ELSE link' = FlowCancelled(link) /\ UNCHANGED entry
     ELSE UNCHANGED <<entry, link, flowOf>>
  /\ UNCHANGED <<saved, call, changes, flowsShut, mcpShut>>

\* TestMCPServer, up to Test
BeginTest(g) ==
  /\ Change /\ saved.there /\ ~mcpShut /\ IsNext(g)
  /\ link' = Begun(link, g, "test")
  /\ UNCHANGED <<saved, entry, flowOf, call, asks, flowsShut, mcpShut>>

\* BeginMCPOAuth, up to the flow's goroutine; the flow before it loses its context.
BeginOAuth(g) ==
  /\ Change /\ saved.there /\ saved.enabled /\ ~flowsShut /\ ~mcpShut /\ IsNext(g)
  /\ link' = Begun(IF flowOf = NoLink THEN link ELSE [link EXCEPT ![flowOf].stopped = TRUE], g, "authorize")
  /\ entry' = [gen |-> g, status |-> "connecting"] /\ flowOf' = g
  /\ UNCHANGED <<saved, call, asks, flowsShut, mcpShut>>

---------------------------------------------------------------------------
(* An attempt: run, and the authorization inside it. *)

Moved(g, place) == link' = [link EXCEPT ![g].at = place]

\* publishMCPOAuthURL
PublishUrl(g) ==
  /\ link[g].at = "opening" /\ link[g].flow = "running" /\ ~link[g].stopped
  /\ IF flowOf = g THEN link' = [link EXCEPT ![g].flow = "published"] ELSE Moved(g, "refused")
  /\ UNCHANGED <<saved, entry, flowOf, call, asks, changes, flowsShut, mcpShut>>

\* CompleteMCPOAuth posts the browser's answer to the flow it has looked up, which may be
\* withdrawn by then; AuthorizationCodeFetcher receives it, and the token endpoint takes
\* the code.  (An answer that is refused is an attempt that fails.)
AcceptCallback(g) ==
  /\ link[g].at = "opening" /\ link[g].flow \in {"published", "withdrawn"} /\ link[g].tokens = "none"
  /\ link' = [link EXCEPT ![g].tokens = "fresh"]
  /\ UNCHANGED <<saved, entry, flowOf, call, asks, changes, flowsShut, mcpShut>>

\* A restored session's token source gets a new token from its endpoint.
RefreshToken(g) ==
  /\ link[g].at \in {"opening", "watched"} /\ link[g].oauth /\ link[g].kind # "authorize" /\ link[g].tokens = "none" /\ ~link[g].cancelled
  /\ link' = [link EXCEPT ![g].tokens = "fresh"]
  /\ UNCHANGED <<saved, entry, flowOf, call, asks, changes, flowsShut, mcpShut>>

\* persistMCPOAuthSession: the tokens of a generation that is not current are dropped;
\* the request they were for fails.
PersistToken(g) ==
  /\ link[g].tokens = "fresh"
  /\ IF CurrentLink(g) /\ saved.there
     THEN /\ saved' = [saved EXCEPT !.tokens = IF link[g].granted THEN "last" ELSE "older"]
          /\ link' = [link EXCEPT ![g].tokens = IF link[g].kind = "authorize" THEN "kept" ELSE "none"]
     ELSE /\ link' = [link EXCEPT ![g].tokens = "none", ![g].at = IF @ = "opening" THEN "refused" ELSE @]
          /\ UNCHANGED saved
  /\ UNCHANGED <<entry, flowOf, call, asks, changes, flowsShut, mcpShut>>

\* Open: the server answers and lists its tools, or the attempt fails.  A flow looks at
\* the row once more; the session of a flow that is no longer wanted is given to run with
\* the error.
OpenSession(g) ==
  /\ link[g].at = "opening" /\ ~link[g].stopped /\ link[g].tokens # "fresh"
  /\ link[g].flow # "none" => link[g].tokens = "kept"
  /\ LET wanted == link[g].flow = "none" \/ (saved.there /\ saved.enabled /\ flowOf = g)
     IN  link' = [link EXCEPT ![g].open = TRUE, ![g].at = IF wanted THEN "opened" ELSE "refused"]
  /\ UNCHANGED <<saved, entry, flowOf, call, asks, changes, flowsShut, mcpShut>>

\* The server refuses, or the attempt's time is over: its request's, the connect timeout,
\* the ten minutes of a flow.
OpenFails(g) ==
  /\ link[g].at = "opening" /\ Moved(g, "refused")
  /\ UNCHANGED <<saved, entry, flowOf, call, asks, changes, flowsShut, mcpShut>>

\* What is still to be known of a generation that has failed.
CancelledLink(old) ==
  [Unreserved EXCEPT !.kind = old.kind, !.asSaved = old.asSaved, !.at = "closing", !.cancelled = TRUE, !.open = old.open,
                     !.flow = old.flow]

\* The locked section of run.
Succeeds(g) == link[g].at = "opened" /\ ~link[g].stopped /\ CurrentLink(g)
Register(g, inTime) ==
  /\ link[g].at \in {"opened", "refused"}
  /\ IF inTime /\ Succeeds(g) /\ link[g].kind # "test"
     THEN Moved(g, "watched") /\ entry' = [gen |-> g, status |-> "ready"]
     ELSE /\ entry' = IF CurrentLink(g) /\ link[g].kind # "test" THEN [gen |-> NoLink, status |-> "error"] ELSE entry
          /\ link' = [link EXCEPT ![g] = CancelledLink(@)]
  /\ UNCHANGED <<saved, flowOf, call, asks, changes, flowsShut, mcpShut>>

\* A generation that is over is forgotten, but for the flow that has yet to notice; its
\* entry keeps the status.
Over(g, links) == IF links[g].flow \in {"none", "done"} /\ ~links[g].open
                  THEN [links EXCEPT ![g] = Unreserved] ELSE [links EXCEPT ![g].at = "ended"]
CloseSession(g) == [link EXCEPT ![g].open = FALSE]
EndAttempt(g) ==
  /\ link[g].at = "closing" /\ link' = Over(g, CloseSession(g))
  /\ UNCHANGED <<saved, entry, flowOf, call, asks, changes, flowsShut, mcpShut>>

\* runMCPOAuthFlow, its deferred calls: the flow is removed, then done.
EndFlow(g) ==
  /\ link[g].at \in {"watched", "lost", "ended"} /\ link[g].flow \in {"running", "published", "withdrawn"}
  /\ link' = IF link[g].at = "ended" THEN Over(g, [link EXCEPT ![g].flow = "done"])
                                      ELSE [link EXCEPT ![g].flow = "done"]
  /\ flowOf' = IF flowOf = g THEN NoLink ELSE flowOf
  /\ UNCHANGED <<saved, entry, call, asks, changes, flowsShut, mcpShut>>

---------------------------------------------------------------------------
(* A connection in use: watch, Call, and the shutdown. *)

\* Wait returns because the peer has gone or the lifetime is over; the session is closed.
LoseLink(g) ==
  /\ link[g].at = "watched"
  /\ link' = [link EXCEPT ![g].at = "lost", ![g].open = FALSE]
  /\ UNCHANGED <<saved, entry, flowOf, call, asks, changes, flowsShut, mcpShut>>

Unwatch(g) ==
  /\ link[g].at = "lost"
  /\ entry' = IF CurrentLink(g) THEN [gen |-> NoLink, status |-> "disconnected"] ELSE entry
  /\ link' = Over(g, [link EXCEPT ![g].cancelled = TRUE])
  /\ UNCHANGED <<saved, flowOf, call, asks, changes, flowsShut, mcpShut>>

CallTool(c) ==
  /\ c \notin call /\ entry.status = "ready" /\ CurrentLink(entry.gen)
  /\ call' = call \cup {c}
  /\ UNCHANGED <<saved, entry, link, flowOf, asks, changes, flowsShut, mcpShut>>

\* The answer, the end of the generation, the caller's, or the time limit.
EndToolCall(c) ==
  /\ c \in call /\ call' = call \ {c}
  /\ UNCHANGED <<saved, entry, link, flowOf, asks, changes, flowsShut, mcpShut>>

\* Service.Shutdown: cancelAllMCPOAuthFlows, then Manager.Close.
ShutFlows ==
  /\ ~flowsShut /\ flowsShut' = TRUE
  /\ link' = [g \in Links |-> [link[g] EXCEPT !.flow = IF @ = "published" THEN "withdrawn" ELSE @,
                                               !.stopped = (flowOf = g) \/ @]]
  /\ flowOf' = NoLink
  /\ UNCHANGED <<saved, entry, call, asks, changes, mcpShut>>

ShutMcp ==
  /\ flowsShut /\ ~mcpShut /\ mcpShut' = TRUE
  /\ link' = CancelledLinks(link) /\ entry' = NoEntry
  /\ UNCHANGED <<saved, flowOf, call, asks, changes, flowsShut>>

\* m.workers and mcpOAuthWG have nothing left to wait for.
McpDone ==
  /\ mcpShut
  /\ \A g \in Links : link[g].at = "ended" /\ link[g].flow \in {"none", "done"}
  /\ call = {}

---------------------------------------------------------------------------
\* InitializeMCPServers: an enabled server is connected, the entry of another says so.
McpInit ==
  /\ saved \in [there : {TRUE}, enabled : BOOLEAN, tokens : {"none", "last"}]
  /\ entry = IF saved.enabled THEN NoEntry ELSE [gen |-> NoLink, status |-> "disabled"]
  /\ link = [g \in Links |-> Unreserved] /\ flowOf = NoLink
  /\ call = {} /\ asks = saved.enabled /\ changes = 0
  /\ flowsShut = FALSE /\ mcpShut = FALSE

Attempt(g) ==
  \/ PersistToken(g) \/ OpenFails(g) \/ (\E inTime \in BOOLEAN : Register(g, inTime)) \/ EndAttempt(g) \/ EndFlow(g) \/ Unwatch(g)
  \/ link[g].cancelled /\ LoseLink(g)

McpNext ==
  \/ \E enabled, newUrl \in BOOLEAN : SaveServer(enabled, newUrl)
  \/ EnableServer \/ DisableServer \/ DeleteServer \/ ClearOAuth \/ AskReconnect
  \/ ShutFlows \/ ShutMcp
  \/ \E g \in Links :
       \/ \E begins \in BOOLEAN : ReconnectServer(g, begins)
       \/ BeginTest(g) \/ BeginOAuth(g) \/ Attempt(g) \/ PublishUrl(g) \/ RefreshToken(g)
       \/ OpenSession(g) \/ LoseLink(g)
       \/ AcceptCallback(g)
  \/ \E c \in ToolCalls : CallTool(c) \/ EndToolCall(c)

McpSpec == McpInit /\ [][McpNext]_mcpVars

\* The flow's ten minutes and the connect timeout end every attempt; the SDK's sessions
\* end when they are closed; a call has a time limit; goroutines are scheduled.
McpFairness ==
  /\ \A g \in Links : WF_mcpVars(Attempt(g))
  /\ \A c \in ToolCalls : WF_mcpVars(EndToolCall(c))
  /\ WF_mcpVars(ShutMcp)

---------------------------------------------------------------------------
SavedRecord == [there : BOOLEAN, enabled : BOOLEAN, tokens : {"none", "last", "older"}]
EntryRecord ==
  [gen : {NoLink} \cup Links, status : {"", "connecting", "ready", "error", "disconnected", "disabled"}]
LinkRecord ==
  [kind : {"unused", "connect", "authorize", "test"}, asSaved : BOOLEAN, granted : BOOLEAN, oauth : BOOLEAN,
   at : {"opening", "opened", "refused", "watched", "lost", "closing", "ended"}, cancelled : BOOLEAN,
   stopped : BOOLEAN, open : BOOLEAN, tokens : {"none", "fresh", "kept"},
   flow : {"none", "running", "published", "withdrawn", "done"}]

McpTypes ==
  /\ saved \in SavedRecord /\ entry \in EntryRecord /\ link \in [Links -> LinkRecord]
  /\ flowOf \in {NoLink} \cup Links
  /\ call \subseteq ToolCalls /\ changes \in 0..MaxChanges
  /\ asks \in BOOLEAN /\ flowsShut \in BOOLEAN /\ mcpShut \in BOOLEAN

\* The server's tools are offered only through an open or just lost connection that was
\* made with the settings saved last, of a server that is there and enabled
\* (Manager.Tools, Call); the tokens in the row are those of the last authorization for
\* its URL (ClearMCPOAuth and a changed URL drop the older ones, whoever still refreshes
\* them); one registered connection lives at a time; and after the shutdown no session
\* is open.
ServesSavedSettings ==
  /\ entry.status = "ready" =>
       /\ saved.there /\ saved.enabled
       /\ link[entry.gen].asSaved /\ link[entry.gen].granted /\ link[entry.gen].at \in {"watched", "lost"}
  /\ saved.tokens # "older"
  /\ Cardinality({g \in Links : link[g].kind # "test" /\ InActive(g) /\ ~link[g].cancelled}) <= 1
  /\ flowOf # NoLink => link[flowOf].asSaved
  /\ McpDone => \A g \in Links : ~link[g].open

\* What must come to an end: a replaced connection, a flow that a browser's callback waits
\* for, the shutdown (Connection.run and watch, CompleteMCPOAuth, Manager.Close).
LinkEnding(g) == (link[g].cancelled /\ link[g].at # "ended") \/ link[g].flow = "published"
McpClosing    == mcpShut /\ ~McpDone
=============================================================================
