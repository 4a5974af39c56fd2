----------------------------- MODULE ModelRuntime -----------------------------
(***************************************************************************)
(* The model providers and settings an operator saves, and the runtime the *)
(* Agent is served by (httpapi/server, service/model_providers,            *)
(* system_settings, configuration; Runtime.Reload).  Each request writes   *)
(* first and then reloads the runtime, which reads the saved rows one      *)
(* after the other: several requests may be anywhere between their write   *)
(* and the end of their reload.  The context window of a model is looked   *)
(* up in the background and may arrive when another model is served.       *)
(*                                                                         *)
(* The revision of a provider stands for the provider and its proxy.  The  *)
(* environment configures no model.  One approval Agent stands for the two *)
(* (explanation and automatic approval), which are selected, built and set *)
(* alike, one after the other.                                             *)
(***************************************************************************)
EXTENDS Naturals, FiniteSets

CONSTANTS
  Providers, NoProvider,
  FirstActive, \* the active provider at the start
  Imports,     \* what operators import: [providers |-> a set of providers, active |-> one of them or none]
  Clients,     \* concurrent requests
  MaxWrites    \* bound: writes and deletions (and one lookup of a context window at a time)

ASSUME RuntimeAssumption ==
  /\ NoProvider \notin Providers /\ FirstActive \in Providers \cup {NoProvider} /\ MaxWrites \in Nat \ {0}
  /\ \A i \in Imports : i.providers \subseteq Providers /\ i.active \in i.providers \cup {NoProvider}

VARIABLES
  provider,   \* the revision of each row of model_providers, 0 when there is none
  active,     \* the provider with active = 1: an index admits one
  settings,   \* the row of system_settings: its revision and the approval Agent's provider
  tools,      \* the revision of what else a runner is built from: functions, skills, MCP servers
  writes,     \* the last revision
  client,     \* the requests
  runtime,    \* what the Agent's runner, finalizer and title generator were built from
  reviewer,   \* what the approval Agent was built from, None when there is none
  approvalAvailable, \* status.ApprovalAgentAvailable: what the operator is told of it
  lookups,    \* lookups of a context window under way: the model, and whether contextRevision
              \* is still the one it was asked for
  window,     \* the model whose window was looked up, as the runtime has it
  unrepaired  \* (history) no reload follows the last change: it failed, or was not asked for

runtimeVars ==
  <<provider, active, settings, tools, writes, client, runtime, reviewer, approvalAvailable, lookups, window,
    unrepaired>>
savedRows == <<provider, active, settings, tools, writes>>
served == <<runtime, reviewer, approvalAvailable, lookups, window>>

---------------------------------------------------------------------------
Selection == Providers \cup {NoProvider}
None == [provider |-> NoProvider, rev |-> 0]
Config(p) == IF p = NoProvider THEN None ELSE IF provider[p] = 0 THEN None ELSE [provider |-> p, rev |-> provider[p]]
Selected(p) == settings.agent = p

Unavailable == [main |-> None, settings |-> 0, tools |-> 0]
AtRest == [at |-> "idle", p |-> NoProvider, active |-> FALSE, got |-> Unavailable, agent |-> None]

\* What a reload that meets no change makes of the rows.
SavedRuntime == IF Config(active) = None THEN Unavailable
                ELSE [main |-> Config(active), settings |-> settings.rev, tools |-> tools]
AgentOf(p, main) == IF p = NoProvider THEN main ELSE Config(p)
SavedReviewer == IF Config(active) = None THEN None ELSE AgentOf(settings.agent, Config(active))

RuntimeInit ==
  /\ provider = [p \in Providers |-> 1]
  /\ active = FirstActive
  /\ settings = [rev |-> 1, agent |-> NoProvider]
  /\ tools = 1 /\ writes = 1
  /\ client = [c \in Clients |-> AtRest]
  /\ runtime = SavedRuntime /\ reviewer = SavedReviewer /\ approvalAvailable = (SavedReviewer # None)
  /\ lookups = {} /\ window = None /\ unrepaired = FALSE

Idle(c) == client[c].at = "idle" /\ writes < MaxWrites
Turns(c, at) == client' = [client EXCEPT ![c] = [AtRest EXCEPT !.at = at]]
MustReload(c) == Turns(c, "reload")
WriteNext == writes' = writes + 1

---------------------------------------------------------------------------
\* Providers.

\* SaveModelProvider, up to UpsertModelProvider: a copy of the active flag, for a row that is there.
AskToSaveProvider(c) ==
  \E p \in Providers :
    /\ Idle(c)
    /\ client' = [client EXCEPT ![c] = [AtRest EXCEPT !.at = "saving", !.p = p, !.active = (active = p)]]
    /\ UNCHANGED <<savedRows, served, unrepaired>>

\* The update leaves the flag; a row that was deleted in between is inserted with the copy,
\* unless another provider is active by now.
UpsertProvider(c) ==
  LET p == client[c].p
      Inserted == provider[p] = 0
  IN /\ client[c].at = "saving" /\ writes < MaxWrites
     /\ IF Inserted /\ client[c].active /\ active # NoProvider
          THEN Turns(c, "idle") /\ UNCHANGED savedRows
          ELSE /\ WriteNext /\ provider' = [provider EXCEPT ![p] = writes + 1]
               /\ active' = IF Inserted /\ client[c].active THEN p ELSE active
               /\ client' = [client EXCEPT ![c].at = "saved", ![c].active = (active' = p)]
               /\ UNCHANGED <<settings, tools>>
     /\ UNCHANGED <<served, unrepaired>>

InUse(p) == active = p \/ Selected(p)

\* The handler has the row and reads the settings: only a provider in use needs a reload.
NeedsReload(c) == client[c].active \/ Selected(client[c].p)

DecideReload(c) ==
  /\ client[c].at = "saved"
  /\ IF NeedsReload(c) THEN MustReload(c) ELSE Turns(c, "idle")
  /\ UNCHANGED <<savedRows, served, unrepaired>>

\* The row is written, but it, or the settings, cannot be read: no reload is asked for.
FailDecide(c) ==
  /\ client[c].at = "saved"
  /\ Turns(c, "idle") /\ unrepaired' = (unrepaired \/ NeedsReload(c))
  /\ UNCHANGED <<savedRows, served>>

ActivateProvider(c) ==
  \E p \in Providers :
    /\ Idle(c) /\ provider[p] # 0
    /\ WriteNext /\ provider' = [provider EXCEPT ![p] = writes + 1] /\ active' = p
    /\ MustReload(c)
    /\ UNCHANGED <<settings, tools, served, unrepaired>>

\* DeleteModelProvider, up to the deletion.
AskToDeleteProvider(c) ==
  \E p \in Providers :
    /\ Idle(c) /\ provider[p] # 0 /\ ~Selected(p)
    /\ client' = [client EXCEPT ![c] = [AtRest EXCEPT !.at = "deleting", !.p = p, !.active = (active = p)]]
    /\ UNCHANGED <<savedRows, served, unrepaired>>

\* A reload follows when the provider was active at the check: one that was activated or
\* selected since stays in the runtime.
DeleteProvider(c) ==
  LET p == client[c].p IN
  /\ client[c].at = "deleting" /\ writes < MaxWrites
  /\ IF provider[p] = 0
       THEN Turns(c, "idle") /\ UNCHANGED <<provider, active, writes, unrepaired>>
       ELSE /\ WriteNext /\ provider' = [provider EXCEPT ![p] = 0]
            /\ active' = IF active = p THEN NoProvider ELSE active
            /\ IF client[c].active THEN MustReload(c) ELSE Turns(c, "idle")
            /\ unrepaired' = (unrepaired \/ (~client[c].active /\ InUse(p)))
  /\ UNCHANGED <<settings, tools, served>>

\* SaveProxy of a provider's proxy.  When the row that was written cannot be read back no
\* reload is asked for.
SaveProviderProxy(c) ==
  \E p \in Providers :
    /\ Idle(c) /\ provider[p] # 0
    /\ WriteNext /\ provider' = [provider EXCEPT ![p] = writes + 1]
    /\ \/ MustReload(c) /\ UNCHANGED unrepaired
       \/ Turns(c, "idle") /\ unrepaired' = (unrepaired \/ InUse(p))
    /\ UNCHANGED <<active, settings, tools, served>>

\* ApplyConfiguration: imported providers, of which one may become the active one.
ImportProviders(c) ==
  \E imported \in Imports :
    /\ Idle(c)
    /\ WriteNext
    /\ provider' = [p \in Providers |-> IF p \in imported.providers THEN writes + 1 ELSE provider[p]]
    /\ active' = IF imported.active = NoProvider THEN active ELSE imported.active
    /\ MustReload(c)
    /\ UNCHANGED <<settings, tools, served, unrepaired>>

---------------------------------------------------------------------------
\* Settings.

\* SaveSystemSettings, up to the write of the whole row: a provider that is newly selected is
\* there.
AskToSaveSettings(c) ==
  \E p \in {NoProvider, settings.agent} \cup {q \in Providers : provider[q] # 0} :
    /\ Idle(c)
    /\ client' = [client EXCEPT ![c] = [AtRest EXCEPT !.at = "saving settings", !.p = p]]
    /\ UNCHANGED <<savedRows, served, unrepaired>>

SaveSettings(c) ==
  /\ client[c].at = "saving settings" /\ writes < MaxWrites
  /\ WriteNext /\ settings' = [rev |-> writes + 1, agent |-> client[c].p]
  /\ MustReload(c)
  /\ UNCHANGED <<provider, active, tools, served, unrepaired>>

\* A function, a skill, an MCP server or the web search is changed.  Some are read back once
\* they are written, and when that fails no reload is asked for.
ChangeTools(c) ==
  /\ Idle(c)
  /\ WriteNext /\ tools' = writes + 1
  /\ \/ MustReload(c) /\ UNCHANGED unrepaired
     \/ Turns(c, "idle") /\ unrepaired' = TRUE
  /\ UNCHANGED <<provider, active, settings, served>>

---------------------------------------------------------------------------
\* Runtime.Reload

ReloadSteps == {"active read", "config read", "settings read", "tools read", "agent read", "published"}
\* Mutant: reloads are not serialised.
ReloadAtOnce == TRUE

ReloadFree  == \A c \in Clients : client[c].at \notin ReloadSteps  \* reloadMu

\* ActiveModelConfig: which provider is active, and then its row.
ReadActive(c) ==
  /\ client[c].at = "reload" /\ ReloadFree
  /\ client' = [client EXCEPT ![c].at = "active read", ![c].p = active]
  /\ unrepaired' = FALSE
  /\ UNCHANGED <<savedRows, served>>

ReadConfig(c) ==
  /\ client[c].at = "active read"
  /\ client' = [client EXCEPT ![c].at = IF Config(client[c].p) = None THEN "agent read" ELSE "config read",
                              ![c].got.main = Config(client[c].p)]
  /\ UNCHANGED <<savedRows, served, unrepaired>>

ReadSettings(c) ==
  /\ client[c].at = "config read"
  /\ client' = [client EXCEPT ![c].at = "settings read", ![c].got.settings = settings.rev, ![c].p = settings.agent]
  /\ UNCHANGED <<savedRows, served, unrepaired>>

\* buildRunner
ReadTools(c) ==
  /\ client[c].at = "settings read"
  /\ client' = [client EXCEPT ![c].at = "tools read", ![c].got.tools = tools]
  /\ UNCHANGED <<savedRows, served, unrepaired>>

\* ModelProviderConfig of the selected provider, or the configuration read before.  It cannot
\* be read, or the coordinator cannot be built of it: the reload goes on without one, and
\* succeeds.
ReadAgent(c) ==
  /\ client[c].at = "tools read"
  /\ \E agent \in {AgentOf(client[c].p, client[c].got.main), None} :
       client' = [client EXCEPT ![c].at = "agent read", ![c].agent = agent]
  /\ UNCHANGED <<savedRows, served, unrepaired>>

\* The section under mu: the new runner is served, the lookup for the old one is cancelled,
\* which may come too late, and one for a model whose window is not configured begins.
Serve(main) ==
  LET late == {[lookup EXCEPT !.asked = FALSE] : lookup \in lookups} IN
  /\ window' = None
  /\ \/ lookups' = late
     \/ main # None /\ late = {} /\ lookups' = {[model |-> main, asked |-> TRUE]}

PublishRuntime(c) ==
  /\ client[c].at = "agent read"
  /\ runtime' = client[c].got /\ approvalAvailable' = (client[c].agent # None) /\ Serve(client[c].got.main)
  /\ client' = [client EXCEPT ![c].at = "published"]
  /\ UNCHANGED <<savedRows, reviewer, unrepaired>>

PublishReviewers(c) ==
  /\ client[c].at = "published"
  /\ reviewer' = client[c].agent
  /\ Turns(c, "idle")
  /\ UNCHANGED <<savedRows, runtime, approvalAvailable, lookups, window, unrepaired>>

\* The request is given up or a row cannot be read: the old runtime stays.
FailReload(c) ==
  /\ client[c].at \in {"active read", "config read"}
  /\ Turns(c, "idle") /\ unrepaired' = TRUE
  /\ UNCHANGED <<savedRows, served>>

\* A runner or subagent cannot be built: nothing is served.
FailBuild(c) ==
  /\ client[c].at \in {"settings read", "tools read"}
  /\ runtime' = Unavailable /\ approvalAvailable' = FALSE /\ Serve(None)
  /\ client' = [client EXCEPT ![c] = [AtRest EXCEPT !.at = "published"]]
  /\ unrepaired' = TRUE
  /\ UNCHANGED <<savedRows, reviewer>>

---------------------------------------------------------------------------
\* detectContextWindow: what is found counts for the revision it was asked for.
StillAsked(lookup) == lookup.asked /\ window = None
EndLookup ==
  \E lookup \in lookups :
    /\ lookups' = lookups \ {lookup}
    /\ \/ UNCHANGED window
       \/ StillAsked(lookup) /\ window' = lookup.model
    /\ UNCHANGED <<savedRows, client, runtime, reviewer, approvalAvailable, unrepaired>>

RuntimeNext ==
  \/ EndLookup
  \/ \E c \in Clients :
       \/ AskToSaveProvider(c) \/ UpsertProvider(c) \/ DecideReload(c) \/ FailDecide(c) \/ ActivateProvider(c)
       \/ AskToDeleteProvider(c) \/ DeleteProvider(c) \/ SaveProviderProxy(c) \/ ImportProviders(c)
       \/ AskToSaveSettings(c) \/ SaveSettings(c) \/ ChangeTools(c)
       \/ ReadActive(c) \/ ReadConfig(c) \/ ReadSettings(c) \/ ReadTools(c)
       \/ ReadAgent(c) \/ PublishRuntime(c) \/ PublishReviewers(c)
       \/ FailReload(c) \/ FailBuild(c)

RuntimeSpec == RuntimeInit /\ [][RuntimeNext]_runtimeVars

---------------------------------------------------------------------------
Models == [provider : Selection, rev : 0..MaxWrites]
Runtimes == [main : Models, settings : 0..MaxWrites, tools : 0..MaxWrites]
RuntimeRequests ==
  [at : {"idle", "saving", "saved", "deleting", "saving settings", "reload"} \cup ReloadSteps,
   p : Selection, active : BOOLEAN, got : Runtimes, agent : Models]

RuntimeTypes ==
  /\ provider \in [Providers -> 0..MaxWrites] /\ active \in Selection
  /\ settings \in [rev : 0..MaxWrites, agent : Selection] /\ tools \in 0..MaxWrites
  /\ writes \in 1..MaxWrites /\ client \in [Clients -> RuntimeRequests]
  /\ runtime \in Runtimes /\ reviewer \in Models /\ approvalAvailable \in BOOLEAN
  /\ lookups \subseteq [model : Models, asked : BOOLEAN] /\ window \in Models
  /\ unrepaired \in BOOLEAN

\* Once every request is answered, the Agent is served by the saved provider, settings and
\* functions, whichever requests met, and so is the approval Agent, unless the last reload
\* could not load it: then there is none, and the status says so.  A context window that was
\* looked up belongs to the model that is served.  The exceptions, until the next reload: a
\* reload that failed, or that a request which failed after its write did not ask for, and a
\* provider that is activated or selected while it is being deleted.
RuntimeServesSaved ==
  /\ (\A c \in Clients : client[c].at = "idle") /\ ~unrepaired =>
       /\ runtime = SavedRuntime
       /\ reviewer \in {SavedReviewer, None} /\ approvalAvailable = (reviewer # None)
  /\ window \in {None, runtime.main}
=============================================================================
