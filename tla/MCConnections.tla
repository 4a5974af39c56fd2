---------------------------- MODULE MCConnections ----------------------------
(* Small instances, for TLC, of what reaches hosts, files and MCP servers.    *)
(* The components share no state: a behaviour is one of a single component,   *)
(* the others stay at an initial state.                                       *)
EXTENDS InteractiveShells, ShellEvents, SshTunnels, SftpSessions, TreeDeletion, FileChanges, MCTextEdits,
        McpConnections, ConnectionCatalogue, ModelRuntime

CONSTANTS s1, s2, r1, r2, w1, w2, c1, c2, h1, h2, h3, p1, p2

VARIABLE subject  \* the component this behaviour is about

OneHost == [s \in Shells |-> 1]

\* A directory with a file and a directory with a file and an empty one.
DirectoriesAbove ==
  [e \in {"root", "dir", "deep", "file", "low"} |->
     CASE e = "root" -> {} [] e \in {"dir", "file"} -> {"root"} [] OTHER -> {"root", "dir"}]

\* What may meet at one target: edits and saves of a Workspace file, new files, edits on a
\* host, uploads and transfers to it.
ProtocolPairs ==
  {c1 :> pair[1] @@ c2 :> pair[2] :
     pair \in {<<WorkspaceEdit, WorkspaceEdit>>, <<WorkspaceEdit, SaveText>>, <<WorkspaceCreate, Upload>>,
               <<RemoteEdit, TransferReplace>>, <<RemoteCreate, TransferCreate>>, <<SftpUpload, SftpReplace>>}}

\* At first h1 is reached through h2, and h2 through the proxy.  Operators reach h2 through
\* h3 or h1, h3 through the proxy, and import a chain of two jumps and a host with its proxy.
JumpsAtFirst   == h1 :> h2 @@ h2 :> NoHost @@ h3 :> NoHost
ProxiesAtFirst == h1 :> NoProxy @@ h2 :> p1 @@ h3 :> NoProxy
SavedForm(h, jump, proxy, agent) == [host |-> h, jump |-> jump, proxy |-> proxy, agent |-> agent]
SavedForms ==
  {SavedForm(h1, NoHost, NoProxy, TRUE), SavedForm(h2, h3, NoProxy, TRUE), SavedForm(h2, h1, NoProxy, FALSE),
   SavedForm(h3, NoHost, p1, TRUE)}
ImportedPackages ==
  {[hosts |-> {SavedForm(h1, h3, NoProxy, TRUE), SavedForm(h3, h2, p1, TRUE)}, proxies |-> {}],
   [hosts |-> {SavedForm(h2, NoHost, p1, FALSE)}, proxies |-> {[proxy |-> p1, ssh |-> TRUE]}]}
ImportedModels == {[providers |-> {p2}, active |-> p2]}

connectionVars ==
  <<subject, shellVars, shellEventVars, tunnelVars, sftpVars, deletionVars, fileVars, editVars, mcpVars,
    catalogueVars, runtimeVars>>

Init ==
  /\ subject \in {"shells", "history", "tunnels", "sftp", "deletion", "file", "edit", "mcp", "catalogue",
                 "runtime"}
  /\ ShellInit /\ ShellEventInit /\ TunnelInit /\ SftpInit /\ DeletionInit /\ FileInit /\ EditInit /\ McpInit
  /\ CatalogueInit /\ RuntimeInit
  /\ subject # "history" => persistent
  /\ subject # "file" => how = [c \in Changes |-> WorkspaceEdit] /\ target = "none"
  /\ subject # "edit" => file = <<>>
  /\ subject # "mcp"  => saved.enabled /\ saved.tokens = "none"
  /\ subject # "catalogue" => hosts[h1].shell = <<>>

\* The components that are not the subject stay as they are.
OthersStay ==
  /\ UNCHANGED subject
  /\ IF subject = "shells" THEN TRUE ELSE UNCHANGED shellVars
  /\ IF subject = "history" THEN TRUE ELSE UNCHANGED shellEventVars
  /\ IF subject = "tunnels" THEN TRUE ELSE UNCHANGED tunnelVars
  /\ IF subject = "sftp" THEN TRUE ELSE UNCHANGED sftpVars
  /\ IF subject = "deletion" THEN TRUE ELSE UNCHANGED deletionVars
  /\ IF subject = "file" THEN TRUE ELSE UNCHANGED fileVars
  /\ IF subject = "edit" THEN TRUE ELSE UNCHANGED editVars
  /\ IF subject = "mcp" THEN TRUE ELSE UNCHANGED mcpVars
  /\ IF subject = "catalogue" THEN TRUE ELSE UNCHANGED catalogueVars
  /\ IF subject = "runtime" THEN TRUE ELSE UNCHANGED runtimeVars

Next ==
  /\ \/ subject = "shells" /\ ShellNext
     \/ subject = "history" /\ ShellEventNext
     \/ subject = "tunnels" /\ TunnelNext
     \/ subject = "sftp" /\ SftpNext
     \/ subject = "deletion" /\ DeletionNext
     \/ subject = "file" /\ FileNext
     \/ subject = "edit" /\ EditText
     \/ subject = "mcp" /\ McpNext
     \/ subject = "catalogue" /\ CatalogueNext
     \/ subject = "runtime" /\ RuntimeNext
  /\ OthersStay

subjectVars ==
  CASE subject = "shells" -> shellVars [] subject = "history" -> shellEventVars
    [] subject = "tunnels" -> tunnelVars [] subject = "sftp" -> sftpVars
    [] subject = "deletion" -> deletionVars [] subject = "file" -> fileVars
    [] subject = "edit" -> editVars [] subject = "mcp" -> mcpVars
    [] subject = "catalogue" -> catalogueVars [] OTHER -> runtimeVars

\* The k-th thing the scheduler owes the subject.  A conjunct of the fairness of one
\* component is joined with one of another: only the subject ever acts.
Duty(k) ==
  /\ UNCHANGED subject
  /\ \/ subject = "shells" /\ \/ k <= 4 /\ ShellDuty(s1, k)
                              \/ k \in 5..8 /\ ShellDuty(s2, k - 4)
                              \/ k = 9 /\ ShellsDone
     \/ subject = "history" /\ k <= 4 /\ ShellEventDuty(k)
     \/ subject = "tunnels" /\ \/ k <= 3 /\ TunnelDuty(s1, k)
                               \/ k \in 4..6 /\ TunnelDuty(s2, k - 3)
                               \/ k = 7 /\ Calls
                               \/ k = 8 /\ ManagerDone
     \/ subject = "sftp" /\ \/ k \in {1, 2} /\ Lease(<<r1, r2>>[k])
                            \/ k \in {3, 4} /\ CancelLease(<<r1, r2>>[k - 2])
                            \/ k \in {5, 6} /\ ForgetSession(<<s1, s2>>[k - 4])
                            \/ k = 7 /\ PoolCloses
     \/ subject = "deletion" /\ k = 1 /\ Deleting
     \/ subject = "mcp" /\ \/ k \in {1, 2} /\ Attempt(k)
                           \/ k = 3 /\ EndToolCall(c1)
                           \/ k = 4 /\ ShutMcp

FairSpec == Init /\ [][Next]_connectionVars /\ \A k \in 1..9 : WF_subjectVars(Duty(k))

\* Every variable has its type, in every component.
TypeOK ==
  /\ ShellTypes /\ ShellEventTypes /\ TunnelTypes /\ SftpTypes /\ DeletionTypes /\ FileTypes /\ McpTypes
  /\ CatalogueTypes /\ RuntimeTypes

\* What is served is what was saved last: the tools of an MCP server (ServesSavedSettings),
\* the Agent and its approval Agent (RuntimeServesSaved).
SavedIsServed == ServesSavedSettings /\ RuntimeServesSaved

\* A change of a file keeps what it was not asked to change: the contents that came to the
\* file meanwhile (NothingLostUnseen), the lines beside the edited ones (EditKeepsTheRest); and an
\* edit does the same on a host, where it can (RemoteEditsAlike).
ChangesKeepTheRest == NothingLostUnseen /\ EditKeepsTheRest /\ RemoteEditsAlike

Ending(k) ==
  \/ ShellEnding(<<s1, s2>>[k]) \/ TunnelEnding(<<s1, s2>>[k]) \/ RequestEnding(<<r1, r2>>[k]) \/ LinkEnding(k)
Closing == ShellsClosing \/ finishing \/ TunnelsClosing \/ PoolClosing \/ Running \/ McpClosing

\* What was asked to end does: a shell that is closed, a tunnel that is stopped or edited,
\* an SFTP request whose context is over, a replaced MCP connection, a pending OAuth
\* authorization; the writing of a shell's events, the pools and managers, a deletion.
\* (In a behaviour of one component only its own part of this is ever true.)
ConnectionsEnd == (\A k \in {1, 2} : []<>~Ending(k)) /\ []<>~Closing
=============================================================================
