--------------------------- MODULE Conversations ---------------------------
(* The row of one conversation between the requests of operators that        *)
(* create, bind, rename and delete it and the turn that runs in it: each     *)
(* handler looks first and writes later, and nothing holds the row between.  *)
(* A turn that pauses for approval is one that ends here.                    *)
EXTENDS Naturals, FiniteSets

CONSTANTS
  Handlers,     \* HTTP requests, each of which serves one call after another
  Workspaces, NoWorkspace,
  MaxTalks      \* bound: turns

ASSUME ConversationConstants == NoWorkspace \notin Workspaces /\ MaxTalks \in Nat

VARIABLES
  conversation,  \* its row of chat_sessions
  stored,        \* other tables have rows of it
  talk,          \* its turn: where it is, the Workspace its model was told of, the one its tool read
  namer,         \* the generator of its title
  terminal,      \* the Workspace of an active terminal
  http,          \* what each request does, and whether what it saw is old
  talks,
  renamed,       \* history: an operator named this conversation
  overlapped     \* history: a change was written that a turn or terminal had overtaken

conversationVars == <<conversation, stored, talk, namer, terminal, http, talks, renamed, overlapped>>

Absent  == [there |-> FALSE, title |-> "none", workspace |-> NoWorkspace]
Created(w) == [there |-> TRUE, title |-> "none", workspace |-> w]
Silent  == [at |-> "off", told |-> NoWorkspace, seen |-> NoWorkspace, untitled |-> FALSE]
Free    == [kind |-> "none", at |-> "none", workspace |-> NoWorkspace, stale |-> FALSE]
Places  == Workspaces \cup {NoWorkspace}

\* chatSessionActive: the queue has a driver, from before the turn until after it.
Occupied == talk.at # "off"

\* INSERT OR IGNORE: whoever writes a message brings the row back.
Ensured == IF conversation.there THEN conversation ELSE Created(NoWorkspace)

\* What the requests saw is old as soon as a turn begins, its model is told of the
\* Workspace or its tool reads it, or a terminal begins.
Overtaken(h) ==
  [r \in Handlers |-> IF h[r].at \in {"rebind", "write", "inspect", "delete"} THEN [h[r] EXCEPT !.stale = TRUE] ELSE h[r]]

\* A request ends, or goes on.
Ends(r)     == http' = [http EXCEPT ![r] = Free]
GoesOn(r, at) == http' = [http EXCEPT ![r].at = at]
Begins(r)   == http' = [http EXCEPT ![r] = [Free EXCEPT !.kind = "send", !.at = "begin"]]

-----------------------------------------------------------------------------
(* Requests. *)

\* PrepareChatSession, for a message that names a Workspace or none; the row is only read.
\* A conversation bound to another Workspace refuses, and one whose tool call runs.
PrepareChatSession(r, w) ==
  /\ http[r] = Free /\ talk.at # "tool"
  /\ \/ conversation.there /\ (w = NoWorkspace \/ conversation.workspace = w)
        /\ Begins(r)
     \/ ~conversation.there
        /\ http' = [http EXCEPT ![r] = [Free EXCEPT !.kind = "send", !.at = "create", !.workspace = w]]
     \/ conversation.there /\ conversation.workspace = NoWorkspace /\ w # NoWorkspace
        /\ http' = [http EXCEPT ![r] = [Free EXCEPT !.kind = "send", !.at = "rebind", !.workspace = w]]
  /\ UNCHANGED <<conversation, stored, talk, namer, terminal, talks, renamed, overlapped>>

CreateChatSession(r) ==
  /\ http[r].at = "create"
  /\ IF conversation.there THEN Ends(r) /\ UNCHANGED conversation
     ELSE conversation' = Created(http[r].workspace) /\ Begins(r)
  /\ UNCHANGED <<stored, talk, namer, terminal, talks, renamed, overlapped>>

\* The handler of a Workspace switch refuses while the conversation has a driver.
SwitchWorkspace(r, w) ==
  /\ http[r] = Free /\ ~Occupied
  /\ http' = [http EXCEPT ![r] = [Free EXCEPT !.kind = "switch", !.at = "rebind", !.workspace = w]]
  /\ UNCHANGED <<conversation, stored, talk, namer, terminal, talks, renamed, overlapped>>

\* The service reads the row again and looks for a Workspace terminal of the conversation.
SetChatSessionWorkspace(r) ==
  /\ http[r].at = "rebind"
  /\ IF ~conversation.there THEN Ends(r)
     ELSE IF conversation.workspace = http[r].workspace
       THEN IF http[r].kind = "send" THEN Begins(r) ELSE Ends(r)
     ELSE IF terminal # NoWorkspace THEN Ends(r) ELSE GoesOn(r, "write")
  /\ UNCHANGED <<conversation, stored, talk, namer, terminal, talks, renamed, overlapped>>

WriteWorkspace(r) ==
  /\ http[r].at = "write"
  /\ IF ~conversation.there THEN Ends(r) /\ UNCHANGED <<conversation, overlapped>>
     ELSE /\ conversation' = [conversation EXCEPT !.workspace = http[r].workspace]
          /\ overlapped' = (overlapped \/ http[r].stale)
          /\ IF http[r].kind = "send" THEN Begins(r) ELSE Ends(r)
  /\ UNCHANGED <<stored, talk, namer, terminal, talks, renamed>>

\* Only now the message gets the conversation to itself, or is refused.
BeginTalk(r) ==
  /\ http[r].at = "begin"
  /\ \/ Occupied /\ Ends(r) /\ UNCHANGED <<talk, talks>>
     \/ ~Occupied /\ talks < MaxTalks
        /\ talk' = [Silent EXCEPT !.at = "begun"] /\ talks' = talks + 1
        /\ http' = Overtaken([http EXCEPT ![r] = Free])
  /\ UNCHANGED <<conversation, stored, namer, terminal, renamed, overlapped>>

AskToRename(r) ==
  /\ http[r] = Free /\ conversation.there /\ conversation.title # "operator"
  /\ http' = [http EXCEPT ![r] = [Free EXCEPT !.kind = "rename", !.at = "rename"]]
  /\ UNCHANGED <<conversation, stored, talk, namer, terminal, talks, renamed, overlapped>>

RenameChatSession(r) ==
  /\ http[r].at = "rename" /\ Ends(r)
  /\ IF conversation.there THEN conversation' = [conversation EXCEPT !.title = "operator"] /\ renamed' = TRUE
     ELSE UNCHANGED <<conversation, renamed>>
  /\ UNCHANGED <<stored, talk, namer, terminal, talks, overlapped>>

AskToDeleteChat(r) ==
  /\ http[r] = Free /\ conversation.there /\ ~Occupied
  /\ http' = [http EXCEPT ![r] = [Free EXCEPT !.kind = "delete", !.at = "inspect"]]
  /\ UNCHANGED <<conversation, stored, talk, namer, terminal, talks, renamed, overlapped>>

\* Neither a tool call that runs nor a terminal.
InspectChat(r) ==
  /\ http[r].at = "inspect"
  /\ IF talk.at = "tool" \/ terminal # NoWorkspace THEN Ends(r) ELSE GoesOn(r, "delete")
  /\ UNCHANGED <<conversation, stored, talk, namer, terminal, talks, renamed, overlapped>>

\* One transaction for the rows of all tables.
DeleteChatSession(r) ==
  /\ http[r].at = "delete" /\ Ends(r)
  /\ IF conversation.there
     THEN /\ conversation' = Absent /\ stored' = FALSE /\ renamed' = FALSE
          /\ overlapped' = (overlapped \/ http[r].stale)
     ELSE UNCHANGED <<conversation, stored, renamed, overlapped>>
  /\ UNCHANGED <<talk, namer, terminal, talks>>

-----------------------------------------------------------------------------
(* The turn. *)

\* The model is told the Workspace of the row, which is made if it is missing.
LoadConversation ==
  /\ talk.at = "begun"
  /\ conversation' = Ensured
  /\ talk' = [talk EXCEPT !.at = "told", !.told = Ensured.workspace, !.untitled = (Ensured.title = "none")]
  /\ http' = Overtaken(http)
  /\ UNCHANGED <<stored, namer, terminal, talks, renamed, overlapped>>

AppendMessage ==
  /\ talk.at = "told"
  /\ conversation' = Ensured /\ stored' = TRUE
  /\ talk' = [talk EXCEPT !.at = "acting", !.untitled = FALSE]
  /\ namer' = (IF talk.untitled THEN "asked" ELSE "off")
  /\ UNCHANGED <<terminal, http, talks, renamed, overlapped>>

\* A title is only set where there is none.
SetGeneratedChatSessionTitle ==
  /\ namer = "asked" /\ namer' = "off"
  /\ conversation' = IF conversation.there /\ conversation.title = "none"
                       THEN [conversation EXCEPT !.title = "generated"] ELSE conversation
  /\ UNCHANGED <<stored, talk, terminal, http, talks, renamed, overlapped>>

\* A Workspace tool reads the binding of the moment.
SessionWorkspace ==
  /\ talk.at = "acting"
  /\ talk' = [talk EXCEPT !.at = "tool", !.seen = conversation.workspace]
  /\ http' = Overtaken(http)
  /\ UNCHANGED <<conversation, stored, namer, terminal, talks, renamed, overlapped>>

\* A tool call ends; it may have opened a terminal or written the plan.
EndTool ==
  /\ talk.at = "tool" /\ talk' = [talk EXCEPT !.at = "acting", !.seen = NoWorkspace]
  /\ \/ talk.seen # NoWorkspace /\ terminal = NoWorkspace
        /\ terminal' = talk.seen /\ http' = Overtaken(http) /\ UNCHANGED stored
     \/ stored' = TRUE /\ UNCHANGED <<terminal, http>>
     \/ UNCHANGED <<stored, terminal, http>>
  /\ UNCHANGED <<conversation, namer, talks, renamed, overlapped>>

\* With an answer, or without; the generator is cancelled and waited for.
EndTalk ==
  /\ talk.at \in {"told", "acting"} /\ talk' = Silent /\ namer' = "off"
  /\ \/ talk.at = "acting" /\ conversation' = Ensured /\ stored' = TRUE
     \/ UNCHANGED <<conversation, stored>>
  /\ UNCHANGED <<terminal, http, talks, renamed, overlapped>>

CloseTerminal ==
  /\ terminal # NoWorkspace /\ terminal' = NoWorkspace
  /\ UNCHANGED <<conversation, stored, talk, namer, http, talks, renamed, overlapped>>

-----------------------------------------------------------------------------
ConversationInit ==
  /\ conversation = Absent /\ stored = FALSE /\ talk = Silent /\ namer = "off" /\ terminal = NoWorkspace
  /\ http = [r \in Handlers |-> Free] /\ talks = 0
  /\ renamed = FALSE /\ overlapped = FALSE

ConversationNext ==
  \/ \E r \in Handlers :
       \/ \E w \in Places : PrepareChatSession(r, w) \/ SwitchWorkspace(r, w)
       \/ CreateChatSession(r) \/ SetChatSessionWorkspace(r) \/ WriteWorkspace(r) \/ BeginTalk(r)
       \/ AskToRename(r) \/ RenameChatSession(r)
       \/ AskToDeleteChat(r) \/ InspectChat(r) \/ DeleteChatSession(r)
  \/ LoadConversation \/ AppendMessage \/ SetGeneratedChatSessionTitle
  \/ SessionWorkspace \/ EndTool \/ EndTalk \/ CloseTerminal

ConversationSpec == ConversationInit /\ [][ConversationNext]_conversationVars

ConversationTypes ==
  /\ conversation \in [there : BOOLEAN, title : {"none", "generated", "operator"}, workspace : Places]
  /\ stored \in BOOLEAN /\ terminal \in Places /\ talks \in 0..MaxTalks
  /\ talk.at \in {"off", "begun", "told", "acting", "tool"} /\ namer \in {"off", "asked"}

\* The name an operator gave stays until the conversation is deleted, whatever the title
\* generator does.  As long as no request writes what it checked before a turn or a terminal
\* began: a turn that was told of a Workspace keeps it, a terminal is in the Workspace of
\* its conversation, and a deleted conversation leaves no row in any table.
ConversationIsKept ==
  /\ ConversationTypes
  /\ renamed => conversation.there /\ conversation.title = "operator"
  /\ ~overlapped =>
       /\ talk.at \in {"told", "acting", "tool"} /\ talk.told # NoWorkspace =>
            conversation.there /\ conversation.workspace = talk.told
       /\ terminal # NoWorkspace => conversation.there /\ conversation.workspace = terminal
       /\ ~conversation.there => ~stored /\ terminal = NoWorkspace
=============================================================================
