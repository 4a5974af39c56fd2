----------------------------- MODULE FileChanges -----------------------------
(***************************************************************************)
(* How one file is changed: by an edit or a save in a Workspace, an upload *)
(* to it, an edit on a host, an SFTP upload, a transfer between hosts.     *)
(* All of them look at the target, fill a temporary file beside it, look   *)
(* again or not, and put it in place.  No lock is held: other changes, and *)
(* programs outside, come in between, and the machine may stop.            *)
(***************************************************************************)
EXTENDS Naturals, FiniteSets

CONSTANTS
  Changes,    \* changes of one target
  Protocols   \* the ways of change that are looked at together: [Changes -> protocol]

\* What the code does for each kind of change: what it wants of the target, whether it
\* looks again before the end, whether it puts its file only where there is none, whether
\* the file is on the disk by then, and whether its content is checked.
WorkspaceEdit   == [wants |-> "seen", again |-> TRUE,  exclusive |-> FALSE, synced |-> TRUE,  checked |-> TRUE]
WorkspaceCreate == [wants |-> "none", again |-> FALSE, exclusive |-> TRUE,  synced |-> TRUE,  checked |-> TRUE]
SaveText        == [wants |-> "some", again |-> FALSE, exclusive |-> FALSE, synced |-> TRUE,  checked |-> FALSE]
Upload          == [wants |-> "none", again |-> FALSE, exclusive |-> TRUE,  synced |-> TRUE,  checked |-> TRUE]
RemoteEdit      == [wants |-> "seen", again |-> TRUE,  exclusive |-> FALSE, synced |-> TRUE,  checked |-> TRUE]
RemoteCreate    == [wants |-> "none", again |-> FALSE, exclusive |-> TRUE,  synced |-> TRUE,  checked |-> TRUE]
SftpUpload      == [wants |-> "none", again |-> FALSE, exclusive |-> TRUE,  synced |-> FALSE, checked |-> FALSE]
SftpReplace     == [wants |-> "any",  again |-> FALSE, exclusive |-> FALSE, synced |-> FALSE, checked |-> FALSE]
TransferCreate  == [wants |-> "none", again |-> TRUE,  exclusive |-> TRUE,  synced |-> FALSE, checked |-> TRUE]
TransferReplace == [wants |-> "old",  again |-> TRUE,  exclusive |-> FALSE, synced |-> FALSE, checked |-> TRUE]
Ways == {WorkspaceEdit, WorkspaceCreate, SaveText, Upload, RemoteEdit, RemoteCreate, SftpUpload, SftpReplace,
         TransferCreate, TransferReplace}

\* A content is named after the change that brought it, or by one of these words.
ASSUME FileAssumption ==
  Protocols \subseteq [Changes -> Ways] /\ Changes \cap {"", "none", "old", "other", "torn"} = {}

VARIABLES
  how,       \* the protocol of each change
  target,    \* whose content the target has: a change, "old", "other", "none", or "torn"
  step,      \* where each change is
  seen,      \* the content it saw when it looked at the target
  staged,    \* its temporary file: none, part or whole
  result,    \* what its caller is told: ok, refused for a conflict or a check, failed
  replaced,  \* history: the content its file took the place of
  since      \* history: contents that came into the target after its last look

fileVars == <<how, target, step, seen, staged, result, replaced, since>>

---------------------------------------------------------------------------
Go(c, place) == step' = [step EXCEPT ![c] = place]
Tell(c, answer) == result' = [result EXCEPT ![c] = answer]
LooksNow(c) == since' = [since EXCEPT ![c] = {}]

\* The target gets another content; who looked before does not know.
Becomes(content) ==
  /\ target' = content
  /\ since' = [c \in Changes |-> since[c] \cup {content}]

Accepts(c) ==
  CASE how[c].wants = "none" -> target = "none"
    [] how[c].wants = "old"  -> target = "old"
    [] how[c].wants = "any"  -> TRUE
    [] OTHER                 -> target # "none"

---------------------------------------------------------------------------
\* The first look: PrepareEdit, uploadDestination, verifyTransferDestination, Lstat.
Inspect(c) ==
  /\ step[c] = "begin"
  /\ IF Accepts(c)
     THEN Go(c, "stage") /\ seen' = [seen EXCEPT ![c] = target] /\ LooksNow(c) /\ UNCHANGED result
     ELSE Go(c, "done") /\ Tell(c, "refused") /\ UNCHANGED <<seen, since>>
  /\ UNCHANGED <<how, target, staged, replaced>>

\* A temporary file of a new name is created and filled, piece by piece.
Stage(c) ==
  /\ step[c] = "stage" /\ Go(c, "fill") /\ staged' = [staged EXCEPT ![c] = "part"]
  /\ UNCHANGED <<how, target, seen, result, replaced, since>>

Fill(c) ==
  /\ step[c] = "fill" /\ Go(c, "check") /\ staged' = [staged EXCEPT ![c] = "whole"]
  /\ UNCHANGED <<how, target, seen, result, replaced, since>>

\* The validator of an edit, the digest of an upload or a transfer.
CheckStaged(c) ==
  /\ step[c] = "check"
  /\ \/ Go(c, IF how[c].again THEN "look" ELSE "put") /\ UNCHANGED result
     \/ how[c].checked /\ Go(c, "clean") /\ Tell(c, "refused")
  /\ UNCHANGED <<how, target, seen, staged, replaced, since>>

NoSecondLook(c) == TRUE  \* mutant: the target is only looked at when it is staged
StillWanted(c) == IF how[c].wants = "seen" THEN target = seen[c] ELSE Accepts(c)

\* The second look, where there is one.
LookAgain(c) ==
  /\ step[c] = "look"
  /\ IF StillWanted(c)
     THEN Go(c, "put") /\ UNCHANGED result /\ since' = [since EXCEPT ![c] = {}]
     ELSE Go(c, "clean") /\ Tell(c, "refused") /\ UNCHANGED since
  /\ UNCHANGED <<how, target, seen, staged, replaced>>

\* Link and rename-without-replace fail where a file appeared; rename replaces it.
Put(c) ==
  /\ step[c] = "put" /\ Go(c, "clean")
  /\ IF how[c].exclusive /\ target # "none"
     THEN Tell(c, "refused") /\ UNCHANGED <<target, staged, replaced, since>>
     ELSE /\ Becomes(c) /\ replaced' = [replaced EXCEPT ![c] = target]
          /\ staged' = IF how[c].exclusive THEN staged ELSE [staged EXCEPT ![c] = "none"]
          /\ Tell(c, "ok")
  /\ UNCHANGED <<how, seen>>

\* Any step may fail, and the caller may go: the temporary file is removed.  After the
\* change itself, the sync of a directory or a look at the result may still fail.
Fail(c) ==
  /\ step[c] \in {"stage", "fill", "check", "look", "put"} \/ (step[c] = "clean" /\ result[c] = "ok")
  /\ Go(c, "clean") /\ Tell(c, "failed")
  /\ UNCHANGED <<how, target, seen, staged, replaced, since>>

\* An upload to a Workspace takes its file back when its directory cannot be synced.
TakeBack(c) ==
  /\ how[c] = Upload /\ step[c] = "clean" /\ result[c] = "ok"
  /\ Tell(c, "failed") /\ Becomes("none")
  /\ UNCHANGED <<how, step, seen, staged, replaced>>

\* The temporary file goes, unless its removal fails as the change did: after a lost
\* connection, for instance.
Clean(c) ==
  /\ step[c] = "clean" /\ Go(c, "done")
  /\ \/ staged' = [staged EXCEPT ![c] = "none"]
     \/ result[c] = "failed" /\ UNCHANGED staged
  /\ UNCHANGED <<how, target, seen, result, replaced, since>>

---------------------------------------------------------------------------
\* Another program writes or removes the file, once.
Outside ==
  /\ target \notin {"other", "torn"} /\ (\A c \in Changes : "other" \notin since[c] /\ seen[c] # "other")
  /\ Becomes("other")
  /\ UNCHANGED <<how, step, seen, staged, result, replaced>>

\* The machine of the file stops: changes end where they are, and a content that was not
\* synced before it got its name may be torn.
MachineStops ==
  /\ \E c \in Changes : step[c] \notin {"begin", "done"}
  /\ step' = [c \in Changes |-> IF step[c] = "begin" THEN "begin" ELSE "done"]
  /\ result' = [c \in Changes |-> IF step[c] \in {"begin", "done"} THEN result[c] ELSE "failed"]
  /\ \/ UNCHANGED target
     \/ target \in Changes /\ ~how[target].synced /\ target' = "torn"
  /\ UNCHANGED <<how, seen, staged, replaced, since>>

FileInit ==
  /\ how \in Protocols /\ target \in {"none", "old"}
  /\ step = [c \in Changes |-> "begin"] /\ seen = [c \in Changes |-> "none"]
  /\ staged = [c \in Changes |-> "none"] /\ result = [c \in Changes |-> ""]
  /\ replaced = [c \in Changes |-> ""] /\ since = [c \in Changes |-> {}]

FileNext ==
  \/ \E c \in Changes :
       \/ Inspect(c) \/ Stage(c) \/ Fill(c) \/ CheckStaged(c) \/ LookAgain(c) \/ Put(c)
       \/ Fail(c) \/ TakeBack(c) \/ Clean(c)
  \/ Outside \/ MachineStops

FileSpec == FileInit /\ [][FileNext]_fileVars

---------------------------------------------------------------------------
FileContents == Changes \cup {"none", "old", "other", "torn"}
FileTypes ==
  /\ how \in Protocols
  /\ target \in FileContents
  /\ step \in [Changes -> {"begin", "stage", "fill", "check", "look", "put", "clean", "done"}]
  /\ seen \in [Changes -> FileContents]
  /\ staged \in [Changes -> {"none", "part", "whole"}]
  /\ result \in [Changes -> {"", "ok", "refused", "failed"}]
  /\ replaced \in [Changes -> {""} \cup FileContents]

Applied(c) == replaced[c] # ""

\* Nothing is lost that the change, or who approved it, has not seen, but for what came
\* between its last look and its end; a creation loses nothing at all.  A change that is
\* refused has changed nothing, a successful one has, and either leaves no file behind.
\* A Workspace never has a torn file, whenever the machine stops.
NothingLostUnseen ==
  /\ \A c \in Changes :
       /\ Applied(c) =>
            /\ how[c].exclusive => replaced[c] = "none"
            /\ how[c].wants = "seen" => replaced[c] \in {seen[c]} \cup since[c]
            /\ how[c].wants = "old" => replaced[c] \in {"old"} \cup since[c]
       /\ result[c] = "refused" => ~Applied(c)
       /\ result[c] = "ok" => Applied(c)
       /\ step[c] = "done" /\ result[c] \in {"ok", "refused"} => staged[c] = "none"
  /\ target = "torn" => \E c \in Changes : ~how[c].synced
=============================================================================
