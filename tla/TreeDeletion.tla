----------------------------- MODULE TreeDeletion -----------------------------
(***************************************************************************)
(* A deletion of a remote entry (service sftp_deletions, sshx              *)
(* deleteSFTPTree): directories are read one by one while removers delete  *)
(* the files found, then the directories go level by level from the        *)
(* bottom.  What cannot be removed blocks the directories above it.  The   *)
(* job may be cancelled, or the service shut down, anywhere.               *)
(***************************************************************************)
EXTENDS Naturals, FiniteSets

CONSTANTS
  Entries,      \* the entries of the remote tree
  Directories,  \* those that are directories
  Above,        \* of every entry: the directories above it, up to the root
  Top,          \* the entry to delete
  Removers      \* the goroutines that remove (sftpDeleteConcurrency)

ASSUME TreeAssumption ==
  /\ IsFiniteSet(Entries) /\ Directories \subseteq Entries /\ Top \in Entries
  /\ Above \in [Entries -> SUBSET Directories] /\ Above[Top] = {}
  /\ \A e \in Entries \ {Top} : Top \in Above[e]
  /\ \A e \in Entries : \A d \in Above[e] :  \* those above e are the directories on one path
       Above[d] \subseteq Above[e] \ {d} /\ \A f \in Above[e] : f = d \/ f \in Above[d] \/ d \in Above[f]

VARIABLES
  present,     \* the entries that exist on the host
  job,         \* SFTPDeletion.Status
  jobEnded,    \* its context has ended
  scan,        \* directories still to read, directories read
  level,       \* the depth whose directories are removed; how far the tree is
  queue,       \* jobs in the channel
  hands,       \* the job each remover works on
  progress,    \* entries discovered, removed, failed, skipped
  blocked      \* directories above a failure

deletionVars == <<present, job, jobEnded, scan, level, queue, hands, progress, blocked>>

---------------------------------------------------------------------------
Depth(e) == Cardinality(Above[e])
ChildrenOf(d) == {e \in Entries : d \in Above[e] /\ Depth(e) = Depth(d) + 1}
MaxDepth == Cardinality(Directories)
Nobody == [r \in Removers |-> {}]
Pending == queue \cup UNION {hands[r] : r \in Removers}
Running == job \in {"running", "stopping"}

\* fail: the failure of an entry blocks every directory above it.
BlockParent(e) == {d \in Above[e] : Depth(d) + 1 = Depth(e)}  \* mutant: only the nearest one
Blocks(e) == Above[e]

Failed(e) ==
  /\ progress' = [progress EXCEPT !.failed = @ \cup {e}]
  /\ blocked' = blocked \cup Blocks(e)

---------------------------------------------------------------------------
\* StartSFTPDeletion and the inspection of the entry; a directory may be deleted
\* recursively or only when it is empty.
StartDeletion(recursive) ==
  /\ job = "none" /\ job' = "running"
  /\ progress' = [progress EXCEPT !.discovered = {Top}]
  /\ IF Top \in Directories /\ recursive
     THEN scan' = [scan EXCEPT !.stack = {Top}] /\ UNCHANGED <<level, queue>>
     ELSE queue' = {Top} /\ level' = 0 /\ UNCHANGED scan
  /\ UNCHANGED <<present, jobEnded, hands, blocked>>

\* The session could not be had or the entry not be inspected.
InspectFails ==
  /\ job = "none" /\ job' = "failed"
  /\ UNCHANGED <<present, jobEnded, scan, level, queue, hands, progress, blocked>>

\* ReadDirContext: the files found are queued, the directories read later.
ReadDirectory(d) ==
  /\ d \in scan.stack /\ ~jobEnded
  /\ \/ LET found == ChildrenOf(d) \cap present
        IN /\ progress' = [progress EXCEPT !.discovered = @ \cup found]
           /\ scan' = [stack |-> (scan.stack \ {d}) \cup (found \cap Directories),
                       listed |-> scan.listed \cup {d}]
           /\ queue' = queue \cup (found \ Directories)
           /\ UNCHANGED blocked
     \/ /\ Failed(d) /\ scan' = [scan EXCEPT !.stack = @ \ {d}] /\ UNCHANGED queue
  /\ UNCHANGED <<present, job, jobEnded, level, hands>>

\* A remover takes a job; once the context has ended it only drops it.
TakeJob(r) ==
  /\ hands[r] = {}
  /\ \E e \in queue :
       /\ queue' = queue \ {e}
       /\ hands' = [hands EXCEPT ![r] = IF jobEnded THEN {} ELSE {e}]
  /\ UNCHANGED <<present, job, jobEnded, scan, level, progress, blocked>>

\* Remove, RemoveDirectory: refused to a directory that is not empty, or for any reason.
RemoveEntry(r) ==
  \E e \in hands[r] :
    /\ hands' = [hands EXCEPT ![r] = {}]
    /\ \/ /\ ChildrenOf(e) \cap present = {} /\ present' = present \ {e}
          /\ progress' = [progress EXCEPT !.removed = @ \cup {e}] /\ UNCHANGED blocked
       \/ /\ ~jobEnded /\ Failed(e) /\ UNCHANGED present
       \/ /\ jobEnded /\ UNCHANGED <<present, progress, blocked>>
    /\ UNCHANGED <<job, jobEnded, scan, level, queue>>

AllDone == Pending = {}

\* The directories of a level are queued, but for the blocked ones, when all jobs of the
\* level below are done; the first level when all the files are.
QueueLevel ==
  /\ Running /\ ~jobEnded /\ scan.stack = {} /\ AllDone /\ level > 0
  /\ LET targets == {d \in scan.listed : Depth(d) = level - 1}
     IN /\ queue' = targets \ blocked
        /\ progress' = [progress EXCEPT !.skipped = @ \cup (targets \cap blocked)]
  /\ level' = level - 1
  /\ UNCHANGED <<present, job, jobEnded, scan, hands, blocked>>

\* deleteSFTPTree returns after its jobs; the job ends with it.
EndDeletion ==
  /\ Running /\ Pending = {} /\ (jobEnded \/ (scan.stack = {} /\ level = 0))
  /\ job' = IF Top \in progress.removed THEN "completed" ELSE IF jobEnded THEN "cancelled" ELSE "failed"
  /\ UNCHANGED <<present, jobEnded, scan, level, queue, hands, progress, blocked>>

\* CancelSFTPDeletion, or the end of executionCtx in a shutdown.
CancelDeletion ==
  /\ job = "running" /\ job' \in {"running", "stopping"} /\ ~jobEnded /\ jobEnded' = TRUE
  /\ UNCHANGED <<present, scan, level, queue, hands, progress, blocked>>

DeletionInit ==
  /\ present = Entries /\ job = "none" /\ jobEnded = FALSE
  /\ scan = [stack |-> {}, listed |-> {}] /\ level = MaxDepth
  /\ queue = {} /\ hands = Nobody /\ blocked = {}
  /\ progress = [discovered |-> {}, removed |-> {}, failed |-> {}, skipped |-> {}]

Deleting ==
  \/ \E d \in Directories : ReadDirectory(d)
  \/ \E r \in Removers : TakeJob(r) \/ RemoveEntry(r)
  \/ QueueLevel \/ EndDeletion

DeletionNext ==
  \/ \E recursive \in BOOLEAN : StartDeletion(recursive)
  \/ InspectFails \/ Deleting \/ CancelDeletion

DeletionSpec == DeletionInit /\ [][DeletionNext]_deletionVars

\* The goroutines of the job run; a remote call returns, or ends with its session.
DeletionFairness == WF_deletionVars(Deleting)

---------------------------------------------------------------------------
DeletionTypes ==
  /\ present \subseteq Entries
  /\ job \in {"none", "running", "stopping", "completed", "cancelled", "failed"}
  /\ jobEnded \in BOOLEAN /\ level \in 0..MaxDepth
  /\ scan \in [stack : SUBSET Directories, listed : SUBSET Directories]
  /\ queue \subseteq Entries /\ hands \in [Removers -> SUBSET Entries] /\ blocked \subseteq Directories
  /\ progress \in [discovered : SUBSET Entries, removed : SUBSET Entries,
                   failed : SUBSET Entries, skipped : SUBSET Entries]

Accounted == <<progress.removed, progress.failed, progress.skipped>>

\* No directory is tried before everything found in it is gone, in whatever order the
\* removers work and fail; a job that says completed has removed the tree, and one that
\* failed has a verdict on every entry it discovered, and one only.
DeletionIsOrderly ==
  /\ scan.listed # {} =>
       \A d \in Pending \cap Directories : ChildrenOf(d) \cap progress.discovered \subseteq progress.removed
  /\ job = "completed" => \A e \in Entries : e = Top \/ Top \in Above[e] => e \notin present
  /\ job = "failed" /\ progress.discovered # {} =>
       progress.discovered = progress.removed \cup progress.failed \cup progress.skipped
  /\ \A i, j \in 1..3 : i # j => Accounted[i] \cap Accounted[j] = {}

=============================================================================
