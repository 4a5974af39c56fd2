-------------------------- MODULE AgentTurns_proofs --------------------------
(***************************************************************************)
(* Proofs about what a turn of an Agent reads and writes besides its       *)
(* approvals, for any messages, skills, packages, requests, Workspaces and *)
(* steps: SkillRegistry, AgentPlan, Conversations and ChatContext, and the *)
(* conversation that the last three make up (ConversationWhole).           *)
(*                                                                         *)
(* A skill is at rest when it is as the last writer left it, or lies aside *)
(* in a directory that nobody will remove.  An import takes some names out *)
(* of rest; for each it knows whether the old skill is aside.  A plan is   *)
(* its ended steps and, after them, open ones.  A request of an operator   *)
(* relies on what it checked: until that is old, the turn and the terminal *)
(* are where it saw them.  A context tells of all rows up to a boundary in *)
(* short and of the others in full; the boundary ends a turn that no prune *)
(* removes, and stays the one the summary has, or no compression is due.   *)
(***************************************************************************)
EXTENDS MCAgentTurns, FiniteSetTheorems, TLAPS

-----------------------------------------------------------------------------
(* The inductive invariant of the registry of skills *)

SkillRecord == [kind : {"none", "dir", "file"}, main : Nat, off : BOOLEAN]
AsideRecord == [name : Skills, skill : SkillRecord, by : Nat]
WriterRecord ==
  [kind : {"none", "import", "save", "delete"}, names : Seq(Skills), at : {"none", "aside", "install", "undo", "done"},
   index : Nat, had : SUBSET Skills, installed : SUBSET Skills, undone : BOOLEAN]

RegistryTypes ==
  /\ skill \in [Skills -> SkillRecord] /\ committed \in [Skills -> SkillRecord]
  /\ aside \subseteq AsideRecord /\ writer \in WriterRecord
  /\ version \in Nat \ {0} /\ version <= MaxVersions
  /\ given \subseteq 1..version /\ withdrawn \subseteq 1..version
  /\ torn \subseteq Skills /\ half \subseteq Skills

\* What is nothing has no content; what was moved aside was a directory.
ShapeStory ==
  /\ \A n \in Skills : skill[n].main <= version /\ (skill[n].kind = "none" => skill[n] = Nothing)
  /\ \A d \in aside : d.skill.kind = "dir" /\ d.skill.main <= version /\ d.by <= version

Importing == writer.kind = "import"

\* The names an import has touched and not dealt with.
TouchedBy(w) ==
  IF w.kind # "import" \/ w.at = "done" THEN {}
  ELSE {w.names[k] : k \in {k \in 1..Len(w.names) : k < w.index \/ (k = w.index /\ w.at # "aside")}}
Touched == TouchedBy(writer)

\* The old skill is in a directory that the import will not remove.
KeptBefore(n) == \E d \in aside : d.name = n /\ d.skill = committed[n] /\ (Importing => d.by # version)

\* With s at its name, the skill is as the last writer left it, or kept.
Rest(n, s) ==
  n \notin torn =>
    /\ committed[n] # Nothing => s = committed[n] \/ KeptBefore(n)
    /\ n \notin half => s = committed[n]

WriterStory ==
  /\ writer.kind = "none" => writer = NoWriter
  /\ writer.kind \in {"save", "delete"} =>
       /\ Len(writer.names) = 1 /\ skill[writer.names[1]].kind = "dir"
  /\ writer.kind = "delete" => committed[writer.names[1]] = Nothing
  /\ writer.kind = "import" =>
       /\ \A i, j \in 1..Len(writer.names) : writer.names[i] = writer.names[j] => i = j
       /\ \A i \in 1..Len(writer.names) : skill[writer.names[i]].kind # "file"
       /\ writer.at \in {"aside", "install"} => writer.index \in 1..Len(writer.names) /\ writer.undone
       /\ writer.at \in {"undo", "aside", "install", "done"} 
       /\ writer.at = "undo" => writer.index \in 0..Len(writer.names)

\* Who was moved aside by this import is there, as it was.
AsideStory ==
  Importing =>
    /\ \A n \in Touched :
         /\ n \in writer.had => \E d \in aside : d.name = n /\ d.by = version
         /\ \A d \in aside : n \in writer.had /\ d.name = n /\ d.by = version => Rest(n, d.skill)
         /\ n \notin writer.had => Rest(n, Nothing)
         /\ n \notin writer.installed => skill[n] = Nothing
    /\ writer.at \in {"aside", "install"} =>
         /\ writer.had \cup writer.installed \subseteq Touched
         /\ \A d \in aside : d.by = version => d.name \in Touched

RestStory ==
  \A n \in Skills \ Touched : (writer.kind = "delete" => n # writer.names[1]) => Rest(n, skill[n])

VersionStory ==
  /\ \A n \in Skills : skill[n].main \notin withdrawn
  /\ \A d \in aside : d.skill.main \notin withdrawn
  /\ writer.kind = "save" => version \notin withdrawn
  /\ Importing =>
       /\ version \notin withdrawn /\ version \notin given
       /\ \A d \in aside : d.skill.main # version
       /\ writer.at # "done" /\ writer.undone => \A n \in Skills : skill[n].main = version => n \in Touched
  /\ given \cap withdrawn = {}

SkillInv == RegistryTypes /\ ShapeStory /\ WriterStory /\ AsideStory /\ RestStory /\ VersionStory

-----------------------------------------------------------------------------
(* What an import touches *)

\* Nothing, no writer and a new directory have their types.
LEMMA NothingTypes ==
  /\ Nothing \in SkillRecord /\ NoWriter \in WriterRecord
  /\ \A v \in Nat : Directory(v) \in SkillRecord
<1>1. <<>> \in Seq(Skills)
  OBVIOUS
<1> QED
  BY <1>1 DEF Nothing, NoWriter, Directory, SkillRecord, WriterRecord

\* Every step keeps the types.
LEMMA TypesStep == RegistryTypes /\ ShapeStory /\ WriterStory /\ AsideStory /\ [SkillNext]_skillVars => RegistryTypes'
<1> SUFFICES ASSUME RegistryTypes, ShapeStory, WriterStory, AsideStory, [SkillNext]_skillVars PROVE RegistryTypes'
  OBVIOUS
<1> USE SkillConstants, NothingTypes
<1>t. /\ skill \in [Skills -> SkillRecord] /\ committed \in [Skills -> SkillRecord]
      /\ aside \subseteq AsideRecord /\ writer \in WriterRecord
      /\ version \in Nat \ {0} /\ version <= MaxVersions
      /\ given \subseteq 1..version /\ withdrawn \subseteq 1..version
      /\ torn \subseteq Skills /\ half \subseteq Skills
  BY DEF RegistryTypes
<1>w. writer.names \in Seq(Skills) /\ writer.index \in Nat /\ writer.had \subseteq Skills /\ writer.installed \subseteq Skills
  BY <1>t DEF WriterRecord
<1>n. Named(writer) \subseteq Skills
  BY <1>w DEF Named
<1>s. \A n \in Skills : skill[n] \in SkillRecord /\ committed[n] \in SkillRecord
  BY <1>t
<1>1. ASSUME NEW p \in Packages, ImportPackage(p) PROVE RegistryTypes'
  <2>1. p \in Seq(Skills)
    OBVIOUS
  <2>2. writer' \in WriterRecord
    BY <1>1, <2>1 DEF ImportPackage, NoWriter, WriterRecord
  <2>3. version' \in Nat \ {0} /\ version' <= MaxVersions /\ 1..version \subseteq 1..version'
    BY <1>1, <1>t DEF ImportPackage
  <2> QED
    BY <1>1, <1>t, <2>2, <2>3 DEF ImportPackage, RegistryTypes
<1>2. CASE MoveAside
  <2>0. writer.index \in 1..Len(writer.names)
    BY <1>2 DEF MoveAside, WriterStory
  <2>1. Target \in Skills
    BY <1>w, <2>0 DEF Target
  <2>2. writer' \in WriterRecord
    <3>1. CASE writer' = [writer EXCEPT !.at = "install"]
      BY <3>1, <1>t DEF WriterRecord
    <3>2. CASE writer' = [writer EXCEPT !.at = "install", !.had = @ \cup {Target}]
      BY <3>2, <1>t, <1>w, <2>1 DEF WriterRecord
    <3>3. CASE writer' = [writer EXCEPT !.at = "undo", !.index = @ - 1]
      <4>1. writer.index - 1 \in Nat
        BY <1>w, <2>0
      <4> QED
        BY <3>3, <4>1, <1>t, <1>w DEF WriterRecord
    <3> QED
      BY <1>2, <3>1, <3>2, <3>3 DEF MoveAside, Mishap
  <2>3. skill' \in [Skills -> SkillRecord]
    <3>1. CASE UNCHANGED skill
      BY <3>1, <1>t
    <3>2. CASE skill' = [skill EXCEPT ![Target] = Nothing]
      BY <3>2, <1>t
    <3> QED
      BY <1>2, <3>1, <3>2 DEF MoveAside
  <2>4. aside' \subseteq AsideRecord
    <3>1. [name |-> Target, skill |-> skill[Target], by |-> version] \in AsideRecord
      BY <2>1, <1>s, <1>t DEF AsideRecord
    <3> QED
      BY <1>2, <1>t, <3>1 DEF MoveAside
  <2> QED
    BY <1>2, <1>t, <2>2, <2>3, <2>4 DEF MoveAside, RegistryTypes
<1>3. CASE Install
  <2>0. writer.index \in 1..Len(writer.names)
    BY <1>3 DEF Install, WriterStory
  <2>1. Target \in Skills
    BY <1>w, <2>0 DEF Target
  <2>c. writer.index + 1 \in Nat /\ writer.installed \cup {Target} \in SUBSET Skills
    BY <1>w, <2>0, <2>1
  <2>2. writer' \in WriterRecord
    <3>1. CASE writer' = [writer EXCEPT !.at = "aside", !.index = @ + 1, !.installed = @ \cup {Target}]
      BY <3>1, <2>c, <1>t, <1>w DEF WriterRecord
    <3>2. CASE writer' = [writer EXCEPT !.at = "done", !.installed = @ \cup {Target}]
      BY <3>2, <1>t, <1>w, <2>1 DEF WriterRecord
    <3>3. CASE writer' = [writer EXCEPT !.at = "undo", !.index = UndoFrom(@)]
      BY <3>3, <1>t, <1>w DEF WriterRecord, UndoFrom
    <3> QED
      BY <1>3, <3>1, <3>2, <3>3 DEF Install
  <2>3. skill' \in [Skills -> SkillRecord]
    <3>1. CASE UNCHANGED skill
      BY <3>1, <1>t
    <3>2. CASE skill' = [skill EXCEPT ![Target] = Directory(version)]
      BY <3>2, <1>t
    <3> QED
      BY <1>3, <3>1, <3>2 DEF Install
  <2>4. committed' \in [Skills -> SkillRecord]
    <3>1. CASE UNCHANGED committed
      BY <3>1, <1>t
    <3>2. CASE committed' = [n \in Skills |-> IF n \in Named(writer) THEN skill'[n] ELSE committed[n]]
      BY <3>2, <1>t, <2>3
    <3> QED
      BY <1>3, <3>1, <3>2 DEF Install
  <2>5. torn' \subseteq Skills /\ half' \subseteq Skills
    BY <1>3, <1>t DEF Install
  <2> QED
    BY <1>3, <1>t, <2>2, <2>3, <2>4, <2>5 DEF Install, RegistryTypes
<1>4. CASE Rollback
  <2>0. writer.index \in 1..Len(writer.names)
    BY <1>4, <1>w DEF Rollback, WriterStory
  <2>1. Target \in Skills
    BY <1>w, <2>0 DEF Target
  <2>c. writer.index - 1 \in Nat
    BY <1>w, <2>0
  <2>2. writer' \in WriterRecord
    <3>1. CASE writer' = [writer EXCEPT !.index = @ - 1]
      BY <3>1, <2>c, <1>t, <1>w DEF WriterRecord
    <3>2. CASE writer' = [writer EXCEPT !.index = @ - 1, !.undone = FALSE]
      BY <3>2, <2>c, <1>t, <1>w DEF WriterRecord
    <3> QED
      BY <1>4, <3>1, <3>2 DEF Rollback
  <2> DEFINE old == {d \in aside : d.name = Target /\ d.by = version}
             back == IF Target \in writer.had THEN (CHOOSE d \in old : TRUE).skill ELSE Nothing
  <2>b. back \in SkillRecord
    <3>1. CASE Target \in writer.had
      <4>1. Target \in Touched
        BY <1>4, <2>0, <1>w DEF Rollback, Touched, TouchedBy, Importing, Target
      <4>2. PICK d \in aside : d.name = Target /\ d.by = version
        BY <3>1, <4>1, <1>4 DEF AsideStory, Importing, Rollback
      <4>3. (CHOOSE e \in old : TRUE) \in old
        BY <4>2
      <4>4. (CHOOSE e \in old : TRUE) \in AsideRecord
        BY <4>3, <1>t
      <4> QED
        BY <4>4, <3>1 DEF AsideRecord
    <3> QED
      BY <3>1
  <2>3. skill' \in [Skills -> SkillRecord]
    <3>1. CASE skill' = skill
      BY <3>1, <1>t
    <3>2. CASE skill' = [skill EXCEPT ![Target] = back]
      BY <3>2, <1>t, <2>b
    <3>3. CASE skill' = [skill EXCEPT ![Target] = Nothing]
      BY <3>3, <1>t
    <3> QED
      BY <1>4, <3>1, <3>2, <3>3 DEF Rollback
  <2>4. aside' \subseteq AsideRecord /\ torn' \subseteq Skills
    BY <1>4, <1>t, <2>1 DEF Rollback
  <2> QED
    BY <1>4, <1>t, <2>2, <2>3, <2>4 DEF Rollback, RegistryTypes
<1>5. CASE EndImport
  <2>1. aside' \subseteq AsideRecord /\ withdrawn' \subseteq 1..version
    BY <1>5, <1>t DEF EndImport
  <2> QED
    BY <1>5, <1>t, <2>1 DEF EndImport, RegistryTypes
<1>6. ASSUME NEW n \in Skills, Save(n) PROVE RegistryTypes'
  <2>1. skill' \in [Skills -> SkillRecord]
    BY <1>6, <1>t, <1>s DEF Save, SkillRecord
  <2>2. committed' \in [Skills -> SkillRecord]
    BY <1>6, <1>t, <2>1 DEF Save
  <2>3. writer' \in WriterRecord
    <3>1. <<n>> \in Seq(Skills)
      OBVIOUS
    <3> QED
      BY <3>1, <1>6 DEF Save, NoWriter, WriterRecord
  <2>4. version' \in Nat \ {0} /\ version' <= MaxVersions /\ 1..version \subseteq 1..version'
    BY <1>6, <1>t DEF Save
  <2> QED
    BY <1>6, <1>t, <2>1, <2>2, <2>3, <2>4 DEF Save, RegistryTypes
<1>7. ASSUME NEW n \in Skills, Delete(n) PROVE RegistryTypes'
  <2>2. committed' \in [Skills -> SkillRecord]
    BY <1>7, <1>t DEF Delete
  <2>3. writer' \in WriterRecord
    <3>1. <<n>> \in Seq(Skills)
      OBVIOUS
    <3> QED
      BY <3>1, <1>7 DEF Delete, NoWriter, WriterRecord
  <2> QED
    BY <1>7, <1>t, <2>2, <2>3 DEF Delete, RegistryTypes
<1>8. ASSUME NEW n \in Skills, LoadSkill(n) PROVE RegistryTypes'
  <2>1. skill[n].main \in 1..version
    BY <1>8, <1>s, <1>t DEF LoadSkill, ListEnabledSkills, readUnlocked, ShapeStory, SkillRecord
  <2> QED
    BY <1>8, <1>t, <2>1 DEF LoadSkill, RegistryTypes
<1>9. ASSUME NEW n \in Skills, NEW enabled \in BOOLEAN, SetEnabled(n, enabled) PROVE RegistryTypes'
  <2>0. (~enabled) \in BOOLEAN
    OBVIOUS
  <2>1. skill' \in [Skills -> SkillRecord]
    BY <1>9, <1>t, <1>s, <2>0, ZenonT(60) DEF SetEnabled, SkillRecord
  <2>2. committed' \in [Skills -> SkillRecord]
    BY <1>9, <1>t, <2>1 DEF SetEnabled
  <2> QED
    BY <1>9, <1>t, <2>1, <2>2 DEF SetEnabled, RegistryTypes
<1>10. CASE atomicWrite
  <2> DEFINE n == writer.names[1]
  <2>0. n \in Skills
    BY <1>10, <1>w DEF atomicWrite, WriterStory
  <2>1. skill' \in [Skills -> SkillRecord]
    <3>1. CASE skill' = [skill EXCEPT ![n].main = version]
      BY <3>1, <1>t, <1>s, <2>0 DEF SkillRecord
    <3>2. CASE UNCHANGED skill
      BY <3>2, <1>t
    <3> QED
      BY <1>10, <3>1, <3>2 DEF atomicWrite
  <2>2. committed' \in [Skills -> SkillRecord]
    BY <1>10, <1>t, <2>0, <2>1 DEF atomicWrite
  <2>3. torn' \subseteq Skills /\ half' \subseteq Skills
    BY <1>10, <1>t DEF atomicWrite
  <2> QED
    BY <1>10, <1>t, <2>1, <2>2, <2>3 DEF atomicWrite, RegistryTypes
<1>11. CASE RemoveAll
  <2> DEFINE n == writer.names[1]
  <2>0. n \in Skills
    BY <1>11, <1>w DEF RemoveAll, WriterStory
  <2>1. skill' \in [Skills -> SkillRecord]
    <3>1. CASE skill' = [skill EXCEPT ![n].off = FALSE]
      BY <3>1, <1>t, <1>s, <2>0, ZenonT(60) DEF SkillRecord
    <3>2. CASE skill' = [skill EXCEPT ![n].main = 0]
      BY <3>2, <1>t, <1>s, <2>0, ZenonT(60) DEF SkillRecord
    <3>3. CASE skill' = [skill EXCEPT ![n] = Nothing]
      BY <3>3, <1>t
    <3>4. CASE UNCHANGED skill
      BY <3>4, <1>t
    <3> QED
      BY <1>11, <3>1, <3>2, <3>3, <3>4 DEF RemoveAll
  <2>2. half' \subseteq Skills /\ writer' \in WriterRecord
    BY <1>11, <1>t, <2>0 DEF RemoveAll
  <2> QED
    BY <1>11, <1>t, <2>1, <2>2 DEF RemoveAll, RegistryTypes
<1>12. CASE CrashRegistry
  BY <1>12, <1>t, <1>n DEF CrashRegistry, RegistryTypes
<1>13. CASE UNCHANGED skillVars
  BY <1>13, <1>t DEF skillVars, RegistryTypes
<1> QED
  BY <1>1, <1>2, <1>3, <1>4, <1>5, <1>6, <1>7, <1>8, <1>9, <1>10, <1>11, <1>12, <1>13 DEF SkillNext

\* What the types say of the writer's fields and of each skill.
LEMMA Fields ==
  ASSUME RegistryTypes
  PROVE /\ writer.names \in Seq(Skills) /\ writer.index \in Nat /\ Len(writer.names) \in Nat
        /\ writer.had \subseteq Skills /\ writer.installed \subseteq Skills
        /\ Named(writer) \subseteq Skills
        /\ \A k \in 1..Len(writer.names) : writer.names[k] \in Skills
        /\ \A n \in Skills : skill[n] \in SkillRecord
        /\ version \in Nat /\ version > 0
<1>1. writer.names \in Seq(Skills) /\ writer.index \in Nat /\ writer.had \subseteq Skills /\ writer.installed \subseteq Skills
  BY DEF RegistryTypes, WriterRecord
<1>2. Len(writer.names) \in Nat /\ \A k \in 1..Len(writer.names) : writer.names[k] \in Skills
  BY <1>1
<1>3. Named(writer) \subseteq Skills
  BY <1>2 DEF Named
<1> QED
  BY <1>1, <1>2, <1>3 DEF RegistryTypes

\* An import that touches or undoes a name is at one of its names.
LEMMA AtTarget ==
  ASSUME RegistryTypes, WriterStory, MoveAside \/ Install \/ Rollback
  PROVE /\ Importing /\ writer.index \in 1..Len(writer.names) /\ Target \in Skills
        /\ writer.index - 1 \in 0..Len(writer.names)
<1>1. Importing /\ writer.index \in 1..Len(writer.names)
  BY Fields DEF WriterStory, MoveAside, Install, Rollback, Importing
<1> QED
  BY <1>1, Fields DEF Target

\* The directory that undoing puts back is one that this import moved aside.
LEMMA OldAside ==
  ASSUME RegistryTypes, WriterStory, AsideStory, Rollback,
         Target \in writer.had
  PROVE LET old == {d \in aside : d.name = Target /\ d.by = version} IN
        (CHOOSE d \in old : TRUE) \in old
<1> DEFINE old == {d \in aside : d.name = Target /\ d.by = version}
<1>1. Target \in Touched
  BY AtTarget, Fields DEF Rollback, Touched, TouchedBy, Importing, Target
<1>2. \E d \in aside : d.name = Target /\ d.by = version
  BY <1>1, AtTarget DEF AsideStory
<1>3. \E d \in old : TRUE
  BY <1>2
<1> QED
  BY <1>3

\* Every step leaves directories, or nothing at all, and contents that were written.
LEMMA ShapeStep ==
  RegistryTypes /\ ShapeStory /\ WriterStory /\ AsideStory /\ [SkillNext]_skillVars => ShapeStory'
<1> SUFFICES ASSUME RegistryTypes, ShapeStory, WriterStory, AsideStory, [SkillNext]_skillVars PROVE ShapeStory'
  OBVIOUS
<1> USE SkillConstants
<1>t. /\ skill \in [Skills -> SkillRecord] /\ version \in Nat \ {0} /\ aside \subseteq AsideRecord
  BY DEF RegistryTypes
<1>s. \A n \in Skills : skill[n].main <= version /\ (skill[n].kind = "none" => skill[n] = Nothing)
  BY DEF ShapeStory
<1>a. \A d \in aside : d.skill.kind = "dir" /\ d.skill.main <= version /\ d.by <= version
  BY DEF ShapeStory
<1>f. /\ \A n \in Skills : skill[n] \in SkillRecord
      /\ \A n \in Skills : skill[n].main \in Nat
      /\ \A d \in aside : d.skill.main \in Nat /\ d.by \in Nat
  BY <1>t DEF AsideRecord, SkillRecord
<1>n. Nothing.main = 0 /\ Nothing.kind = "none" /\ \A v \in Nat : Directory(v).main = v /\ Directory(v).kind = "dir"
  BY DEF Nothing, Directory
\* A step changes at most one skill, to something that has its shape.
<1>k. ASSUME NEW n \in Skills, NEW r, skill' = [skill EXCEPT ![n] = r], r.main \in Nat, r.main <= version,
             r.kind = "none" => r = Nothing, UNCHANGED <<aside, version>>
      PROVE ShapeStory'
  <2>1. \A m \in Skills : skill'[m] = IF m = n THEN r ELSE skill[m]
    BY <1>k, <1>t
  <2> QED
    BY <1>k, <1>s, <1>a, <2>1 DEF ShapeStory
<1>1. ASSUME NEW p \in Packages, ImportPackage(p) PROVE ShapeStory'
  <2>1. version' = version + 1 /\ UNCHANGED <<skill, aside>>
    BY <1>1 DEF ImportPackage
  <2>2. \A x \in Nat : x <= version => x <= version + 1
    BY <1>t
  <2> QED
    BY <2>1, <2>2, <1>s, <1>a, <1>f DEF ShapeStory
<1>2. CASE MoveAside
  <2>1. Target \in Skills /\ skill[Target].kind # "file"
    BY <1>2, AtTarget DEF WriterStory, Importing, Target
  <2>2. CASE UNCHANGED <<skill, aside>>
    BY <2>2, <1>2, <1>s, <1>a DEF MoveAside, ShapeStory
  <2>3. CASE /\ skill[Target] # Nothing /\ skill' = [skill EXCEPT ![Target] = Nothing]
             /\ aside' = aside \cup {[name |-> Target, skill |-> skill[Target], by |-> version]}
    <3>1. skill[Target].kind = "dir"
      BY <2>1, <2>3, <1>s, <1>f DEF SkillRecord
    <3>2. \A m \in Skills : skill'[m] = IF m = Target THEN Nothing ELSE skill[m]
      BY <2>3, <1>t
    <3>3. \A m \in Skills : skill'[m].main <= version /\ (skill'[m].kind = "none" => skill'[m] = Nothing)
      BY <3>2, <1>s, <1>n, <1>t
    <3>4. \A d \in aside' : d.skill.kind = "dir" /\ d.skill.main <= version /\ d.by <= version
      BY <3>1, <2>1, <2>3, <1>a, <1>s, <1>t
    <3>5. version' = version
      BY <1>2 DEF MoveAside
    <3> QED
      BY <3>3, <3>4, <3>5 DEF ShapeStory
  <2> QED
    BY <1>2, <2>2, <2>3 DEF MoveAside
<1>3. CASE Install
  <2>1. UNCHANGED <<aside, version>> /\ Target \in Skills
    BY <1>3, AtTarget DEF Install
  <2>2. CASE UNCHANGED skill
    BY <2>1, <2>2, <1>s, <1>a DEF ShapeStory
  <2>3. CASE skill' = [skill EXCEPT ![Target] = Directory(version)]
    <3> DEFINE r == Directory(version)
    <3>1. r.main \in Nat /\ r.main <= version /\ r.kind # "none"
      BY <1>n, <1>t
    <3>2. skill' = [skill EXCEPT ![Target] = r]
      BY <2>3
    <3> HIDE DEF r
    <3> QED
      BY <2>1, <3>1, <3>2, <1>k
  <2> QED
    BY <1>3, <2>2, <2>3 DEF Install
<1>4. CASE Rollback
  <2> DEFINE old == {d \in aside : d.name = Target /\ d.by = version}
             back == IF Target \in writer.had THEN (CHOOSE d \in old : TRUE).skill ELSE Nothing
  <2>1. UNCHANGED version /\ Target \in Skills /\ aside' \subseteq aside
    BY <1>4, AtTarget DEF Rollback
  <2>2. back.main <= version /\ (back.kind = "none" => back = Nothing)
    <3>1. CASE Target \in writer.had
      <4>1. (CHOOSE d \in old : TRUE) \in old
        BY <1>4, <3>1, OldAside
      <4> QED
        BY <4>1, <3>1, <1>a
    <3>2. CASE Target \notin writer.had
      BY <3>2, <1>n, <1>t
    <3> QED
      BY <3>1, <3>2
  <2>3. \/ skill' = skill
        \/ skill' = [skill EXCEPT ![Target] = back]
        \/ skill' = [skill EXCEPT ![Target] = Nothing]
    BY <1>4 DEF Rollback
  <2>4. \A m \in Skills : skill'[m] \in {skill[m], back, Nothing}
    BY <2>1, <2>3, <1>t
  <2> HIDE DEF back
  <2>5. \A m \in Skills : skill'[m].main <= version /\ (skill'[m].kind = "none" => skill'[m] = Nothing)
    BY <2>2, <2>4, <1>s, <1>n, <1>t
  <2> QED
    BY <2>1, <2>5, <1>a DEF ShapeStory
<1>5. CASE EndImport
  BY <1>5, <1>s, <1>a DEF EndImport, ShapeStory
<1>6. ASSUME NEW n \in Skills, Save(n) PROVE ShapeStory'
  <2>1. version' = version + 1 /\ UNCHANGED aside /\ skill' = [skill EXCEPT ![n].kind = "dir"]
    BY <1>6 DEF Save
  <2>2. \A x \in Nat : x <= version => x <= version + 1
    BY <1>t
  <2>3. \A m \in Skills : skill'[m].main = skill[m].main /\ (m # n => skill'[m] = skill[m])
    BY <2>1, <1>t, <1>f DEF SkillRecord
  <2>4. skill'[n].kind = "dir"
    BY <2>1, <1>t, <1>f DEF SkillRecord
  <2>5. \A m \in Skills : skill'[m].main <= version + 1
    BY <2>2, <2>3, <1>s, <1>f
  <2>6. \A m \in Skills : skill'[m].kind = "none" => skill'[m] = Nothing
    BY <2>3, <2>4, <1>s
  <2>7. \A d \in aside : d.skill.kind = "dir" /\ d.skill.main <= version + 1 /\ d.by <= version + 1
    BY <2>2, <1>a, <1>f
  <2> QED
    BY <2>1, <2>5, <2>6, <2>7 DEF ShapeStory
<1>7. ASSUME NEW n \in Skills, Delete(n) PROVE ShapeStory'
  BY <1>7, <1>s, <1>a DEF Delete, ShapeStory
<1>8. ASSUME NEW n \in Skills, LoadSkill(n) PROVE ShapeStory'
  BY <1>8, <1>s, <1>a DEF LoadSkill, ShapeStory
<1>9. ASSUME NEW n \in Skills, NEW enabled \in BOOLEAN, SetEnabled(n, enabled) PROVE ShapeStory'
  <2> DEFINE r == [skill[n] EXCEPT !.off = ~enabled]
  <2>1. skill' = [skill EXCEPT ![n] = r] /\ UNCHANGED <<aside, version>>
    BY <1>9 DEF SetEnabled
  <2>2. r.main = skill[n].main /\ r.kind = "dir"
    BY <1>9, <1>f DEF SetEnabled, readUnlocked, SkillRecord
  <2> HIDE DEF r
  <2> QED
    BY <2>1, <2>2, <1>k, <1>s, <1>f
<1>10. CASE atomicWrite
  <2> DEFINE n == writer.names[1]
             r == [skill[n] EXCEPT !.main = version]
  <2>0. n \in Skills /\ skill[n].kind = "dir"
    BY <1>10, Fields DEF atomicWrite, WriterStory
  <2>1. UNCHANGED <<aside, version>>
    BY <1>10 DEF atomicWrite
  <2>2. CASE UNCHANGED skill
    BY <2>1, <2>2, <1>s, <1>a DEF ShapeStory
  <2>3. CASE skill' = [skill EXCEPT ![n] = r]
    <3>1. r.main = version /\ r.kind = "dir"
      BY <2>0, <1>f DEF SkillRecord
    <3>2. r.main \in Nat /\ r.main <= version /\ r.kind # "none"
      BY <3>1, <1>t
    <3> HIDE DEF r, n
    <3> QED
      BY <2>0, <2>1, <2>3, <3>2, <1>k
  <2> QED
    BY <1>10, <2>2, <2>3 DEF atomicWrite
<1>11. CASE RemoveAll
  <2> DEFINE n == writer.names[1]
             r1 == [skill[n] EXCEPT !.off = FALSE]
             r2 == [skill[n] EXCEPT !.main = 0]
  <2>0. n \in Skills /\ skill[n].kind = "dir"
    BY <1>11, Fields DEF RemoveAll, WriterStory
  <2>1. UNCHANGED <<aside, version>>
    BY <1>11 DEF RemoveAll
  <2>2. CASE UNCHANGED skill
    BY <2>1, <2>2, <1>s, <1>a DEF ShapeStory
  <2>3. /\ r1.main = skill[n].main /\ r1.kind = "dir"
        /\ r2.main = 0 /\ r2.kind = "dir"
    BY <2>0, <1>f DEF SkillRecord
  <2>4. \/ skill' = [skill EXCEPT ![n] = r1] \/ skill' = [skill EXCEPT ![n] = r2]
        \/ skill' = [skill EXCEPT ![n] = Nothing] \/ UNCHANGED skill
    BY <1>11 DEF RemoveAll
  <2> HIDE DEF r1, r2, n
  <2>5. skill[n].main \in Nat /\ skill[n].main <= version
    BY <2>0, <1>f, <1>s
  <2>9. r2.main \in Nat /\ r2.main <= version /\ Nothing.main \in Nat /\ Nothing.main <= version
    BY <2>3, <1>n, <1>t
  <2>6. CASE skill' = [skill EXCEPT ![n] = r1]
    BY <2>6, <2>0, <2>1, <2>3, <2>5, <1>k
  <2>7. CASE skill' = [skill EXCEPT ![n] = r2]
    BY <2>7, <2>0, <2>1, <2>3, <2>9, <1>k
  <2>8. CASE skill' = [skill EXCEPT ![n] = Nothing]
    BY <2>8, <2>0, <2>1, <2>9, <1>k
  <2> QED
    BY <2>2, <2>4, <2>6, <2>7, <2>8
<1>12. CASE CrashRegistry
  BY <1>12, <1>s, <1>a DEF CrashRegistry, ShapeStory
<1>13. CASE UNCHANGED skillVars
  BY <1>13, <1>s, <1>a DEF skillVars, ShapeStory
<1> QED
  BY <1>1, <1>2, <1>3, <1>4, <1>5, <1>6, <1>7, <1>8, <1>9, <1>10, <1>11, <1>12, <1>13 DEF SkillNext

\* The writer that rests, and what a step can do to one that does not.
LEMMA Rests ==
  /\ NoWriter.kind = "none" /\ NoWriter.names = <<>> /\ NoWriter.undone
  /\ Unlocked => writer.kind = "none"
BY DEF NoWriter, Unlocked

\* The writer of the next state is one that the story knows.
LEMMA WriterStep ==
  RegistryTypes /\ ShapeStory /\ WriterStory /\ AsideStory /\ [SkillNext]_skillVars => WriterStory'
<1> SUFFICES ASSUME RegistryTypes, ShapeStory, WriterStory, AsideStory, [SkillNext]_skillVars PROVE WriterStory'
  OBVIOUS
<1> USE SkillConstants
<1>t. /\ skill \in [Skills -> SkillRecord] /\ committed \in [Skills -> SkillRecord] /\ writer \in WriterRecord
  BY DEF RegistryTypes
<1>0. ASSUME writer' = NoWriter PROVE WriterStory'
  BY <1>0 DEF WriterStory, NoWriter
<1>1. ASSUME NEW p \in Packages, ImportPackage(p) PROVE WriterStory'
  <2>1. p \in Seq(Skills) /\ p # <<>> /\ Len(p) \in Nat
    OBVIOUS
  <2>2. 1 \in 1..Len(p)
    BY <2>1
  <2>3. /\ writer'.kind = "import" /\ writer'.names = p /\ writer'.at = "aside" /\ writer'.index = 1 /\ writer'.undone
        /\ skill' = skill
    BY <1>1 DEF ImportPackage, NoWriter
  <2>4. /\ \A i, j \in 1..Len(p) : p[i] = p[j] => i = j
        /\ \A i \in 1..Len(p) : skill[p[i]].kind # "file"
    BY <1>1 DEF ImportPackage
  <2> QED
    BY <2>2, <2>3, <2>4 DEF WriterStory
\* A step of an import: the names and its kind stay, no name becomes a file.
<1>i. ASSUME Importing, UNCHANGED <<writer.kind, writer.names>>,
             \A n \in Skills : skill'[n] = skill[n] \/ skill'[n].kind # "file",
             writer'.at \in {"undo", "aside", "install", "done"},
             writer'.at \in {"aside", "install"} => writer'.index \in 1..Len(writer.names) /\ writer'.undone,
             writer'.at = "undo" => writer'.index \in 0..Len(writer.names)
      PROVE WriterStory'
  <2>1. writer'.kind = "import" /\ writer'.names = writer.names
    BY <1>i DEF Importing
  <2>2. \A i \in 1..Len(writer.names) : skill[writer.names[i]].kind # "file" /\ writer.names[i] \in Skills
    BY <1>i, Fields DEF WriterStory, Importing
  <2>3. \A i, j \in 1..Len(writer.names) : writer.names[i] = writer.names[j] => i = j
    BY <1>i DEF WriterStory, Importing
  <2>4. \A i \in 1..Len(writer.names) : skill'[writer.names[i]].kind # "file"
    BY <2>2, <1>i
  <2> QED
    BY <1>i, <2>1, <2>3, <2>4 DEF WriterStory
<1>2. CASE MoveAside
  <2>1. Importing /\ writer.index \in 1..Len(writer.names) /\ Target \in Skills /\ writer.index - 1 \in 0..Len(writer.names) /\ writer.undone
    BY <1>2, AtTarget DEF MoveAside, WriterStory
  <2>2. \A n \in Skills : skill'[n] = skill[n] \/ skill'[n].kind # "file"
    <3>1. Nothing.kind # "file"
      BY DEF Nothing
    <3>2. skill' = skill \/ skill' = [skill EXCEPT ![Target] = Nothing]
      BY <1>2 DEF MoveAside
    <3> QED
      BY <3>1, <3>2, <1>t
  <2>3. CASE writer' = [writer EXCEPT !.at = "install"]
    BY <2>1, <2>2, <2>3, <1>i, <1>t DEF WriterRecord
  <2>4. CASE writer' = [writer EXCEPT !.at = "install", !.had = @ \cup {Target}]
    BY <2>1, <2>2, <2>4, <1>i, <1>t DEF WriterRecord
  <2>5. CASE writer' = [writer EXCEPT !.at = "undo", !.index = @ - 1]
    <3>1. /\ writer'.at = "undo" /\ writer'.index = writer.index - 1
          /\ writer'.kind = writer.kind /\ writer'.names = writer.names
      BY <2>5, <1>t DEF WriterRecord
    <3> QED
      BY <2>1, <2>2, <3>1, <1>i
  <2> QED
    BY <1>2, <2>3, <2>4, <2>5 DEF MoveAside
<1>3. CASE Install
  <2>1. Importing /\ writer.index \in 1..Len(writer.names) /\ Target \in Skills /\ writer.undone
    BY <1>3, AtTarget DEF Install, WriterStory
  <2>2. \A n \in Skills : skill'[n] = skill[n] \/ skill'[n].kind # "file"
    <3>1. Directory(version).kind # "file"
      BY DEF Directory
    <3>2. skill' = skill \/ skill' = [skill EXCEPT ![Target] = Directory(version)]
      BY <1>3 DEF Install
    <3> QED
      BY <3>1, <3>2, <1>t
  <2>3. CASE /\ writer.index < Len(writer.names)
             /\ writer' = [writer EXCEPT !.at = "aside", !.index = @ + 1, !.installed = @ \cup {Target}]
    <3>1. writer.index + 1 \in 1..Len(writer.names)
      BY <2>1, <2>3, Fields
    <3>2. /\ writer'.at = "aside" /\ writer'.index = writer.index + 1 /\ writer'.undone = writer.undone
          /\ writer'.kind = writer.kind /\ writer'.names = writer.names
      BY <2>3, <1>t DEF WriterRecord
    <3> QED
      BY <2>1, <2>2, <3>1, <3>2, <1>i
  <2>4. CASE writer' = [writer EXCEPT !.at = "done", !.installed = @ \cup {Target}]
    BY <2>1, <2>2, <2>4, <1>i, <1>t DEF WriterRecord
  <2>5. CASE writer' = [writer EXCEPT !.at = "undo", !.index = UndoFrom(@)]
    <3>1. /\ writer'.at = "undo" /\ writer'.index = writer.index
          /\ writer'.kind = writer.kind /\ writer'.names = writer.names
      BY <2>5, <1>t DEF WriterRecord, UndoFrom
    <3>2. writer.index \in 0..Len(writer.names)
      BY <2>1
    <3> QED
      BY <2>1, <2>2, <3>1, <3>2, <1>i
  <2> QED
    BY <1>3, <2>3, <2>4, <2>5 DEF Install
<1>4. CASE Rollback
  <2> DEFINE old == {d \in aside : d.name = Target /\ d.by = version}
             back == IF Target \in writer.had THEN (CHOOSE d \in old : TRUE).skill ELSE Nothing
  <2>1. Importing /\ writer.at = "undo" /\ Target \in Skills /\ writer.index - 1 \in 0..Len(writer.names)
    BY <1>4, AtTarget DEF Rollback
  <2>2. back.kind # "file"
    <3>1. CASE Target \in writer.had
      <4>1. (CHOOSE d \in old : TRUE) \in old
        BY <1>4, <3>1, OldAside
      <4> QED
        BY <4>1, <3>1 DEF ShapeStory
    <3>2. CASE Target \notin writer.had
      BY <3>2 DEF Nothing
    <3> QED
      BY <3>1, <3>2
  <2>3. skill' = skill \/ skill' = [skill EXCEPT ![Target] = back] \/ skill' = [skill EXCEPT ![Target] = Nothing]
    BY <1>4 DEF Rollback
  <2>4. writer' = [writer EXCEPT !.index = @ - 1] \/ writer' = [writer EXCEPT !.index = @ - 1, !.undone = FALSE]
    BY <1>4 DEF Rollback
  <2>5. /\ writer'.at = writer.at /\ writer'.index = writer.index - 1
        /\ writer'.kind = writer.kind /\ writer'.names = writer.names
    BY <2>4, <1>t DEF WriterRecord
  <2> HIDE DEF back
  <2>6. \A n \in Skills : skill'[n] = skill[n] \/ skill'[n].kind # "file"
    <3>1. Nothing.kind # "file"
      BY DEF Nothing
    <3> QED
      BY <2>2, <2>3, <3>1, <1>t
  <2> QED
    BY <2>1, <2>5, <2>6, <1>i
<1>5. CASE EndImport
  BY <1>5, <1>0 DEF EndImport
<1>6. ASSUME NEW n \in Skills, Save(n) PROVE WriterStory'
  <2>1. writer'.kind = "save" /\ writer'.names = <<n>>
    BY <1>6 DEF Save, NoWriter
  <2>2. Len(<<n>>) = 1 /\ <<n>>[1] = n
    OBVIOUS
  <2>3. skill'[n].kind = "dir"
    BY <1>6, <1>t DEF Save, SkillRecord
  <2> QED
    BY <2>1, <2>2, <2>3 DEF WriterStory
<1>7. ASSUME NEW n \in Skills, Delete(n) PROVE WriterStory'
  <2>1. writer'.kind = "delete" /\ writer'.names = <<n>>
    BY <1>7 DEF Delete, NoWriter
  <2>2. Len(<<n>>) = 1 /\ <<n>>[1] = n
    OBVIOUS
  <2>3. skill'[n].kind = "dir" /\ committed'[n] = Nothing
    BY <1>7, <1>t DEF Delete, readUnlocked
  <2> QED
    BY <2>1, <2>2, <2>3 DEF WriterStory
<1>8. ASSUME NEW n \in Skills, LoadSkill(n) PROVE WriterStory'
  BY <1>8 DEF LoadSkill, WriterStory
<1>9. ASSUME NEW n \in Skills, NEW enabled \in BOOLEAN, SetEnabled(n, enabled) PROVE WriterStory'
  BY <1>9, <1>0 DEF SetEnabled, Unlocked
<1>10. CASE atomicWrite
  BY <1>10, <1>0 DEF atomicWrite
<1>11. CASE RemoveAll
  <2> DEFINE n == writer.names[1]
  <2>1. CASE writer' = NoWriter
    BY <2>1, <1>0
  <2>2. CASE UNCHANGED <<writer, committed>> /\ (skill' = [skill EXCEPT ![n].off = FALSE] \/ skill' = [skill EXCEPT ![n].main = 0])
    <3>1. n \in Skills /\ skill[n].kind = "dir" /\ writer.kind = "delete" /\ Len(writer.names) = 1 /\ committed[n] = Nothing
      BY <1>11, Fields DEF RemoveAll, WriterStory
    <3>2. skill[n] \in SkillRecord
      BY <3>1, <1>t
    <3> HIDE DEF n
    <3>3. skill'[n].kind = "dir"
      BY <2>2, <3>1, <3>2, <1>t DEF SkillRecord
    <3> QED
      BY <2>2, <3>1, <3>3 DEF WriterStory, n
  <2> QED
    BY <1>11, <2>1, <2>2 DEF RemoveAll
<1>12. CASE CrashRegistry
  BY <1>12, <1>0 DEF CrashRegistry
<1>13. CASE UNCHANGED skillVars
  BY <1>13 DEF skillVars, WriterStory
<1> QED
  BY <1>1, <1>2, <1>3, <1>4, <1>5, <1>6, <1>7, <1>8, <1>9, <1>10, <1>11, <1>12, <1>13 DEF SkillNext

\* Nobody takes away what another writer kept: what rests goes on resting.
LEMMA RestFrame ==
  ASSUME NEW n \in Skills, committed'[n] = committed[n],
         n \in torn => n \in torn', n \in half => n \in half',
         \A d \in aside : (Importing => d.by # version) => d \in aside' /\ (Importing' => d.by # version')
  PROVE \A s : Rest(n, s) => Rest(n, s)'
<1>1. KeptBefore(n) => KeptBefore(n)'
  BY DEF KeptBefore
<1> QED
  BY <1>1 DEF Rest

\* What the last writer left is at rest.
LEMMA RestSame == ASSUME NEW n \in Skills PROVE Rest(n, committed[n])
BY DEF Rest

\* The names an import has touched, place by place.
LEMMA TouchedNames ==
  ASSUME NEW w \in WriterRecord, w.kind = "import"
  PROVE /\ w.at = "aside" => TouchedBy(w) = {w.names[k] : k \in {k \in 1..Len(w.names) : k < w.index}}
        /\ w.at \in {"install", "undo"} => TouchedBy(w) = {w.names[k] : k \in {k \in 1..Len(w.names) : k <= w.index}}
        /\ w.at = "done" => TouchedBy(w) = {}
        /\ TouchedBy(w) \subseteq Named(w) /\ Named(w) \subseteq Skills
<1>1. w.index \in Nat /\ Len(w.names) \in Nat /\ w.names \in Seq(Skills)
  BY DEF WriterRecord
<1>2. TouchedBy(w) \subseteq Named(w)
  BY DEF TouchedBy, Named
<1>6. Named(w) \subseteq Skills
  BY <1>1 DEF Named
<1>3. CASE w.at = "aside"
  BY <1>1, <1>2, <1>6, <1>3 DEF TouchedBy
<1>4. CASE w.at \in {"install", "undo"}
  <2>1. \A k \in 1..Len(w.names) : k <= w.index <=> k < w.index \/ k = w.index
    BY <1>1
  <2> QED
    BY <1>1, <1>2, <1>6, <1>4, <2>1 DEF TouchedBy
<1>5. CASE w.at = "done"
  BY <1>1, <1>2, <1>6, <1>5 DEF TouchedBy
<1> QED
  BY <1>2, <1>3, <1>4, <1>5, <1>6

\* No one but an import touches several names.
LEMMA NobodyTouches == ~Importing => Touched = {}
BY DEF Touched, TouchedBy, Importing

\* What MoveAside takes from its name is what lies aside under that name.
LEMMA MoveAsideRest ==
  ASSUME RegistryTypes, ShapeStory, WriterStory, AsideStory, RestStory, MoveAside, RegistryTypes'
  PROVE AsideStory' /\ RestStory'
<1>t. skill \in [Skills -> SkillRecord] /\ writer \in WriterRecord /\ writer' \in WriterRecord
  BY DEF RegistryTypes
<1>i. /\ Importing /\ writer.at = "aside" /\ writer.kind = "import"
      /\ writer.index \in 1..Len(writer.names) /\ Len(writer.names) \in Nat
      /\ \A i, j \in 1..Len(writer.names) : writer.names[i] = writer.names[j] => i = j
      /\ UNCHANGED <<version, committed, torn, half>>
  BY AtTarget, Fields DEF MoveAside, WriterStory
<1>w. writer'.kind = "import" /\ writer'.names = writer.names
  BY <1>t, <1>i DEF MoveAside, WriterRecord
<1>v. Importing'
  BY <1>w DEF Importing
<1>T. Touched = {writer.names[k] : k \in {k \in 1..Len(writer.names) : k < writer.index}} /\ Touched \subseteq Skills
  BY <1>i, <1>t, TouchedNames DEF Touched
<1>t1. PICK t \in Skills : t = Target
  BY AtTarget
<1>t2. t = writer.names[writer.index]
  BY <1>t1 DEF Target
<1>n. t \notin Touched
  BY <1>T, <1>i, <1>t2
<1>f. \A n \in Skills : \A s : Rest(n, s) => Rest(n, s)'
  <2>1. aside \subseteq aside' \/ aside' = aside
    BY DEF MoveAside
  <2> QED
    BY <2>1, <1>i, RestFrame
<1>r. \A n \in Skills \ Touched : Rest(n, skill[n])
  BY <1>i DEF RestStory, Importing
<1>a. /\ \A n \in Touched :
         /\ n \in writer.had => \E d \in aside : d.name = n /\ d.by = version
         /\ \A d \in aside : n \in writer.had /\ d.name = n /\ d.by = version => Rest(n, d.skill)
         /\ n \notin writer.had => Rest(n, Nothing)
         /\ n \notin writer.installed => skill[n] = Nothing
      /\ writer.had \cup writer.installed \subseteq Touched
      /\ \A d \in aside : d.by = version => d.name \in Touched
  BY <1>i DEF AsideStory
<1>z. PICK z : z = Nothing
  OBVIOUS
<1>z1. z = Nothing'
  BY <1>z DEF Nothing
<1>1. CASE writer' = [writer EXCEPT !.at = "undo", !.index = @ - 1] /\ UNCHANGED <<skill, aside>>
  <2>1. /\ writer'.at = "undo" /\ writer'.index = writer.index - 1
        /\ writer'.had = writer.had /\ writer'.installed = writer.installed
    BY <1>1, <1>t DEF WriterRecord
  <2>2. Touched' = {writer.names[k] : k \in {k \in 1..Len(writer.names) : k <= writer.index - 1}}
    BY <1>w, <1>t, <2>1, TouchedNames DEF Touched
  <2>3. Touched' = Touched
    <3>1. \A k \in 1..Len(writer.names) : k <= writer.index - 1 <=> k < writer.index
      BY <1>i
    <3> QED
      BY <2>2, <3>1, <1>T
  <2>4. AsideStory'
    <3>1. ASSUME NEW n \in Touched
          PROVE /\ n \in writer.had => \E d \in aside : d.name = n /\ d.by = version
                /\ \A d \in aside : n \in writer.had /\ d.name = n /\ d.by = version => Rest(n, d.skill)'
                /\ n \notin writer.had => Rest(n, Nothing)'
                /\ n \notin writer.installed => skill[n] = Nothing
      <4>1. n \in Skills
        BY <1>T
      <4>2. Rest(n, z) => Rest(n, z)'
        BY <4>1, <1>f
      <4> QED
        BY <4>1, <4>2, <1>a, <1>f, <1>z, <1>z1
    <3> QED
      BY <3>1, <2>1, <2>3, <1>1, <1>i, <1>v DEF AsideStory
  <2>5. RestStory'
    BY <2>3, <1>1, <1>r, <1>f, <1>w DEF RestStory
  <2> QED
    BY <2>4, <2>5
<1>2. ASSUME writer'.at = "install", writer'.index = writer.index, writer'.installed = writer.installed,
             \A n \in Skills : skill'[n] = IF n = t THEN z ELSE skill[n],
             \/ writer'.had = writer.had /\ aside' = aside /\ Rest(t, z)
             \/ /\ writer'.had = writer.had \cup {t}
                /\ aside' = aside \cup {[name |-> t, skill |-> skill[t], by |-> version]}
      PROVE AsideStory' /\ RestStory'
  <2>1. Touched' = {writer.names[k] : k \in {k \in 1..Len(writer.names) : k <= writer.index}}
    BY <1>w, <1>2, <1>t, TouchedNames DEF Touched
  <2>2. Touched' = Touched \cup {t}
    <3>1. \A k \in 1..Len(writer.names) : k <= writer.index <=> k < writer.index \/ k = writer.index
      BY <1>i
    <3> QED
      BY <2>1, <3>1, <1>T, <1>i, <1>t2
  <2>3. RestStory'
    <3>1. ASSUME NEW n \in Skills, n \notin Touched' PROVE Rest(n, skill[n])'
      <4>1. n # t /\ n \notin Touched
        BY <2>2, <3>1
      <4>2. PICK s : s = skill[n]
        OBVIOUS
      <4>3. Rest(n, skill[n])
        BY <1>r, <4>1
      <4>4. Rest(n, s)
        BY <4>2, <4>3
      <4>5. Rest(n, s)'
        BY <4>4, <1>f
      <4>6. s = skill'[n]
        BY <4>1, <4>2, <1>2
      <4> QED
        BY <4>5, <4>6 DEF Rest
    <3> QED
      BY <3>1 DEF RestStory
  <2>4. ASSUME NEW n \in Touched
        PROVE /\ n \in writer'.had => \E d \in aside' : d.name = n /\ d.by = version
              /\ \A d \in aside' : n \in writer'.had /\ d.name = n /\ d.by = version => Rest(n, d.skill)'
              /\ n \notin writer'.had => Rest(n, z)'
              /\ n \notin writer'.installed => skill'[n] = z
    <3>1. n \in Skills /\ n # t /\ (n \in writer'.had <=> n \in writer.had)
      BY <1>T, <1>n, <1>2
    <3>2. \A d \in aside' : d.name = n => d \in aside
      BY <3>1, <1>2
    <3>3. aside \subseteq aside'
      BY <1>2
    <3>4. Rest(n, z) => Rest(n, z)'
      BY <3>1, <1>f
    <3>5. skill'[n] = skill[n]
      BY <3>1, <1>2
    <3> QED
      BY <3>1, <3>2, <3>3, <3>4, <3>5, <1>a, <1>f, <1>z, <1>2
  <2>5. /\ t \in writer'.had => \E d \in aside' : d.name = t /\ d.by = version
        /\ \A d \in aside' : t \in writer'.had /\ d.name = t /\ d.by = version => Rest(t, d.skill)'
        /\ t \notin writer'.had => Rest(t, z)'
        /\ t \notin writer'.installed => skill'[t] = z
    <3>1. skill'[t] = z
      BY <1>2
    <3>2. CASE writer'.had = writer.had /\ aside' = aside /\ Rest(t, z)
      <4>1. t \notin writer'.had
        BY <3>2, <1>a, <1>n
      <4>2. Rest(t, z)'
        BY <3>2, <1>f
      <4> QED
        BY <3>1, <4>1, <4>2
    <3>3. CASE /\ writer'.had = writer.had \cup {t}
               /\ aside' = aside \cup {[name |-> t, skill |-> skill[t], by |-> version]}
      <4>1. PICK s : s = skill[t]
        OBVIOUS
      <4>2. Rest(t, s)'
        <5>1. Rest(t, skill[t])
          BY <1>r, <1>n
        <5>2. Rest(t, s)
          BY <5>1, <4>1
        <5> QED
          BY <5>2, <1>f
      <4>3. \A d \in aside' : d.name = t /\ d.by = version => d.skill = s
        BY <3>3, <4>1, <1>a, <1>n
      <4>4. \E d \in aside' : d.name = t /\ d.by = version
        <5> DEFINE d == [name |-> t, skill |-> skill[t], by |-> version]
        <5>1. d \in aside' /\ d.name = t /\ d.by = version
          BY <3>3
        <5> QED
          BY <5>1
      <4>5. ASSUME NEW d \in aside', d.name = t, d.by = version PROVE Rest(t, d.skill)'
        BY <4>2, <4>3, <4>5
      <4> QED
        BY <3>1, <3>3, <4>4, <4>5
    <3> QED
      BY <1>2, <3>2, <3>3
  <2>6. AsideStory'
    <3>1. writer'.had \cup writer'.installed \subseteq Touched'
      BY <2>2, <1>2, <1>a
    <3>2. \A d \in aside' : d.by = version => d.name \in Touched'
      BY <2>2, <1>2, <1>a
    <3>3. \A n \in Touched' :
         /\ n \in writer'.had => \E d \in aside' : d.name = n /\ d.by = version
         /\ \A d \in aside' : n \in writer'.had /\ d.name = n /\ d.by = version => Rest(n, d.skill)'
         /\ n \notin writer'.had => Rest(n, z)'
         /\ n \notin writer'.installed => skill'[n] = z
      BY <2>2, <2>4, <2>5
    <3>4. version' = version
      BY <1>i
    <3>5. \A n \in Touched' :
         /\ n \in writer'.had => \E d \in aside' : d.name = n /\ d.by = version'
         /\ \A d \in aside' : n \in writer'.had /\ d.name = n /\ d.by = version' => Rest(n, d.skill)'
         /\ n \notin writer'.had => Rest(n, Nothing)'
         /\ n \notin writer'.installed => skill'[n] = Nothing
      BY <3>3, <3>4, <1>z, <1>z1
    <3> QED
      BY <3>1, <3>2, <3>4, <3>5 DEF AsideStory
  <2> QED
    BY <2>3, <2>6
<1>3. CASE skill[t] = Nothing /\ UNCHANGED <<skill, aside>> /\ writer' = [writer EXCEPT !.at = "install"]
  <2>1. /\ writer'.at = "install" /\ writer'.index = writer.index
        /\ writer'.had = writer.had /\ writer'.installed = writer.installed
    BY <1>3, <1>t DEF WriterRecord
  <2>2. \A n \in Skills : skill'[n] = IF n = t THEN z ELSE skill[n]
    BY <1>3, <1>z
  <2>3. Rest(t, z)
    <3>1. Rest(t, skill[t]) /\ skill[t] = z
      BY <1>r, <1>n, <1>3, <1>z
    <3> QED
      BY <3>1
  <2> QED
    BY <2>1, <2>2, <2>3, <1>2, <1>3
<1>4. CASE /\ skill' = [skill EXCEPT ![t] = Nothing]
           /\ aside' = aside \cup {[name |-> t, skill |-> skill[t], by |-> version]}
           /\ writer' = [writer EXCEPT !.at = "install", !.had = @ \cup {t}]
  <2>1. /\ writer'.at = "install" /\ writer'.index = writer.index
        /\ writer'.had = writer.had \cup {t} /\ writer'.installed = writer.installed
    BY <1>4, <1>t DEF WriterRecord
  <2>2. \A n \in Skills : skill'[n] = IF n = t THEN z ELSE skill[n]
    BY <1>4, <1>z, <1>t
  <2> QED
    BY <2>1, <2>2, <1>2, <1>4
<1> QED
  BY <1>1, <1>3, <1>4, <1>t1 DEF MoveAside

\* The other steps of an import and the target of each.
LEMMA InstallRest ==
  ASSUME RegistryTypes, ShapeStory, WriterStory, AsideStory, RestStory, Install, RegistryTypes'
  PROVE AsideStory' /\ RestStory'
<1>t. skill \in [Skills -> SkillRecord] /\ writer \in WriterRecord /\ writer' \in WriterRecord /\ committed \in [Skills -> SkillRecord]
  BY DEF RegistryTypes
<1>i. /\ Importing /\ writer.at = "install" /\ writer.kind = "import"
      /\ writer.index \in 1..Len(writer.names) /\ Len(writer.names) \in Nat
      /\ UNCHANGED <<aside, version>>
  BY AtTarget, Fields DEF Install
<1>w. writer'.kind = "import" /\ writer'.names = writer.names
  BY <1>t, <1>i DEF Install, WriterRecord
<1>v. Importing'
  BY <1>w DEF Importing
<1>T. /\ Touched = {writer.names[k] : k \in {k \in 1..Len(writer.names) : k <= writer.index}}
      /\ Touched \subseteq Skills /\ Touched \subseteq Named(writer) /\ Named(writer) \subseteq Skills
  BY <1>i, <1>t, TouchedNames DEF Touched
<1>t1. PICK t \in Skills : t = Target
  BY AtTarget
<1>t2. t \in Touched
  BY <1>t1, <1>T, <1>i DEF Target
<1>r. \A n \in Skills \ Touched : Rest(n, skill[n])
  BY <1>i DEF RestStory, Importing
<1>a. /\ \A n \in Touched :
         /\ n \in writer.had => \E d \in aside : d.name = n /\ d.by = version
         /\ \A d \in aside : n \in writer.had /\ d.name = n /\ d.by = version => Rest(n, d.skill)
         /\ n \notin writer.had => Rest(n, Nothing)
         /\ n \notin writer.installed => skill[n] = Nothing
      /\ writer.had \cup writer.installed \subseteq Touched
      /\ \A d \in aside : d.by = version => d.name \in Touched
  BY <1>i DEF AsideStory
<1>z. PICK z : z = Nothing
  OBVIOUS
<1>z1. z = Nothing'
  BY <1>z DEF Nothing
\* The names touched stay the same.
<1>1. ASSUME UNCHANGED <<committed, torn, half>>, Touched' = Touched, writer'.had = writer.had,
             \/ writer'.installed = writer.installed /\ skill' = skill
             \/ writer'.installed = writer.installed \cup {t} /\ \A n \in Skills : n # t => skill'[n] = skill[n]
      PROVE AsideStory' /\ RestStory'
  <2>f. \A n \in Skills : \A s : Rest(n, s) => Rest(n, s)'
    BY <1>1, <1>i, RestFrame
  <2>1. ASSUME NEW n \in Skills, n \notin Touched' PROVE Rest(n, skill[n])'
    <3>1. n # t /\ n \notin Touched
      BY <1>1, <2>1, <1>t2
    <3>2. PICK s : s = skill[n]
      OBVIOUS
    <3>3. Rest(n, skill[n])
      BY <1>r, <3>1
    <3>4. Rest(n, s)
      BY <3>2, <3>3
    <3>5. Rest(n, s)'
      BY <3>4, <2>f
    <3>6. s = skill'[n]
      BY <3>1, <3>2, <1>1
    <3> QED
      BY <3>5, <3>6 DEF Rest
  <2>2. RestStory'
    BY <2>1 DEF RestStory
  <2>3. ASSUME NEW n \in Touched
        PROVE /\ n \in writer.had => \E d \in aside : d.name = n /\ d.by = version
              /\ \A d \in aside : n \in writer.had /\ d.name = n /\ d.by = version => Rest(n, d.skill)'
              /\ n \notin writer.had => Rest(n, z)'
              /\ n \notin writer'.installed => skill'[n] = z
    <3>1. n \in Skills
      BY <1>T
    <3>2. Rest(n, z) => Rest(n, z)'
      BY <3>1, <2>f
    <3>3. n \notin writer'.installed => skill'[n] = skill[n] /\ n \notin writer.installed
      BY <3>1, <1>1
    <3> QED
      BY <3>1, <3>2, <3>3, <1>a, <2>f, <1>z
  <2>4. writer'.had \cup writer'.installed \subseteq Touched'
    BY <1>1, <1>a, <1>t2
  <2>5. \A n \in Touched' :
         /\ n \in writer'.had => \E d \in aside' : d.name = n /\ d.by = version'
         /\ \A d \in aside' : n \in writer'.had /\ d.name = n /\ d.by = version' => Rest(n, d.skill)'
         /\ n \notin writer'.had => Rest(n, Nothing)'
         /\ n \notin writer'.installed => skill'[n] = Nothing
    BY <2>3, <1>1, <1>i, <1>z, <1>z1
  <2>6. \A d \in aside' : d.by = version' => d.name \in Touched'
    BY <1>1, <1>i, <1>a
  <2>7. AsideStory'
    BY <2>4, <2>5, <2>6 DEF AsideStory
  <2> QED
    BY <2>2, <2>7
<1>2. CASE /\ writer.index < Len(writer.names) /\ skill' = [skill EXCEPT ![t] = Directory(version)]
           /\ writer' = [writer EXCEPT !.at = "aside", !.index = @ + 1, !.installed = @ \cup {t}]
           /\ UNCHANGED <<committed, torn, half>>
  <2>1. /\ writer'.at = "aside" /\ writer'.index = writer.index + 1
        /\ writer'.had = writer.had /\ writer'.installed = writer.installed \cup {t}
    BY <1>2, <1>t DEF WriterRecord
  <2>2. Touched' = {writer.names[k] : k \in {k \in 1..Len(writer.names) : k < writer.index + 1}}
    BY <1>w, <1>t, <2>1, TouchedNames DEF Touched
  <2>3. Touched' = Touched
    <3>1. \A k \in 1..Len(writer.names) : k < writer.index + 1 <=> k <= writer.index
      BY <1>i
    <3> QED
      BY <2>2, <3>1, <1>T
  <2>4. \A n \in Skills : n # t => skill'[n] = skill[n]
    BY <1>2, <1>t
  <2> QED
    BY <2>1, <2>3, <2>4, <1>1, <1>2
<1>3. CASE writer' = [writer EXCEPT !.at = "undo", !.index = UndoFrom(@)] /\ UNCHANGED <<skill, committed, torn, half>>
  <2>1. /\ writer'.at = "undo" /\ writer'.index = writer.index
        /\ writer'.had = writer.had /\ writer'.installed = writer.installed
    BY <1>3, <1>t DEF WriterRecord, UndoFrom
  <2>2. Touched' = {writer.names[k] : k \in {k \in 1..Len(writer.names) : k <= writer.index}}
    BY <1>w, <1>t, <2>1, TouchedNames DEF Touched
  <2> QED
    BY <2>1, <2>2, <1>T, <1>1, <1>3
<1>4. CASE /\ skill' = [skill EXCEPT ![t] = Directory(version)]
           /\ writer' = [writer EXCEPT !.at = "done", !.installed = @ \cup {t}]
           /\ committed' = [n \in Skills |-> IF n \in Named(writer) THEN skill'[n] ELSE committed[n]]
           /\ torn' = torn \ Named(writer) /\ half' = half \ Named(writer)
  <2>1. writer'.at = "done"
    BY <1>4, <1>t DEF WriterRecord
  <2>2. Touched' = {}
    BY <1>w, <1>t, <2>1, TouchedNames DEF Touched
  <2>3. AsideStory'
    BY <2>1, <2>2 DEF AsideStory
  <2>4. ASSUME NEW n \in Skills PROVE Rest(n, skill[n])'
    <3>1. CASE n \in Named(writer)
      <4>1. committed'[n] = skill'[n]
        BY <3>1, <1>4
      <4> QED
        BY <4>1 DEF Rest
    <3>2. CASE n \notin Named(writer)
      <4>1. committed'[n] = committed[n] /\ (n \in torn => n \in torn') /\ (n \in half => n \in half')
        BY <3>2, <1>4
      <4>2. \A s : Rest(n, s) => Rest(n, s)'
        BY <4>1, <1>i, RestFrame
      <4>3. n # t /\ n \notin Touched
        BY <3>2, <1>t2, <1>T
      <4>4. PICK s : s = skill[n]
        OBVIOUS
      <4>5. Rest(n, skill[n])
        BY <1>r, <4>3
      <4>6. Rest(n, s)
        BY <4>4, <4>5
      <4>7. Rest(n, s)'
        BY <4>2, <4>6
      <4>8. s = skill'[n]
        BY <4>3, <4>4, <1>4, <1>t
      <4> QED
        BY <4>7, <4>8 DEF Rest
    <3> QED
      BY <3>1, <3>2
  <2>5. RestStory'
    BY <2>4 DEF RestStory
  <2> QED
    BY <2>3, <2>5
<1> QED
  BY <1>2, <1>3, <1>4, <1>t1 DEF Install

\* Undoing puts back what lies aside, or counts the name among the torn ones.
LEMMA RollbackRest ==
  ASSUME RegistryTypes, ShapeStory, WriterStory, AsideStory, RestStory, Rollback, RegistryTypes'
  PROVE AsideStory' /\ RestStory'
<1>t. skill \in [Skills -> SkillRecord] /\ writer \in WriterRecord /\ writer' \in WriterRecord
  BY DEF RegistryTypes
<1>i. /\ Importing /\ writer.at = "undo" /\ writer.kind = "import"
      /\ writer.index \in 1..Len(writer.names) /\ Len(writer.names) \in Nat
      /\ \A i, j \in 1..Len(writer.names) : writer.names[i] = writer.names[j] => i = j
      /\ UNCHANGED <<version, committed, half>>
  BY AtTarget, Fields DEF Rollback, WriterStory
<1>w. /\ writer'.kind = "import" /\ writer'.names = writer.names /\ writer'.at = "undo"
      /\ writer'.index = writer.index - 1 /\ writer'.had = writer.had /\ writer'.installed = writer.installed
  BY <1>t, <1>i DEF Rollback, WriterRecord
<1>v. Importing'
  BY <1>w DEF Importing
<1>T. /\ Touched = {writer.names[k] : k \in {k \in 1..Len(writer.names) : k <= writer.index}}
      /\ Touched \subseteq Skills
  BY <1>i, <1>t, TouchedNames DEF Touched
<1>t1. PICK t \in Skills : t = Target
  BY AtTarget
<1>t2. t = writer.names[writer.index] /\ t \in Touched
  BY <1>t1, <1>T, <1>i DEF Target
<1>T1. Touched' = {writer.names[k] : k \in {k \in 1..Len(writer.names) : k <= writer.index - 1}}
  BY <1>w, <1>t, TouchedNames DEF Touched
<1>T2. Touched' = Touched \ {t}
  <2>1. \A k \in 1..Len(writer.names) : k <= writer.index - 1 <=> k <= writer.index /\ k # writer.index
    BY <1>i
  <2>2. \A k \in 1..Len(writer.names) : k # writer.index <=> writer.names[k] # t
    BY <1>t2, <1>i
  <2> QED
    BY <1>T1, <1>T, <2>1, <2>2
<1>r. \A n \in Skills \ Touched : Rest(n, skill[n])
  BY <1>i DEF RestStory, Importing
<1>a. \A n \in Touched :
         /\ n \in writer.had => \E d \in aside : d.name = n /\ d.by = version
         /\ \A d \in aside : n \in writer.had /\ d.name = n /\ d.by = version => Rest(n, d.skill)
         /\ n \notin writer.had => Rest(n, Nothing)
         /\ n \notin writer.installed => skill[n] = Nothing
  BY <1>i DEF AsideStory
<1>z. PICK z : z = Nothing
  OBVIOUS
<1>z1. z = Nothing'
  BY <1>z DEF Nothing
<1> DEFINE old == {d \in aside : d.name = t /\ d.by = version}
<1> DEFINE former == IF t \in writer.had THEN (CHOOSE d \in old : TRUE).skill ELSE Nothing
<1>b0. PICK back : back = former
  <2> HIDE DEF former
  <2> QED
    OBVIOUS
<1>b. back = IF t \in writer.had THEN (CHOOSE d \in old : TRUE).skill ELSE Nothing
  BY <1>b0
<1>b1. Rest(t, back)
  <2>1. CASE t \in writer.had
    <3>1. (CHOOSE d \in old : TRUE) \in old
      BY <2>1, <1>t1, OldAside
    <3>2. PICK e : e = CHOOSE d \in old : TRUE
      OBVIOUS
    <3>3. e \in aside /\ e.name = t /\ e.by = version /\ back = e.skill
      BY <3>1, <3>2, <2>1, <1>b
    <3> QED
      BY <3>3, <2>1, <1>a, <1>t2
  <2>2. CASE t \notin writer.had
    <3>1. Rest(t, z) /\ back = z
      BY <2>2, <1>a, <1>t2, <1>b, <1>z
    <3> QED
      BY <3>1
  <2> QED
    BY <2>1, <2>2
<1>s. \/ /\ skill' = IF t \in writer.had \cup writer.installed THEN [skill EXCEPT ![t] = back] ELSE skill
         /\ aside' = IF t \in writer.had THEN aside \ old ELSE aside
         /\ UNCHANGED torn
      \/ /\ torn' = torn \cup {t} /\ UNCHANGED aside
         /\ skill' = skill \/ skill' = [skill EXCEPT ![t] = Nothing]
  BY <1>b, <1>t1 DEF Rollback
<1>k. \A n \in Skills : n # t => skill'[n] = skill[n]
  BY <1>s, <1>t
<1>f. \A n \in Skills : \A s : Rest(n, s) => Rest(n, s)'
  <2>1. \A d \in aside : d.by # version => d \in aside'
    BY <1>s
  <2>2. torn \subseteq torn'
    BY <1>s
  <2> QED
    BY <2>1, <2>2, <1>i, RestFrame
<1>1. Rest(t, skill[t])'
  <2>1. CASE torn' = torn \cup {t}
    BY <2>1 DEF Rest
  <2>2. CASE skill' = IF t \in writer.had \cup writer.installed THEN [skill EXCEPT ![t] = back] ELSE skill
    <3>1. skill'[t] = back
      BY <2>2, <1>t, <1>a, <1>t2, <1>b
    <3>2. Rest(t, back)'
      BY <1>b1, <1>f
    <3> QED
      BY <3>1, <3>2 DEF Rest
  <2> QED
    BY <2>1, <2>2, <1>s
<1>2. ASSUME NEW n \in Skills, n \notin Touched' PROVE Rest(n, skill[n])'
  <2>1. CASE n = t
    BY <2>1, <1>1
  <2>2. CASE n # t
    <3>1. n \notin Touched
      BY <2>2, <1>2, <1>T2
    <3>2. PICK s : s = skill[n]
      OBVIOUS
    <3>3. Rest(n, skill[n])
      BY <1>r, <3>1
    <3>4. Rest(n, s)
      BY <3>2, <3>3
    <3>5. Rest(n, s)'
      BY <3>4, <1>f
    <3>6. s = skill'[n]
      BY <2>2, <3>2, <1>k
    <3> QED
      BY <3>5, <3>6 DEF Rest
  <2> QED
    BY <2>1, <2>2
<1>3. RestStory'
  BY <1>2 DEF RestStory
<1>4. ASSUME NEW n \in Touched'
      PROVE /\ n \in writer.had => \E d \in aside' : d.name = n /\ d.by = version
            /\ \A d \in aside' : n \in writer.had /\ d.name = n /\ d.by = version => Rest(n, d.skill)'
            /\ n \notin writer.had => Rest(n, z)'
            /\ n \notin writer.installed => skill'[n] = z
  <2>1. n \in Skills /\ n # t /\ n \in Touched
    BY <1>T, <1>T2
  <2>2. \A d \in aside : d.name = n => d \in aside'
    BY <2>1, <1>s
  <2>3. aside' \subseteq aside
    BY <1>s
  <2>4. Rest(n, z) => Rest(n, z)'
    BY <2>1, <1>f
  <2> QED
    BY <2>1, <2>2, <2>3, <2>4, <1>a, <1>f, <1>z, <1>k
<1>5. \A n \in Touched' :
         /\ n \in writer'.had => \E d \in aside' : d.name = n /\ d.by = version'
         /\ \A d \in aside' : n \in writer'.had /\ d.name = n /\ d.by = version' => Rest(n, d.skill)'
         /\ n \notin writer'.had => Rest(n, Nothing)'
         /\ n \notin writer'.installed => skill'[n] = Nothing
  BY <1>4, <1>w, <1>i, <1>z, <1>z1
<1>6. AsideStory'
  BY <1>5, <1>w DEF AsideStory
<1> QED
  BY <1>3, <1>6

\* Every step leaves the skills it does not touch at rest, and those it touches with their story.
LEMMA RestStep ==
  ASSUME RegistryTypes, ShapeStory, WriterStory, AsideStory, RestStory, [SkillNext]_skillVars, RegistryTypes', WriterStory'
  PROVE AsideStory' /\ RestStory'
<1> USE SkillConstants
<1>t. /\ skill \in [Skills -> SkillRecord] /\ writer \in WriterRecord /\ writer' \in WriterRecord
      /\ committed \in [Skills -> SkillRecord]
  BY DEF RegistryTypes
\* Who works is no import: what is left to show is that the skills rest.
<1>0. ASSUME ~Importing', \A n \in Skills : (writer'.kind = "delete" => n # writer'.names[1]) => Rest(n, skill[n])'
      PROVE AsideStory' /\ RestStory'
  <2>1. AsideStory'
    BY <1>0 DEF AsideStory
  <2>2. RestStory'
    BY <1>0 DEF RestStory
  <2> QED
    BY <2>1, <2>2
\* A skill that rests and is left alone goes on resting.
<1>k. ASSUME NEW n \in Skills, Rest(n, skill[n]), skill'[n] = skill[n], \A s : Rest(n, s) => Rest(n, s)'
      PROVE Rest(n, skill[n])'
  <2>1. PICK s : s = skill[n]
    OBVIOUS
  <2>2. Rest(n, s)
    BY <2>1, <1>k
  <2>3. Rest(n, s)'
    BY <2>2, <1>k
  <2> QED
    BY <2>1, <2>3, <1>k DEF Rest
<1>u. ASSUME ~Importing, writer.kind # "delete" PROVE \A n \in Skills : Rest(n, skill[n])
  BY <1>u, NobodyTouches DEF RestStory
<1>g. Unlocked => ~Importing /\ writer.kind # "delete"
  BY Rests DEF Importing
<1>e. ASSUME NEW n \in Skills, committed'[n] = skill'[n] PROVE Rest(n, skill[n])'
  BY <1>e DEF Rest
<1>1. ASSUME NEW p \in Packages, ImportPackage(p) PROVE AsideStory' /\ RestStory'
  <2>1. /\ writer'.kind = "import" /\ writer'.at = "aside" /\ writer'.index = 1 /\ writer'.names = p
        /\ writer'.had = {} /\ writer'.installed = {}
        /\ version' = version + 1 /\ UNCHANGED <<skill, aside, committed, torn, half>>
        /\ ~Importing /\ writer.kind # "delete"
    BY <1>1, <1>g DEF ImportPackage, NoWriter
  <2>2. Touched' = {}
    <3>1. Touched' = {p[k] : k \in {k \in 1..Len(p) : k < 1}}
      BY <2>1, <1>t, TouchedNames DEF Touched
    <3>2. p \in Seq(Skills) /\ Len(p) \in Nat
      OBVIOUS
    <3> QED
      BY <3>1, <3>2
  <2>3. \A d \in aside : d.by # version'
    <3>1. \A d \in aside : d.by \in Nat /\ d.by <= version /\ version \in Nat
      BY DEF ShapeStory, RegistryTypes, AsideRecord
    <3> QED
      BY <3>1, <2>1
  <2>4. AsideStory'
    BY <2>1, <2>2, <2>3 DEF AsideStory
  <2>5. ASSUME NEW n \in Skills PROVE Rest(n, skill[n])'
    <3>1. \A s : Rest(n, s) => Rest(n, s)'
      BY <2>1, <2>3, RestFrame
    <3> QED
      BY <3>1, <2>1, <1>u, <1>k
  <2>6. RestStory'
    BY <2>5 DEF RestStory
  <2> QED
    BY <2>4, <2>6
<1>2. CASE MoveAside
  BY <1>2, MoveAsideRest
<1>3. CASE Install
  BY <1>3, InstallRest
<1>4. CASE Rollback
  BY <1>4, RollbackRest
<1>5. CASE EndImport
  <2>1. /\ writer' = NoWriter /\ Importing /\ writer.kind = "import"
        /\ aside' = {d \in aside : d.by # version} /\ UNCHANGED <<skill, committed, torn, half>>
    BY <1>5 DEF EndImport, Importing
  <2>2. Touched = {}
    <3>1. CASE writer.at = "done"
      BY <3>1, <2>1, <1>t, TouchedNames DEF Touched
    <3>2. CASE writer.at = "undo" /\ writer.index = 0
      <4>1. Touched = {writer.names[k] : k \in {k \in 1..Len(writer.names) : k <= 0}}
        BY <3>2, <2>1, <1>t, TouchedNames DEF Touched
      <4> QED
        BY <4>1, Fields
    <3> QED
      BY <1>5, <3>1, <3>2 DEF EndImport
  <2>3. ~Importing'
    BY <2>1, Rests DEF Importing
  <2>4. ASSUME NEW n \in Skills PROVE Rest(n, skill[n])'
    <3>1. \A s : Rest(n, s) => Rest(n, s)'
      BY <2>1, <2>3, RestFrame
    <3>2. Rest(n, skill[n])
      BY <2>1, <2>2 DEF RestStory
    <3> QED
      BY <3>1, <3>2, <2>1, <1>k
  <2> QED
    BY <2>3, <2>4, <1>0
\* The steps of a writer of one skill leave the others alone.
<1>m. ASSUME NEW n \in Skills, ~Importing, ~Importing', UNCHANGED aside,
             \A m \in Skills \ {n} : /\ skill'[m] = skill[m] /\ committed'[m] = committed[m]
                                     /\ (m \in torn => m \in torn') /\ (m \in half => m \in half')
                                     /\ writer.kind = "delete" => m # writer.names[1],
             Rest(n, skill[n])' \/ (writer'.kind = "delete" /\ n = writer'.names[1])
      PROVE AsideStory' /\ RestStory'
  <2>1. ASSUME NEW m \in Skills \ {n} PROVE Rest(m, skill[m])'
    <3>1. \A s : Rest(m, s) => Rest(m, s)'
      BY <1>m, RestFrame
    <3>2. Rest(m, skill[m])
      BY <1>m, NobodyTouches DEF RestStory
    <3> QED
      BY <3>1, <3>2, <1>m, <1>k
  <2> QED
    BY <2>1, <1>m, <1>0
<1>6. ASSUME NEW n \in Skills, Save(n) PROVE AsideStory' /\ RestStory'
  <2>1. ~Importing /\ writer.kind # "delete" /\ writer'.kind = "save" /\ UNCHANGED <<aside, torn, half>>
    BY <1>6, <1>g DEF Save, NoWriter
  <2>2. ~Importing'
    BY <2>1 DEF Importing
  <2>3. \A m \in Skills \ {n} : skill'[m] = skill[m] /\ committed'[m] = committed[m]
    BY <1>6, <1>t DEF Save
  <2>4. committed'[n] = skill'[n]
    BY <1>6, <1>t DEF Save
  <2> QED
    BY <2>1, <2>2, <2>3, <2>4, <1>e, <1>m
<1>7. ASSUME NEW n \in Skills, Delete(n) PROVE AsideStory' /\ RestStory'
  <2>1. /\ ~Importing /\ writer.kind # "delete" /\ writer'.kind = "delete" /\ writer'.names[1] = n
        /\ UNCHANGED <<skill, aside, torn, half>>
    <3>1. <<n>>[1] = n
      OBVIOUS
    <3> QED
      BY <1>7, <1>g, <3>1 DEF Delete, NoWriter
  <2>2. ~Importing'
    BY <2>1 DEF Importing
  <2>3. \A m \in Skills \ {n} : committed'[m] = committed[m]
    BY <1>7, <1>t DEF Delete
  <2> QED
    BY <2>1, <2>2, <2>3, <1>m
<1>8. ASSUME NEW n \in Skills, LoadSkill(n) PROVE AsideStory' /\ RestStory'
  <2>1. ~Importing /\ writer.kind # "delete" /\ UNCHANGED <<skill, aside, writer, version, committed, torn, half>>
    BY <1>8, <1>g DEF LoadSkill
  <2>2. ~Importing'
    BY <2>1 DEF Importing
  <2>3. Rest(n, skill[n])'
    <3>1. \A s : Rest(n, s) => Rest(n, s)'
      BY <2>1, <2>2, RestFrame
    <3> QED
      BY <3>1, <2>1, <1>u, <1>k
  <2> QED
    BY <2>1, <2>2, <2>3, <1>m
<1>9. ASSUME NEW n \in Skills, NEW enabled \in BOOLEAN, SetEnabled(n, enabled) PROVE AsideStory' /\ RestStory'
  <2>1. ~Importing /\ writer.kind # "delete" /\ UNCHANGED <<aside, writer, torn, half>>
    BY <1>9, <1>g DEF SetEnabled
  <2>2. ~Importing'
    BY <2>1 DEF Importing
  <2>3. \A m \in Skills \ {n} : skill'[m] = skill[m] /\ committed'[m] = committed[m]
    BY <1>9, <1>t DEF SetEnabled
  <2>4. committed'[n] = skill'[n]
    BY <1>9, <1>t DEF SetEnabled
  <2> QED
    BY <2>1, <2>2, <2>3, <2>4, <1>e, <1>m
<1>10. CASE atomicWrite
  <2>1. PICK n \in Skills : n = writer.names[1] /\ Named(writer) = {n}
    <3>1. Len(writer.names) = 1
      BY <1>10 DEF atomicWrite, WriterStory
    <3>2. 1 \in 1..1 /\ \A k \in 1..1 : k = 1
      OBVIOUS
    <3> QED
      BY <3>1, <3>2, Fields DEF Named
  <2>2. ~Importing /\ writer.kind # "delete" /\ UNCHANGED <<aside, version>> /\ ~Importing'
    BY <1>10, Rests DEF atomicWrite, Importing
  <2>3. CASE /\ skill' = [skill EXCEPT ![n].main = version] /\ committed' = [committed EXCEPT ![n] = skill'[n]]
             /\ torn' = torn \ Named(writer) /\ half' = half \ Named(writer)
    <3>1. \A m \in Skills \ {n} : /\ skill'[m] = skill[m] /\ committed'[m] = committed[m]
                                  /\ (m \in torn => m \in torn') /\ (m \in half => m \in half')
      BY <2>1, <2>3, <1>t
    <3>2. committed'[n] = skill'[n]
      BY <2>3, <1>t
    <3> QED
      BY <2>2, <3>1, <3>2, <1>e, <1>m
  <2>4. CASE UNCHANGED <<skill, committed, torn, half>>
    <3>1. \A s : Rest(n, s) => Rest(n, s)'
      BY <2>2, <2>4, RestFrame
    <3>2. Rest(n, skill[n])'
      BY <3>1, <2>2, <2>4, <1>u, <1>k
    <3> QED
      BY <2>2, <2>4, <3>2, <1>m
  <2> QED
    BY <1>10, <2>1, <2>3, <2>4 DEF atomicWrite
<1>11. CASE RemoveAll
  <2>1. PICK n \in Skills : n = writer.names[1]
    BY <1>11, Fields DEF RemoveAll, WriterStory
  <2>2. writer.kind = "delete" /\ ~Importing /\ UNCHANGED <<aside, version, committed, torn>> /\ committed[n] = Nothing
    BY <1>11, <2>1 DEF RemoveAll, Importing, WriterStory
  <2>3. ~Importing'
    BY <1>11, Rests DEF RemoveAll, Importing
  <2>4. \A m \in Skills \ {n} : skill'[m] = skill[m] /\ m # writer.names[1] /\ (m \in half => m \in half')
    BY <1>11, <2>1, <1>t DEF RemoveAll
  <2>5. Rest(n, skill[n])' \/ (writer'.kind = "delete" /\ n = writer'.names[1])
    <3>1. CASE UNCHANGED writer
      BY <3>1, <2>1, <2>2
    <3>2. CASE skill' = [skill EXCEPT ![n] = Nothing]
      <4>1. committed'[n] = skill'[n]
        BY <3>2, <2>2, <1>t
      <4> QED
        BY <4>1, <1>e
    <3>3. CASE half' = half \cup {n}
      <4>1. n \in half' /\ committed'[n] = Nothing
        BY <3>3, <2>2
      <4>2. Nothing' = Nothing
        BY DEF Nothing
      <4> QED
        BY <4>1, <4>2 DEF Rest
    <3> QED
      BY <1>11, <2>1, <3>1, <3>2, <3>3 DEF RemoveAll
  <2> QED
    BY <2>2, <2>3, <2>4, <2>5, <1>m
<1>12. CASE CrashRegistry
  <2>1. /\ writer' = NoWriter /\ half' = half \cup Named(writer)
        /\ UNCHANGED <<skill, aside, version, committed, torn>>
    BY <1>12 DEF CrashRegistry
  <2>2. ~Importing'
    BY <2>1, Rests DEF Importing
  <2>3. ASSUME NEW n \in Skills PROVE Rest(n, skill[n])'
    <3>f. \A s : Rest(n, s) => Rest(n, s)'
      BY <2>1, <2>2, RestFrame
    <3>1. CASE n \in Touched
      <4>1. Importing /\ n \in half'
        BY <3>1, <2>1, <1>t, NobodyTouches, TouchedNames DEF Touched, Importing
      <4>2. /\ n \in writer.had => \E d \in aside : d.name = n /\ d.by = version
            /\ \A d \in aside : n \in writer.had /\ d.name = n /\ d.by = version => Rest(n, d.skill)
            /\ n \notin writer.had => Rest(n, Nothing)
        BY <3>1, <4>1 DEF AsideStory
      <4>3. ASSUME n \notin torn, committed[n] # Nothing PROVE KeptBefore(n)'
        <5>1. CASE n \in writer.had
          <6>1. PICK d \in aside : d.name = n /\ d.by = version /\ Rest(n, d.skill)
            BY <5>1, <4>2
          <6>2. d.skill = committed[n] \/ KeptBefore(n)
            BY <6>1, <4>3 DEF Rest
          <6> QED
            BY <6>1, <6>2, <2>1, <2>2 DEF KeptBefore
        <5>2. CASE n \notin writer.had
          <6>1. KeptBefore(n)
            BY <5>2, <4>2, <4>3 DEF Rest
          <6> QED
            BY <6>1, <2>1, <2>2 DEF KeptBefore
        <5> QED
          BY <5>1, <5>2
      <4> QED
        BY <4>1, <4>3, <2>1 DEF Rest, Nothing
    <3>2. CASE n \notin Touched /\ writer.kind = "delete" /\ n = writer.names[1]
      <4>1. n \in half' /\ committed'[n] = Nothing
        <5>1. Len(writer.names) = 1 /\ 1 \in 1..1
          BY <3>2 DEF WriterStory
        <5> QED
          BY <5>1, <3>2, <2>1 DEF WriterStory, Named
      <4>2. Nothing' = Nothing
        BY DEF Nothing
      <4> QED
        BY <4>1, <4>2 DEF Rest
    <3>3. CASE n \notin Touched /\ ~(writer.kind = "delete" /\ n = writer.names[1])
      <4>1. Rest(n, skill[n])
        BY <3>3 DEF RestStory
      <4> QED
        BY <4>1, <3>f, <2>1, <1>k
    <3> QED
      BY <3>1, <3>2, <3>3
  <2> QED
    BY <2>2, <2>3, <1>0
<1>13. CASE UNCHANGED skillVars
  <2>1. UNCHANGED <<skill, aside, writer, version, committed, torn, half>>
    BY <1>13 DEF skillVars
  <2>2. (Importing' <=> Importing) /\ Touched' = Touched
    BY <2>1 DEF Importing, Touched
  <2>f. \A n \in Skills : \A s : Rest(n, s) => Rest(n, s)'
    BY <2>1, <2>2, RestFrame
  <2>3. RestStory'
    <3>1. ASSUME NEW n \in Skills, n \notin Touched', writer'.kind = "delete" => n # writer'.names[1] PROVE Rest(n, skill[n])'
      <4>1. Rest(n, skill[n])
        BY <3>1, <2>1, <2>2 DEF RestStory
      <4> QED
        BY <4>1, <2>f, <2>1, <1>k
    <3> QED
      BY <3>1 DEF RestStory
  <2>4. ASSUME Importing PROVE AsideStory'
    <3>z. PICK z : z = Nothing
      OBVIOUS
    <3>z1. z = Nothing'
      BY <3>z DEF Nothing
    <3>1. ASSUME NEW n \in Touched
          PROVE /\ n \in writer.had => \E d \in aside : d.name = n /\ d.by = version
                /\ \A d \in aside : n \in writer.had /\ d.name = n /\ d.by = version => Rest(n, d.skill)'
                /\ n \notin writer.had => Rest(n, z)'
                /\ n \notin writer.installed => skill[n] = z
      <4>1. n \in Skills
        BY <2>4, <1>t, TouchedNames DEF Touched, Importing
      <4>2. Rest(n, z) => Rest(n, z)'
        BY <4>1, <2>f
      <4> QED
        BY <2>4, <4>1, <4>2, <2>f, <3>z DEF AsideStory
    <3>2. writer.at \in {"aside", "install"} =>
            /\ writer.had \cup writer.installed \subseteq Touched
            /\ \A d \in aside : d.by = version => d.name \in Touched
      BY <2>4 DEF AsideStory
    <3> QED
      BY <3>1, <3>2, <3>z, <3>z1, <2>1, <2>2 DEF AsideStory
  <2>5. ~Importing => AsideStory'
    BY <2>2 DEF AsideStory
  <2> QED
    BY <2>3, <2>4, <2>5
<1> QED
  BY <1>1, <1>2, <1>3, <1>4, <1>5, <1>6, <1>7, <1>8, <1>9, <1>10, <1>11, <1>12, <1>13 DEF SkillNext

\* Contents grow only by new ones, and none that was withdrawn comes back.
LEMMA VersionStep ==
  ASSUME RegistryTypes, ShapeStory, WriterStory, AsideStory, VersionStory, [SkillNext]_skillVars, RegistryTypes'
  PROVE VersionStory'
<1> USE SkillConstants
<1>t. /\ skill \in [Skills -> SkillRecord] /\ writer \in WriterRecord /\ writer' \in WriterRecord
      /\ aside \subseteq AsideRecord /\ version \in Nat /\ version > 0
      /\ given \subseteq 1..version /\ withdrawn \subseteq 1..version
  BY DEF RegistryTypes
<1>f. \A n \in Skills : skill[n] \in SkillRecord /\ skill[n].main \in Nat /\ skill[n].main <= version
  BY <1>t DEF SkillRecord, ShapeStory
<1>h. \A d \in aside : d.skill.main \in Nat /\ d.skill.main <= version
  BY <1>t DEF AsideRecord, SkillRecord, ShapeStory
<1>v. /\ \A n \in Skills : skill[n].main \notin withdrawn
      /\ \A d \in aside : d.skill.main \notin withdrawn
      /\ given \cap withdrawn = {}
  BY DEF VersionStory
<1>i. ASSUME Importing
      PROVE /\ version \notin withdrawn /\ version \notin given
            /\ \A d \in aside : d.skill.main # version
            /\ writer.at # "done" /\ writer.undone => \A n \in Skills : skill[n].main = version => n \in Touched
  BY <1>i DEF VersionStory
<1>n. Nothing.main = 0 /\ 0 \notin withdrawn /\ 0 # version /\ version + 1 \notin withdrawn /\ version + 1 \notin given
  BY <1>t DEF Nothing
<1>0. ASSUME writer'.kind \notin {"save", "import"}, UNCHANGED <<given, withdrawn>>, aside' \subseteq aside,
             \A n \in Skills : skill'[n].main \notin withdrawn
      PROVE VersionStory'
  BY <1>0, <1>v DEF VersionStory, Importing
<1>r. NoWriter.kind \notin {"save", "import"}
  BY DEF NoWriter
<1>1. ASSUME NEW p \in Packages, ImportPackage(p) PROVE VersionStory'
  <2>1. version' = version + 1 /\ UNCHANGED <<skill, aside, given, withdrawn>> /\ writer'.kind = "import"
    BY <1>1 DEF ImportPackage, NoWriter
  <2>2. \A n \in Skills : skill[n].main # version + 1
    BY <1>f, <1>t
  <2>3. \A d \in aside : d.skill.main # version + 1
    BY <1>h, <1>t
  <2> QED
    BY <2>1, <2>2, <2>3, <1>v, <1>n DEF VersionStory, Importing
\* A step of an import that adds no content, or puts the new one at a name it has touched.
<1>j. ASSUME Importing, writer'.kind = "import", UNCHANGED <<version, given, withdrawn>>,
             \A d \in aside' : d.skill.main \notin withdrawn /\ d.skill.main # version,
             \A n \in Skills : skill'[n].main \notin withdrawn,
             writer'.at # "done" /\ writer'.undone => \A n \in Skills : skill'[n].main = version => n \in Touched'
      PROVE VersionStory'
  <2>1. version \notin withdrawn /\ version \notin given
    BY <1>j, <1>i
  <2>2. Importing' /\ writer'.kind # "save"
    BY <1>j DEF Importing
  <2> QED
    BY <2>1, <2>2, <1>j, <1>v DEF VersionStory
<1>2. CASE MoveAside
  <2>1. /\ Importing /\ writer.at = "aside" /\ writer.undone /\ writer.kind = "import" /\ Target \in Skills
        /\ writer.index \in 1..Len(writer.names) /\ Len(writer.names) \in Nat
        /\ UNCHANGED <<version, given, withdrawn>>
    BY <1>2, AtTarget, Fields DEF MoveAside, WriterStory, Importing
  <2>2. writer'.kind = "import" /\ writer'.names = writer.names /\ writer'.undone
    BY <1>2, <2>1, <1>t, ZenonT(60) DEF MoveAside, WriterRecord
  <2>T. /\ Touched = {writer.names[k] : k \in {k \in 1..Len(writer.names) : k < writer.index}}
        /\ Target = writer.names[writer.index]
    BY <2>1, <1>t, TouchedNames DEF Touched, Target
  <2>3. skill[Target].main # version
    <3>1. skill[Target].main = version => Target \in Touched
      BY <2>1, <1>i
    <3>2. \A i, j \in 1..Len(writer.names) : writer.names[i] = writer.names[j] => i = j
      BY <2>1 DEF WriterStory
    <3> QED
      BY <3>1, <3>2, <2>T, <2>1
  <2>4. Touched \subseteq Touched'
    <3>1. CASE writer'.at = "undo" /\ writer'.index = writer.index - 1
      <4>1. Touched' = {writer.names[k] : k \in {k \in 1..Len(writer.names) : k <= writer.index - 1}}
        BY <3>1, <2>2, <1>t, TouchedNames DEF Touched
      <4>2. \A k \in 1..Len(writer.names) : k <= writer.index - 1 <=> k < writer.index
        BY <2>1
      <4> QED
        BY <4>1, <4>2, <2>T
    <3>2. CASE writer'.at = "install" /\ writer'.index = writer.index
      <4>1. Touched' = {writer.names[k] : k \in {k \in 1..Len(writer.names) : k <= writer.index}}
        BY <3>2, <2>2, <1>t, TouchedNames DEF Touched
      <4>2. \A k \in 1..Len(writer.names) : k < writer.index => k <= writer.index
        BY <2>1
      <4> QED
        BY <4>1, <4>2, <2>T
    <3> QED
      BY <1>2, <3>1, <3>2, <1>t DEF MoveAside, WriterRecord
  <2>5. CASE UNCHANGED <<skill, aside>>
    BY <2>1, <2>2, <2>4, <2>5, <1>i, <1>v, <1>j
  <2>6. CASE /\ skill' = [skill EXCEPT ![Target] = Nothing]
             /\ aside' = aside \cup {[name |-> Target, skill |-> skill[Target], by |-> version]}
    <3>1. \A n \in Skills : skill'[n] = IF n = Target THEN Nothing ELSE skill[n]
      BY <2>6, <1>t
    <3>2. \A d \in aside' : d.skill.main \notin withdrawn /\ d.skill.main # version
      BY <2>6, <2>1, <2>3, <1>v, <1>i
    <3>3. \A n \in Skills : skill'[n].main \notin withdrawn
      BY <3>1, <1>v, <1>n
    <3>4. \A n \in Skills : skill'[n].main = version => n \in Touched'
      BY <3>1, <1>n, <2>1, <2>4, <1>i
    <3> QED
      BY <2>1, <2>2, <3>2, <3>3, <3>4, <1>j
  <2> QED
    BY <1>2, <2>5, <2>6 DEF MoveAside
<1>3. CASE Install
  <2>1. /\ Importing /\ writer.at = "install" /\ writer.undone /\ writer.kind = "import" /\ Target \in Skills
        /\ writer.index \in 1..Len(writer.names) /\ Len(writer.names) \in Nat
        /\ UNCHANGED <<aside, version, given, withdrawn>>
    BY <1>3, AtTarget, Fields DEF Install, WriterStory, Importing
  <2>2. writer'.kind = "import" /\ writer'.names = writer.names
    BY <1>3, <2>1, <1>t, ZenonT(60) DEF Install, WriterRecord
  <2>T. /\ Touched = {writer.names[k] : k \in {k \in 1..Len(writer.names) : k <= writer.index}}
        /\ Target = writer.names[writer.index] /\ Target \in Touched
    BY <2>1, <1>t, TouchedNames DEF Touched, Target
  <2>4. writer'.at # "done" => Touched \subseteq Touched'
    <3>1. CASE writer'.at = "undo" /\ writer'.index = writer.index
      <4>1. Touched' = {writer.names[k] : k \in {k \in 1..Len(writer.names) : k <= writer.index}}
        BY <3>1, <2>2, <1>t, TouchedNames DEF Touched
      <4> QED
        BY <4>1, <2>T
    <3>2. CASE writer'.at = "aside" /\ writer'.index = writer.index + 1
      <4>1. Touched' = {writer.names[k] : k \in {k \in 1..Len(writer.names) : k < writer.index + 1}}
        BY <3>2, <2>2, <1>t, TouchedNames DEF Touched
      <4>2. \A k \in 1..Len(writer.names) : k <= writer.index => k < writer.index + 1
        BY <2>1
      <4> QED
        BY <4>1, <4>2, <2>T
    <3>3. CASE writer'.at = "done"
      BY <3>3
    <3> QED
      BY <1>3, <3>1, <3>2, <3>3, <1>t, ZenonT(60) DEF Install, WriterRecord, UndoFrom
  <2>5. \A n \in Skills : skill'[n] = skill[n] \/ (n = Target /\ skill'[n] = Directory(version))
    <3>1. skill' = skill \/ skill' = [skill EXCEPT ![Target] = Directory(version)]
      BY <1>3 DEF Install
    <3> QED
      BY <3>1, <1>t
  <2>6. Directory(version).main = version
    BY DEF Directory
  <2>7. \A n \in Skills : skill'[n].main \notin withdrawn
    BY <2>5, <2>6, <2>1, <1>i, <1>v
  <2>8. writer'.at # "done" => \A n \in Skills : skill'[n].main = version => n \in Touched'
    BY <2>1, <2>4, <2>5, <2>T, <1>i
  <2> QED
    BY <2>1, <2>2, <2>7, <2>8, <1>i, <1>v, <1>j
<1>4. CASE Rollback
  <2>1. /\ Importing /\ writer.at = "undo" /\ writer.kind = "import" /\ Target \in Skills
        /\ writer.index \in 1..Len(writer.names) /\ Len(writer.names) \in Nat
        /\ UNCHANGED <<version, given, withdrawn>> /\ aside' \subseteq aside
    BY <1>4, AtTarget, Fields DEF Rollback, Importing
  <2>2. /\ writer'.kind = "import" /\ writer'.names = writer.names /\ writer'.at = "undo"
        /\ writer'.index = writer.index - 1 /\ (writer'.undone => writer.undone)
    BY <1>4, <2>1, <1>t DEF Rollback, WriterRecord
  <2>T. /\ Touched = {writer.names[k] : k \in {k \in 1..Len(writer.names) : k <= writer.index}}
        /\ Target = writer.names[writer.index] /\ Target \in Touched
    BY <2>1, <1>t, TouchedNames DEF Touched, Target
  <2>U. Touched \subseteq Touched' \cup {Target}
    <3>1. Touched' = {writer.names[k] : k \in {k \in 1..Len(writer.names) : k <= writer.index - 1}}
      BY <2>2, <1>t, TouchedNames DEF Touched
    <3>2. \A k \in 1..Len(writer.names) : k <= writer.index => k = writer.index \/ k <= writer.index - 1
      BY <2>1
    <3> QED
      BY <3>1, <3>2, <2>T
  <2> DEFINE old == {d \in aside : d.name = Target /\ d.by = version}
             back == IF Target \in writer.had THEN (CHOOSE d \in old : TRUE).skill ELSE Nothing
  <2>3. back.main \notin withdrawn /\ back.main # version
    <3>1. CASE Target \in writer.had
      <4>1. (CHOOSE d \in old : TRUE) \in old
        BY <1>4, <3>1, OldAside
      <4> QED
        BY <4>1, <3>1, <2>1, <1>v, <1>i
    <3>2. CASE Target \notin writer.had
      BY <3>2, <1>n
    <3> QED
      BY <3>1, <3>2
  <2>4. \/ skill' = IF Target \in writer.had \cup writer.installed THEN [skill EXCEPT ![Target] = back] ELSE skill
        \/ ~writer'.undone /\ (skill' = skill \/ skill' = [skill EXCEPT ![Target] = Nothing])
    BY <1>4, <1>t DEF Rollback, WriterRecord
  <2> HIDE DEF back
  <2>5. \A n \in Skills : skill'[n] \in {skill[n], back, Nothing} /\ (n # Target => skill'[n] = skill[n])
    BY <2>4, <1>t
  <2>6. \A n \in Skills : skill'[n].main \notin withdrawn
    BY <2>5, <2>3, <1>v, <1>n
  <2>7. writer'.undone => skill'[Target].main # version
    <3>1. CASE Target \in writer.had \cup writer.installed
      BY <3>1, <2>1, <2>3, <2>4, <1>t
    <3>2. CASE Target \notin writer.had \cup writer.installed
      <4>1. skill[Target] = Nothing
        BY <3>2, <2>1, <2>T DEF AsideStory
      <4> QED
        BY <3>2, <4>1, <2>4, <1>n
    <3> QED
      BY <3>1, <3>2
  <2>8. writer'.undone => \A n \in Skills : skill'[n].main = version => n \in Touched'
    <3>1. writer.undone => \A n \in Skills : skill[n].main = version => n \in Touched
      BY <2>1, <1>i
    <3> QED
      BY <3>1, <2>2, <2>5, <2>7, <2>U
  <2> QED
    BY <2>1, <2>2, <2>6, <2>8, <1>i, <1>v, <1>j
<1>5. CASE EndImport
  <2>1. /\ writer' = NoWriter /\ Importing /\ aside' \subseteq aside /\ UNCHANGED <<skill, given, version>>
        /\ writer.kind = "import"
    BY <1>5 DEF EndImport, Importing
  <2>2. CASE UNCHANGED withdrawn
    BY <2>1, <2>2, <1>0, <1>r, <1>v
  <2>3. CASE writer.at = "undo" /\ writer.index = 0 /\ writer.undone /\ withdrawn' = withdrawn \cup {version}
    <3>1. Touched = {}
      <4>1. Touched = {writer.names[k] : k \in {k \in 1..Len(writer.names) : k <= 0}}
        BY <2>3, <2>1, <1>t, TouchedNames DEF Touched
      <4> QED
        BY <4>1, Fields
    <3>2. \A n \in Skills : skill[n].main # version
      BY <2>1, <2>3, <3>1, <1>i
    <3>3. (\A d \in aside : d.skill.main # version) /\ version \notin given
      BY <2>1, <1>i
    <3>4. writer'.kind \notin {"save", "import"}
      BY <2>1, <1>r
    <3>5. /\ \A n \in Skills : skill'[n].main \notin withdrawn'
          /\ \A d \in aside' : d.skill.main \notin withdrawn'
          /\ given' \cap withdrawn' = {}
      BY <2>1, <2>3, <3>2, <3>3, <1>v
    <3> QED
      BY <3>4, <3>5 DEF VersionStory, Importing
  <2> QED
    BY <1>5, <2>1, <2>2, <2>3 DEF EndImport
<1>6. ASSUME NEW n \in Skills, Save(n) PROVE VersionStory'
  <2>1. version' = version + 1 /\ UNCHANGED <<aside, given, withdrawn>> /\ writer'.kind = "save"
    BY <1>6 DEF Save, NoWriter
  <2>2. \A m \in Skills : skill'[m].main = skill[m].main
    BY <1>6, <1>t, <1>f DEF Save, SkillRecord
  <2>3. ~Importing'
    BY <2>1 DEF Importing
  <2> QED
    BY <2>1, <2>2, <2>3, <1>v, <1>n DEF VersionStory
<1>7. ASSUME NEW n \in Skills, Delete(n) PROVE VersionStory'
  <2>1. UNCHANGED <<skill, aside, given, withdrawn>> /\ writer'.kind = "delete"
    BY <1>7 DEF Delete, NoWriter
  <2> QED
    BY <2>1, <1>0, <1>v
<1>8. ASSUME NEW n \in Skills, LoadSkill(n) PROVE VersionStory'
  <2>1. /\ UNCHANGED <<skill, aside, writer, withdrawn>> /\ given' = given \cup {skill[n].main} /\ writer'.kind = "none"
    BY <1>8, Rests DEF LoadSkill
  <2>2. given' \cap withdrawn' = {}
    BY <2>1, <1>v
  <2> QED
    BY <2>1, <2>2, <1>v DEF VersionStory, Importing
<1>9. ASSUME NEW n \in Skills, NEW enabled \in BOOLEAN, SetEnabled(n, enabled) PROVE VersionStory'
  <2>1. /\ UNCHANGED <<aside, writer, given, withdrawn>> /\ writer'.kind = "none"
        /\ skill' = [skill EXCEPT ![n].off = ~enabled]
    BY <1>9, Rests DEF SetEnabled
  <2>2. \A m \in Skills : skill'[m].main = skill[m].main
    BY <2>1, <1>t, <1>f DEF SkillRecord
  <2> QED
    BY <2>1, <2>2, <1>0, <1>v
<1>10. CASE atomicWrite
  <2>1. PICK n \in Skills : n = writer.names[1]
    BY <1>10, Fields DEF atomicWrite, WriterStory
  <2>2. writer' = NoWriter /\ writer.kind = "save" /\ UNCHANGED <<aside, given, withdrawn>> /\ version \notin withdrawn
    BY <1>10 DEF atomicWrite, VersionStory
  <2>3. skill' = skill \/ skill' = [skill EXCEPT ![n].main = version]
    BY <1>10, <2>1 DEF atomicWrite
  <2>4. \A m \in Skills : skill'[m].main \in {skill[m].main, version}
    BY <2>3, <1>t, <1>f DEF SkillRecord
  <2> QED
    BY <2>2, <2>4, <1>0, <1>r, <1>v
<1>11. CASE RemoveAll
  <2>1. PICK n \in Skills : n = writer.names[1]
    BY <1>11, Fields DEF RemoveAll, WriterStory
  <2>2. writer'.kind \notin {"save", "import"} /\ UNCHANGED <<aside, given, withdrawn>>
    BY <1>11, <1>r DEF RemoveAll
  <2>3. \/ skill' = skill \/ skill' = [skill EXCEPT ![n].off = FALSE]
        \/ skill' = [skill EXCEPT ![n].main = 0] \/ skill' = [skill EXCEPT ![n] = Nothing]
    BY <1>11, <2>1 DEF RemoveAll
  <2>4. \A m \in Skills : skill'[m].main \in {skill[m].main, 0}
    BY <2>3, <1>t, <1>f, <1>n DEF SkillRecord
  <2> QED
    BY <2>2, <2>4, <1>0, <1>n, <1>v
<1>12. CASE CrashRegistry
  <2>1. writer' = NoWriter /\ UNCHANGED <<skill, aside, given, withdrawn>>
    BY <1>12 DEF CrashRegistry
  <2> QED
    BY <2>1, <1>0, <1>r, <1>v
<1>13. CASE UNCHANGED skillVars
  BY <1>13 DEF skillVars, VersionStory, Importing, Touched
<1> QED
  BY <1>1, <1>2, <1>3, <1>4, <1>5, <1>6, <1>7, <1>8, <1>9, <1>10, <1>11, <1>12, <1>13 DEF SkillNext

-----------------------------------------------------------------------------
(* The registry of skills: its theorems *)

\* The first state satisfies the invariant.
LEMMA SkillsBegin == SkillInit => SkillInv
<1> SUFFICES ASSUME SkillInit PROVE SkillInv
  OBVIOUS
<1> USE SkillConstants
<1>1. \A n \in Skills :
        /\ skill[n] \in SkillRecord /\ (skill[n].kind = "none" => skill[n] = Nothing)
        /\ skill[n].main \in {0, 1}
  <2> SUFFICES ASSUME NEW n \in Skills
               PROVE /\ skill[n] \in SkillRecord /\ (skill[n].kind = "none" => skill[n] = Nothing)
                     /\ skill[n].main \in {0, 1}
    OBVIOUS
  <2>1. CASE skill[n] = [Nothing EXCEPT !.kind = "file"]
    <3>1. Nothing \in SkillRecord /\ Nothing.main = 0
      BY NothingTypes DEF Nothing
    <3> QED
      BY <2>1, <3>1 DEF SkillRecord
  <2>2. CASE skill[n] = Directory(1)
    BY <2>2 DEF Directory, SkillRecord
  <2>3. CASE skill[n] = Nothing
    BY <2>3 DEF Nothing, SkillRecord
  <2> QED
    BY <2>1, <2>2, <2>3 DEF SkillInit
<1>2. skill = [n \in Skills |-> skill[n]] /\ committed = skill
  BY DEF SkillInit
<1>3. skill \in [Skills -> SkillRecord]
  BY <1>1, <1>2
<1>4. RegistryTypes
  BY <1>2, <1>3, NothingTypes DEF SkillInit, RegistryTypes
<1>5. ShapeStory
  BY <1>1 DEF SkillInit, ShapeStory
<1>6. WriterStory
  BY Rests DEF SkillInit, WriterStory, NoWriter
<1>7. ~Importing /\ aside = {} /\ withdrawn = {} /\ given = {} /\ writer.kind = "none"
  BY Rests DEF SkillInit, Importing
<1>8. RestStory
  BY <1>2, RestSame DEF RestStory
<1> QED
  BY <1>4, <1>5, <1>6, <1>7, <1>8 DEF SkillInv, AsideStory, VersionStory

\* Every step keeps the invariant.
LEMMA SkillsGoOn == SkillInv /\ [SkillNext]_skillVars => SkillInv'
<1> SUFFICES ASSUME SkillInv, [SkillNext]_skillVars PROVE SkillInv'
  OBVIOUS
<1> USE DEF SkillInv
<1>1. RegistryTypes' /\ ShapeStory' /\ WriterStory'
  BY TypesStep, ShapeStep, WriterStep
<1> QED
  BY <1>1, RestStep, VersionStep

\* The invariant of the registry holds of every state of every behaviour.
THEOREM SkillsInvariant == SkillSpec => []SkillInv
BY SkillsBegin, SkillsGoOn, PTL DEF SkillSpec

\* Whatever step of a package fails and whenever the process dies, no skill is lost, a failed
\* import leaves the package as it was, and none of its contents was given to the Agent; but
\* for names whose undoing failed too and new names that a writer left half done.
THEOREM SkillsKept == SkillSpec => []SkillsAreKept
<1>1. SkillInv => SkillsAreKept
  <2> SUFFICES ASSUME SkillInv PROVE SkillsAreKept
    OBVIOUS
  <2>1. SkillTypes
    BY DEF SkillInv, RegistryTypes, ShapeStory, SkillTypes, SkillRecord, AsideRecord, WriterRecord
  <2>2. ASSUME NEW n \in Skills \ torn, committed[n] # Nothing PROVE skill[n] = committed[n] \/ Kept(n)
    <3>1. KeptBefore(n) => Kept(n)
      BY DEF KeptBefore, Kept
    <3>2. CASE n \in Touched
      <4>1. Importing
        BY <3>2, NobodyTouches
      <4>2. /\ n \in writer.had => \E d \in aside : d.name = n /\ d.by = version
            /\ \A d \in aside : n \in writer.had /\ d.name = n /\ d.by = version => Rest(n, d.skill)
            /\ n \notin writer.had => Rest(n, Nothing)
        BY <3>2, <4>1 DEF SkillInv, AsideStory
      <4>3. CASE n \in writer.had
        <5>1. PICK d \in aside : d.name = n /\ Rest(n, d.skill)
          BY <4>2, <4>3
        <5> QED
          BY <5>1, <3>1, <2>2 DEF Rest, Kept
      <4>4. CASE n \notin writer.had
        BY <4>2, <4>4, <3>1, <2>2 DEF Rest
      <4> QED
        BY <4>3, <4>4
    <3>3. CASE n \notin Touched
      <4>1. ~(writer.kind = "delete" /\ n = writer.names[1])
        BY <2>2 DEF SkillInv, WriterStory
      <4>2. Rest(n, skill[n])
        BY <3>3, <4>1 DEF SkillInv, RestStory
      <4> QED
        BY <4>2, <3>1, <2>2 DEF Rest
    <3> QED
      BY <3>2, <3>3
  <2>3. ASSUME NEW n \in Skills \ torn, Unlocked, n \notin half PROVE skill[n] = committed[n]
    <3>1. ~Importing /\ writer.kind # "delete"
      BY <2>3, Rests DEF Importing
    <3>2. Rest(n, skill[n])
      BY <3>1, NobodyTouches DEF SkillInv, RestStory
    <3> QED
      BY <3>2, <2>3 DEF Rest
  <2> QED
    BY <2>1, <2>2, <2>3 DEF SkillsAreKept, SkillInv, VersionStory
<1> QED
  BY <1>1, SkillsInvariant, PTL

-----------------------------------------------------------------------------
(* The inductive invariant of a plan *)

StepRecord == [title : Nat, status : {"pending", "in_progress", "completed", "skipped"}]

\* What an open step is at its place after n ended ones.
Opened(s, n) == \A i \in 1..Len(s) : i > n => s[i].status = IF i = n + 1 THEN "in_progress" ELSE "pending"

StatusOf(s, n) == IF Len(s) = 0 THEN "none" ELSE IF n = Len(s) THEN "completed" ELSE "active"

PlanInv ==
  /\ plan \in [status : {"none", "active", "completed"}, steps : Seq(StepRecord)]
  /\ editions \in Nat /\ ended \in Seq(StepRecord)
  /\ Len(ended) <= Len(plan.steps)
  /\ \A i \in 1..Len(ended) : plan.steps[i] = ended[i] /\ EndedStep(ended[i])
  /\ Opened(plan.steps, Len(ended))
  /\ plan.status = StatusOf(plan.steps, Len(ended))

\* The ended steps are counted up to the first that is not ended.
LEMMA SettledAt ==
  ASSUME NEW p, p.steps \in Seq(StepRecord), NEW n \in 0..Len(p.steps),
         \A i \in 1..n : EndedStep(p.steps[i]), n < Len(p.steps) => ~EndedStep(p.steps[n + 1])
  PROVE Settled(p) = n
<1> DEFINE Fits(m) == /\ \A i \in 1..m : EndedStep(p.steps[i])
                      /\ m < Len(p.steps) => ~EndedStep(p.steps[m + 1])
<1>1. Len(p.steps) \in Nat
  OBVIOUS
<1>2. Fits(n)
  OBVIOUS
<1>3. ASSUME NEW m \in 0..Len(p.steps), Fits(m) PROVE m = n
  <2>1. CASE m < n
    <3>1. m + 1 \in 1..n /\ m < Len(p.steps)
      BY <1>1, <2>1
    <3> QED
      BY <3>1, <1>2, <1>3
  <2>2. CASE n < m
    <3>1. n + 1 \in 1..m /\ n < Len(p.steps)
      BY <1>1, <2>2
    <3> QED
      BY <3>1, <1>2, <1>3
  <2> QED
    BY <1>1, <2>1, <2>2
<1>4. Settled(p) = CHOOSE m \in 0..Len(p.steps) : Fits(m)
  BY DEF Settled
<1> HIDE DEF Fits
<1>5. (CHOOSE m \in 0..Len(p.steps) : Fits(m)) = n
  BY <1>2, <1>3
<1> QED
  BY <1>4, <1>5

\* The step in progress is the one after the ended steps.
LEMMA CurrentAt ==
  ASSUME PlanInv, CurrentStep(plan) # 0
  PROVE CurrentStep(plan) = Len(ended) + 1 /\ Len(ended) + 1 \in 1..Len(plan.steps)
<1> DEFINE current == {i \in 1..Len(plan.steps) : plan.steps[i].status = "in_progress"}
<1>1. Len(plan.steps) \in Nat /\ Len(ended) \in Nat
  BY DEF PlanInv
<1>2. \A i \in current : i = Len(ended) + 1
  <2> SUFFICES ASSUME NEW i \in 1..Len(plan.steps), plan.steps[i].status = "in_progress" PROVE i = Len(ended) + 1
    OBVIOUS
  <2>1. CASE i <= Len(ended)
    <3>1. i \in 1..Len(ended)
      BY <1>1, <2>1
    <3> QED
      BY <3>1 DEF PlanInv, EndedStep
  <2>2. CASE i > Len(ended)
    BY <2>2, <1>1 DEF PlanInv, Opened
  <2> QED
    BY <1>1, <2>1, <2>2
<1>3. current # {}
  BY DEF CurrentStep
<1>4. Len(ended) + 1 \in current /\ current = {Len(ended) + 1}
  BY <1>2, <1>3
<1>5. CurrentStep(plan) = CHOOSE i \in current : \A j \in current : i <= j
  BY <1>3 DEF CurrentStep
<1>6. \E i \in current : \A j \in current : i <= j
  <2>1. PICK m \in Nat : m = Len(ended) + 1
    BY <1>1
  <2>2. current = {m} /\ m <= m
    BY <1>4, <2>1
  <2> HIDE DEF current
  <2> QED
    BY <2>2
<1> HIDE DEF current
<1>7. CurrentStep(plan) \in current
  BY <1>5, <1>6
<1> QED
  BY <1>4, <1>7 DEF current

\* New titles become open steps, the first of them in progress.
LEMMA TitledSteps ==
  ASSUME NEW e \in Nat, NEW n \in Nat
  PROVE /\ Titled(e, n) \in Seq(StepRecord) /\ Len(Titled(e, n)) = n
        /\ \A i \in 1..n : Titled(e, n)[i].status = IF i = 1 THEN "in_progress" ELSE "pending"
<1>1. \A i \in 1..n : [title |-> e, status |-> IF i = 1 THEN "in_progress" ELSE "pending"] \in StepRecord
  BY DEF StepRecord
<1> QED
  BY <1>1 DEF Titled

\* Ended steps, then new ones.
LEMMA ThenTitled ==
  ASSUME NEW s \in Seq(StepRecord), NEW e \in Nat, NEW n \in Nat
  PROVE /\ s \o Titled(e, n) \in Seq(StepRecord) /\ Len(s \o Titled(e, n)) = Len(s) + n
        /\ \A i \in 1..Len(s) : (s \o Titled(e, n))[i] = s[i]
        /\ Opened(s \o Titled(e, n), Len(s))
<1> DEFINE t == Titled(e, n)
<1>1. t \in Seq(StepRecord) /\ Len(t) = n /\ \A i \in 1..n : t[i].status = IF i = 1 THEN "in_progress" ELSE "pending"
  BY TitledSteps
<1> HIDE DEF t
<1>2. s \o t \in Seq(StepRecord) /\ Len(s \o t) = Len(s) + n /\ Len(s) \in Nat
  BY <1>1
<1>3. \A i \in 1..Len(s) : (s \o t)[i] = s[i]
  BY <1>1, <1>2
<1>4. ASSUME NEW i \in 1..(Len(s) + n), i > Len(s)
      PROVE (s \o t)[i].status = IF i = Len(s) + 1 THEN "in_progress" ELSE "pending"
  <2>1. i - Len(s) \in 1..n
    BY <1>2, <1>4
  <2>2. (s \o t)[i] = t[i - Len(s)]
    BY <1>1, <1>2, <1>4, <2>1
  <2>3. i - Len(s) = 1 <=> i = Len(s) + 1
    BY <1>2
  <2> QED
    BY <1>1, <2>1, <2>2, <2>3
<1>5. Opened(s \o t, Len(s))
  BY <1>2, <1>4 DEF Opened
<1> QED
  BY <1>2, <1>3, <1>5 DEF t

\* A plan of steps that ended, and of new ones after them.
LEMMA MadeOf ==
  ASSUME NEW s \in Seq(StepRecord), \A i \in 1..Len(s) : EndedStep(s[i]), NEW e \in Nat, NEW n \in Nat
  PROVE LET steps == s \o Titled(e, n) IN
        /\ SubSeq(steps, 1, Len(s)) = s
        /\ \A p : p.steps = steps => Settled(p) = Len(s)
<1> DEFINE steps == s \o Titled(e, n)
<1>1. /\ steps \in Seq(StepRecord) /\ Len(steps) = Len(s) + n /\ Len(s) \in Nat
      /\ \A i \in 1..Len(s) : steps[i] = s[i]
      /\ Opened(steps, Len(s))
  <2>1. Len(s) \in Nat
    OBVIOUS
  <2> QED
    BY <2>1, ThenTitled
<1> HIDE DEF steps
<1>2. SubSeq(steps, 1, Len(s)) = s
  BY <1>1
<1>3. ASSUME NEW p, p.steps = steps PROVE Settled(p) = Len(s)
  <2>1. \A i \in 1..Len(s) : EndedStep(p.steps[i])
    BY <1>1, <1>3
  <2>2. Len(s) < Len(p.steps) => ~EndedStep(p.steps[Len(s) + 1])
    <3>1. ASSUME Len(s) < Len(p.steps) PROVE p.steps[Len(s) + 1].status = "in_progress"
      <4>1. Len(s) + 1 \in 1..Len(steps) /\ Len(s) + 1 > Len(s)
        BY <1>1, <1>3, <3>1
      <4> QED
        BY <4>1, <1>1, <1>3 DEF Opened
    <3> QED
      BY <3>1 DEF EndedStep
  <2>3. Len(s) \in 0..Len(p.steps)
    BY <1>1, <1>3
  <2> QED
    BY <1>1, <1>3, <2>1, <2>2, <2>3, SettledAt
<1> QED
  BY <1>2, <1>3 DEF steps

\* A plan that is migrated from an older version, or none, satisfies the invariant.
LEMMA PlanBegins == PlanInit => PlanInv
<1> SUFFICES ASSUME PlanInit PROVE PlanInv
  OBVIOUS
<1>0. <<>> \in Seq(StepRecord) /\ Len(<<>>) = 0
  OBVIOUS
<1>1. CASE plan = NoPlan
  <2>1. plan.steps = <<>> /\ plan.status = "none"
    BY <1>1 DEF NoPlan
  <2>2. Settled(plan) = 0
    <3>1. 0 \in 0..Len(plan.steps) /\ \A i \in 1..0 : EndedStep(plan.steps[i])
      BY <2>1, <1>0
    <3>2. plan.steps \in Seq(StepRecord) /\ (0 < Len(plan.steps) => ~EndedStep(plan.steps[0 + 1]))
      BY <2>1, <1>0
    <3> QED
      BY <3>1, <3>2, SettledAt
  <2>3. ended = <<>>
    BY <2>1, <2>2, <1>0 DEF PlanInit
  <2>4. plan \in [status : {"none", "active", "completed"}, steps : Seq(StepRecord)]
    BY <1>1, <1>0 DEF NoPlan
  <2>5. Len(ended) = 0 /\ Len(plan.steps) = 0 /\ ended \in Seq(StepRecord)
    BY <1>0, <2>1, <2>3
  <2>6. Opened(plan.steps, Len(ended)) /\ plan.status = StatusOf(plan.steps, Len(ended))
    BY <2>1, <2>5 DEF Opened, StatusOf
  <2>7. editions \in Nat
    BY DEF PlanInit
  <2> QED
    BY <2>4, <2>5, <2>6, <2>7 DEF PlanInv
<1>2. ASSUME NEW tasks \in TaskLists, plan = migrateAgentPlans(tasks), plan # NoPlan PROVE PlanInv
  <2> DEFINE done == {i \in DOMAIN tasks : tasks[i] = "completed"}
             n == Cardinality(done)
             s == [i \in 1..n |-> [title |-> 0, status |-> "completed"]]
  <2>1. tasks \in Seq({"pending", "in_progress", "completed"}) /\ tasks # <<>>
    BY <1>2, PlanConstants DEF migrateAgentPlans
  <2>2. Len(tasks) \in Nat /\ Len(tasks) # 0 /\ DOMAIN tasks = 1..Len(tasks)
    BY <2>1
  <2>3. IsFiniteSet(done) /\ n \in Nat /\ n <= Len(tasks)
    <3>1. IsFiniteSet(1..Len(tasks)) /\ Cardinality(1..Len(tasks)) = Len(tasks)
      BY <2>2, FS_Interval
    <3>2. done \subseteq 1..Len(tasks)
      BY <2>2
    <3> QED
      BY <3>1, <3>2, FS_Subset, FS_CardinalityType
  <2> HIDE DEF done
  <2>4. s \in Seq(StepRecord) /\ Len(s) = n /\ \A i \in 1..n : s[i] = [title |-> 0, status |-> "completed"]
    <3>1. [title |-> 0, status |-> "completed"] \in StepRecord
      BY DEF StepRecord
    <3> QED
      BY <3>1, <2>3
  <2>5. \A i \in 1..Len(s) : EndedStep(s[i])
    BY <2>4 DEF EndedStep
  <2>6. Len(tasks) - n \in Nat
    BY <2>2, <2>3
  <2>7. plan = [status |-> IF Len(tasks) - n = 0 THEN "completed" ELSE "active", steps |-> s \o Titled(0, Len(tasks) - n)]
    BY <1>2, <2>1 DEF migrateAgentPlans, done
  <2> DEFINE steps == s \o Titled(0, Len(tasks) - n)
  <2>8. /\ steps \in Seq(StepRecord) /\ Len(steps) = Len(s) + (Len(tasks) - n)
        /\ \A i \in 1..Len(s) : steps[i] = s[i]
        /\ Opened(steps, Len(s))
    <3> HIDE DEF s, n
    <3> QED
      BY <2>4, <2>6, ThenTitled
  <2>9. /\ SubSeq(steps, 1, Len(s)) = s
        /\ \A p : p.steps = steps => Settled(p) = Len(s)
    <3> HIDE DEF s, n
    <3> QED
      BY <2>4, <2>5, <2>6, MadeOf
  <2> HIDE DEF steps, s, n
  <2>10. plan.steps = steps /\ plan.status = IF Len(tasks) - n = 0 THEN "completed" ELSE "active"
    BY <2>7 DEF steps
  <2>11. ended = s
    BY <2>9, <2>10 DEF PlanInit
  <2>12. plan \in [status : {"none", "active", "completed"}, steps : Seq(StepRecord)]
    BY <2>7, <2>8 DEF steps
  <2>13. Len(steps) = Len(tasks) /\ Len(ended) = n /\ (Len(tasks) - n = 0 <=> n = Len(tasks))
    BY <2>2, <2>3, <2>4, <2>8, <2>11
  <2>14. plan.status = StatusOf(plan.steps, Len(ended))
    BY <2>2, <2>10, <2>13 DEF StatusOf
  <2>15. editions \in Nat /\ Len(ended) <= Len(plan.steps)
    BY <2>3, <2>10, <2>13 DEF PlanInit
  <2> QED
    BY <2>4, <2>5, <2>8, <2>10, <2>11, <2>12, <2>14, <2>15 DEF PlanInv
<1> QED
  BY <1>1, <1>2 DEF PlanInit

\* Every step keeps the invariant.
LEMMA PlanGoesOn == PlanInv /\ [PlanNext]_planVars => PlanInv'
<1> SUFFICES ASSUME PlanInv, [PlanNext]_planVars PROVE PlanInv'
  OBVIOUS
<1>t. /\ plan \in [status : {"none", "active", "completed"}, steps : Seq(StepRecord)]
      /\ editions \in Nat /\ ended \in Seq(StepRecord) /\ plan.steps \in Seq(StepRecord)
      /\ Len(ended) \in Nat /\ Len(plan.steps) \in Nat /\ Len(ended) <= Len(plan.steps)
  BY DEF PlanInv
<1>i. /\ \A i \in 1..Len(ended) : plan.steps[i] = ended[i] /\ EndedStep(ended[i])
      /\ Opened(plan.steps, Len(ended))
  BY DEF PlanInv
<1>1. ASSUME NEW n \in 1..MaxSteps, CreateAgentPlan(n) PROVE PlanInv'
  <2>1. n \in Nat /\ n >= 2 /\ editions' = editions + 1 /\ editions' \in Nat
    BY <1>1, <1>t, PlanConstants DEF CreateAgentPlan
  <2>2. plan' = [status |-> "active", steps |-> Titled(editions', n)] /\ ended' = <<>>
    BY <1>1 DEF CreateAgentPlan
  <2>3. PICK e \in Nat : e = editions'
    BY <2>1
  <2>4. /\ Titled(e, n) \in Seq(StepRecord) /\ Len(Titled(e, n)) = n
        /\ \A i \in 1..n : Titled(e, n)[i].status = IF i = 1 THEN "in_progress" ELSE "pending"
    BY <2>1, TitledSteps
  <2>5. PICK s : s = Titled(e, n)
    OBVIOUS
  <2>6. plan' = [status |-> "active", steps |-> s]
    BY <2>2, <2>3, <2>5
  <2>7. /\ s \in Seq(StepRecord) /\ Len(s) = n
        /\ \A i \in 1..n : s[i].status = IF i = 1 THEN "in_progress" ELSE "pending"
    BY <2>4, <2>5
  <2>8. <<>> \in Seq(StepRecord) /\ Len(<<>>) = 0
    OBVIOUS
  <2>9. plan'.steps = s /\ plan'.status = "active" /\ ended' = <<>> /\ Len(ended') = 0
    BY <2>2, <2>6, <2>8
  <2>10. Opened(s, 0)
    BY <2>1, <2>7 DEF Opened
  <2>11. StatusOf(s, 0) = "active"
    BY <2>1, <2>7 DEF StatusOf
  <2>12. plan' \in [status : {"none", "active", "completed"}, steps : Seq(StepRecord)]
    BY <2>6, <2>7
  <2> QED
    BY <2>1, <2>7, <2>8, <2>9, <2>10, <2>11, <2>12 DEF PlanInv
<1>2. ASSUME NEW n \in 1..MaxSteps, ReviseRemaining(n) PROVE PlanInv'
  <2>1. n \in Nat /\ n >= 1 /\ editions' = editions + 1 /\ editions' \in Nat /\ plan.status = "active" /\ ended' = ended
    BY <1>2, <1>t, PlanConstants DEF ReviseRemaining
  <2>2. Len(ended) < Len(plan.steps)
    BY <2>1, <1>t DEF PlanInv, StatusOf
  <2>3. Settled(plan) = Len(ended)
    <3>1. \A i \in 1..Len(ended) : EndedStep(plan.steps[i])
      BY <1>i
    <3>2. ~EndedStep(plan.steps[Len(ended) + 1])
      <4>1. Len(ended) + 1 \in 1..Len(plan.steps) /\ Len(ended) + 1 > Len(ended)
        BY <1>t, <2>2
      <4> QED
        BY <4>1, <1>i DEF Opened, EndedStep
    <3>3. Len(ended) \in 0..Len(plan.steps)
      BY <1>t
    <3> QED
      BY <1>t, <3>1, <3>2, <3>3, SettledAt
  <2>4. SubSeq(plan.steps, 1, Len(ended)) = ended
    BY <1>t, <1>i
  <2>5. PICK e \in Nat : e = editions'
    BY <2>1
  <2>6. PICK s : s = ended \o Titled(e, n)
    OBVIOUS
  <2>7. /\ s \in Seq(StepRecord) /\ Len(s) = Len(ended) + n
        /\ \A i \in 1..Len(ended) : s[i] = ended[i]
        /\ Opened(s, Len(ended))
    <3>1. n \in Nat
      BY <2>1
    <3> QED
      BY <1>t, <2>6, <3>1, ThenTitled
  <2>8. plan' = [plan EXCEPT !.steps = s]
    BY <1>2, <2>3, <2>4, <2>5, <2>6 DEF ReviseRemaining
  <2>9. plan'.steps = s /\ plan'.status = "active" /\ plan' \in [status : {"none", "active", "completed"}, steps : Seq(StepRecord)]
    BY <2>8, <2>7, <2>1, <1>t
  <2>10. StatusOf(s, Len(ended)) = "active" /\ Len(ended) <= Len(s)
    BY <2>1, <2>7, <1>t DEF StatusOf
  <2> QED
    BY <2>1, <2>7, <2>9, <2>10, <1>t, <1>i DEF PlanInv
<1>3. ASSUME NEW result \in {"completed", "skipped"}, NEW number \in 1..Len(plan.steps), TransitionStep(number, result)
      PROVE PlanInv'
  <2>1. number = Len(ended) + 1 /\ number \in 1..Len(plan.steps)
    BY <1>3, CurrentAt DEF TransitionStep
  <2> DEFINE steps == [plan.steps EXCEPT ![number].status = result]
             pending == {i \in 1..Len(steps) : steps[i].status = "pending"}
             next == CHOOSE i \in pending : \A j \in pending : i <= j
  <2>2. /\ steps \in Seq(StepRecord) /\ Len(steps) = Len(plan.steps)
        /\ \A i \in 1..Len(plan.steps) : i # number => steps[i] = plan.steps[i]
        /\ steps[number].status = result
    <3>1. plan.steps[number] \in StepRecord
      BY <1>t, <2>1
    <3>2. [plan.steps[number] EXCEPT !.status = result] \in StepRecord /\ [plan.steps[number] EXCEPT !.status = result].status = result
      BY <3>1 DEF StepRecord
    <3> QED
      BY <1>t, <2>1, <3>2
  <2>3. EndedStep(steps[number]) /\ steps[number] \in StepRecord
    BY <2>2, <2>1, <1>t DEF EndedStep
  <2>4. \A i \in 1..Len(steps) : i \in pending <=> i > number
    <3> SUFFICES ASSUME NEW i \in 1..Len(steps) PROVE steps[i].status = "pending" <=> i > number
      OBVIOUS
    <3>1. CASE i = number
      BY <3>1, <2>2, <2>1
    <3>2. CASE i < number
      <4>1. i \in 1..Len(ended)
        BY <3>2, <2>1, <1>t
      <4> QED
        BY <4>1, <3>2, <2>2, <1>i, <2>1 DEF EndedStep
    <3>3. CASE i > number
      BY <3>3, <2>1, <2>2, <1>i, <1>t DEF Opened
    <3> QED
      BY <3>1, <3>2, <3>3, <2>1
  <2>5. /\ ended' = Append(ended, steps[number]) /\ editions' = editions
        /\ plan' = IF pending = {} THEN [status |-> "completed", steps |-> steps]
                   ELSE [status |-> "active", steps |-> [steps EXCEPT ![next].status = "in_progress"]]
    BY <1>3 DEF TransitionStep
  <2> HIDE DEF steps, next, pending
  <2>6. /\ ended' \in Seq(StepRecord) /\ Len(ended') = Len(ended) + 1 /\ Len(ended') = number
        /\ \A i \in 1..Len(ended) : ended'[i] = ended[i]
        /\ ended'[number] = steps[number]
    BY <2>5, <2>3, <2>1, <1>t
  <2>7. ASSUME NEW s \in Seq(StepRecord), Len(s) = Len(plan.steps), \A i \in 1..number : s[i] = steps[i]
        PROVE \A i \in 1..Len(ended') : s[i] = ended'[i] /\ EndedStep(ended'[i])
    <3> SUFFICES ASSUME NEW i \in 1..number PROVE s[i] = ended'[i] /\ EndedStep(ended'[i])
      BY <2>6
    <3>1. CASE i = number
      BY <3>1, <2>3, <2>6, <2>7
    <3>2. CASE i # number
      <4>1. i \in 1..Len(ended) /\ i \in 1..Len(plan.steps)
        BY <3>2, <2>1, <1>t
      <4> QED
        BY <4>1, <3>2, <2>2, <2>6, <2>7, <1>i
    <3> QED
      BY <3>1, <3>2
  <2>8. CASE pending = {}
    <3>1. plan' = [status |-> "completed", steps |-> steps]
      BY <2>5, <2>8
    <3>2. number = Len(steps)
      <4>1. ~(number < Len(steps))
        <5>1. ASSUME number < Len(steps) PROVE FALSE
          <6>1. number + 1 \in 1..Len(steps) /\ number + 1 > number
            BY <5>1, <2>1, <2>2, <1>t
          <6> QED
            BY <6>1, <2>4, <2>8
        <5> QED
          BY <5>1
      <4> QED
        BY <4>1, <2>1, <2>2, <1>t
    <3>3. Opened(steps, number)
      BY <3>2, <2>1, <2>2, <1>t DEF Opened
    <3>4. plan'.steps = steps /\ plan'.status = "completed" /\ plan' \in [status : {"none", "active", "completed"}, steps : Seq(StepRecord)]
      BY <3>1, <2>2
    <3>5. StatusOf(steps, number) = "completed"
      BY <3>2, <2>1, <2>2, <1>t DEF StatusOf
    <3>6. \A i \in 1..Len(ended') : steps[i] = ended'[i] /\ EndedStep(ended'[i])
      BY <2>2, <2>7
    <3>7. editions' \in Nat /\ Len(ended') <= Len(plan'.steps)
      BY <3>2, <3>4, <2>1, <2>2, <2>5, <2>6, <1>t
    <3> QED
      BY <3>3, <3>4, <3>5, <3>6, <3>7, <2>6 DEF PlanInv
  <2>9. CASE pending # {}
    <3>1. plan' = [status |-> "active", steps |-> [steps EXCEPT ![next].status = "in_progress"]]
      BY <2>5, <2>9
    <3>2. number < Len(steps)
      <4>1. PICK i \in pending : TRUE
        BY <2>9
      <4>2. i \in 1..Len(steps)
        BY <4>1 DEF pending
      <4> QED
        BY <4>1, <4>2, <2>4, <2>1, <2>2, <1>t
    <3>3. next = number + 1
      <4>1. number + 1 \in pending /\ \A j \in pending : number + 1 <= j
        <5>1. number + 1 \in 1..Len(steps) /\ number + 1 > number
          BY <3>2, <2>1, <2>2, <1>t
        <5>2. \A j \in pending : j \in 1..Len(steps) /\ j > number
          BY <2>4 DEF pending
        <5> QED
          BY <5>1, <5>2, <2>4, <2>1, <1>t
      <4>2. next \in pending /\ \A j \in pending : next <= j
        <5>1. \E i \in pending : \A j \in pending : i <= j
          BY <4>1
        <5> QED
          BY <5>1 DEF next
      <4>3. next \in 1..Len(steps)
        BY <4>2 DEF pending
      <4> QED
        BY <4>1, <4>2, <4>3, <2>1, <2>2, <1>t
    <3>4. PICK s : s = [steps EXCEPT ![next].status = "in_progress"]
      OBVIOUS
    <3>5. number + 1 \in 1..Len(steps)
      BY <3>2, <2>1, <2>2, <1>t
    <3>6. /\ s \in Seq(StepRecord) /\ Len(s) = Len(steps)
          /\ \A i \in 1..Len(steps) : i # number + 1 => s[i] = steps[i]
          /\ s[number + 1].status = "in_progress"
      <4>1. steps[number + 1] \in StepRecord
        BY <2>2, <3>5
      <4>2. [steps[number + 1] EXCEPT !.status = "in_progress"] \in StepRecord /\ [steps[number + 1] EXCEPT !.status = "in_progress"].status = "in_progress"
        BY <4>1 DEF StepRecord
      <4> QED
        BY <3>3, <3>4, <3>5, <2>2, <4>2
    <3>7. plan'.steps = s /\ plan'.status = "active" /\ plan' \in [status : {"none", "active", "completed"}, steps : Seq(StepRecord)]
      BY <3>1, <3>4, <3>6
    <3>8. Opened(s, number)
      <4> SUFFICES ASSUME NEW i \in 1..Len(s), i > number
                   PROVE s[i].status = IF i = number + 1 THEN "in_progress" ELSE "pending"
        BY DEF Opened
      <4>1. CASE i = number + 1
        BY <4>1, <3>6
      <4>2. CASE i # number + 1
        <5>1. i \in 1..Len(steps)
          BY <3>6
        <5>2. steps[i].status = "pending"
          BY <5>1, <2>4 DEF pending
        <5> QED
          BY <4>2, <5>1, <5>2, <3>6
      <4> QED
        BY <4>1, <4>2
    <3>9. StatusOf(s, number) = "active"
      BY <3>2, <3>6, <2>1, <2>2, <1>t DEF StatusOf
    <3>10. \A i \in 1..Len(ended') : s[i] = ended'[i] /\ EndedStep(ended'[i])
      <4>1. \A i \in 1..number : s[i] = steps[i]
        BY <3>6, <3>2, <2>1, <2>2, <1>t
      <4>2. Len(s) = Len(plan.steps)
        BY <3>6, <2>2
      <4> QED
        BY <4>1, <4>2, <3>6, <2>7
    <3>11. editions' \in Nat /\ Len(ended') <= Len(plan'.steps)
      BY <3>2, <3>6, <3>7, <2>1, <2>2, <2>5, <2>6, <1>t
    <3> QED
      BY <3>7, <3>8, <3>9, <3>10, <3>11, <2>6 DEF PlanInv
  <2> QED
    BY <2>8, <2>9
<1>4. CASE UNCHANGED planVars
  BY <1>4 DEF planVars, PlanInv, Opened, StatusOf
<1> QED
  BY <1>1, <1>2, <1>3, <1>4 DEF PlanNext

\* The invariant of a plan holds of every state of every behaviour.
THEOREM PlanInvariant == PlanSpec => []PlanInv
BY PlanBegins, PlanGoesOn, PTL DEF PlanSpec

\* The invariant keeps a plan.
LEMMA InvKeepsPlan == PlanInv => PlanIsKept
<1> SUFFICES ASSUME PlanInv PROVE PlanIsKept
  OBVIOUS
<1> DEFINE n == Len(ended)
           open == SubSeq(plan.steps, n + 1, Len(plan.steps))
<1>t. /\ ended \in Seq(StepRecord) /\ plan.steps \in Seq(StepRecord)
      /\ n \in Nat /\ Len(plan.steps) \in Nat /\ n <= Len(plan.steps)
      /\ \A i \in 1..n : plan.steps[i] = ended[i]
  BY DEF PlanInv
<1>1. SubSeq(plan.steps, 1, n) = ended
  BY <1>t
<1>2. Len(open) = Len(plan.steps) - n /\ DOMAIN open = 1..(Len(plan.steps) - n)
      /\ \A i \in 1..(Len(plan.steps) - n) : open[i] = plan.steps[n + i]
  BY <1>t
<1>3. ASSUME NEW i \in DOMAIN open PROVE open[i].status = IF i = 1 THEN "in_progress" ELSE "pending"
  <2>1. n + i \in 1..Len(plan.steps) /\ n + i > n /\ (n + i = n + 1 <=> i = 1)
    BY <1>t, <1>2
  <2> QED
    BY <2>1, <1>2 DEF PlanInv, Opened
<1>4. (open = <<>> <=> n = Len(plan.steps)) /\ (plan.steps = <<>> <=> Len(plan.steps) = 0)
  <2>1. \A s \in Seq(StepRecord) : s = <<>> <=> Len(s) = 0
    OBVIOUS
  <2>2. open \in Seq(StepRecord)
    BY <1>t
  <2>3. Len(open) = 0 <=> n = Len(plan.steps)
    BY <1>t, <1>2
  <2> HIDE DEF open
  <2> QED
    BY <2>1, <2>2, <2>3, <1>t
<1> HIDE DEF open
<1>5. plan.status = IF plan.steps = <<>> THEN "none" ELSE IF open = <<>> THEN "completed" ELSE "active"
  BY <1>4 DEF PlanInv, StatusOf
<1> QED
  BY <1>1, <1>3, <1>5 DEF PlanIsKept, open

\* The steps that ended stay as they are at the head of the plan, whatever the model replaces
\* or the operator skips; one step is in progress until all have ended.
THEOREM PlanKept == PlanSpec => []PlanIsKept
<1>1. PlanInv => PlanIsKept BY InvKeepsPlan
<1> QED
  BY <1>1, PlanInvariant, PTL

-----------------------------------------------------------------------------
(* The inductive invariant of a conversation *)

Asks   == {"none", "send", "switch", "rename", "delete"}
Stages == {"none", "begin", "create", "rebind", "write", "rename", "inspect", "delete"}
Rows   == [there : BOOLEAN, title : {"none", "generated", "operator"}, workspace : Places]
Talks  == [at : {"off", "begun", "told", "acting", "tool"}, told : Places, seen : Places, untitled : BOOLEAN]
Requests == [kind : Asks, at : Stages, workspace : Places, stale : BOOLEAN]

RowTypes ==
  /\ conversation \in Rows /\ stored \in BOOLEAN /\ talk \in Talks
  /\ namer \in {"off", "asked"} /\ terminal \in Places
  /\ http \in [Handlers -> Requests] /\ talks \in 0..MaxTalks
  /\ renamed \in BOOLEAN /\ overlapped \in BOOLEAN

NameKept == renamed => conversation.there /\ conversation.title = "operator"

Speaking == talk.at \in {"told", "acting", "tool"}

Told ==
  /\ Speaking => conversation.there
  /\ Speaking /\ talk.told # NoWorkspace => conversation.workspace = talk.told

Read == talk.at = "tool" /\ talk.seen # NoWorkspace => conversation.workspace = talk.seen

TerminalHere == terminal # NoWorkspace => conversation.there /\ conversation.workspace = terminal

Gone == ~conversation.there => ~stored /\ terminal = NoWorkspace

Fresh(q) ==
  ~q.stale =>
    /\ q.at \in {"rebind", "write"} => (Speaking => talk.told = NoWorkspace) /\ talk.at # "tool"
    /\ q.at = "write" => terminal = NoWorkspace
    /\ q.at \in {"inspect", "delete"} => talk.at = "off"
    /\ q.at = "delete" => terminal = NoWorkspace

Untouched == ~overlapped => Told /\ Read /\ TerminalHere /\ Gone /\ \A r \in Handlers : Fresh(http[r])

ConversationInv == RowTypes /\ NameKept /\ Untouched

-----------------------------------------------------------------------------
(* What a step does to the requests. *)

\* The first request of everyone is none, and a row that is made is a row.
LEMMA Beginnings ==
  /\ NoWorkspace \in Places
  /\ Free \in Requests /\ Silent \in Talks /\ Absent \in Rows
  /\ \A w \in Places : Created(w) \in Rows
BY DEF Places, Free, Requests, Asks, Stages, Silent, Talks, Absent, Rows, Created

\* A request that ends is free, and no other changes.
LEMMA EndingRequest ==
  ASSUME http \in [Handlers -> Requests], NEW r \in Handlers, Ends(r)
  PROVE  /\ http' \in [Handlers -> Requests]
         /\ http'[r] = Free
         /\ \A s \in Handlers : s # r => http'[s] = http[s]
BY Beginnings DEF Ends

\* A request that goes on is the same request at another place.
LEMMA OngoingRequest ==
  ASSUME http \in [Handlers -> Requests], NEW r \in Handlers, NEW at \in Stages, GoesOn(r, at)
  PROVE  /\ http' \in [Handlers -> Requests]
         /\ http'[r].at = at /\ http'[r].stale = http[r].stale
         /\ \A s \in Handlers : s # r => http'[s] = http[s]
<1>1. http[r] \in Requests OBVIOUS
<1>2. [http[r] EXCEPT !.at = at] \in Requests BY <1>1 DEF Requests
<1>3. http' = [http EXCEPT ![r] = [http[r] EXCEPT !.at = at]] BY DEF GoesOn
<1> QED BY <1>1, <1>2, <1>3 DEF Requests

\* A message that has its row asks next for the conversation.
LEMMA BeginningRequest ==
  ASSUME http \in [Handlers -> Requests], NEW r \in Handlers, Begins(r)
  PROVE  /\ http' \in [Handlers -> Requests]
         /\ http'[r].at = "begin"
         /\ \A s \in Handlers : s # r => http'[s] = http[s]
<1>1. [Free EXCEPT !.kind = "send", !.at = "begin"] \in Requests BY Beginnings DEF Requests, Asks, Stages
<1> QED BY <1>1, Beginnings DEF Begins, Requests

\* Overtaken requests are where they were, and those that have checked something are stale.
LEMMA OvertakenRequests ==
  ASSUME NEW h \in [Handlers -> Requests]
  PROVE  /\ Overtaken(h) \in [Handlers -> Requests]
         /\ \A r \in Handlers : \/ Overtaken(h)[r].stale
                                \/ Overtaken(h)[r].at \notin {"rebind", "write", "inspect", "delete"}
<1>1. \A r \in Handlers : [h[r] EXCEPT !.stale = TRUE] \in Requests BY DEF Requests
<1>2. \A r \in Handlers : [h[r] EXCEPT !.stale = TRUE].stale = TRUE BY DEF Requests
<1> QED BY <1>1, <1>2 DEF Overtaken

\* The row a message brings back is there, and keeps the Workspace and the name it had.
LEMMA EnsuredRow ==
  ASSUME conversation \in Rows
  PROVE  /\ Ensured \in Rows /\ Ensured.there
         /\ conversation.there => Ensured = conversation
BY Beginnings DEF Ensured, Created, Rows

-----------------------------------------------------------------------------
(* The invariant of a conversation. *)

\* The components have their types in the first state.
LEMMA ConversationBegins == ConversationInit => ConversationInv
<1> SUFFICES ASSUME ConversationInit PROVE ConversationInv OBVIOUS
<1>1. RowTypes
  <2>1. http \in [Handlers -> Requests] BY Beginnings DEF ConversationInit
  <2>2. talks \in 0..MaxTalks BY ConversationConstants DEF ConversationInit
  <2>3. conversation \in Rows /\ talk \in Talks /\ terminal \in Places BY Beginnings DEF ConversationInit
  <2>4. /\ stored \in BOOLEAN /\ namer \in {"off", "asked"} /\ renamed \in BOOLEAN /\ overlapped \in BOOLEAN
    BY DEF ConversationInit
  <2> QED BY <2>1, <2>2, <2>3, <2>4 DEF RowTypes
<1>2. Untouched
  <2>1. \A r \in Handlers : http[r].at = "none" BY DEF ConversationInit, Free
  <2> QED BY <2>1 DEF ConversationInit, Untouched, Told, Read, TerminalHere, Gone, Fresh, Speaking, Absent, Silent
<1>3. NameKept BY DEF ConversationInit, NameKept
<1> QED BY <1>1, <1>2, <1>3 DEF ConversationInv

\* Every step of a request keeps the types.
LEMMA RequestTypes ==
  ASSUME RowTypes, NEW r \in Handlers, NEW w \in Places,
         \/ PrepareChatSession(r, w) \/ SwitchWorkspace(r, w)
         \/ CreateChatSession(r) \/ SetChatSessionWorkspace(r) \/ WriteWorkspace(r) \/ BeginTalk(r)
         \/ AskToRename(r) \/ RenameChatSession(r)
         \/ AskToDeleteChat(r) \/ InspectChat(r) \/ DeleteChatSession(r)
  PROVE  RowTypes'
<1> USE DEF RowTypes
<1>1. http[r] \in Requests OBVIOUS
<1>2. Ends(r) => http' \in [Handlers -> Requests] BY EndingRequest
<1>3. \A at \in Stages : GoesOn(r, at) => http' \in [Handlers -> Requests] BY OngoingRequest
<1>4. Begins(r) => http' \in [Handlers -> Requests] BY BeginningRequest
<1>5. "write" \in Stages /\ "delete" \in Stages BY DEF Stages
<1>6. \A v \in Places :
        /\ [Free EXCEPT !.kind = "send", !.at = "create", !.workspace = v] \in Requests
        /\ [Free EXCEPT !.kind = "send", !.at = "rebind", !.workspace = v] \in Requests
        /\ [Free EXCEPT !.kind = "switch", !.at = "rebind", !.workspace = v] \in Requests
        /\ [Free EXCEPT !.kind = "rename", !.at = "rename"] \in Requests
        /\ [Free EXCEPT !.kind = "delete", !.at = "inspect"] \in Requests
  BY Beginnings DEF Requests, Asks, Stages
<1>7. CASE PrepareChatSession(r, w) BY <1>4, <1>6, <1>7 DEF PrepareChatSession
<1>8. CASE SwitchWorkspace(r, w) BY <1>6, <1>8 DEF SwitchWorkspace
<1>9. CASE CreateChatSession(r)
  <2>1. Created(http[r].workspace) \in Rows BY <1>1, Beginnings DEF Requests
  <2> QED BY <1>2, <1>4, <1>9, <2>1 DEF CreateChatSession
<1>10. CASE SetChatSessionWorkspace(r) BY <1>2, <1>3, <1>4, <1>5, <1>10 DEF SetChatSessionWorkspace
<1>11. CASE WriteWorkspace(r)
  <2>1. [conversation EXCEPT !.workspace = http[r].workspace] \in Rows BY <1>1 DEF Rows, Requests
  <2>2. overlapped \/ http[r].stale \in BOOLEAN BY <1>1 DEF Requests
  <2>3. http' \in [Handlers -> Requests] BY <1>2, <1>4, <1>11 DEF WriteWorkspace
  <2>4. conversation' \in Rows BY <1>11, <2>1 DEF WriteWorkspace
  <2>5. overlapped' \in BOOLEAN BY <1>11, <2>2 DEF WriteWorkspace
  <2> QED BY <1>11, <2>3, <2>4, <2>5 DEF WriteWorkspace
<1>12. CASE BeginTalk(r)
  <2>1. [Silent EXCEPT !.at = "begun"] \in Talks BY Beginnings DEF Talks
  <2>2. [http EXCEPT ![r] = Free] \in [Handlers -> Requests] BY Beginnings
  <2>3. Overtaken([http EXCEPT ![r] = Free]) \in [Handlers -> Requests] BY <2>2, OvertakenRequests
  <2>4. talks < MaxTalks => talks + 1 \in 0..MaxTalks BY ConversationConstants
  <2>5. CASE Occupied BY <1>2, <1>12, <2>5 DEF BeginTalk
  <2>6. CASE ~Occupied BY <1>12, <2>1, <2>3, <2>4, <2>6 DEF BeginTalk
  <2> QED BY <2>5, <2>6
<1>13. CASE AskToRename(r) BY <1>6, <1>13 DEF AskToRename
<1>14. CASE RenameChatSession(r)
  <2>1. [conversation EXCEPT !.title = "operator"] \in Rows BY DEF Rows
  <2> QED BY <1>2, <1>14, <2>1 DEF RenameChatSession
<1>15. CASE AskToDeleteChat(r) BY <1>6, <1>15 DEF AskToDeleteChat
<1>16. CASE InspectChat(r) BY <1>2, <1>3, <1>5, <1>16 DEF InspectChat
<1>17. CASE DeleteChatSession(r)
  <2>1. overlapped' \in BOOLEAN BY <1>1, <1>17 DEF DeleteChatSession, Requests
  <2>2. conversation' \in Rows /\ stored' \in BOOLEAN /\ renamed' \in BOOLEAN BY <1>17, Beginnings DEF DeleteChatSession
  <2>3. http' \in [Handlers -> Requests] BY <1>2, <1>17 DEF DeleteChatSession
  <2> QED BY <1>17, <2>1, <2>2, <2>3 DEF DeleteChatSession
<1> QED BY <1>7, <1>8, <1>9, <1>10, <1>11, <1>12, <1>13, <1>14, <1>15, <1>16, <1>17

\* Every step of the turn keeps the types.
LEMMA TalkTypes ==
  ASSUME RowTypes,
         \/ LoadConversation \/ AppendMessage \/ SetGeneratedChatSessionTitle
         \/ SessionWorkspace \/ EndTool \/ EndTalk \/ CloseTerminal
  PROVE  RowTypes'
<1> USE DEF RowTypes
<1>1. Overtaken(http) \in [Handlers -> Requests] BY OvertakenRequests
<1>2. Ensured \in Rows BY EnsuredRow
<1>3. CASE LoadConversation
  <2>1. Ensured.workspace \in Places BY <1>2 DEF Rows
  <2>2. \A b \in BOOLEAN, v \in Places : [talk EXCEPT !.at = "told", !.told = v, !.untitled = b] \in Talks BY DEF Talks
  <2>3. (Ensured.title = "none") \in BOOLEAN OBVIOUS
  <2>4. talk' \in Talks BY <1>3, <2>1, <2>2, <2>3 DEF LoadConversation
  <2> QED BY <1>1, <1>2, <1>3, <2>4 DEF LoadConversation
<1>4. CASE AppendMessage
  <2>1. [talk EXCEPT !.at = "acting", !.untitled = FALSE] \in Talks BY DEF Talks
  <2> QED BY <1>2, <1>4, <2>1 DEF AppendMessage
<1>5. CASE SetGeneratedChatSessionTitle
  <2>1. [conversation EXCEPT !.title = "generated"] \in Rows BY DEF Rows
  <2> QED BY <1>5, <2>1 DEF SetGeneratedChatSessionTitle
<1>6. CASE SessionWorkspace
  <2>1. [talk EXCEPT !.at = "tool", !.seen = conversation.workspace] \in Talks BY DEF Talks, Rows
  <2> QED BY <1>1, <1>6, <2>1 DEF SessionWorkspace
<1>7. CASE EndTool
  <2>1. [talk EXCEPT !.at = "acting", !.seen = NoWorkspace] \in Talks BY Beginnings DEF Talks
  <2>2. talk.seen \in Places BY DEF Talks
  <2> QED BY <1>1, <1>7, <2>1, <2>2 DEF EndTool
<1>8. CASE EndTalk BY <1>2, <1>8, Beginnings DEF EndTalk
<1>9. CASE CloseTerminal BY <1>9, Beginnings DEF CloseTerminal
<1> QED BY <1>3, <1>4, <1>5, <1>6, <1>7, <1>8, <1>9

\* A step of the system is one of a request or of the turn.
LEMMA ConversationActor ==
  ASSUME ConversationNext
  PROVE  \/ \E r \in Handlers, w \in Places :
              \/ PrepareChatSession(r, w) \/ SwitchWorkspace(r, w)
              \/ CreateChatSession(r) \/ SetChatSessionWorkspace(r) \/ WriteWorkspace(r) \/ BeginTalk(r)
              \/ AskToRename(r) \/ RenameChatSession(r)
              \/ AskToDeleteChat(r) \/ InspectChat(r) \/ DeleteChatSession(r)
         \/ LoadConversation \/ AppendMessage \/ SetGeneratedChatSessionTitle
         \/ SessionWorkspace \/ EndTool \/ EndTalk \/ CloseTerminal
BY Beginnings DEF ConversationNext

\* The operator's name goes only with the row it is on.
LEMMA NameStays == ASSUME ConversationInv, ConversationNext PROVE NameKept'
<1> USE DEF ConversationInv, RowTypes, NameKept
<1>1. renamed => Ensured = conversation BY EnsuredRow
<1>2. \A v : conversation.there /\ conversation.title = "operator" =>
        /\ [conversation EXCEPT !.workspace = v].there
        /\ [conversation EXCEPT !.workspace = v].title = "operator"
  BY DEF Rows
<1>3. conversation.there =>
        /\ [conversation EXCEPT !.title = "operator"].there
        /\ [conversation EXCEPT !.title = "operator"].title = "operator"
  BY DEF Rows
<1>4. ASSUME NEW r \in Handlers, NEW w \in Places,
             \/ PrepareChatSession(r, w) \/ SwitchWorkspace(r, w) \/ SetChatSessionWorkspace(r) \/ BeginTalk(r)
             \/ AskToRename(r) \/ AskToDeleteChat(r) \/ InspectChat(r)
      PROVE  NameKept'
  BY <1>4 DEF PrepareChatSession, SwitchWorkspace, SetChatSessionWorkspace, BeginTalk, AskToRename, AskToDeleteChat, InspectChat
<1>5. ASSUME NEW r \in Handlers, CreateChatSession(r) PROVE NameKept'
  BY <1>5 DEF CreateChatSession
<1>6. ASSUME NEW r \in Handlers, WriteWorkspace(r) PROVE NameKept'
  BY <1>2, <1>6 DEF WriteWorkspace
<1>7. ASSUME NEW r \in Handlers, RenameChatSession(r) PROVE NameKept'
  BY <1>3, <1>7 DEF RenameChatSession
<1>8. ASSUME NEW r \in Handlers, DeleteChatSession(r) PROVE NameKept'
  BY <1>8 DEF DeleteChatSession
<1>9. LoadConversation \/ AppendMessage => NameKept' BY <1>1 DEF LoadConversation, AppendMessage
<1>10. SetGeneratedChatSessionTitle => NameKept' BY DEF SetGeneratedChatSessionTitle
<1>11. SessionWorkspace \/ EndTool \/ CloseTerminal => NameKept' BY DEF SessionWorkspace, EndTool, CloseTerminal
<1>12. EndTalk => NameKept' BY <1>1 DEF EndTalk
<1> QED BY <1>4, <1>5, <1>6, <1>7, <1>8, <1>9, <1>10, <1>11, <1>12, ConversationActor

\* What a request checked stays true of a turn that neither begins nor reads, and of a
\* terminal that does not open.
LEMMA FreshStays ==
  ASSUME UNCHANGED <<talk, terminal>>, NEW q, Fresh(q)
  PROVE  Fresh(q)'
BY DEF Fresh, Speaking

\* A request that has checked nothing, or whose check is old, relies on nothing.
LEMMA FreshAtOnce ==
  ASSUME NEW q, q.stale \/ q.at \notin {"rebind", "write", "inspect", "delete"}
  PROVE  Fresh(q)
BY DEF Fresh

\* No write that was overtaken becomes one that was not.
LEMMA OverlapStays == ASSUME RowTypes, ConversationNext, overlapped PROVE overlapped'
<1>1. ASSUME NEW r \in Handlers, NEW w \in Places,
             \/ PrepareChatSession(r, w) \/ SwitchWorkspace(r, w) \/ SetChatSessionWorkspace(r) \/ BeginTalk(r)
             \/ AskToRename(r) \/ AskToDeleteChat(r) \/ InspectChat(r)
      PROVE  overlapped'
  BY <1>1 DEF PrepareChatSession, SwitchWorkspace, SetChatSessionWorkspace, BeginTalk, AskToRename, AskToDeleteChat, InspectChat
<1>2. ASSUME NEW r \in Handlers,
             CreateChatSession(r) \/ WriteWorkspace(r) \/ RenameChatSession(r) \/ DeleteChatSession(r)
      PROVE  overlapped'
  BY <1>2 DEF CreateChatSession, WriteWorkspace, RenameChatSession, DeleteChatSession
<1>3. LoadConversation \/ AppendMessage \/ SetGeneratedChatSessionTitle => overlapped'
  BY DEF LoadConversation, AppendMessage, SetGeneratedChatSessionTitle
<1>4. SessionWorkspace \/ EndTool \/ EndTalk \/ CloseTerminal => overlapped'
  BY DEF SessionWorkspace, EndTool, EndTalk, CloseTerminal
<1> QED BY <1>1, <1>2, <1>3, <1>4, ConversationActor

\* What the turn was told, what its tool read, the terminal and the rows of other tables
\* stay as they are with the row, the turn and the terminal.
LEMMA KeptStays ==
  ASSUME Told, Read, TerminalHere, Gone, UNCHANGED <<conversation, stored, talk, terminal>>
  PROVE  Told' /\ Read' /\ TerminalHere' /\ Gone'
BY DEF Told, Read, TerminalHere, Gone, Speaking

\* A request that only looks relies on what it has just seen.
LEMMA LookingKeeps ==
  ASSUME ConversationInv, ~overlapped, NEW r \in Handlers, NEW w \in Places,
         \/ PrepareChatSession(r, w) \/ SwitchWorkspace(r, w) \/ SetChatSessionWorkspace(r)
         \/ AskToRename(r) \/ AskToDeleteChat(r) \/ InspectChat(r)
  PROVE  Untouched'
<1> USE DEF ConversationInv, RowTypes, Untouched
<1>1. UNCHANGED <<conversation, stored, talk, terminal>>
  BY DEF PrepareChatSession, SwitchWorkspace, SetChatSessionWorkspace, AskToRename, AskToDeleteChat, InspectChat
<1>2. Told' /\ Read' /\ TerminalHere' /\ Gone' BY <1>1, KeptStays
<1>3. http[r] \in Requests /\ Fresh(http[r]) OBVIOUS
<1>4. \A v : /\ [Free EXCEPT !.kind = "send", !.at = "create", !.workspace = v].at = "create"
             /\ [Free EXCEPT !.kind = "send", !.at = "rebind", !.workspace = v].at = "rebind"
             /\ [Free EXCEPT !.kind = "switch", !.at = "rebind", !.workspace = v].at = "rebind"
             /\ [Free EXCEPT !.kind = "rename", !.at = "rename"].at = "rename"
             /\ [Free EXCEPT !.kind = "delete", !.at = "inspect"].at = "inspect"
  BY DEF Free
<1>5. Ends(r) => http'[r].at = "none" BY EndingRequest DEF Free
<1>6. "write" \in Stages /\ "delete" \in Stages BY DEF Stages
<1>7. /\ GoesOn(r, "write") => http'[r].at = "write" /\ http'[r].stale = http[r].stale
      /\ GoesOn(r, "delete") => http'[r].at = "delete" /\ http'[r].stale = http[r].stale
  BY <1>6, OngoingRequest
<1>8. Begins(r) => http'[r].at = "begin" BY BeginningRequest
<1>9. /\ Ends(r) \/ Begins(r) \/ GoesOn(r, "write") \/ GoesOn(r, "delete") =>
           \A s \in Handlers : s # r => http'[s] = http[s]
      /\ \A q : http' = [http EXCEPT ![r] = q] => http'[r] = q /\ \A s \in Handlers : s # r => http'[s] = http[s]
  BY <1>6, EndingRequest, OngoingRequest, BeginningRequest
<1>10. /\ \A s \in Handlers : s # r => http'[s] = http[s]
       /\ Fresh(http'[r])
  <2> USE <1>9
  <2>1. CASE PrepareChatSession(r, w)
    <3>1. CASE Begins(r) BY <1>8, <3>1, FreshAtOnce
    <3>2. CASE http' = [http EXCEPT ![r] = [Free EXCEPT !.kind = "send", !.at = "create", !.workspace = w]]
      BY <1>4, <3>2, FreshAtOnce
    <3>3. CASE /\ conversation.there /\ conversation.workspace = NoWorkspace
               /\ http' = [http EXCEPT ![r] = [Free EXCEPT !.kind = "send", !.at = "rebind", !.workspace = w]]
      <4>1. talk.at # "tool" BY <2>1 DEF PrepareChatSession
      <4>2. http'[r].at = "rebind" BY <1>4, <3>3
      <4>3. Speaking => talk.told = NoWorkspace BY <3>3 DEF Told
      <4> QED BY <3>3, <4>1, <4>2, <4>3 DEF Fresh
    <3> QED BY <2>1, <3>1, <3>2, <3>3 DEF PrepareChatSession
  <2>2. CASE SwitchWorkspace(r, w)
    <3>1. http'[r].at = "rebind" BY <1>4, <2>2 DEF SwitchWorkspace
    <3>2. talk.at = "off" BY <2>2 DEF SwitchWorkspace, Occupied
    <3>3. Fresh(http'[r]) BY <3>1, <3>2 DEF Fresh, Speaking
    <3> QED BY <2>2, <3>3 DEF SwitchWorkspace
  <2>3. CASE SetChatSessionWorkspace(r)
    <3>1. CASE Ends(r) BY <1>5, <3>1, FreshAtOnce
    <3>2. CASE Begins(r) BY <1>8, <3>2, FreshAtOnce
    <3>3. CASE terminal = NoWorkspace /\ GoesOn(r, "write")
      <4>1. http[r].at = "rebind" BY <2>3 DEF SetChatSessionWorkspace
      <4> QED BY <1>3, <1>7, <3>3, <4>1 DEF Fresh
    <3> QED BY <2>3, <3>1, <3>2, <3>3 DEF SetChatSessionWorkspace
  <2>4. CASE AskToRename(r)
    <3>1. http'[r].at = "rename" BY <1>4, <2>4 DEF AskToRename
    <3> QED BY <2>4, <3>1, FreshAtOnce DEF AskToRename
  <2>5. CASE AskToDeleteChat(r)
    <3>1. http'[r].at = "inspect" BY <1>4, <2>5 DEF AskToDeleteChat
    <3>2. talk.at = "off" BY <2>5 DEF AskToDeleteChat, Occupied
    <3>3. Fresh(http'[r]) BY <3>1, <3>2 DEF Fresh
    <3> QED BY <2>5, <3>3 DEF AskToDeleteChat
  <2>6. CASE InspectChat(r)
    <3>1. CASE Ends(r) BY <1>5, <3>1, FreshAtOnce
    <3>2. CASE terminal = NoWorkspace /\ GoesOn(r, "delete")
      <4>1. http[r].at = "inspect" BY <2>6 DEF InspectChat
      <4> QED BY <1>3, <1>7, <3>2, <4>1 DEF Fresh
    <3> QED BY <2>6, <3>1, <3>2 DEF InspectChat
  <2> QED BY <2>1, <2>2, <2>3, <2>4, <2>5, <2>6
<1>11. \A s \in Handlers : Fresh(http'[s]) BY <1>10
<1>12. \A q : Fresh(q) => Fresh(q)' BY <1>1, FreshStays
<1>13. \A s \in Handlers : Fresh(http[s])' BY <1>11, <1>12
<1> QED BY <1>2, <1>13

\* A request that writes the row, or begins the turn.
LEMMA WritingKeeps ==
  ASSUME ConversationInv, ~overlapped', ~overlapped, NEW r \in Handlers,
         \/ CreateChatSession(r) \/ WriteWorkspace(r) \/ BeginTalk(r)
         \/ RenameChatSession(r) \/ DeleteChatSession(r)
  PROVE  Untouched'
<1> USE DEF ConversationInv, RowTypes, Untouched
<1>1. http[r] \in Requests /\ Fresh(http[r]) OBVIOUS
<1>2. Ends(r) => http'[r].at = "none" BY EndingRequest DEF Free
<1>3. Begins(r) => http'[r].at = "begin" BY BeginningRequest
<1>4. Ends(r) \/ Begins(r) => \A s \in Handlers : s # r => http'[s] = http[s]
  BY EndingRequest, BeginningRequest
<1>5. Ends(r) \/ Begins(r) => \A s \in Handlers : Fresh(http'[s]) BY <1>2, <1>3, <1>4, FreshAtOnce
<1>6. ASSUME UNCHANGED <<talk, terminal>>, Ends(r) \/ Begins(r) PROVE \A s \in Handlers : Fresh(http[s])'
  <2>1. \A q : Fresh(q) => Fresh(q)' BY <1>6, FreshStays
  <2> QED BY <1>5, <1>6, <2>1
<1>7. CASE CreateChatSession(r)
  <2>1. UNCHANGED <<stored, talk, terminal>> /\ (Ends(r) \/ Begins(r)) BY <1>7 DEF CreateChatSession
  <2>2. CASE conversation.there
    <3>1. conversation' = conversation BY <1>7, <2>2 DEF CreateChatSession
    <3>2. Told' /\ Read' /\ TerminalHere' /\ Gone' BY <2>1, <3>1, KeptStays
    <3> QED BY <1>6, <2>1, <3>2
  <2>3. CASE ~conversation.there
    <3>1. conversation'.there BY <1>7, <2>3 DEF CreateChatSession, Created
    <3>2. ~Speaking /\ talk.at # "tool" /\ terminal = NoWorkspace BY <2>3 DEF Told, Gone, Speaking
    <3>3. Told' /\ Read' /\ TerminalHere' /\ Gone' BY <2>1, <3>1, <3>2 DEF Told, Read, TerminalHere, Gone, Speaking
    <3> QED BY <1>6, <2>1, <3>3
  <2> QED BY <2>2, <2>3
<1>8. CASE WriteWorkspace(r)
  <2>1. UNCHANGED <<stored, talk, terminal>> /\ (Ends(r) \/ Begins(r)) /\ http[r].at = "write" BY <1>8 DEF WriteWorkspace
  <2>2. CASE ~conversation.there
    <3>1. conversation' = conversation BY <1>8, <2>2 DEF WriteWorkspace
    <3>2. Told' /\ Read' /\ TerminalHere' /\ Gone' BY <2>1, <3>1, KeptStays
    <3> QED BY <1>6, <2>1, <3>2
  <2>3. CASE conversation.there
    <3>1. ~http[r].stale BY <1>8, <2>3 DEF WriteWorkspace
    <3>2. /\ Speaking => talk.told = NoWorkspace
          /\ talk.at # "tool" /\ terminal = NoWorkspace
      BY <1>1, <2>1, <3>1 DEF Fresh
    <3>3. conversation' = [conversation EXCEPT !.workspace = http[r].workspace] BY <1>8, <2>3 DEF WriteWorkspace
    <3>4. conversation'.there BY <2>3, <3>3 DEF Rows
    <3>5. Told' /\ Read' /\ TerminalHere' /\ Gone' BY <2>1, <3>2, <3>4 DEF Told, Read, TerminalHere, Gone, Speaking
    <3> QED BY <1>6, <2>1, <3>5
  <2> QED BY <2>2, <2>3
<1>9. CASE BeginTalk(r)
  <2>1. UNCHANGED <<conversation, stored, terminal>> BY <1>9 DEF BeginTalk
  <2>2. CASE Occupied
    <3>1. UNCHANGED talk /\ Ends(r) BY <1>9, <2>2 DEF BeginTalk
    <3>2. Told' /\ Read' /\ TerminalHere' /\ Gone' BY <2>1, <3>1, KeptStays
    <3> QED BY <1>6, <2>1, <3>1, <3>2
  <2>3. CASE ~Occupied
    <3>1. talk'.at = "begun" BY <1>9, <2>3 DEF BeginTalk, Silent
    <3>2. Told' /\ Read' /\ TerminalHere' /\ Gone' BY <2>1, <3>1 DEF Told, Read, TerminalHere, Gone, Speaking
    <3>3. PICK h \in [Handlers -> Requests] : h = [http EXCEPT ![r] = Free] BY Beginnings
    <3>4. http' = Overtaken(h) BY <1>9, <2>3, <3>3 DEF BeginTalk
    <3>5. \A s \in Handlers : http'[s].stale \/ http'[s].at \notin {"rebind", "write", "inspect", "delete"}
      BY <3>4, OvertakenRequests
    <3>6. \A s \in Handlers : Fresh(http[s])' BY <3>5 DEF Fresh
    <3> QED BY <3>2, <3>6
  <2> QED BY <2>2, <2>3
<1>10. CASE RenameChatSession(r)
  <2>1. UNCHANGED <<stored, talk, terminal>> /\ Ends(r) BY <1>10 DEF RenameChatSession
  <2>2. conversation'.there = conversation.there /\ conversation'.workspace = conversation.workspace
    BY <1>10 DEF RenameChatSession, Rows
  <2>3. Told' /\ Read' /\ TerminalHere' /\ Gone' BY <2>1, <2>2 DEF Told, Read, TerminalHere, Gone, Speaking
  <2> QED BY <1>6, <2>1, <2>3
<1>11. CASE DeleteChatSession(r)
  <2>1. UNCHANGED <<talk, terminal>> /\ Ends(r) /\ http[r].at = "delete" BY <1>11 DEF DeleteChatSession
  <2>2. CASE ~conversation.there
    <3>1. UNCHANGED <<conversation, stored>> BY <1>11, <2>2 DEF DeleteChatSession
    <3>2. Told' /\ Read' /\ TerminalHere' /\ Gone' BY <2>1, <3>1, KeptStays
    <3> QED BY <1>6, <2>1, <3>2
  <2>3. CASE conversation.there
    <3>1. ~http[r].stale BY <1>11, <2>3 DEF DeleteChatSession
    <3>2. talk.at = "off" /\ terminal = NoWorkspace BY <1>1, <2>1, <3>1 DEF Fresh
    <3>3. stored' = FALSE BY <1>11, <2>3 DEF DeleteChatSession
    <3>4. Told' /\ Read' /\ TerminalHere' /\ Gone' BY <2>1, <3>2, <3>3 DEF Told, Read, TerminalHere, Gone, Speaking
    <3> QED BY <1>6, <2>1, <3>4
  <2> QED BY <2>2, <2>3
<1> QED BY <1>7, <1>8, <1>9, <1>10, <1>11

\* A step of the turn or its terminal: what it reads or is told is the row's, and every
\* check made before it is old.
LEMMA TalkingKeeps ==
  ASSUME ConversationInv, ~overlapped', ~overlapped,
         \/ LoadConversation \/ AppendMessage \/ SetGeneratedChatSessionTitle
         \/ SessionWorkspace \/ EndTool \/ EndTalk \/ CloseTerminal
  PROVE  Untouched'
<1> USE DEF ConversationInv, RowTypes, Untouched
<1>1. PICK h \in [Handlers -> Requests] : h = http OBVIOUS
<1>2. \A s \in Handlers : Overtaken(h)[s].stale \/ Overtaken(h)[s].at \notin {"rebind", "write", "inspect", "delete"}
  BY OvertakenRequests
<1>3. http' = Overtaken(http) => \A s \in Handlers : Fresh(http[s])' BY <1>1, <1>2 DEF Fresh
<1>4. Ensured \in Rows /\ Ensured.there /\ (conversation.there => Ensured = conversation) BY EnsuredRow
<1>5. terminal # NoWorkspace => conversation.there BY DEF TerminalHere
<1>6. CASE LoadConversation
  <2>1. /\ talk'.at = "told" /\ talk'.told = Ensured.workspace /\ conversation' = Ensured
        /\ UNCHANGED <<stored, terminal>> /\ http' = Overtaken(http)
    BY <1>6 DEF LoadConversation, Talks
  <2>2. Told' /\ Read' /\ TerminalHere' /\ Gone' BY <1>4, <1>5, <2>1 DEF Told, Read, TerminalHere, Gone, Speaking
  <2> QED BY <1>3, <2>1, <2>2
<1>7. CASE AppendMessage
  <2>1. talk.at = "told" /\ talk'.at = "acting" /\ talk'.told = talk.told /\ UNCHANGED <<terminal, http>>
    BY <1>7 DEF AppendMessage, Talks
  <2>2. conversation' = conversation BY <1>4, <1>7, <2>1 DEF AppendMessage, Told, Speaking
  <2>3. conversation.there BY <2>1 DEF Told, Speaking
  <2>4. Told' /\ Read' /\ TerminalHere' /\ Gone' BY <2>1, <2>2, <2>3 DEF Told, Read, TerminalHere, Gone, Speaking
  <2>5. \A q : Fresh(q) => Fresh(q)' BY <2>1 DEF Fresh, Speaking
  <2> QED BY <2>1, <2>4, <2>5
<1>8. CASE SetGeneratedChatSessionTitle
  <2>1. UNCHANGED <<stored, talk, terminal, http>> BY <1>8 DEF SetGeneratedChatSessionTitle
  <2>2. conversation'.there = conversation.there /\ conversation'.workspace = conversation.workspace
    BY <1>8 DEF SetGeneratedChatSessionTitle, Rows
  <2>3. Told' /\ Read' /\ TerminalHere' /\ Gone' BY <2>1, <2>2 DEF Told, Read, TerminalHere, Gone, Speaking
  <2>4. \A q : Fresh(q) => Fresh(q)' BY <2>1, FreshStays
  <2> QED BY <2>1, <2>3, <2>4
<1>9. CASE SessionWorkspace
  <2>1. /\ talk.at = "acting" /\ talk'.at = "tool" /\ talk'.told = talk.told /\ talk'.seen = conversation.workspace
        /\ UNCHANGED <<conversation, stored, terminal>> /\ http' = Overtaken(http)
    BY <1>9 DEF SessionWorkspace, Talks
  <2>2. Told' /\ Read' /\ TerminalHere' /\ Gone' BY <2>1 DEF Told, Read, TerminalHere, Gone, Speaking
  <2> QED BY <1>3, <2>1, <2>2
<1>10. CASE EndTool
  <2>1. /\ talk.at = "tool" /\ talk'.at = "acting" /\ talk'.told = talk.told
        /\ UNCHANGED conversation
    BY <1>10 DEF EndTool, Talks
  <2>2. conversation.there BY <2>1 DEF Told, Speaking
  <2>3. terminal' = terminal \/ (talk.seen # NoWorkspace /\ terminal' = talk.seen /\ http' = Overtaken(http))
    BY <1>10 DEF EndTool
  <2>4. terminal' # NoWorkspace => conversation.workspace = terminal' BY <2>1, <2>3 DEF Read, TerminalHere
  <2>5. Told' /\ Read' /\ TerminalHere' /\ Gone' BY <2>1, <2>2, <2>4 DEF Told, Read, TerminalHere, Gone, Speaking
  <2>6. CASE http' = Overtaken(http) BY <1>3, <2>5, <2>6
  <2>7. CASE UNCHANGED <<terminal, http>>
    <3>1. \A q : Fresh(q) => Fresh(q)' BY <2>1, <2>7 DEF Fresh, Speaking
    <3> QED BY <2>5, <2>7, <3>1
  <2> QED BY <1>10, <2>6, <2>7 DEF EndTool
<1>11. CASE EndTalk
  <2>1. talk.at \in {"told", "acting"} /\ talk'.at = "off" /\ UNCHANGED <<terminal, http>>
    BY <1>11 DEF EndTalk, Silent
  <2>2. conversation.there BY <2>1 DEF Told, Speaking
  <2>3. conversation' = conversation BY <1>4, <1>11, <2>2 DEF EndTalk
  <2>4. Told' /\ Read' /\ TerminalHere' /\ Gone' BY <2>1, <2>2, <2>3 DEF Told, Read, TerminalHere, Gone, Speaking
  <2>5. \A q : Fresh(q) => Fresh(q)' BY <2>1 DEF Fresh, Speaking
  <2> QED BY <2>1, <2>4, <2>5
<1>12. CASE CloseTerminal
  <2>1. terminal' = NoWorkspace /\ UNCHANGED <<conversation, stored, talk, http>> BY <1>12 DEF CloseTerminal
  <2>2. Told' /\ Read' /\ TerminalHere' /\ Gone' BY <2>1 DEF Told, Read, TerminalHere, Gone, Speaking
  <2>3. \A q : Fresh(q) => Fresh(q)' BY <2>1 DEF Fresh, Speaking
  <2> QED BY <2>1, <2>2, <2>3
<1> QED BY <1>6, <1>7, <1>8, <1>9, <1>10, <1>11, <1>12

\* Every step keeps the invariant.
LEMMA ConversationGoesOn == ASSUME ConversationInv, [ConversationNext]_conversationVars PROVE ConversationInv'
<1>1. CASE ConversationNext
  <2> USE <1>1
  <2>1. RowTypes' BY ConversationActor, RequestTypes, TalkTypes DEF ConversationInv
  <2>2. NameKept' BY NameStays
  <2>3. Untouched'
    <3>1. CASE overlapped' BY <3>1 DEF Untouched
    <3>2. CASE ~overlapped'
      <4>1. ~overlapped BY <3>2, OverlapStays DEF ConversationInv
      <4> QED BY <3>2, <4>1, ConversationActor, LookingKeeps, WritingKeeps, TalkingKeeps
    <3> QED BY <3>1, <3>2
  <2> QED BY <2>1, <2>2, <2>3 DEF ConversationInv
<1>2. CASE UNCHANGED conversationVars
  <2>1. UNCHANGED <<conversation, stored, talk, namer, terminal, http, talks, renamed, overlapped>> BY <1>2 DEF conversationVars
  <2> QED BY <2>1 DEF ConversationInv, RowTypes, NameKept, Untouched, Told, Read, TerminalHere, Gone, Fresh, Speaking
<1> QED BY <1>1, <1>2

\* The invariant of a conversation holds of every state of every behaviour.
THEOREM ConversationInvariant == ConversationSpec => []ConversationInv
<1>1. ConversationInit => ConversationInv BY ConversationBegins
<1>2. ConversationInv /\ [ConversationNext]_conversationVars => ConversationInv' BY ConversationGoesOn
<1> QED BY <1>1, <1>2, PTL DEF ConversationSpec

\* The invariant keeps a conversation.
LEMMA InvKeepsConversation == ConversationInv => ConversationIsKept
  BY DEF ConversationInv, ConversationIsKept, ConversationTypes, RowTypes, Rows, Talks, NameKept, Untouched, Told, TerminalHere, Gone, Speaking

\* The name an operator gave stays until the conversation is deleted.  As long as no request
\* writes what it checked before a turn or a terminal began, a turn keeps the Workspace it was
\* told of, a terminal is in its conversation's Workspace, and a deleted conversation leaves
\* no row in any table.
THEOREM ConversationKept == ConversationSpec => []ConversationIsKept
<1>1. ConversationInv => ConversationIsKept BY InvKeepsConversation
<1> QED BY <1>1, ConversationInvariant, PTL

-----------------------------------------------------------------------------
(* The inductive invariant of a context *)

Roles    == {"user", "tool", "reasoning", "assistant"}
Statuses == {"none", "pending", "waiting_for_approval", "completed", "failed"}
ChatRows(n)  == [id : 1..n, turn : Questions, role : Roles]

\* A context of the first n rows.
ContextOf(n, c) ==
  /\ c = [covered |-> c.covered, kept |-> c.kept]
  /\ c.covered \subseteq 1..n /\ DOMAIN c.kept \subseteq 1..n
  /\ c.kept \in [DOMAIN c.kept -> SUBSET (1..n)]

\* The active session, or none.
Session(q, n) ==
  /\ q = [kind |-> q.kind, turn |-> q.turn, context |-> q.context, boundary |-> q.boundary,
          settled |-> q.settled, fresh |-> q.fresh]
  /\ q.kind \in {"none", "turn", "compress"} /\ q.turn \in 0..MaxTurns
  /\ q.kind = "turn" => q.turn \in Questions
  /\ ContextOf(n, q.context) /\ q.boundary \in 0..n
  /\ q.settled \in BOOLEAN /\ q.fresh \in BOOLEAN

\* The contexts that are made.
Saved(ck, n) ==
  /\ DOMAIN ck = Questions /\ ck = [t \in Questions |-> ck[t]]
  /\ \A t \in Questions : ContextOf(n, ck[t])

SummaryOf(s, n) ==
  /\ s = [through |-> s.through, covers |-> s.covers]
  /\ s.through \in 0..n /\ s.covers \subseteq 1..n

StateTypes ==
  /\ lastRow \in Nat /\ rows \in SUBSET ChatRows(lastRow) /\ status \in [Questions -> Statuses]
  /\ SummaryOf(summary, lastRow) /\ Session(query, lastRow) /\ Saved(checkpoint, lastRow)
  /\ undecided \subseteq Questions /\ left \subseteq Questions /\ failures \in 0..MaxFailures

-----------------------------------------------------------------------------
(* The order of the rows. *)

RowsOf(R, t) == {r \in R : r.turn = t}
Users(R)     == {r \in R : r.role = "user"}

\* ChatRows in the order of their turns, each turn after its question.
Orderly(R) ==
  /\ \A r, s \in R : r.id = s.id => r = s
  /\ \A r, s \in R : r.turn < s.turn => r.id < s.id
  /\ \A r, s \in Users(R) : r.turn = s.turn => r = s
  /\ \A r \in R : \E q \in Users(R) : q.turn = r.turn /\ q.id <= r.id

Finished(st, t)   == st[t] \in {"completed", "failed"}
InProgress(st, t) == st[t] \in {"pending", "waiting_for_approval"}
Began(st, t)      == st[t] # "none"

\* No prune removes the turn, now or later.
Solid(R, st, t) ==
  \/ st[t] = "completed"
  \/ st[t] = "failed" /\ \E r \in R : r.turn = t /\ r.role \in {"tool", "assistant"}

\* Turns come one after the other, and only the last one may have nothing to show.
InOrder(R, st) ==
  /\ Orderly(R)
  /\ \A t, u \in Questions : u < t /\ Began(st, t) => Finished(st, u)
  /\ \A r \in R : Began(st, r.turn)
  /\ \A r \in R : \A t \in Questions : r.turn < t /\ Began(st, t) => Solid(R, st, r.turn)
  /\ \A t \in Questions : InProgress(st, t) => \E q \in Users(R) : q.turn = t

AllSolid(R, st) == \A r \in R : Solid(R, st, r.turn)

\* The session and the made contexts are of the unfinished turn.
SessionStory ==
  /\ query.kind = "turn" => InProgress(status, query.turn)
  /\ query.kind = "none" => query = Idle
  /\ \A t \in Questions : checkpoint[t] # NoContext =>
       InProgress(status, t) /\ \E r \in rows : r.turn = t /\ r.role = "tool"
  /\ failures = 0 /\ query.kind # "turn" => AllSolid(rows, status)

\* A boundary between two turns.
Between(R, m) == \A r, s \in R : r.turn = s.turn => (r.id <= m <=> s.id <= m)

\* The summary tells of the rows up to the end of a turn that stays.
SummaryFits(s, R, st) ==
  /\ \A r \in R : r.id <= s.through <=> r.id \in s.covers
  /\ Between(R, s.through)
  /\ s # NoSummary => \E r \in R : r.id = s.through /\ Solid(R, st, r.turn)

\* The questions of solid turns after m.
SolidAfter(R, st, m) == {q.id : q \in {u \in Users(R) : Solid(R, st, u.turn) /\ u.id > m}}

\* No more questions than stay; and, without failures, no less.
Few        == Cardinality(SolidAfter(rows, status, summary.through)) <= Preserve
CountStory == failures = 0 /\ summary # NoSummary => Cardinality(SolidAfter(rows, status, summary.through)) >= Preserve

\* The context of turn t tells of the rows up to m in short and of the others in full, of
\* its own turn maybe not all.
Fits(c, R, t, m) ==
  /\ Between(R, m)
  /\ \A r \in R : r.id \in c.covered <=> r.id <= m
  /\ \A r \in R : r.turn = t => r.id > m
  /\ DOMAIN c.kept = {q.id : q \in {u \in Users(R) : u.id > m}}
  /\ \A u \in Users(R) : u.id > m =>
       IF u.turn = t THEN c.kept[u.id] \subseteq Ids(RowsOf(R, t)) ELSE c.kept[u.id] = Ids(RowsOf(R, u.turn))

Others(R, t, m) == {q.id : q \in {u \in Users(R) : u.id > m /\ u.turn # t}}

\* The boundary b ends the questions that a compression of turn t takes.
Splits(b, R, t, m) ==
  /\ \E r \in R : r.id = b /\ r.turn # t
  /\ \A u \in Users(R) : u.id > m /\ u.turn # t =>
       \A r \in RowsOf(R, u.turn) : r.id <= b <=> u.id \in AllBut(Preserve, Others(R, t, m))

FreshStory ==
  query.kind = "turn" /\ query.fresh =>
    /\ \E m \in 0..lastRow : Fits(query.context, rows, query.turn, m)
    /\ \A u \in Users(rows) : u.turn = query.turn => query.context.kept[u.id] = Ids(RowsOf(rows, u.turn))
    /\ failures = 0 /\ query.context.covered # {} => Cardinality(DOMAIN query.context.kept) > Preserve

SplitStory ==
  query.kind = "turn" =>
    /\ Fits(query.context, rows, query.turn, summary.through) \/ (Few /\ (query.settled \/ query.boundary = 0))
    /\ query.boundary # 0 /\ ~query.settled => Splits(query.boundary, rows, query.turn, summary.through)

CheckpointStory ==
  \A t \in Questions : checkpoint[t] # NoContext => Fits(checkpoint[t], rows, t, summary.through) \/ Few

CompressStory ==
  query.kind = "compress" =>
    query.context = buildModelContext(rows) /\ query.boundary = BoundaryOf(query.context.kept) /\ query.boundary # 0

Whole ==
  /\ InOrder(rows, status) /\ SessionStory /\ SummaryFits(summary, rows, status) /\ CountStory
  /\ FreshStory /\ SplitStory /\ CheckpointStory /\ CompressStory

ContextInv == StateTypes /\ (left = {} => Whole)

-----------------------------------------------------------------------------
(* Ranks: how many members of a finite set of numbers are greater. *)

Above(D, s) == {u \in D : u > s}

\* What a set of natural numbers with a bound is.
LEMMA FiniteIds ==
  ASSUME NEW n \in Nat, NEW D \in SUBSET (1..n)
  PROVE  /\ IsFiniteSet(D) /\ Cardinality(D) \in Nat
         /\ \A s \in D : s \in Nat /\ IsFiniteSet(Above(D, s)) /\ Cardinality(Above(D, s)) \in Nat
  <1>1. IsFiniteSet(1..n)
    BY FS_Interval
  <1>2. IsFiniteSet(D)
    BY <1>1, FS_Subset
  <1>3. \A s \in D : Above(D, s) \in SUBSET D
    BY DEF Above
  <1>4. \A s \in D : IsFiniteSet(Above(D, s))
    BY <1>2, <1>3, FS_Subset
  <1> QED
    BY <1>2, <1>4, FS_CardinalityType

\* Ranks fall strictly as the numbers grow, and are less than the size of the set.
LEMMA RanksFall ==
  ASSUME NEW n \in Nat, NEW D \in SUBSET (1..n)
  PROVE  /\ \A s, u \in D : s < u => Cardinality(Above(D, u)) < Cardinality(Above(D, s))
         /\ \A s \in D : Cardinality(Above(D, s)) < Cardinality(D)
  <1>1. ASSUME NEW s \in D, NEW u \in D, s < u
        PROVE  Cardinality(Above(D, u)) < Cardinality(Above(D, s))
    <2>1. Above(D, u) \in SUBSET Above(D, s) /\ u \in Above(D, s) /\ u \notin Above(D, u)
      <3>1. D \subseteq Nat
        OBVIOUS
      <3>2. \A v \in D : v > u => v > s
        BY <1>1, <3>1
      <3>3. ~(u > u) /\ u > s
        BY <1>1, <3>1
      <3> QED
        BY <3>2, <3>3 DEF Above
    <2>2. /\ IsFiniteSet(Above(D, s))
          /\ Cardinality(Above(D, s)) \in Nat /\ Cardinality(Above(D, u)) \in Nat
      BY FiniteIds
    <2>3. /\ Cardinality(Above(D, u)) <= Cardinality(Above(D, s))
          /\ Cardinality(Above(D, s)) = Cardinality(Above(D, u)) => Above(D, s) = Above(D, u)
      BY <2>1, <2>2, FS_Subset
    <2>4. Above(D, s) # Above(D, u)
      BY <2>1
    <2> QED
      BY <2>2, <2>3, <2>4
  <1>2. ASSUME NEW s \in D
        PROVE  Cardinality(Above(D, s)) < Cardinality(D)
    <2>1. Above(D, s) \in SUBSET D /\ s \in D /\ s \notin Above(D, s)
      BY <1>2 DEF Above
    <2>2. IsFiniteSet(D) /\ Cardinality(D) \in Nat /\ Cardinality(Above(D, s)) \in Nat
      BY FiniteIds
    <2>3. /\ Cardinality(Above(D, s)) <= Cardinality(D)
          /\ Cardinality(D) = Cardinality(Above(D, s)) => D = Above(D, s)
      BY <2>1, <2>2, FS_Subset
    <2> QED
      BY <2>1, <2>2, <2>3
  <1> QED
    BY <1>1, <1>2

\* The ranks are the numbers below the size of the set, each of one member.
LEMMA RanksCount ==
  ASSUME NEW n \in Nat, NEW D \in SUBSET (1..n)
  PROVE  [s \in D |-> Cardinality(Above(D, s))] \in Bijection(D, 0..(Cardinality(D) - 1))
  <1> DEFINE f == [s \in D |-> Cardinality(Above(D, s))]
             T == 0..(Cardinality(D) - 1)
  <1>1. IsFiniteSet(D) /\ Cardinality(D) \in Nat /\ \A s \in D : Cardinality(Above(D, s)) \in Nat
    BY FiniteIds
  <1>2. f \in [D -> T]
    <2>1. \A s \in D : Cardinality(Above(D, s)) < Cardinality(D)
      BY RanksFall
    <2>2. \A s \in D : Cardinality(Above(D, s)) \in T
      BY <1>1, <2>1
    <2> QED
      BY <2>2
  <1>3. \A s, u \in D : f[s] = f[u] => s = u
    <2>1. ASSUME NEW s \in D, NEW u \in D, s # u
          PROVE  f[s] # f[u]
      <3>1. s < u \/ u < s
        BY <2>1
      <3>2. \/ Cardinality(Above(D, u)) < Cardinality(Above(D, s))
            \/ Cardinality(Above(D, s)) < Cardinality(Above(D, u))
        BY <3>1, RanksFall
      <3>3. Cardinality(Above(D, u)) # Cardinality(Above(D, s))
        BY <3>2, <1>1
      <3> QED
        BY <3>3
    <2> QED
      BY <2>1
  <1>4. f \in Injection(D, T)
    BY <1>2, <1>3 DEF Injection, IsInjective
  <1>5. IsFiniteSet(T) /\ Cardinality(T) = Cardinality(D)
    <2>1. 0 \in Int /\ Cardinality(D) - 1 \in Int
      BY <1>1
    <2>2. IsFiniteSet(T) /\ Cardinality(T) = IF 0 > Cardinality(D) - 1 THEN 0 ELSE Cardinality(D) - 1 - 0 + 1
      BY <2>1, FS_Interval
    <2> QED
      BY <2>2, <1>1
  <1>6. f \in Surjection(D, T)
    BY <1>4, <1>5, FS_Injection
  <1> QED
    BY <1>4, <1>6 DEF Bijection

\* What AllBut leaves are k members, or all when there are fewer.
LEMMA AllButLeaves ==
  ASSUME NEW n \in Nat, NEW D \in SUBSET (1..n), NEW k \in Nat
  PROVE  Cardinality(D \ AllBut(k, D)) = IF Cardinality(D) > k THEN k ELSE Cardinality(D)
  <1> DEFINE f == [s \in D |-> Cardinality(Above(D, s))]
             c == Cardinality(D)
             m == IF c > k THEN k ELSE c
             L == D \ AllBut(k, D)
             g == [s \in L |-> Cardinality(Above(D, s))]
  <1>1. c \in Nat /\ IsFiniteSet(D) /\ \A s \in D : Cardinality(Above(D, s)) \in Nat
    BY FiniteIds
  <1>2. f \in Bijection(D, 0..(c - 1))
    BY RanksCount
  <1>3. L = {s \in D : Cardinality(Above(D, s)) < k}
    <2>1. AllBut(k, D) = {s \in D : Cardinality(Above(D, s)) >= k}
      BY DEF AllBut, Above
    <2>2. \A s \in D : Cardinality(Above(D, s)) >= k <=> ~(Cardinality(Above(D, s)) < k)
      BY <1>1
    <2> QED
      BY <2>1, <2>2
  <1>4. /\ f \in [D -> 0..(c - 1)]
        /\ \A s, u \in D : f[s] = f[u] => s = u
        /\ \A i \in 0..(c - 1) : \E s \in D : f[s] = i
    BY <1>2 DEF Bijection, Injection, Surjection, IsInjective
  <1>5. m \in Nat /\ m <= c /\ m <= k
    BY <1>1
  <1>6. \A s \in L : g[s] = f[s] /\ f[s] \in 0..(c - 1) /\ f[s] < k
    BY <1>3, <1>4
  <1>7. \A s \in L : g[s] \in 0..(m - 1)
    BY <1>6, <1>5, <1>1
  <1>8. g \in [L -> 0..(m - 1)]
    BY <1>7
  <1>9. \A s, u \in L : g[s] = g[u] => s = u
    BY <1>6, <1>4
  <1>10. \A i \in 0..(m - 1) : \E s \in L : g[s] = i
    <2>1. TAKE i \in 0..(m - 1)
    <2>2. i \in 0..(c - 1) /\ i < k
      BY <1>5, <1>1
    <2>3. PICK s \in D : f[s] = i
      BY <2>2, <1>4
    <2>4. s \in L
      BY <2>2, <2>3, <1>3
    <2> QED
      BY <2>3, <2>4, <1>6
  <1>11. g \in Injection(L, 0..(m - 1)) /\ g \in Surjection(L, 0..(m - 1))
    BY <1>8, <1>9, <1>10 DEF Injection, Surjection, IsInjective
  <1>12. g \in Bijection(L, 0..(m - 1))
    BY <1>11 DEF Bijection
  <1>13. IsFiniteSet(L)
    <2>1. L \in SUBSET D
      BY DEF AllBut
    <2> QED
      BY <2>1, <1>1, FS_Subset
  <1>14. Cardinality(0..(m - 1)) = Cardinality(L)
    BY <1>12, <1>13, FS_Bijection DEF ExistsBijection
  <1>15. Cardinality(0..(m - 1)) = m
    <2>1. 0 \in Int /\ m - 1 \in Int
      BY <1>5
    <2>2. Cardinality(0..(m - 1)) = IF 0 > m - 1 THEN 0 ELSE m - 1 - 0 + 1
      BY <2>1, FS_Interval
    <2> QED
      BY <2>2, <1>5
  <1> QED
    BY <1>14, <1>15

\* AllBut takes the least members.
LEMMA AllButBelow ==
  ASSUME NEW n \in Nat, NEW D \in SUBSET (1..n), NEW k \in Nat,
         NEW s \in AllBut(k, D), NEW u \in D, u <= s
  PROVE  u \in AllBut(k, D)
  <1>1. s \in D /\ Cardinality(Above(D, s)) >= k
    BY DEF AllBut, Above
  <1>2. Cardinality(Above(D, s)) \in Nat /\ Cardinality(Above(D, u)) \in Nat
    BY FiniteIds, <1>1
  <1>3. u = s \/ Cardinality(Above(D, s)) < Cardinality(Above(D, u))
    <2>1. u = s \/ u < s
      BY <1>1
    <2> QED
      BY <2>1, RanksFall, <1>1
  <1>4. Cardinality(Above(D, u)) >= k
    BY <1>1, <1>2, <1>3
  <1> QED
    BY <1>4 DEF AllBut, Above

\* A finite set of numbers has a greatest member.
LEMMA Greatest ==
  ASSUME NEW n \in Nat, NEW D \in SUBSET (1..n), D # {}
  PROVE  Max(D) \in D /\ \A u \in D : u <= Max(D)
  <1>1. Cardinality(D) \in Nat /\ Cardinality(D) # 0
    BY FiniteIds, FS_EmptySet
  <1>2. \E s \in D : Cardinality(Above(D, s)) = 0
    <2>1. 0 \in 0..(Cardinality(D) - 1)
      BY <1>1
    <2> QED
      BY <2>1, RanksCount DEF Bijection, Surjection
  <1>3. PICK s \in D : Above(D, s) = {}
    BY <1>2, FiniteIds, FS_EmptySet
  <1>4. \A u \in D : s >= u
    BY <1>3 DEF Above
  <1>5. /\ Max(D) \in D
        /\ \A u \in D : Max(D) >= u
    BY <1>4 DEF Max
  <1> QED
    BY <1>5

\* The greatest member is not one that AllBut takes.
LEMMA AllButSpares ==
  ASSUME NEW n \in Nat, NEW D \in SUBSET (1..n), NEW k \in Nat \ {0}, NEW s \in AllBut(k, D)
  PROVE  s \in D /\ \E u \in D : u > s
  <1>1. s \in D /\ Cardinality(Above(D, s)) >= k
    BY DEF AllBut, Above
  <1>2. Cardinality(Above(D, s)) # 0
    BY <1>1, FiniteIds
  <1>3. Above(D, s) # {}
    BY <1>2, FS_EmptySet
  <1> QED
    BY <1>1, <1>3 DEF Above

\* A member greater than all others counts as one more that stays.
LEMMA AllButOwn ==
  ASSUME NEW n \in Nat, NEW E \in SUBSET (1..n), NEW k \in Nat, NEW o \in Nat, \A u \in E : u < o
  PROVE  AllBut(k + 1, E \cup {o}) = AllBut(k, E)
  <1> DEFINE D == E \cup {o}
  <1>1. \A s \in E : Above(D, s) = Above(E, s) \cup {o} /\ o \notin Above(E, s)
    BY DEF Above
  <1>2. \A s \in E : Cardinality(Above(D, s)) = Cardinality(Above(E, s)) + 1
    <2>1. TAKE s \in E
    <2>2. IsFiniteSet(Above(E, s))
      BY FiniteIds
    <2> QED
      BY <2>2, <1>1, FS_AddElement
  <1>3. Above(D, o) = {}
    <2>1. \A u \in D : u = o \/ u < o
      OBVIOUS
    <2>2. \A u \in D : u \in Nat
      OBVIOUS
    <2>3. \A u \in D : ~(u > o)
      BY <2>1, <2>2
    <2> QED
      BY <2>3 DEF Above
  <1>4. Cardinality(Above(D, o)) = 0
    BY <1>3, FS_EmptySet
  <1>5. \A s \in E : Cardinality(Above(E, s)) \in Nat
    BY FiniteIds
  <1>6. \A s \in E : Cardinality(Above(D, s)) >= k + 1 <=> Cardinality(Above(E, s)) >= k
    <2>1. TAKE s \in E
    <2>2. Cardinality(Above(D, s)) = Cardinality(Above(E, s)) + 1 /\ Cardinality(Above(E, s)) \in Nat
      BY <1>2, <1>5
    <2> HIDE DEF D
    <2> QED
      BY <2>2
  <1>7. \A s \in D : s \in AllBut(k + 1, D) <=> s \in AllBut(k, E)
    <2>1. TAKE s \in D
    <2>2. CASE s \in E
      BY <2>2, <1>6 DEF AllBut, Above
    <2>3. CASE s = o
      <3>1. s \notin E
        BY <2>3
      <3>2. ~(Cardinality(Above(D, s)) >= k + 1)
        BY <1>4, <2>3
      <3> QED
        BY <3>1, <3>2 DEF AllBut, Above
    <2> QED
      BY <2>2, <2>3
  <1> QED
    BY <1>7 DEF AllBut

\* AllBut takes something exactly when there are more members than stay.
LEMMA AllButSome ==
  ASSUME NEW n \in Nat, NEW D \in SUBSET (1..n), NEW k \in Nat
  PROVE  AllBut(k, D) # {} <=> Cardinality(D) > k
  <1>1. IsFiniteSet(D) /\ Cardinality(D) \in Nat
    BY FiniteIds
  <1>2. AllBut(k, D) \subseteq D
    BY DEF AllBut
  <1>3. CASE Cardinality(D) > k
    <2>1. Cardinality(D \ AllBut(k, D)) = k
      BY <1>3, AllButLeaves
    <2>2. Cardinality(D \ AllBut(k, D)) # Cardinality(D)
      BY <2>1, <1>3, <1>1
    <2>3. AllBut(k, D) # {}
      <3>1. ASSUME AllBut(k, D) = {} PROVE D \ AllBut(k, D) = D
        BY <3>1
      <3> QED
        BY <3>1, <2>2
    <2> QED
      BY <2>3, <1>3
  <1>4. CASE ~(Cardinality(D) > k)
    <2>1. Cardinality(D \ AllBut(k, D)) = Cardinality(D)
      BY <1>4, AllButLeaves
    <2>2. D \ AllBut(k, D) \in SUBSET D
      OBVIOUS
    <2>3. D = D \ AllBut(k, D)
      BY <2>1, <2>2, <1>1, FS_Subset
    <2>4. AllBut(k, D) = {}
      BY <2>3, <1>2
    <2> QED
      BY <2>4, <1>4
  <1> QED
    BY <1>3, <1>4

-----------------------------------------------------------------------------
(* The rows of a conversation. *)

\* What a row is.
LEMMA RowFields ==
  ASSUME NEW n \in Nat, NEW R \in SUBSET ChatRows(n), NEW r \in R
  PROVE  r.id \in 1..n /\ r.id \in Nat /\ r.turn \in Questions /\ r.turn \in Nat /\ r.role \in Roles
  <1>1. r \in ChatRows(n)
    OBVIOUS
  <1>2. r.id \in 1..n /\ r.turn \in Questions /\ r.role \in Roles
    BY <1>1 DEF ChatRows
  <1>3. \A t \in Questions : t \in Nat
    BY ContextConstants DEF Questions
  <1>4. \A i \in 1..n : i \in Nat
    OBVIOUS
  <1> QED
    BY <1>2, <1>3, <1>4

\* The order of two rows is the order of their turns, with the question of a turn first.
LEMMA RowOrder ==
  ASSUME NEW n \in Nat, NEW R \in SUBSET ChatRows(n), Orderly(R)
  PROVE  /\ \A r, s \in R : r.id = s.id => r = s
         /\ \A r, s \in R : r.turn < s.turn => r.id < s.id
         /\ \A r, s \in R : r.id < s.id => r.turn <= s.turn
         /\ \A q \in Users(R) : \A r \in R : r.turn >= q.turn <=> r.id >= q.id
         /\ \A q \in Users(R) : q \in R /\ q.role = "user"
         /\ \A q, u \in Users(R) : q.turn = u.turn => q = u
         /\ \A r \in R : \E q \in Users(R) : q.turn = r.turn /\ q.id <= r.id
  <1>1. \A r \in R : r.id \in Nat /\ r.turn \in Nat
    BY RowFields
  <1>2. /\ \A r, s \in R : r.id = s.id => r = s
        /\ \A r, s \in R : r.turn < s.turn => r.id < s.id
        /\ \A q, u \in Users(R) : q.turn = u.turn => q = u
        /\ \A r \in R : \E q \in Users(R) : q.turn = r.turn /\ q.id <= r.id
    BY DEF Orderly
  <1>3. \A q \in Users(R) : q \in R /\ q.role = "user"
    BY DEF Users
  <1>4. \A r, s \in R : r.id < s.id => r.turn <= s.turn
    <2>1. TAKE r, s \in R
    <2>2. s.turn < r.turn => s.id < r.id
      BY <1>2
    <2> QED
      BY <2>2, <1>1
  <1>5. ASSUME NEW q \in Users(R), NEW r \in R
        PROVE  r.turn >= q.turn <=> r.id >= q.id
    <2>1. q \in R
      BY <1>3
    <2>2. r.turn < q.turn => r.id < q.id
      BY <1>2, <2>1
    <2>3. q.turn < r.turn => q.id < r.id
      BY <1>2, <2>1
    <2>4. r.turn = q.turn => q.id <= r.id
      <3>1. PICK u \in Users(R) : u.turn = r.turn /\ u.id <= r.id
        BY <1>2
      <3>2. r.turn = q.turn => u = q
        BY <3>1, <1>2
      <3> QED
        BY <3>1, <3>2
    <2>5. r.id \in Nat /\ r.turn \in Nat /\ q.id \in Nat /\ q.turn \in Nat
      BY <1>1, <2>1
    <2> QED
      BY <2>2, <2>3, <2>4, <2>5
  <1> QED
    BY <1>2, <1>3, <1>4, <1>5

\* The group of a question begins with the rows of its turn, and is no more than them when
\* every later question comes after one that ends the group.
LEMMA GroupOf ==
  ASSUME NEW n \in Nat, NEW R \in SUBSET ChatRows(n), Orderly(R),
         NEW H \in SUBSET R, NEW q \in Users(H), RowsOf(R, q.turn) \subseteq H
  PROVE  /\ RowsOf(R, q.turn) \subseteq Following(H, Users(H), q)
         /\ (\A u \in Users(R) : u.id > q.id => \E v \in Users(H) : q.id < v.id /\ v.id <= u.id)
              => Following(H, Users(H), q) = RowsOf(R, q.turn)
  <1>1. \A r \in R : r.id \in Nat /\ r.turn \in Nat
    BY RowFields
  <1>2. \A u \in Users(H) : u \in Users(R) /\ u \in R
    BY DEF Users
  <1>3. ASSUME NEW r \in RowsOf(R, q.turn)
        PROVE  r \in Following(H, Users(H), q)
    <2>1. r \in R /\ r \in H /\ r.turn = q.turn
      BY <1>3 DEF RowsOf
    <2>2. r.id >= q.id
      BY <2>1, <1>1, <1>2, RowOrder
    <2>3. ASSUME NEW other \in Users(H), other.id > q.id
          PROVE  r.id < other.id
      <3>1. other \in Users(R) /\ q \in Users(R) /\ other \in R /\ q \in R
        BY <1>2
      <3>2. other.turn # q.turn
        <4>1. other.turn = q.turn => other = q
          BY <3>1, RowOrder
        <4>2. other # q
          BY <2>3, <3>1, <1>1
        <4> QED
          BY <4>1, <4>2
      <3>3. other.turn >= q.turn
        BY <3>1, <2>3, <1>1, RowOrder
      <3>4. r.turn < other.turn
        BY <3>2, <3>3, <2>1, <3>1, <1>1
      <3> QED
        BY <3>4, <2>1, <3>1, RowOrder
    <2> QED
      BY <2>1, <2>2, <2>3 DEF Following
  <1>4. ASSUME \A u \in Users(R) : u.id > q.id => \E v \in Users(H) : q.id < v.id /\ v.id <= u.id,
               NEW r \in Following(H, Users(H), q)
        PROVE  r \in RowsOf(R, q.turn)
    <2>1. r \in R /\ r.id >= q.id /\ \A other \in Users(H) : other.id > q.id => r.id < other.id
      BY <1>4 DEF Following
    <2>2. r.turn >= q.turn
      BY <2>1, <1>2, RowOrder
    <2>3. ~(r.turn > q.turn)
      <3>1. SUFFICES ASSUME r.turn > q.turn PROVE FALSE
        OBVIOUS
      <3>2. PICK u \in Users(R) : u.turn = r.turn /\ u.id <= r.id
        BY <2>1, RowOrder
      <3>3. u \in R /\ q \in R
        BY <1>2, RowOrder
      <3>4. u.id > q.id
        <4>1. q.turn < u.turn
          BY <3>1, <3>2, <3>3, <2>1, <1>1
        <4>2. q.id < u.id
          BY <4>1, <3>3, RowOrder
        <4> QED
          BY <4>2, <3>3, <1>1
      <3>5. PICK v \in Users(H) : q.id < v.id /\ v.id <= u.id
        BY <3>4, <1>4
      <3>6. v \in R
        BY <1>2
      <3>7. v.id > q.id
        BY <3>5, <3>6, <3>3, <1>1
      <3>8. r.id < v.id
        BY <2>1, <3>7
      <3> QED
        BY <3>8, <3>5, <3>2, <2>1, <3>3, <3>6, <1>1
    <2>4. r.turn = q.turn
      BY <2>2, <2>3, <2>1, <1>1, <1>2
    <2> QED
      BY <2>1, <2>4 DEF RowsOf
  <1> QED
    BY <1>3, <1>4

\* The turns that a prune removes are the failed ones with nothing to show.
LEMMA ExcludedTurns ==
  ASSUME NEW n \in Nat, NEW R \in SUBSET ChatRows(n), NEW st, Orderly(R)
  PROVE  excludedChatTurns(R, st) = {r \in R : st[r.turn] = "failed" /\ ~Solid(R, st, r.turn)}
  <1>1. ASSUME NEW q \in Users(R)
        PROVE  Following(R, Users(R), q) = RowsOf(R, q.turn)
    <2>1. RowsOf(R, q.turn) \subseteq R
      BY DEF RowsOf
    <2>2. \A u \in Users(R) : u.id > q.id => q.id < u.id /\ u.id <= u.id
      BY RowFields DEF Users
    <2> QED
      BY <2>1, <2>2, GroupOf
  <1> DEFINE Empty(u) == st[u.turn] = "failed" /\ \A r \in Following(R, Users(R), u) : r.role \notin {"tool", "assistant"}
  <1>2. excludedChatTurns(R, st) = UNION {Following(R, Users(R), q) : q \in {u \in Users(R) : Empty(u)}}
    BY DEF excludedChatTurns, Users
  <1>3. \A u \in Users(R) : Empty(u) <=> st[u.turn] = "failed" /\ ~Solid(R, st, u.turn)
    BY <1>1 DEF Solid, RowsOf
  <1>4. ASSUME NEW r \in excludedChatTurns(R, st)
        PROVE  r \in R /\ st[r.turn] = "failed" /\ ~Solid(R, st, r.turn)
    <2>1. PICK q \in Users(R) : Empty(q) /\ r \in Following(R, Users(R), q)
      BY <1>2, <1>4
    <2>2. r \in R /\ r.turn = q.turn
      BY <2>1, <1>1 DEF RowsOf
    <2> QED
      BY <2>1, <2>2, <1>3
  <1>5. ASSUME NEW r \in R, st[r.turn] = "failed", ~Solid(R, st, r.turn)
        PROVE  r \in excludedChatTurns(R, st)
    <2>1. PICK q \in Users(R) : q.turn = r.turn
      BY RowOrder
    <2>2. Empty(q)
      BY <2>1, <1>3, <1>5
    <2>3. r \in Following(R, Users(R), q)
      BY <2>1, <1>1 DEF RowsOf
    <2> QED
      BY <2>2, <2>3, <1>2
  <1> QED
    BY <1>4, <1>5

-----------------------------------------------------------------------------
(* The prepared turns of a history. *)

\* Whatever the history is, each message that leads a group is one of it.
LEMMA PreparedShape ==
  ASSUME NEW n \in Nat, NEW H \in SUBSET ChatRows(n)
  PROVE  LET K == preparedTurns(H) IN
         /\ DOMAIN K \subseteq Ids(Users(H)) /\ DOMAIN K \subseteq 1..n
         /\ K = [d \in DOMAIN K |-> K[d]]
         /\ K \in [DOMAIN K -> SUBSET (1..n)]
         /\ \A d \in DOMAIN K : d \in K[d]
  <1> DEFINE Q == Users(H)
             G(id) == Ids(Following(H, Q, CHOOSE q \in Q : q.id = id))
             groups == [id \in Ids(Q) |-> G(id)]
             spoken == {q.id : q \in {u \in Q : ~(status[u.turn] = "failed" /\ groups[u.id] = {u.id})}}
             K == preparedTurns(H)
  <1>1. K = [id \in spoken |-> groups[id]]
    BY DEF preparedTurns, Users
  <1>2. spoken \subseteq Ids(Q)
    BY DEF Ids
  <1>3. DOMAIN K = spoken /\ \A d \in spoken : K[d] = G(d)
    BY <1>1, <1>2
  <1>4. Ids(Q) \subseteq 1..n
    BY RowFields DEF Ids, Users
  <1>5. \A d : G(d) \subseteq 1..n
    BY RowFields DEF Ids, Following
  <1>6. ASSUME NEW d \in spoken PROVE d \in G(d)
    <2> DEFINE q0 == CHOOSE q \in Q : q.id = d
    <2>1. q0 \in Q /\ q0.id = d
      BY <1>2, <1>6 DEF Ids
    <2>2. q0 \in H /\ q0.id \in Nat
      BY <2>1, RowFields DEF Users
    <2>3. \A other \in Q : other.id > q0.id => q0.id < other.id
      BY <2>2, RowFields DEF Users
    <2>4. q0 \in Following(H, Q, q0)
      BY <2>2, <2>3 DEF Following
    <2> QED
      BY <2>1, <2>4 DEF Ids
  <1>7. K = [d \in DOMAIN K |-> K[d]]
    BY <1>1
  <1> HIDE DEF K, G
  <1>8. K \in [DOMAIN K -> SUBSET (1..n)]
    <2>1. \A d \in DOMAIN K : K[d] \in SUBSET (1..n)
      BY <1>3, <1>5
    <2> QED
      BY <1>7, <2>1
  <1>9. \A d \in DOMAIN K : d \in K[d]
    BY <1>3, <1>6
  <1> QED
    BY <1>2, <1>3, <1>4, <1>7, <1>8, <1>9 DEF K

\* With one row for each id, the group of a message is what follows it.
LEMMA PreparedOf ==
  ASSUME NEW n \in Nat, NEW H \in SUBSET ChatRows(n), \A r, s \in H : r.id = s.id => r = s, NEW q \in Users(H)
  PROVE  LET K == preparedTurns(H)
             F == Ids(Following(H, Users(H), q))
         IN /\ q.id \in DOMAIN K <=> ~(status[q.turn] = "failed" /\ F = {q.id})
            /\ q.id \in DOMAIN K => K[q.id] = F
  <1> DEFINE Q == Users(H)
             G(id) == Ids(Following(H, Q, CHOOSE u \in Q : u.id = id))
             groups == [id \in Ids(Q) |-> G(id)]
             spoken == {u.id : u \in {v \in Q : ~(status[v.turn] = "failed" /\ groups[v.id] = {v.id})}}
             K == preparedTurns(H)
             F == Ids(Following(H, Q, q))
  <1>1. K = [id \in spoken |-> groups[id]]
    BY DEF preparedTurns, Users
  <1>2. \A u, v \in Q : u.id = v.id => u = v
    BY DEF Users
  <1>3. (CHOOSE u \in Q : u.id = q.id) = q
    BY <1>2
  <1>4. q.id \in Ids(Q)
    BY DEF Ids
  <1>5. groups[q.id] = F
    BY <1>3, <1>4
  <1>6. spoken \subseteq Ids(Q)
    BY DEF Ids
  <1>7. q.id \in spoken <=> ~(status[q.turn] = "failed" /\ F = {q.id})
    <2> HIDE DEF groups, F
    <2>1. ~(status[q.turn] = "failed" /\ F = {q.id}) => q.id \in spoken
      BY <1>5
    <2>2. q.id \in spoken => ~(status[q.turn] = "failed" /\ F = {q.id})
      <3>1. SUFFICES ASSUME q.id \in spoken PROVE ~(status[q.turn] = "failed" /\ F = {q.id})
        OBVIOUS
      <3>2. PICK u \in Q : u.id = q.id /\ ~(status[u.turn] = "failed" /\ groups[u.id] = {u.id})
        BY <3>1
      <3>3. u = q
        BY <3>2, <1>2
      <3> QED
        BY <3>2, <3>3, <1>5
    <2> QED
      BY <2>1, <2>2
  <1>8. DOMAIN K = spoken /\ (q.id \in spoken => K[q.id] = groups[q.id])
    BY <1>1
  <1> QED
    BY <1>5, <1>7, <1>8

\* The turns before the last one are such that no prune removes them.
LaterSolid(R, st) == \A r, s \in R : r.turn < s.turn => Solid(R, st, r.turn)

\* The history that a context is built of, after m.
HistoryAfter(R, m) == {r \in ListChatContextMessages(R) : r.id > m}

\* The groups after m are those of the solid turns and maybe of the last one, and each but
\* the last group has the rows of its turn.
LEMMA PreparedTurns ==
  ASSUME NEW n \in Nat, NEW R \in SUBSET ChatRows(n), Orderly(R), NEW m \in Nat, Between(R, m), LaterSolid(R, status)
  PROVE  LET K == preparedTurns(HistoryAfter(R, m)) IN
         /\ SolidAfter(R, status, m) \subseteq DOMAIN K
         /\ \A d \in DOMAIN K : \E u \in Users(R) : u.id = d
         /\ \A u \in Users(R) : u.id \in DOMAIN K =>
              /\ u.id > m /\ status[u.turn] \in {"completed", "failed"} /\ Ids(RowsOf(R, u.turn)) \subseteq K[u.id]
              /\ ((\E d \in DOMAIN K : d > u.id) \/ \A r \in R : Solid(R, status, r.turn)) =>
                    /\ K[u.id] = Ids(RowsOf(R, u.turn))
                    /\ Solid(R, status, u.turn)
  <1> DEFINE H == HistoryAfter(R, m)
             Q == Users(H)
             K == preparedTurns(H)
  <1>1. H = {r \in R : r.id > m /\ (r.role = "user" => status[r.turn] \in {"completed", "failed"})}
    BY DEF HistoryAfter, ListChatContextMessages
  <1>2. H \in SUBSET R /\ H \in SUBSET ChatRows(n)
    BY <1>1
  <1>3. Q = {u \in Users(R) : u.id > m /\ status[u.turn] \in {"completed", "failed"}}
    BY <1>1 DEF Users
  <1>4. \A r \in R : r.id \in Nat /\ r.turn \in Nat
    BY RowFields
  <1>5. \A r, s \in H : r.id = s.id => r = s
    BY <1>2, RowOrder
  <1>6. ASSUME NEW q \in Q PROVE RowsOf(R, q.turn) \subseteq H
    <2>1. q \in Users(R) /\ q \in R /\ q.id > m /\ status[q.turn] \in {"completed", "failed"}
      BY <1>3, RowOrder
    <2>2. ASSUME NEW r \in RowsOf(R, q.turn) PROVE r \in H
      <3>1. r \in R /\ r.turn = q.turn
        BY <2>2 DEF RowsOf
      <3>2. r.id >= q.id
        BY <3>1, <2>1, <1>4, RowOrder
      <3>3. r.id > m
        BY <3>1, <3>2, <2>1, <1>4
      <3> QED
        BY <3>1, <3>3, <2>1, <1>1
    <2> QED
      BY <2>2
  <1>7. /\ DOMAIN K \subseteq Ids(Q)
        /\ K \in [DOMAIN K -> SUBSET (1..n)]
    BY <1>2, PreparedShape
  <1>8. \A q \in Q : /\ q.id \in DOMAIN K <=> ~(status[q.turn] = "failed" /\ Ids(Following(H, Q, q)) = {q.id})
                     /\ q.id \in DOMAIN K => K[q.id] = Ids(Following(H, Q, q))
    BY <1>2, <1>5, PreparedOf
  <1>9. \A q \in Q : q \in Users(H) /\ RowsOf(R, q.turn) \subseteq Following(H, Q, q)
    BY <1>2, <1>6, GroupOf
  <1>10. \A d \in DOMAIN K : \E u \in Q : u.id = d
    BY <1>7 DEF Ids
  <1>11. \A u \in Users(R) : u.id \in DOMAIN K => u \in Q
    <2>1. TAKE u \in Users(R)
    <2>2. SUFFICES ASSUME u.id \in DOMAIN K PROVE u \in Q
      OBVIOUS
    <2>3. PICK v \in Q : v.id = u.id
      BY <2>2, <1>10
    <2>4. v = u
      BY <2>3, <1>3, RowOrder
    <2> QED
      BY <2>3, <2>4
  <1> HIDE DEF H, K
  <1>12. SolidAfter(R, status, m) \subseteq DOMAIN K
    <2>1. ASSUME NEW u \in Users(R), Solid(R, status, u.turn), u.id > m
          PROVE  u.id \in DOMAIN K
      <3>1. u \in Q
        BY <2>1, <1>3 DEF Solid
      <3>2. CASE status[u.turn] = "completed"
        BY <3>1, <3>2, <1>8
      <3>3. CASE status[u.turn] = "failed"
        <4>1. PICK r \in R : r.turn = u.turn /\ r.role \in {"tool", "assistant"}
          BY <3>3, <2>1 DEF Solid
        <4>2. r \in Following(H, Q, u)
          BY <4>1, <3>1, <1>9 DEF RowsOf
        <4>3. r.id \in Ids(Following(H, Q, u))
          BY <4>2 DEF Ids
        <4>4. r # u /\ u \in R
          BY <4>1, RowOrder
        <4>5. r.id # u.id
          BY <4>4, RowOrder
        <4> QED
          BY <4>3, <4>5, <3>1, <1>8
      <3> QED
        BY <3>1, <3>2, <3>3, <1>3
    <2> QED
      BY <2>1 DEF SolidAfter
  <1>13. ASSUME NEW u \in Users(R), u.id \in DOMAIN K
         PROVE  u.id > m /\ status[u.turn] \in {"completed", "failed"} /\ Ids(RowsOf(R, u.turn)) \subseteq K[u.id]
    <2>1. u \in Q
      BY <1>11, <1>13
    <2> QED
      BY <2>1, <1>13, <1>3, <1>8, <1>9 DEF Ids
  <1>14. ASSUME NEW u \in Users(R), u.id \in DOMAIN K,
                (\E d \in DOMAIN K : d > u.id) \/ \A r \in R : Solid(R, status, r.turn)
         PROVE  K[u.id] = Ids(RowsOf(R, u.turn)) /\ Solid(R, status, u.turn)
    <2>1. u \in Q /\ u \in R
      BY <1>11, <1>14, RowOrder
    <2>2. ASSUME NEW w \in Users(R), w.id > u.id
          PROVE  \E v \in Q : u.id < v.id /\ v.id <= w.id
      <3>1. w \in R /\ w.id > m
        BY <2>2, <2>1, <1>3, <1>4, RowOrder
      <3>2. CASE \A r \in R : Solid(R, status, r.turn)
        <4>1. w \in Q
          BY <3>1, <3>2, <1>3 DEF Solid
        <4> QED
          BY <4>1, <2>2, <2>1, <3>1, <1>4
      <3>3. CASE \E d \in DOMAIN K : d > u.id
        <4>1. PICK v \in Q : v.id > u.id
          BY <3>3, <1>10
        <4>2. v \in R /\ v \in Users(R)
          BY <1>3, RowOrder
        <4>3. CASE w.turn < v.turn
          <5>1. Solid(R, status, w.turn)
            BY <4>3, <4>2, <3>1 DEF LaterSolid
          <5>2. w \in Q
            BY <5>1, <3>1, <1>3 DEF Solid
          <5> QED
            BY <5>2, <2>2, <2>1, <3>1, <1>4
        <4>4. CASE ~(w.turn < v.turn)
          <5>1. w.turn >= v.turn
            BY <4>4, <4>2, <3>1, <1>4
          <5>2. w.id >= v.id
            BY <5>1, <4>2, <3>1, RowOrder
          <5> QED
            BY <5>2, <4>1, <4>2, <2>1, <3>1, <1>4
        <4> QED
          BY <4>3, <4>4
      <3> QED
        BY <1>14, <3>2, <3>3
    <2>3. Following(H, Q, u) = RowsOf(R, u.turn)
      BY <2>1, <2>2, <1>2, <1>6, GroupOf
    <2>4. Solid(R, status, u.turn)
      <3>1. CASE \A r \in R : Solid(R, status, r.turn)
        BY <3>1, <2>1
      <3>2. CASE \E d \in DOMAIN K : d > u.id
        <4>1. PICK v \in Q : v.id > u.id
          BY <3>2, <1>10
        <4>2. v \in R /\ v \in Users(R)
          BY <1>3, RowOrder
        <4>3. v.turn # u.turn
          <5>1. v.turn = u.turn => v = u
            BY <4>2, RowOrder
          <5>2. v # u
            BY <4>1, <4>2, <2>1, <1>4
          <5> QED
            BY <5>1, <5>2
        <4>4. u.turn < v.turn
          <5>1. u.id < v.id
            BY <4>1, <4>2, <2>1, <1>4
          <5>2. u.turn <= v.turn
            BY <5>1, <4>2, <2>1, RowOrder
          <5> QED
            BY <5>2, <4>3, <4>2, <2>1, <1>4
        <4> QED
          BY <4>4, <4>2, <2>1 DEF LaterSolid
      <3> QED
        BY <1>14, <3>1, <3>2
    <2> QED
      BY <2>1, <2>3, <2>4, <1>14, <1>8
  <1> QED
    BY <1>3, <1>10, <1>12, <1>13, <1>14 DEF K, H

\* The boundary of groups is a row, or none.
LEMMA BoundaryType ==
  ASSUME NEW n \in Nat, NEW H \in SUBSET ChatRows(n)
  PROVE  BoundaryOf(preparedTurns(H)) \in 0..n
  <1> DEFINE K == preparedTurns(H)
             D == DOMAIN K
  <1>1. D \in SUBSET (1..n) /\ K \in [D -> SUBSET (1..n)] /\ \A d \in D : d \in K[d]
    BY PreparedShape
  <1> HIDE DEF K
  <1>2. CASE Cardinality(D) > Preserve
    <2>1. AllBut(Preserve, D) # {}
      BY <1>1, <1>2, AllButSome, ContextConstants
    <2>2. AllBut(Preserve, D) \in SUBSET D /\ AllBut(Preserve, D) \in SUBSET (1..n)
      BY <1>1 DEF AllBut
    <2>3. Max(AllBut(Preserve, D)) \in D
      BY <2>1, <2>2, Greatest
    <2> DEFINE x == Max(AllBut(Preserve, D))
    <2>4. K[x] \in SUBSET (1..n) /\ K[x] # {}
      BY <2>3, <1>1
    <2>5. Max(K[x]) \in 1..n
      BY <2>4, Greatest
    <2>6. BoundaryOf(K) = Max(K[x])
      BY <1>2 DEF BoundaryOf
    <2>7. BoundaryOf(K) \in 0..n
      BY <2>5, <2>6
    <2> QED
      BY <2>7 DEF K
  <1>3. CASE ~(Cardinality(D) > Preserve)
    <2>1. BoundaryOf(K) = 0
      BY <1>3 DEF BoundaryOf
    <2> QED
      BY <2>1 DEF K
  <1> QED
    BY <1>2, <1>3

\* The boundary ends a solid turn, and what AllBut takes are the messages after m up to it.
LEMMA BoundaryEnds ==
  ASSUME NEW n \in Nat, NEW R \in SUBSET ChatRows(n), Orderly(R), NEW m \in Nat, Between(R, m), LaterSolid(R, status),
         NEW K, K = preparedTurns(HistoryAfter(R, m)), BoundaryOf(K) # 0
  PROVE  \E x \in Users(R) :
           /\ x.id > m /\ Solid(R, status, x.turn)
           /\ \E r \in R : r.turn = x.turn /\ r.id = BoundaryOf(K)
           /\ \A r \in R : r.id <= BoundaryOf(K) <=> r.turn <= x.turn
           /\ \A u \in Users(R) : u.id \in AllBut(Preserve, DOMAIN K) <=> u.id > m /\ u.turn <= x.turn
           /\ \A u \in Users(R) : u.id \in AllBut(Preserve, DOMAIN K) => K[u.id] = Ids(RowsOf(R, u.turn))
  <1> DEFINE D == DOMAIN K
             A == AllBut(Preserve, D)
             b == BoundaryOf(K)
  <1>1. HistoryAfter(R, m) \in SUBSET ChatRows(n)
    BY DEF HistoryAfter, ListChatContextMessages
  <1>2. D \in SUBSET (1..n) /\ K \in [D -> SUBSET (1..n)] /\ \A d \in D : d \in K[d]
    BY <1>1, PreparedShape
  <1>3. /\ SolidAfter(R, status, m) \subseteq D
        /\ \A d \in D : \E u \in Users(R) : u.id = d
        /\ \A u \in Users(R) : u.id \in D => u.id > m
        /\ \A u \in Users(R) : u.id \in D /\ (\E d \in D : d > u.id) =>
              K[u.id] = Ids(RowsOf(R, u.turn)) /\ Solid(R, status, u.turn)
    BY PreparedTurns
  <1>4. Cardinality(D) > Preserve /\ b = Max(K[Max(A)])
    BY DEF BoundaryOf
  <1>5. Preserve \in Nat /\ Preserve \in Nat \ {0}
    BY ContextConstants
  <1>6. A # {} /\ A \in SUBSET D /\ A \in SUBSET (1..n)
    <2>1. A # {}
      BY <1>2, <1>4, <1>5, AllButSome
    <2> QED
      BY <2>1, <1>2 DEF AllBut
  <1>7. Max(A) \in A /\ \A d \in A : d <= Max(A)
    BY <1>6, Greatest
  <1>8. \A s \in A : \E d \in D : d > s
    BY <1>2, <1>5, AllButSpares
  <1>9. \A s \in A : \A u \in D : u <= s => u \in A
    BY <1>2, <1>5, AllButBelow
  <1>10. PICK x \in Users(R) : x.id = Max(A)
    BY <1>7, <1>6, <1>3
  <1> HIDE DEF A, D
  <1>11. x.id \in A /\ x.id \in D /\ x.id > m /\ K[x.id] = Ids(RowsOf(R, x.turn)) /\ Solid(R, status, x.turn)
    BY <1>10, <1>7, <1>6, <1>8, <1>3
  <1>12. \A r \in R : r.id \in Nat /\ r.turn \in Nat
    BY RowFields
  <1>13. b \in K[x.id] /\ \A i \in K[x.id] : i <= b
    <2>1. K[x.id] \in SUBSET (1..n) /\ K[x.id] # {}
      BY <1>11, <1>2
    <2> QED
      BY <2>1, <1>4, <1>10, Greatest
  <1> HIDE DEF b
  <1>14. PICK e \in R : e.turn = x.turn /\ e.id = b
    BY <1>13, <1>11 DEF Ids, RowsOf
  <1>15. x \in R
    BY RowOrder
  <1>16. ASSUME NEW r \in R PROVE r.id <= b <=> r.turn <= x.turn
    <2>1. r.turn < x.turn => r.id < e.id
      BY <1>14, RowOrder
    <2>2. r.turn = x.turn => r.id <= b
      BY <1>13, <1>11 DEF Ids, RowsOf
    <2>3. x.turn < r.turn => e.id < r.id
      BY <1>14, RowOrder
    <2>4. r.id \in Nat /\ r.turn \in Nat /\ x.turn \in Nat /\ b \in Nat
      BY <1>12, <1>14, <1>15
    <2> QED
      BY <2>1, <2>2, <2>3, <2>4, <1>14
  <1>17. ASSUME NEW u \in Users(R), u.id \in A PROVE u.id > m /\ u.turn <= x.turn /\ K[u.id] = Ids(RowsOf(R, u.turn))
    <2>1. u.id \in D /\ u.id <= x.id
      BY <1>17, <1>6, <1>7, <1>10
    <2>2. u.id > m /\ K[u.id] = Ids(RowsOf(R, u.turn))
      BY <2>1, <1>17, <1>8, <1>3
    <2>3. x.turn >= u.turn
      <3>1. u \in R /\ x.id >= u.id
        BY <2>1, <1>12, <1>15, RowOrder
      <3> QED
        BY <3>1, <1>15, RowOrder
    <2>4. u \in R
      BY RowOrder
    <2> QED
      BY <2>2, <2>3, <2>4, <1>12, <1>15
  <1>18. ASSUME NEW u \in Users(R), u.id > m, u.turn <= x.turn PROVE u.id \in A
    <2>1. u \in R
      BY RowOrder
    <2>2. CASE u.turn = x.turn
      <3>1. u = x
        BY <2>2, RowOrder
      <3> QED
        BY <3>1, <1>11
    <2>3. CASE u.turn # x.turn
      <3>1. u.turn < x.turn
        BY <2>3, <2>1, <1>15, <1>12, <1>18
      <3>2. Solid(R, status, u.turn)
        BY <3>1, <2>1, <1>15 DEF LaterSolid
      <3>3. u.id \in D
        BY <3>2, <1>18, <1>3 DEF SolidAfter
      <3>4. u.id < x.id
        BY <3>1, <2>1, <1>15, RowOrder
      <3> QED
        BY <3>3, <3>4, <2>1, <1>15, <1>12, <1>11, <1>9
    <2> QED
      BY <2>2, <2>3
  <1>19. \A u \in Users(R) : u.id \in A <=> u.id > m /\ u.turn <= x.turn
    BY <1>17, <1>18
  <1> QED
    BY <1>11, <1>14, <1>16, <1>17, <1>19 DEF A, D, b

-----------------------------------------------------------------------------
(* Contexts that fit the rows. *)

\* A row w that is added to the last turn, t, of n rows, to make R2; o is the question of the turn.
Joins(n, R, t, o, w, R2) ==
  /\ n \in Nat /\ R \in SUBSET ChatRows(n) /\ Orderly(R)
  /\ t \in Questions /\ o \in Users(R) /\ o.turn = t
  /\ \A r \in R : r.turn <= t
  /\ w = [id |-> n + 1, turn |-> t, role |-> w.role] /\ w.role \in Roles /\ w.role # "user"
  /\ R2 = R \cup {w}

\* The rows are orderly with the new row, and nothing but its turn changes.
LEMMA RowAdded ==
  ASSUME NEW n, NEW R, NEW t, NEW o, NEW w, NEW R2, Joins(n, R, t, o, w, R2)
  PROVE  /\ R2 \in SUBSET ChatRows(n + 1) /\ Orderly(R2)
         /\ Users(R2) = Users(R)
         /\ RowsOf(R2, t) = RowsOf(R, t) \cup {w}
         /\ \A v : v # t => RowsOf(R2, v) = RowsOf(R, v)
         /\ \A m \in 0..n : Between(R, m) /\ o.id > m => Between(R2, m)
  <1>0. /\ n \in Nat /\ R \in SUBSET ChatRows(n) /\ Orderly(R)
        /\ t \in Questions /\ o \in Users(R) /\ o.turn = t /\ \A r \in R : r.turn <= t
        /\ w = [id |-> n + 1, turn |-> t, role |-> w.role] /\ w.role \in Roles /\ w.role # "user"
        /\ R2 = R \cup {w}
    BY DEF Joins
  <1> USE <1>0
  <1>1. w.id = n + 1 /\ w.turn = t /\ w \in ChatRows(n + 1)
    BY DEF ChatRows
  <1>2. \A r \in R : r.id \in Nat /\ r.turn \in Nat /\ r.id < w.id /\ r \in ChatRows(n + 1)
    <2>1. TAKE r \in R
    <2>2. r.id \in 1..n /\ r.turn \in Nat /\ r \in ChatRows(n)
      BY RowFields
    <2>3. r \in ChatRows(n + 1)
      <3>1. 1..n \subseteq 1..(n + 1)
        OBVIOUS
      <3> QED
        BY <2>2, <3>1 DEF ChatRows
    <2> QED
      BY <2>2, <2>3, <1>1
  <1>3. Users(R2) = Users(R)
    BY DEF Users
  <1>4. \A v : RowsOf(R2, v) = IF v = t THEN RowsOf(R, t) \cup {w} ELSE RowsOf(R, v)
    BY <1>1 DEF RowsOf
  <1>5. o \in R /\ o.id < w.id
    BY <1>2, RowOrder
  <1>6. w.id \in Nat /\ w.turn \in Nat
    BY <1>1, <1>5, <1>2
  <1>7. Orderly(R2)
    <2>1. \A r, s \in R2 : r.id = s.id => r = s
      BY <1>2, <1>6, RowOrder
    <2>2. \A r, s \in R2 : r.turn < s.turn => r.id < s.id
      <3>1. TAKE r, s \in R2
      <3>2. CASE r \in R /\ s \in R
        BY <3>2, RowOrder
      <3>3. CASE s = w
        <4>1. r = w => ~(r.turn < s.turn)
          BY <3>3, <1>6
        <4> QED
          BY <4>1, <3>3, <1>2
      <3>4. CASE r = w /\ s \in R
        BY <3>4, <1>2, <1>1, <1>6
      <3> QED
        BY <3>2, <3>3, <3>4
    <2>3. \A r, s \in Users(R2) : r.turn = s.turn => r = s
      BY <1>3, RowOrder
    <2>4. \A r \in R2 : \E q \in Users(R2) : q.turn = r.turn /\ q.id <= r.id
      BY <1>3, <1>5, <1>1, <1>2, <1>6, RowOrder
    <2> QED
      BY <2>1, <2>2, <2>3, <2>4 DEF Orderly
  <1>8. ASSUME NEW m \in 0..n, Between(R, m), o.id > m PROVE Between(R2, m)
    <2>1. ~(w.id <= m)
      BY <1>1, <1>6
    <2>2. \A r \in R : r.turn = t => ~(r.id <= m)
      <3>1. ~(o.id <= m)
        BY <1>8, <1>5, <1>2
      <3> QED
        BY <3>1, <1>8, <1>5 DEF Between
    <2> QED
      BY <2>1, <2>2, <1>8, <1>1 DEF Between
  <1> QED
    BY <1>1, <1>2, <1>3, <1>4, <1>7, <1>8

\* The context of the last turn, or one made for it, still fits when the turn gets a row.
LEMMA FitsGrow ==
  ASSUME NEW n, NEW R, NEW t, NEW o, NEW w, NEW R2, Joins(n, R, t, o, w, R2),
         NEW c, ContextOf(n, c), NEW m \in 0..n, Fits(c, R, t, m)
  PROVE  /\ Fits(c, R2, t, m)
         /\ o.id \in DOMAIN c.kept /\ Max(DOMAIN c.kept) = o.id
         /\ Fits([c EXCEPT !.kept[o.id] = @ \cup {n + 1}], R2, t, m)
  <1>a. /\ Orderly(R2) /\ Users(R2) = Users(R)
        /\ RowsOf(R2, t) = RowsOf(R, t) \cup {w}
        /\ \A v : v # t => RowsOf(R2, v) = RowsOf(R, v)
        /\ \A i \in 0..n : Between(R, i) /\ o.id > i => Between(R2, i)
    BY RowAdded
  <1>0. /\ n \in Nat /\ R \in SUBSET ChatRows(n) /\ Orderly(R)
        /\ t \in Questions /\ o \in Users(R) /\ o.turn = t /\ \A r \in R : r.turn <= t
        /\ w = [id |-> n + 1, turn |-> t, role |-> w.role] /\ w.role \in Roles /\ w.role # "user"
        /\ R2 = R \cup {w}
    BY DEF Joins
  <1> USE <1>0
  <1> DEFINE after == [c EXCEPT !.kept[o.id] = @ \cup {n + 1}]
  <1>1. \A r \in R : r.id \in 1..n /\ r.id \in Nat /\ r.turn \in Nat
    BY RowFields
  <1>2. w.id = n + 1 /\ w.turn = t
    OBVIOUS
  <1>3. /\ Between(R, m)
        /\ \A r \in R : r.id \in c.covered <=> r.id <= m
        /\ \A r \in R : r.turn = t => r.id > m
        /\ DOMAIN c.kept = {q.id : q \in {u \in Users(R) : u.id > m}}
        /\ \A u \in Users(R) : u.id > m =>
             IF u.turn = t THEN c.kept[u.id] \subseteq Ids(RowsOf(R, t)) ELSE c.kept[u.id] = Ids(RowsOf(R, u.turn))
    BY DEF Fits
  <1>4. c.covered \subseteq 1..n /\ DOMAIN c.kept \subseteq 1..n /\ c.kept = [d \in DOMAIN c.kept |-> c.kept[d]]
        /\ c = [covered |-> c.covered, kept |-> c.kept]
    BY DEF ContextOf
  <1>5. o \in R /\ o.id > m
    BY <1>3, RowOrder
  <1>6. /\ Orderly(R2) /\ Users(R2) = Users(R)
        /\ \A v : RowsOf(R2, v) = IF v = t THEN RowsOf(R, t) \cup {w} ELSE RowsOf(R, v)
        /\ Between(R2, m)
    <2>2. Between(R, m) /\ o.id > m
      BY <1>3, <1>5
    <2> QED
      BY <2>2, <1>a
  <1>7. o.id \in DOMAIN c.kept
    BY <1>3, <1>5
  <1>8. \A d \in DOMAIN c.kept : d <= o.id
    <2>1. TAKE d \in DOMAIN c.kept
    <2>2. PICK u \in Users(R) : u.id = d
      BY <1>3
    <2>3. u \in R /\ u.turn <= t
      BY <2>2, RowOrder
    <2>4. o.turn >= u.turn
      BY <2>3, <1>1, <1>5
    <2>5. o.id >= u.id
      BY <2>4, <1>5, RowOrder
    <2> QED
      BY <2>5, <2>2, <2>3, <1>1, <1>5
  <1>9. Max(DOMAIN c.kept) = o.id
    <2>1. Max(DOMAIN c.kept) \in DOMAIN c.kept /\ o.id <= Max(DOMAIN c.kept)
      BY <1>4, <1>7, Greatest
    <2>2. Max(DOMAIN c.kept) <= o.id
      BY <2>1, <1>8
    <2>3. Max(DOMAIN c.kept) \in Nat
      BY <2>1, <1>4
    <2> QED
      BY <2>1, <2>2, <2>3, <1>1, <1>5
  <1>10. \A r \in R2 : r.id \in c.covered <=> r.id <= m
    <2>1. w.id \notin c.covered /\ ~(w.id <= m)
      BY <1>2, <1>4
    <2> QED
      BY <2>1, <1>3
  <1>11. \A r \in R2 : r.turn = t => r.id > m
    BY <1>2, <1>3
  <1>12. \A v : Ids(RowsOf(R2, v)) = IF v = t THEN Ids(RowsOf(R, t)) \cup {n + 1} ELSE Ids(RowsOf(R, v))
    <2>1. TAKE v
    <2>2. CASE v = t
      <3>1. Ids(RowsOf(R, t) \cup {w}) = Ids(RowsOf(R, t)) \cup {w.id}
        BY DEF Ids
      <3> QED
        BY <3>1, <2>2, <1>6, <1>2
    <2>3. CASE v # t
      BY <2>3, <1>6
    <2> QED
      BY <2>2, <2>3
  <1>13. Fits(c, R2, t, m)
    <2>1. \A u \in Users(R2) : u.id > m =>
             IF u.turn = t THEN c.kept[u.id] \subseteq Ids(RowsOf(R2, t)) ELSE c.kept[u.id] = Ids(RowsOf(R2, u.turn))
      BY <1>3, <1>6, <1>12, ZenonT(60)
    <2>2. DOMAIN c.kept = {q.id : q \in {u \in Users(R2) : u.id > m}}
      BY <1>3, <1>6
    <2> QED
      BY <2>1, <2>2, <1>6, <1>10, <1>11 DEF Fits
  <1>14. after.covered = c.covered /\ after.kept = [c.kept EXCEPT ![o.id] = @ \cup {n + 1}]
    BY <1>4
  <1>15. /\ DOMAIN after.kept = DOMAIN c.kept
         /\ after.kept[o.id] = c.kept[o.id] \cup {n + 1}
         /\ \A d \in DOMAIN c.kept : d # o.id => after.kept[d] = c.kept[d]
    BY <1>4, <1>7, <1>14
  <1>16. Fits(after, R2, t, m)
    <2> HIDE DEF after
    <2>1. ASSUME NEW u \in Users(R2), u.id > m
          PROVE  IF u.turn = t THEN after.kept[u.id] \subseteq Ids(RowsOf(R2, t)) ELSE after.kept[u.id] = Ids(RowsOf(R2, u.turn))
      <3>1. u \in Users(R) /\ u.id \in DOMAIN c.kept
        BY <2>1, <1>6, <1>3
      <3>2. CASE u.turn = t
        <4>1. u = o
          BY <3>1, <3>2, RowOrder
        <4>2. c.kept[u.id] \subseteq Ids(RowsOf(R, t))
          BY <3>1, <3>2, <2>1, <1>3
        <4> QED
          BY <4>1, <4>2, <3>2, <1>15, <1>12
      <3>3. CASE u.turn # t
        <4>1. u.id # o.id
          BY <3>1, <3>3, <1>5, RowOrder
        <4>2. c.kept[u.id] = Ids(RowsOf(R, u.turn))
          BY <3>1, <3>3, <2>1, <1>3
        <4> QED
          BY <4>1, <4>2, <3>1, <3>3, <1>15, <1>12
      <3> QED
        BY <3>2, <3>3
    <2>2. DOMAIN after.kept = {q.id : q \in {u \in Users(R2) : u.id > m}}
      BY <1>3, <1>6, <1>15
    <2> QED
      BY <2>1, <2>2, <1>6, <1>10, <1>11, <1>14 DEF Fits
  <1> QED
    BY <1>7, <1>9, <1>13, <1>16

\* A compression makes after of the context c of n rows and of the last turn, t, with the question o;
\* it takes the questions in source.
Compresses(n, R, t, o, c, m, b, source, after) ==
  /\ n \in Nat /\ R \in SUBSET ChatRows(n) /\ Orderly(R)
  /\ t \in Questions /\ o \in Users(R) /\ o.turn = t
  /\ \A r \in R : r.turn <= t
  /\ ContextOf(n, c) /\ m \in 0..n /\ Fits(c, R, t, m) /\ b \in 0..n /\ Splits(b, R, t, m)
  /\ source = AllBut(Preserve + 1, DOMAIN c.kept) /\ source # {}
  /\ after.covered = c.covered \cup UNION {c.kept[q] : q \in source}
  /\ after.kept = [q \in DOMAIN c.kept \ source |-> c.kept[q]]

\* What a compression that keeps the boundary b makes of a context that fits: it tells of the
\* rows up to b in short, and of the others as before.
LEMMA FitsSplit ==
  ASSUME NEW n, NEW R, NEW t, NEW o, NEW c, NEW m, NEW b, NEW source, NEW after,
         Compresses(n, R, t, o, c, m, b, source, after)
  PROVE  /\ \A r \in R : r.id \in after.covered <=> r.id <= b
         /\ Fits(after, R, t, b)
         /\ o.id \in DOMAIN after.kept /\ after.kept[o.id] = c.kept[o.id]
         /\ Cardinality(DOMAIN after.kept) = Preserve + 1
         /\ Cardinality(Others(R, t, b)) = Preserve
  <1>0. /\ n \in Nat /\ R \in SUBSET ChatRows(n) /\ Orderly(R)
        /\ t \in Questions /\ o \in Users(R) /\ o.turn = t
        /\ \A r \in R : r.turn <= t
        /\ ContextOf(n, c) /\ m \in 0..n /\ Fits(c, R, t, m) /\ b \in 0..n /\ Splits(b, R, t, m)
        /\ source = AllBut(Preserve + 1, DOMAIN c.kept) /\ source # {}
        /\ after.covered = c.covered \cup UNION {c.kept[q] : q \in source}
        /\ after.kept = [q \in DOMAIN c.kept \ source |-> c.kept[q]]
    BY DEF Compresses
  <1> USE <1>0
  <1> DEFINE E == Others(R, t, m)
             A == AllBut(Preserve, E)
  <1>1. \A r \in R : r.id \in 1..n /\ r.id \in Nat /\ r.turn \in Nat
    BY RowFields
  <1>2. /\ Between(R, m)
        /\ \A r \in R : r.id \in c.covered <=> r.id <= m
        /\ \A r \in R : r.turn = t => r.id > m
        /\ DOMAIN c.kept = {q.id : q \in {u \in Users(R) : u.id > m}}
        /\ \A u \in Users(R) : u.id > m =>
             IF u.turn = t THEN c.kept[u.id] \subseteq Ids(RowsOf(R, t)) ELSE c.kept[u.id] = Ids(RowsOf(R, u.turn))
    BY DEF Fits
  <1>3. PICK e \in R : e.id = b /\ e.turn # t
    BY DEF Splits
  <1>4. \A u \in Users(R) : u.id > m /\ u.turn # t => \A r \in RowsOf(R, u.turn) : r.id <= b <=> u.id \in A
    BY DEF Splits
  <1>5. o \in R /\ o.id > m /\ o.id \in DOMAIN c.kept
    BY <1>2, RowOrder
  <1>6. t \in Nat /\ e.turn < t
    BY <1>3, <1>1, <1>5
  <1>7. \A r \in R : r.turn = t => ~(r.id <= b)
    <2>1. TAKE r \in R
    <2>2. r.turn = t => e.id < r.id
      BY <1>6, <1>3, RowOrder
    <2> QED
      BY <2>2, <1>3, <1>1
  <1>8. E \in SUBSET (1..n) /\ DOMAIN c.kept = E \cup {o.id} /\ o.id \notin E
    <2>1. E \in SUBSET (1..n)
      <3>1. \A u \in Users(R) : u.id \in 1..n
        BY <1>1, RowOrder
      <3> QED
        BY <3>1 DEF Others
    <2>2. \A u \in Users(R) : u.id > m => u.id \in E \cup {o.id}
      <3>1. TAKE u \in Users(R)
      <3>2. u.turn = t => u = o
        BY RowOrder
      <3> QED
        BY <3>2 DEF Others
    <2>3. \A u \in Users(R) : u.turn # t => u.id # o.id
      BY <1>5, RowOrder
    <2>4. o.id \notin E
      BY <2>3 DEF Others
    <2>5. \A d \in E \cup {o.id} : d \in DOMAIN c.kept
      BY <1>2, <1>5 DEF Others
    <2> QED
      BY <2>1, <2>2, <2>4, <2>5, <1>2
  <1>9. \A d \in E : d < o.id
    <2>1. TAKE d \in E
    <2>2. PICK u \in Users(R) : u.id = d /\ u.turn # t
      BY DEF Others
    <2>3. u \in R /\ u.turn < o.turn
      BY <2>2, <1>1, <1>5, <1>6, RowOrder
    <2> QED
      BY <2>2, <2>3, <1>5, RowOrder
  <1>10. source = A
    <2>1. Preserve \in Nat /\ o.id \in Nat
      BY <1>1, <1>5, ContextConstants
    <2>2. AllBut(Preserve + 1, E \cup {o.id}) = A
      BY <2>1, <1>8, <1>9, AllButOwn
    <2> QED
      BY <2>2, <1>8
  <1>11. A \subseteq E
    BY DEF AllBut
  <1>12. \A q \in A : \E v \in Users(R) : v.id = q /\ v.id > m /\ v.turn # t /\ c.kept[q] = Ids(RowsOf(R, v.turn))
    <2>1. TAKE q \in A
    <2>2. PICK v \in Users(R) : v.id = q /\ v.id > m /\ v.turn # t
      BY <1>11 DEF Others
    <2> QED
      BY <2>2, <1>2
  <1> HIDE DEF A, E
  <1>13. b > m
    <2>1. PICK v \in Users(R) : v.id \in A /\ v.id > m /\ v.turn # t
      BY <1>10, <1>12
    <2>2. v \in R /\ v \in RowsOf(R, v.turn)
      BY RowOrder DEF RowsOf
    <2>3. v.id <= b
      BY <2>1, <2>2, <1>4
    <2> QED
      BY <2>1, <2>2, <2>3, <1>1
  <1>14. ASSUME NEW r \in R
         PROVE  \E u \in Users(R) :
                  /\ u \in R /\ u.turn = r.turn /\ r \in RowsOf(R, u.turn)
                  /\ r.id <= m <=> u.id <= m
                  /\ r.id <= b <=> r.id <= m \/ (u.turn # t /\ u.id > m /\ u.id \in A)
    <2>1. PICK u \in Users(R) : u.turn = r.turn
      BY RowOrder
    <2>2. u \in R /\ r \in RowsOf(R, u.turn)
      BY <2>1, RowOrder DEF RowsOf
    <2>3. r.id <= m <=> u.id <= m
      BY <2>1, <2>2, <1>2 DEF Between
    <2>4. r.id <= m => r.id <= b
      BY <1>13, <1>1
    <2>5. r.turn = t => ~(r.id <= b)
      BY <1>7
    <2>6. u.turn # t /\ u.id > m => (r.id <= b <=> u.id \in A)
      BY <2>2, <1>4
    <2>7. u.id > m <=> ~(u.id <= m)
      BY <2>2, <1>1
    <2> QED
      BY <2>1, <2>2, <2>3, <2>4, <2>5, <2>6, <2>7
  <1>15. ASSUME NEW r \in R PROVE r.id \in after.covered <=> r.id <= b
    <2>1. PICK u \in Users(R) :
                  /\ u \in R /\ u.turn = r.turn /\ r \in RowsOf(R, u.turn)
                  /\ r.id <= m <=> u.id <= m
                  /\ r.id <= b <=> r.id <= m \/ (u.turn # t /\ u.id > m /\ u.id \in A)
      BY <1>14
    <2>2. r.id \in c.covered <=> r.id <= m
      BY <1>2
    <2>3. u.turn # t /\ u.id > m /\ u.id \in A => r.id \in c.kept[u.id]
      BY <2>1, <1>2 DEF Ids
    <2>4. ASSUME NEW q \in A, r.id \in c.kept[q] PROVE u.turn # t /\ u.id > m /\ u.id \in A
      <3>1. PICK v \in Users(R) : v.id = q /\ v.id > m /\ v.turn # t /\ c.kept[q] = Ids(RowsOf(R, v.turn))
        BY <1>12
      <3>2. PICK s \in R : s.turn = v.turn /\ s.id = r.id
        BY <3>1, <2>4 DEF Ids, RowsOf
      <3>3. s = r
        BY <3>2, RowOrder
      <3>4. u = v
        BY <3>2, <3>3, <2>1, RowOrder
      <3> QED
        BY <3>1, <3>4
    <2>5. r.id \in after.covered <=> r.id \in c.covered \/ \E q \in A : r.id \in c.kept[q]
      BY <1>10
    <2> QED
      BY <2>1, <2>2, <2>3, <2>4, <2>5
  <1>16. Between(R, b)
    <2>1. ASSUME NEW r \in R, NEW s \in R, r.turn = s.turn PROVE r.id <= b <=> s.id <= b
      <3>1. PICK u \in Users(R) :
                  /\ u.turn = r.turn /\ (r.id <= m <=> u.id <= m)
                  /\ r.id <= b <=> r.id <= m \/ (u.turn # t /\ u.id > m /\ u.id \in A)
        BY <1>14
      <3>2. PICK v \in Users(R) :
                  /\ v.turn = s.turn /\ (s.id <= m <=> v.id <= m)
                  /\ s.id <= b <=> s.id <= m \/ (v.turn # t /\ v.id > m /\ v.id \in A)
        BY <1>14
      <3>3. u = v
        BY <3>1, <3>2, <2>1, RowOrder
      <3> QED
        BY <3>1, <3>2, <3>3
    <2> QED
      BY <2>1 DEF Between
  <1>17. ASSUME NEW u \in Users(R)
         PROVE  u.id > b <=> u.id > m /\ u.id \notin A
    <2>1. u \in R /\ u \in RowsOf(R, u.turn)
      BY RowOrder DEF RowsOf
    <2>2. CASE u.turn = t
      <3>1. u = o
        BY <2>2, RowOrder
      <3>2. u.id \notin A /\ u.id > m
        BY <3>1, <1>8, <1>11, <1>5
      <3> QED
        BY <3>2, <2>2, <2>1, <1>7, <1>1
    <2>3. CASE u.turn # t
      <3>1. u.id > m => (u.id <= b <=> u.id \in A)
        BY <2>3, <2>1, <1>4
      <3> QED
        BY <3>1, <2>1, <1>13, <1>1
    <2> QED
      BY <2>2, <2>3
  <1>18. DOMAIN after.kept = DOMAIN c.kept \ A /\ \A q \in DOMAIN after.kept : after.kept[q] = c.kept[q]
    BY <1>10
  <1>19. DOMAIN after.kept = {q.id : q \in {u \in Users(R) : u.id > b}}
    BY <1>18, <1>17, <1>2
  <1>20. \A u \in Users(R) : u.id > b =>
             IF u.turn = t THEN after.kept[u.id] \subseteq Ids(RowsOf(R, t)) ELSE after.kept[u.id] = Ids(RowsOf(R, u.turn))
    <2>1. TAKE u \in Users(R)
    <2>2. SUFFICES ASSUME u.id > b
                   PROVE  IF u.turn = t THEN after.kept[u.id] \subseteq Ids(RowsOf(R, t)) ELSE after.kept[u.id] = Ids(RowsOf(R, u.turn))
      OBVIOUS
    <2>3. u.id > m /\ u.id \in DOMAIN after.kept
      BY <2>2, <1>17, <1>19
    <2>4. after.kept[u.id] = c.kept[u.id]
      BY <2>3, <1>18
    <2> QED
      BY <2>3, <2>4, <1>2
  <1>21. \A r \in R : r.turn = t => r.id > b
    BY <1>7, <1>1
  <1>22. Fits(after, R, t, b)
    BY <1>15, <1>16, <1>19, <1>20, <1>21 DEF Fits
  <1>23. o.id \in DOMAIN after.kept /\ after.kept[o.id] = c.kept[o.id]
    BY <1>5, <1>8, <1>11, <1>18
  <1>24. Cardinality(E) > Preserve /\ Preserve \in Nat
    BY <1>8, <1>10, AllButSome, ContextConstants DEF A
  <1>25. Cardinality(E \ A) = Preserve
    BY <1>8, <1>24, AllButLeaves DEF A
  <1>26. Others(R, t, b) = E \ A
    <2>1. ASSUME NEW d \in Others(R, t, b) PROVE d \in E \ A
      <3>1. PICK u \in Users(R) : u.id = d /\ u.id > b /\ u.turn # t
        BY <2>1 DEF Others
      <3> QED
        BY <3>1, <1>17 DEF Others, E
    <2>2. ASSUME NEW d \in E \ A PROVE d \in Others(R, t, b)
      <3>1. PICK u \in Users(R) : u.id = d /\ u.id > m /\ u.turn # t
        BY <2>2 DEF Others, E
      <3> QED
        BY <3>1, <2>2, <1>17 DEF Others
    <2> QED
      BY <2>1, <2>2
  <1>27. Cardinality(DOMAIN after.kept) = Preserve + 1
    <2>1. DOMAIN after.kept = (E \ A) \cup {o.id} /\ o.id \notin E \ A
      BY <1>18, <1>8, <1>11, ZenonT(60)
    <2>2. IsFiniteSet(E \ A)
      <3>1. E \ A \in SUBSET (1..n)
        BY <1>8
      <3> QED
        BY <3>1, FiniteIds
    <2> QED
      BY <2>1, <2>2, <1>25, FS_AddElement
  <1> QED
    BY <1>15, <1>22, <1>23, <1>25, <1>26, <1>27

\* A new question w of turn t makes R2 of n rows, with a context c of the summary up to m and
\* the groups K.
BeginsTurn(n, R, t, w, R2, m, K, c) ==
  /\ n \in Nat /\ R \in SUBSET ChatRows(n) /\ Orderly(R)
  /\ t \in Questions /\ \A r \in R : r.turn < t
  /\ w = [id |-> n + 1, turn |-> t, role |-> "user"] /\ R2 = R \cup {w}
  /\ m \in 0..n /\ Between(R, m)
  /\ DOMAIN K = {q.id : q \in {u \in Users(R) : u.id > m}}
  /\ \A u \in Users(R) : u.id > m => K[u.id] = Ids(RowsOf(R, u.turn))
  /\ c.covered \subseteq 1..n /\ \A r \in R : r.id \in c.covered <=> r.id <= m
  /\ c.kept = [q \in DOMAIN K \cup {n + 1} |-> IF q = n + 1 THEN {n + 1} ELSE K[q]]

\* The context of a new question fits the rows with it.
LEMMA FitsFresh ==
  ASSUME NEW n, NEW R, NEW t, NEW w, NEW R2, NEW m, NEW K, NEW c, BeginsTurn(n, R, t, w, R2, m, K, c)
  PROVE  /\ R2 \in SUBSET ChatRows(n + 1) /\ Orderly(R2) /\ Between(R2, m)
         /\ Users(R2) = Users(R) \cup {w} /\ RowsOf(R2, t) = {w}
         /\ \A v : v # t => RowsOf(R2, v) = RowsOf(R, v)
         /\ Fits(c, R2, t, m) /\ c.kept[n + 1] = {n + 1}
         /\ Others(R2, t, m) = DOMAIN K /\ n + 1 \notin DOMAIN K
  <1>0. /\ n \in Nat /\ R \in SUBSET ChatRows(n) /\ Orderly(R)
        /\ t \in Questions /\ \A r \in R : r.turn < t
        /\ w = [id |-> n + 1, turn |-> t, role |-> "user"] /\ R2 = R \cup {w}
        /\ m \in 0..n /\ Between(R, m)
        /\ DOMAIN K = {q.id : q \in {u \in Users(R) : u.id > m}}
        /\ \A u \in Users(R) : u.id > m => K[u.id] = Ids(RowsOf(R, u.turn))
        /\ c.covered \subseteq 1..n /\ \A r \in R : r.id \in c.covered <=> r.id <= m
        /\ c.kept = [q \in DOMAIN K \cup {n + 1} |-> IF q = n + 1 THEN {n + 1} ELSE K[q]]
    BY DEF BeginsTurn
  <1> USE <1>0
  <1>1. w.id = n + 1 /\ w.turn = t /\ w.role = "user"
    OBVIOUS
  <1>2. \A r \in R : r.id \in 1..n /\ r.id \in Nat /\ r.turn \in Nat /\ r.id < w.id /\ r.turn # t
    <2>1. TAKE r \in R
    <2>2. r.id \in 1..n /\ r.id \in Nat /\ r.turn \in Nat
      BY RowFields
    <2>3. t \in Nat /\ r.turn < t
      BY ContextConstants DEF Questions
    <2> QED
      BY <2>2, <2>3, <1>1
  <1>3. w.id \in Nat /\ w.turn \in Nat
    BY <1>1, ContextConstants DEF Questions
  <1>4. R2 \in SUBSET ChatRows(n + 1)
    <2>1. 1..n \subseteq 1..(n + 1) /\ n + 1 \in 1..(n + 1)
      OBVIOUS
    <2>2. w \in ChatRows(n + 1)
      BY <2>1, <1>1 DEF ChatRows, Roles
    <2>3. \A r \in R : r \in ChatRows(n + 1)
      BY <2>1 DEF ChatRows
    <2> QED
      BY <2>2, <2>3
  <1>5. Users(R2) = Users(R) \cup {w} /\ RowsOf(R2, t) = {w}
    BY <1>1, <1>2 DEF Users, RowsOf
  <1>6. \A v : v # t => RowsOf(R2, v) = RowsOf(R, v)
    BY <1>1 DEF RowsOf
  <1>7. \A u \in Users(R) : u \in R
    BY DEF Users
  <1>8. Orderly(R2)
    <2>1. \A r, s \in R2 : r.id = s.id => r = s
      BY <1>2, <1>3, RowOrder
    <2>2. \A r, s \in R2 : r.turn < s.turn => r.id < s.id
      <3>1. TAKE r, s \in R2
      <3>2. CASE r \in R /\ s \in R
        BY <3>2, RowOrder
      <3>3. CASE s = w
        <4>1. r = w => ~(r.turn < s.turn)
          BY <3>3, <1>3
        <4> QED
          BY <4>1, <3>3, <1>2
      <3>4. CASE r = w /\ s \in R
        <4>1. s.turn < t
          BY <3>4
        <4>2. ~(r.turn < s.turn)
          BY <4>1, <3>4, <1>1, <1>2, <1>3
        <4> QED
          BY <4>2
      <3> QED
        BY <3>2, <3>3, <3>4
    <2>3. \A r, s \in Users(R2) : r.turn = s.turn => r = s
      BY <1>5, <1>1, <1>2, <1>7, RowOrder
    <2>4. \A r \in R2 : \E q \in Users(R2) : q.turn = r.turn /\ q.id <= r.id
      <3>1. \A r \in R : \E q \in Users(R2) : q.turn = r.turn /\ q.id <= r.id
        <4>1. \A r \in R : \E q \in Users(R) : q.turn = r.turn /\ q.id <= r.id
          BY DEF Orderly
        <4> QED
          BY <1>5, <4>1
      <3>2. w \in Users(R2)
        BY <1>1 DEF Users
      <3>3. w.id <= w.id
        BY <1>3
      <3> QED
        <4>1. \A r \in R2 : r \in R \/ r = w
          OBVIOUS
        <4> QED
          BY <4>1, <3>1, <3>2, <3>3
    <2> QED
      BY <2>1, <2>2, <2>3, <2>4 DEF Orderly
  <1>9. ~(w.id <= m) /\ w.id > m
    BY <1>1
  <1>10. Between(R2, m)
    BY <1>9, <1>1, <1>2 DEF Between
  <1>11. \A r \in R2 : r.id \in c.covered <=> r.id <= m
    <2>1. w.id \notin c.covered
      BY <1>1
    <2> QED
      BY <2>1, <1>9
  <1>12. DOMAIN c.kept = DOMAIN K \cup {n + 1}
    OBVIOUS
  <1>13. n + 1 \notin DOMAIN K
    BY <1>2, <1>7, <1>1
  <1>14. DOMAIN c.kept = {q.id : q \in {u \in Users(R2) : u.id > m}}
    <2>1. \A d : d \in DOMAIN K \cup {n + 1} <=> \E u \in Users(R) \cup {w} : u.id > m /\ d = u.id
      BY <1>9, <1>1
    <2>2. \A d : d \in DOMAIN c.kept <=> \E u \in Users(R2) : u.id > m /\ d = u.id
      BY <2>1, <1>12, <1>5, Zenon
    <2>3. \A d : d \in {q.id : q \in {u \in Users(R2) : u.id > m}} <=> \E u \in Users(R2) : u.id > m /\ d = u.id
      OBVIOUS
    <2>4. \A d : d \in DOMAIN c.kept <=> d \in {q.id : q \in {u \in Users(R2) : u.id > m}}
      BY <2>2, <2>3, Zenon
    <2> QED
      BY <2>4, Zenon
  <1>15. \A u \in Users(R2) : u.id > m =>
             IF u.turn = t THEN c.kept[u.id] \subseteq Ids(RowsOf(R2, t)) ELSE c.kept[u.id] = Ids(RowsOf(R2, u.turn))
    <2>1. TAKE u \in Users(R2)
    <2>2. SUFFICES ASSUME u.id > m
                   PROVE  IF u.turn = t THEN c.kept[u.id] \subseteq Ids(RowsOf(R2, t)) ELSE c.kept[u.id] = Ids(RowsOf(R2, u.turn))
      OBVIOUS
    <2>3. CASE u = w
      <3>1. c.kept[u.id] = {w.id}
        BY <2>3, <1>1
      <3>2. Ids(RowsOf(R2, t)) = {w.id}
        BY <1>5, ZenonT(60) DEF Ids
      <3> QED
        BY <3>1, <3>2, <2>3, <1>1
    <2>4. CASE u \in Users(R)
      <3>1. u.turn # t /\ u.id \in DOMAIN K /\ u.id # n + 1
        BY <2>4, <2>2, <1>7, <1>2, <1>13
      <3>2. c.kept[u.id] = K[u.id]
        BY <3>1
      <3>3. K[u.id] = Ids(RowsOf(R, u.turn))
        BY <2>4, <2>2
      <3> QED
        BY <3>1, <3>2, <3>3, <1>6
    <2> QED
      BY <2>3, <2>4, <1>5
  <1>16. \A r \in R2 : r.turn = t => r.id > m
    BY <1>9, <1>2
  <1>17. Fits(c, R2, t, m)
    BY <1>10, <1>11, <1>14, <1>15, <1>16 DEF Fits
  <1>18. c.kept[n + 1] = {n + 1}
    OBVIOUS
  <1>19. Others(R2, t, m) = DOMAIN K
    BY <1>5, <1>1, <1>2, <1>7, ZenonT(60) DEF Others
  <1> QED
    BY <1>4, <1>5, <1>6, <1>8, <1>10, <1>13, <1>17, <1>18, <1>19

\* The boundary of the history ends the messages that a compression of turn t takes.
LEMMA SplitsOf ==
  ASSUME NEW n \in Nat, NEW R \in SUBSET ChatRows(n), Orderly(R), NEW m \in Nat, Between(R, m), LaterSolid(R, status),
         NEW K, K = preparedTurns(HistoryAfter(R, m)), BoundaryOf(K) # 0,
         NEW t, \A r \in R : Solid(R, status, r.turn) => r.turn # t,
         NEW R2, R \subseteq R2, \A r \in R2 : r \in R \/ r.turn = t, DOMAIN K = Others(R2, t, m)
  PROVE  Splits(BoundaryOf(K), R2, t, m)
  <1>1. PICK x \in Users(R) :
           /\ x.id > m /\ Solid(R, status, x.turn)
           /\ \E r \in R : r.turn = x.turn /\ r.id = BoundaryOf(K)
           /\ \A r \in R : r.id <= BoundaryOf(K) <=> r.turn <= x.turn
           /\ \A u \in Users(R) : u.id \in AllBut(Preserve, DOMAIN K) <=> u.id > m /\ u.turn <= x.turn
    BY BoundaryEnds
  <1>2. \E r \in R2 : r.id = BoundaryOf(K) /\ r.turn # t
    BY <1>1
  <1>3. ASSUME NEW u \in Users(R2), u.id > m, u.turn # t, NEW r \in RowsOf(R2, u.turn)
        PROVE  r.id <= BoundaryOf(K) <=> u.id \in AllBut(Preserve, Others(R2, t, m))
    <2>1. u \in Users(R) /\ r \in R /\ r.turn = u.turn
      BY <1>3 DEF Users, RowsOf
    <2>2. r.id <= BoundaryOf(K) <=> u.turn <= x.turn
      BY <2>1, <1>1
    <2>3. u.id \in AllBut(Preserve, DOMAIN K) <=> u.turn <= x.turn
      BY <2>1, <1>1, <1>3
    <2> QED
      BY <2>2, <2>3
  <1> QED
    BY <1>2, <1>3 DEF Splits

-----------------------------------------------------------------------------
(* The conversation, while none is left behind. *)

\* All but the last of the turns with rows are such that no prune removes them.
LEMMA EarlierSolid ==
  ASSUME NEW n \in Nat, NEW R \in SUBSET ChatRows(n), NEW st, InOrder(R, st)
  PROVE  LaterSolid(R, st)
  <1> SUFFICES ASSUME NEW r \in R, NEW s \in R, r.turn < s.turn
               PROVE  Solid(R, st, r.turn)
    BY DEF LaterSolid
  <1>1. s.turn \in Questions /\ Began(st, s.turn)
    BY RowFields DEF InOrder
  <1> QED
    BY <1>1 DEF InOrder

\* An unfinished turn is the last one, and the only one.
LEMMA LastTurn ==
  ASSUME NEW n \in Nat, NEW R \in SUBSET ChatRows(n), NEW st, InOrder(R, st), NEW t \in Questions, InProgress(st, t)
  PROVE  /\ t \in Nat
         /\ \A r \in R : r.turn <= t /\ (r.turn # t => Solid(R, st, r.turn))
         /\ \A u \in Questions : Began(st, u) => u <= t
         /\ \A u \in Questions : InProgress(st, u) => u = t
         /\ ~Solid(R, st, t) /\ ~Finished(st, t) /\ Began(st, t)
         /\ \E o \in Users(R) : o.turn = t
  <1>1. \A u \in Questions : u \in Nat
    BY ContextConstants DEF Questions
  <1>2. ~Finished(st, t) /\ Began(st, t) /\ ~Solid(R, st, t)
    BY DEF InProgress, Finished, Began, Solid
  <1>3. \A u \in Questions : Began(st, u) => u <= t
    <2>1. TAKE u \in Questions
    <2>2. t < u /\ Began(st, u) => Finished(st, t)
      BY DEF InOrder
    <2> QED
      BY <2>2, <1>1, <1>2
  <1>4. \A r \in R : r.turn \in Questions /\ Began(st, r.turn)
    BY RowFields DEF InOrder
  <1>5. \A r \in R : r.turn <= t /\ (r.turn # t => Solid(R, st, r.turn))
    <2>1. TAKE r \in R
    <2>2. r.turn <= t
      BY <1>3, <1>4
    <2>3. r.turn < t => Solid(R, st, r.turn)
      BY <1>2 DEF InOrder
    <2> QED
      BY <2>2, <2>3, <1>1, <1>4
  <1>6. \A u \in Questions : InProgress(st, u) => u = t
    <2>1. TAKE u \in Questions
    <2>2. SUFFICES ASSUME InProgress(st, u) PROVE u = t
      OBVIOUS
    <2>3. Began(st, u) /\ ~Finished(st, u)
      BY <2>2 DEF InProgress, Began, Finished
    <2>4. u <= t
      BY <2>3, <1>3
    <2>5. u < t => Finished(st, u)
      BY <1>2 DEF InOrder
    <2> QED
      BY <2>3, <2>4, <2>5, <1>1
  <1>7. \E o \in Users(R) : o.turn = t
    BY DEF InOrder
  <1> QED
    BY <1>1, <1>2, <1>3, <1>5, <1>6, <1>7

\* A prune takes away whole turns that have nothing to show.
LEMMA PrunedRows ==
  ASSUME NEW n \in Nat, NEW R \in SUBSET ChatRows(n), NEW st, InOrder(R, st), NEW P, P = Pruned(R, st)
  PROVE  /\ P = {r \in R : st[r.turn] # "failed" \/ Solid(R, st, r.turn)}
         /\ P \in SUBSET R /\ InOrder(P, st)
         /\ \A t : Solid(P, st, t) <=> Solid(R, st, t)
         /\ \A m : SolidAfter(P, st, m) = SolidAfter(R, st, m)
         /\ \A m : Between(R, m) => Between(P, m)
  <1>1. Orderly(R)
    BY DEF InOrder
  <1>2. P = {r \in R : st[r.turn] # "failed" \/ Solid(R, st, r.turn)}
    BY <1>1, ExcludedTurns DEF Pruned
  <1>3. P \in SUBSET R
    BY <1>2
  <1>4. \A t : Solid(P, st, t) <=> Solid(R, st, t)
    BY <1>2 DEF Solid
  <1>5. Orderly(P)
    <2>1. \A r, s \in P : r.id = s.id => r = s
      BY <1>3, <1>1 DEF Orderly
    <2>2. \A r, s \in P : r.turn < s.turn => r.id < s.id
      BY <1>3, <1>1 DEF Orderly
    <2>3. \A r, s \in Users(P) : r.turn = s.turn => r = s
      BY <1>3, <1>1 DEF Orderly, Users
    <2>4. ASSUME NEW r \in P PROVE \E q \in Users(P) : q.turn = r.turn /\ q.id <= r.id
      <3>1. PICK q \in Users(R) : q.turn = r.turn /\ q.id <= r.id
        BY <1>3, <1>1 DEF Orderly
      <3>2. q \in Users(P)
        BY <3>1, <1>2 DEF Users
      <3> QED
        BY <3>1, <3>2
    <2> QED
      BY <2>1, <2>2, <2>3, <2>4 DEF Orderly
  <1>6. InOrder(P, st)
    <2>1. \A r \in P : Began(st, r.turn)
      BY <1>3 DEF InOrder
    <2>2. \A r \in P : \A t \in Questions : r.turn < t /\ Began(st, t) => Solid(P, st, r.turn)
      BY <1>3, <1>4 DEF InOrder
    <2>3. ASSUME NEW t \in Questions, InProgress(st, t) PROVE \E q \in Users(P) : q.turn = t
      <3>1. PICK q \in Users(R) : q.turn = t
        BY <2>3 DEF InOrder
      <3>2. st[q.turn] # "failed"
        BY <3>1, <2>3 DEF InProgress
      <3>3. q \in Users(P)
        BY <3>2, <1>2 DEF Users
      <3> QED
        BY <3>1, <3>3
    <2> QED
      BY <2>1, <2>2, <2>3, <1>5 DEF InOrder
  <1>7. \A m : SolidAfter(P, st, m) = SolidAfter(R, st, m)
    <2>1. \A u : u \in Users(R) /\ Solid(R, st, u.turn) <=> u \in Users(P) /\ Solid(P, st, u.turn)
      BY <1>2, <1>4 DEF Users
    <2>2. ASSUME NEW m PROVE SolidAfter(P, st, m) = SolidAfter(R, st, m)
      BY <2>1 DEF SolidAfter
    <2> QED
      BY <2>2
  <1>8. \A m : Between(R, m) => Between(P, m)
    BY <1>3 DEF Between
  <1> QED
    BY <1>2, <1>3, <1>4, <1>6, <1>7, <1>8

\* While a turn is unfinished, a prune removes nothing.
LEMMA NothingToPrune ==
  ASSUME NEW n \in Nat, NEW R \in SUBSET ChatRows(n), NEW st, InOrder(R, st), NEW t \in Questions, InProgress(st, t)
  PROVE  Pruned(R, st) = R
  <1>1. Pruned(R, st) = {r \in R : st[r.turn] # "failed" \/ Solid(R, st, r.turn)}
    BY PrunedRows
  <1>2. st[t] # "failed"
    BY DEF InProgress
  <1>3. \A r \in R : st[r.turn] # "failed" \/ Solid(R, st, r.turn)
    BY <1>2, LastTurn
  <1> QED
    BY <1>1, <1>3

\* A context is built of the summary and of the rows after its boundary.
LEMMA ContextBuilt ==
  ASSUME StateTypes, SummaryFits(summary, rows, status), NEW R \in SUBSET rows, \A r \in rows : Solid(rows, status, r.turn) => r \in R
  PROVE  buildModelContext(R) = [covered |-> summary.covers, kept |-> preparedTurns(HistoryAfter(R, summary.through))]
  <1> DEFINE history == ListChatContextMessages(R)
             known == summary.through \in Ids(history)
  <1>1. \A r \in rows : r.id \in 1..lastRow /\ r.id \in Nat
    <2>1. rows \in SUBSET ChatRows(lastRow) /\ lastRow \in Nat
      BY DEF StateTypes
    <2> QED
      BY <2>1, RowFields
  <1>2. history = {r \in R : r.role = "user" => status[r.turn] \in {"completed", "failed"}}
    BY DEF ListChatContextMessages
  <1>3. buildModelContext(R) = [covered |-> IF known THEN summary.covers ELSE {},
                                kept |-> preparedTurns({r \in history : known => r.id > summary.through})]
    BY DEF buildModelContext
  <1>4. HistoryAfter(R, summary.through) = {r \in history : r.id > summary.through}
    BY DEF HistoryAfter
  <1>5. CASE summary = NoSummary
    <2>1. summary.through = 0 /\ summary.covers = {}
      BY <1>5 DEF NoSummary
    <2>2. \A r \in history : r.id > 0 /\ r.id # 0
      BY <1>1, <1>2
    <2>3. ~known
      BY <2>1, <2>2 DEF Ids
    <2>4. {r \in history : known => r.id > summary.through} = {r \in history : r.id > summary.through}
      BY <2>1, <2>2, <2>3
    <2> QED
      BY <2>1, <2>3, <2>4, <1>3, <1>4
  <1>6. CASE summary # NoSummary
    <2>1. PICK r \in rows : r.id = summary.through /\ Solid(rows, status, r.turn)
      BY <1>6 DEF SummaryFits
    <2>2. r \in history
      BY <2>1, <1>2 DEF Solid
    <2>3. known
      BY <2>1, <2>2 DEF Ids
    <2>4. {s \in history : known => s.id > summary.through} = {s \in history : s.id > summary.through}
      BY <2>3
    <2> QED
      BY <2>3, <2>4, <1>3, <1>4
  <1> QED
    BY <1>5, <1>6

-----------------------------------------------------------------------------
(* Types. *)

\* A context of n rows is one of more rows.
LEMMA ContextOfMore ==
  ASSUME NEW n \in Nat, NEW c, ContextOf(n, c)
  PROVE  ContextOf(n + 1, c)
  <1>1. 1..n \subseteq 1..(n + 1)
    OBVIOUS
  <1> QED
    BY <1>1 DEF ContextOf

\* No context is one of any rows.
LEMMA ContextNone ==
  ASSUME NEW n \in Nat
  PROVE  ContextOf(n, NoContext) /\ DOMAIN NoContext.kept = {} /\ NoContext.covered = {}
  <1> DEFINE k == [q \in {} |-> {}]
  <1>1. k \in [{} -> SUBSET (1..n)] /\ DOMAIN k = {}
    OBVIOUS
  <1>2. NoContext.kept = k /\ NoContext.covered = {} /\ NoContext = [covered |-> {}, kept |-> k]
    BY DEF NoContext
  <1> HIDE DEF k
  <1> QED
    BY <1>1, <1>2 DEF ContextOf

\* A context that is built of rows is one of them.
LEMMA BuiltTypes ==
  ASSUME StateTypes, NEW R \in SUBSET rows
  PROVE  /\ ContextOf(lastRow, buildModelContext(R))
         /\ BoundaryOf(buildModelContext(R).kept) \in 0..lastRow
         /\ lastRow + 1 \notin DOMAIN buildModelContext(R).kept
  <1> DEFINE history == ListChatContextMessages(R)
             known == summary.through \in Ids(history)
             H == {r \in history : known => r.id > summary.through}
             K == preparedTurns(H)
             C == IF known THEN summary.covers ELSE {}
  <1>1. lastRow \in Nat /\ rows \in SUBSET ChatRows(lastRow) /\ summary.covers \subseteq 1..lastRow
    BY DEF StateTypes, SummaryOf
  <1>2. buildModelContext(R) = [covered |-> C, kept |-> K]
    BY DEF buildModelContext
  <1>3. H \in SUBSET ChatRows(lastRow)
    BY <1>1 DEF ListChatContextMessages
  <1>4. DOMAIN K \subseteq 1..lastRow /\ K \in [DOMAIN K -> SUBSET (1..lastRow)] /\ BoundaryOf(K) \in 0..lastRow
    BY <1>1, <1>3, PreparedShape, BoundaryType
  <1>5. C \subseteq 1..lastRow
    BY <1>1
  <1> HIDE DEF K, C
  <1>6. buildModelContext(R).kept = K /\ buildModelContext(R).covered = C
    BY <1>2
  <1>7. lastRow + 1 \notin DOMAIN K
    BY <1>4, <1>1
  <1> QED
    BY <1>2, <1>4, <1>5, <1>6, <1>7 DEF ContextOf

\* A context that is split tells of the same rows.
LEMMA SplitTypes ==
  ASSUME NEW n \in Nat, NEW c, ContextOf(n, c), NEW hasCurrent \in BOOLEAN,
         NEW s, s = splitContextForSummary(c, hasCurrent)
  PROVE  /\ ContextOf(n, s.context)
         /\ LET source == AllBut(retain(hasCurrent), DOMAIN c.kept) IN
            /\ s.ok <=> source # {}
            /\ s.context.covered = c.covered \cup UNION {c.kept[q] : q \in source}
            /\ s.context.kept = [q \in DOMAIN c.kept \ source |-> c.kept[q]]
  <1> DEFINE source == AllBut(retain(hasCurrent), DOMAIN c.kept)
             C == c.covered \cup UNION {c.kept[q] : q \in source}
             K == [q \in DOMAIN c.kept \ source |-> c.kept[q]]
  <1>1. s = [ok |-> source # {}, context |-> [covered |-> C, kept |-> K]]
    BY DEF splitContextForSummary
  <1>2. c.covered \subseteq 1..n /\ DOMAIN c.kept \subseteq 1..n /\ c.kept \in [DOMAIN c.kept -> SUBSET (1..n)]
    BY DEF ContextOf
  <1>3. source \subseteq DOMAIN c.kept
    BY DEF AllBut
  <1> HIDE DEF source
  <1>4. C \subseteq 1..n
    BY <1>2, <1>3
  <1>5. DOMAIN K \subseteq 1..n /\ K \in [DOMAIN K -> SUBSET (1..n)]
    BY <1>2
  <1> HIDE DEF C, K
  <1>6. s.context = [covered |-> C, kept |-> K] /\ s.context.covered = C /\ s.context.kept = K
    BY <1>1
  <1>7. s.ok = (source # {})
    BY <1>1
  <1> QED
    BY <1>4, <1>5, <1>6, <1>7 DEF ContextOf, C, K, source

\* No session is one of any rows, and sessions, made contexts and summaries stay it of more.
LEMMA SessionNone == ASSUME NEW n \in Nat PROVE Session(Idle, n)
  <1>1. ContextOf(n, NoContext)
    BY ContextNone
  <1>2. 0 \in 0..MaxTurns /\ 0 \in 0..n
    BY ContextConstants
  <1>3. /\ Idle.kind = "none" /\ Idle.turn = 0 /\ Idle.context = NoContext /\ Idle.boundary = 0
        /\ Idle.settled = FALSE /\ Idle.fresh = FALSE
        /\ Idle = [kind |-> "none", turn |-> 0, context |-> NoContext, boundary |-> 0, settled |-> FALSE, fresh |-> FALSE]
    BY DEF Idle
  <1> HIDE DEF Idle
  <1> QED
    BY <1>1, <1>2, <1>3 DEF Session

LEMMA TypesOfMore ==
  ASSUME NEW n \in Nat
  PROVE  /\ \A q : Session(q, n) => Session(q, n + 1)
         /\ \A ck : Saved(ck, n) => Saved(ck, n + 1)
         /\ \A s : SummaryOf(s, n) => SummaryOf(s, n + 1)
         /\ ChatRows(n) \subseteq ChatRows(n + 1)
  <1>1. 1..n \subseteq 1..(n + 1) /\ 0..n \subseteq 0..(n + 1)
    OBVIOUS
  <1>2. \A c : ContextOf(n, c) => ContextOf(n + 1, c)
    BY ContextOfMore
  <1>3. ASSUME NEW q, Session(q, n) PROVE Session(q, n + 1)
    BY <1>1, <1>2, <1>3 DEF Session
  <1>4. ASSUME NEW ck, Saved(ck, n) PROVE Saved(ck, n + 1)
    BY <1>1, <1>2, <1>4 DEF Saved
  <1>5. ASSUME NEW s, SummaryOf(s, n) PROVE SummaryOf(s, n + 1)
    BY <1>1, <1>5 DEF SummaryOf
  <1>6. ChatRows(n) \subseteq ChatRows(n + 1)
    BY <1>1 DEF ChatRows
  <1> QED
    BY <1>3, <1>4, <1>5, <1>6

\* The types of the first state.
LEMMA StateTypesBegin == ContextInit => StateTypes
  <1> SUFFICES ASSUME ContextInit PROVE StateTypes
    OBVIOUS
  <1>1. lastRow = 0 /\ lastRow \in Nat /\ rows = {} /\ summary = NoSummary /\ query = Idle
        /\ checkpoint = [t \in Questions |-> NoContext] /\ undecided = {} /\ left = {} /\ failures = 0
        /\ status = [t \in Questions |-> "none"]
    BY DEF ContextInit
  <1>2. Session(query, lastRow)
    BY <1>1, SessionNone
  <1>3. ContextOf(lastRow, NoContext)
    BY <1>1, ContextNone
  <1>4. Saved(checkpoint, lastRow)
    BY <1>1, <1>3 DEF Saved
  <1>5. SummaryOf(summary, lastRow)
    BY <1>1 DEF SummaryOf, NoSummary
  <1>6. status \in [Questions -> Statuses]
    BY <1>1 DEF Statuses
  <1>7. failures \in 0..MaxFailures
    BY <1>1, ContextConstants
  <1> QED
    BY <1>1, <1>2, <1>4, <1>5, <1>6, <1>7 DEF StateTypes

\* Saving or dropping a context keeps the types of the others.
LEMMA SavedTypes ==
  ASSUME NEW n \in Nat, NEW ck, Saved(ck, n), NEW t, NEW c, ContextOf(n, c)
  PROVE  Saved([ck EXCEPT ![t] = c], n)
  <1> DEFINE d == [ck EXCEPT ![t] = c]
  <1>1. DOMAIN d = Questions /\ d = [u \in Questions |-> d[u]]
    BY DEF Saved
  <1>2. \A u \in Questions : d[u] = IF u = t THEN c ELSE ck[u]
    BY DEF Saved
  <1>3. \A u \in Questions : ContextOf(n, d[u])
    BY <1>2 DEF Saved
  <1> HIDE DEF d
  <1>4. Saved(d, n)
    BY <1>1, <1>3 DEF Saved
  <1> QED
    BY <1>4 DEF d

\* A message of the operator keeps the types.
LEMMA QueryTypes ==
  ASSUME StateTypes, NEW t \in Questions, QueryWithAttachments(t)
  PROVE  StateTypes'
  <1> DEFINE pruned == Pruned(rows, status)
             context == buildModelContext(pruned)
             n == lastRow + 1
             w == [id |-> n, turn |-> t, role |-> "user"]
             K2 == [q \in DOMAIN context.kept \cup {n} |-> IF q = n THEN {n} ELSE context.kept[q]]
  <1>1. /\ lastRow \in Nat /\ rows \in SUBSET ChatRows(lastRow) /\ status \in [Questions -> Statuses]
        /\ SummaryOf(summary, lastRow) /\ Session(query, lastRow) /\ Saved(checkpoint, lastRow)
        /\ undecided \subseteq Questions /\ left \subseteq Questions /\ failures \in 0..MaxFailures
    BY DEF StateTypes
  <1>2. /\ rows' = pruned \cup {w} /\ lastRow' = n /\ status' = [status EXCEPT ![t] = "pending"]
        /\ query' = [kind |-> "turn", turn |-> t, boundary |-> BoundaryOf(context.kept), settled |-> FALSE, fresh |-> TRUE,
                     context |-> [context EXCEPT !.kept = [q \in DOMAIN @ \cup {n} |-> IF q = n THEN {n} ELSE @[q]]]]
        /\ left' = left \cup {u \in Questions : status[u] \in {"pending", "waiting_for_approval"}}
        /\ UNCHANGED <<summary, checkpoint, undecided, failures>>
    BY DEF QueryWithAttachments
  <1>3. pruned \in SUBSET rows
    BY DEF Pruned
  <1>4. ContextOf(lastRow, context) /\ BoundaryOf(context.kept) \in 0..lastRow
    BY <1>3, BuiltTypes
  <1> HIDE DEF context, pruned
  <1>5. n \in Nat /\ n \in 1..n /\ ChatRows(lastRow) \subseteq ChatRows(n) /\ 0..lastRow \subseteq 0..n
    BY <1>1, TypesOfMore
  <1>6. rows' \in SUBSET ChatRows(n)
    <2>1. w \in ChatRows(n)
      BY <1>5 DEF ChatRows, Roles
    <2> QED
      BY <2>1, <1>1, <1>2, <1>3, <1>5
  <1>7. query'.context = [covered |-> context.covered, kept |-> K2]
    BY <1>2, <1>4 DEF ContextOf
  <1>8. ContextOf(n, query'.context)
    <2>1. ContextOf(n, context)
      BY <1>1, <1>4, ContextOfMore
    <2>2. DOMAIN K2 = DOMAIN context.kept \cup {n} /\ DOMAIN K2 \subseteq 1..n
      BY <2>1, <1>5 DEF ContextOf
    <2>3. \A q \in DOMAIN K2 : K2[q] \in SUBSET (1..n)
      BY <2>1, <2>2, <1>5 DEF ContextOf
    <2>4. K2 = [q \in DOMAIN K2 |-> K2[q]]
      BY <2>2
    <2> HIDE DEF K2, n
    <2>5. K2 \in [DOMAIN K2 -> SUBSET (1..n)]
      BY <2>3, <2>4
    <2>6. query'.context.covered = context.covered /\ query'.context.kept = K2
      BY <1>7
    <2> QED
      BY <2>1, <2>2, <2>5, <2>6, <1>7 DEF ContextOf
  <1>9. Session(query', n)
    <2>1. t \in 0..MaxTurns
      BY ContextConstants DEF Questions
    <2>2. BoundaryOf(context.kept) \in 0..n
      BY <1>4, <1>5
    <2>3. /\ query' = [kind |-> "turn", turn |-> t, boundary |-> BoundaryOf(context.kept), settled |-> FALSE, fresh |-> TRUE,
                       context |-> query'.context]
          /\ query'.kind = "turn" /\ query'.turn = t /\ query'.boundary = BoundaryOf(context.kept)
          /\ query'.settled = FALSE /\ query'.fresh = TRUE
      BY <1>2
    <2> HIDE DEF n
    <2> QED
      BY <2>1, <2>2, <2>3, <1>8 DEF Session
  <1>10. Saved(checkpoint', n) /\ SummaryOf(summary', n)
    BY <1>1, <1>2, TypesOfMore
  <1>11. status' \in [Questions -> Statuses]
    BY <1>1, <1>2 DEF Statuses
  <1>12. left' \subseteq Questions /\ undecided' \subseteq Questions /\ failures' \in 0..MaxFailures
    BY <1>1, <1>2
  <1> QED
    BY <1>2, <1>5, <1>6, <1>9, <1>10, <1>11, <1>12 DEF StateTypes

\* A row of a tool or of reasoning keeps the types.
LEMMA OutputTypes ==
  ASSUME StateTypes, NEW role \in {"tool", "reasoning"}, Output(role)
  PROVE  StateTypes'
  <1> DEFINE n == lastRow + 1
             w == [id |-> n, turn |-> query.turn, role |-> role]
             k == Max(DOMAIN query.context.kept)
  <1>1. /\ lastRow \in Nat /\ rows \in SUBSET ChatRows(lastRow) /\ status \in [Questions -> Statuses]
        /\ SummaryOf(summary, lastRow) /\ Session(query, lastRow) /\ Saved(checkpoint, lastRow)
        /\ undecided \subseteq Questions /\ left \subseteq Questions /\ failures \in 0..MaxFailures
    BY DEF StateTypes
  <1>2. /\ query.kind = "turn" /\ rows' = rows \cup {w} /\ lastRow' = n
        /\ query' = [query EXCEPT !.context.kept[k] = @ \cup {n}]
        /\ UNCHANGED <<status, summary, checkpoint, undecided, left, failures>>
    BY DEF Output, Running
  <1>3. n \in Nat /\ n \in 1..n /\ ChatRows(lastRow) \subseteq ChatRows(n)
    BY <1>1, TypesOfMore
  <1>4. Session(query, n) /\ Saved(checkpoint, n) /\ SummaryOf(summary, n)
    BY <1>1, TypesOfMore
  <1>5. query.turn \in Questions
    BY <1>1, <1>2 DEF Session
  <1>6. rows' \in SUBSET ChatRows(n)
    <2>1. w \in ChatRows(n)
      BY <1>3, <1>5 DEF ChatRows, Roles
    <2> QED
      BY <2>1, <1>1, <1>2, <1>3
  <1> HIDE DEF k, n
  <1>7. /\ query'.kind = query.kind /\ query'.turn = query.turn /\ query'.boundary = query.boundary
        /\ query'.settled = query.settled /\ query'.fresh = query.fresh
        /\ query'.context = [query.context EXCEPT !.kept[k] = @ \cup {n}]
        /\ query' = [kind |-> query.kind, turn |-> query.turn, context |-> query'.context, boundary |-> query.boundary,
                     settled |-> query.settled, fresh |-> query.fresh]
    BY <1>2, <1>4 DEF Session
  <1>8. ContextOf(n, query'.context)
    <2> DEFINE K == query.context.kept
               K2 == [K EXCEPT ![k] = @ \cup {n}]
    <2>1. /\ query.context = [covered |-> query.context.covered, kept |-> K] /\ query.context.covered \subseteq 1..n
          /\ DOMAIN K \subseteq 1..n /\ K \in [DOMAIN K -> SUBSET (1..n)]
      BY <1>4 DEF Session, ContextOf
    <2>2. query'.context = [covered |-> query.context.covered, kept |-> K2]
      BY <2>1, <1>7
    <2>3. DOMAIN K2 = DOMAIN K /\ K2 \in [DOMAIN K -> SUBSET (1..n)]
      <3> HIDE DEF K
      <3> QED
        BY <2>1, <1>3
    <2> HIDE DEF K2
    <2>4. query'.context.covered = query.context.covered /\ query'.context.kept = K2
      BY <2>2
    <2> QED
      BY <2>1, <2>2, <2>3, <2>4 DEF ContextOf
  <1>9. Session(query', n)
    BY <1>4, <1>7, <1>8 DEF Session
  <1> QED
    BY <1>1, <1>2, <1>3, <1>4, <1>6, <1>9 DEF StateTypes

\* The end of a turn keeps the types.
LEMMA EndTypes ==
  ASSUME StateTypes, NEW result \in {"completed", "failed"}, query.kind = "turn",
         query' = Idle, checkpoint' = [checkpoint EXCEPT ![query.turn] = NoContext],
         status' = [status EXCEPT ![query.turn] = result] \/ status' = status,
         failures' \in 0..MaxFailures, UNCHANGED <<summary, undecided, left>>,
         \/ rows' \in SUBSET rows /\ lastRow' = lastRow
         \/ /\ rows' = rows \cup {[id |-> lastRow + 1, turn |-> query.turn, role |-> "assistant"]}
            /\ lastRow' = lastRow + 1
  PROVE  StateTypes'
  <1>1. /\ lastRow \in Nat /\ rows \in SUBSET ChatRows(lastRow) /\ status \in [Questions -> Statuses]
        /\ SummaryOf(summary, lastRow) /\ Session(query, lastRow) /\ Saved(checkpoint, lastRow)
        /\ undecided \subseteq Questions /\ left \subseteq Questions /\ failures \in 0..MaxFailures
    BY DEF StateTypes
  <1>2. status' \in [Questions -> Statuses]
    BY <1>1 DEF Statuses
  <1>3. query.turn \in Questions
    BY <1>1 DEF Session
  <1>4. Saved(checkpoint', lastRow) /\ Session(query', lastRow) /\ SummaryOf(summary', lastRow)
    BY <1>1, SavedTypes, ContextNone, SessionNone
  <1>5. CASE rows' \in SUBSET rows /\ lastRow' = lastRow
    BY <1>1, <1>2, <1>4, <1>5 DEF StateTypes
  <1>6. CASE /\ rows' = rows \cup {[id |-> lastRow + 1, turn |-> query.turn, role |-> "assistant"]}
             /\ lastRow' = lastRow + 1
    <2> DEFINE n == lastRow + 1
               w == [id |-> n, turn |-> query.turn, role |-> "assistant"]
    <2>1. n \in Nat /\ n \in 1..n /\ ChatRows(lastRow) \subseteq ChatRows(n)
      BY <1>1, TypesOfMore
    <2>2. Saved(checkpoint', n) /\ Session(query', n) /\ SummaryOf(summary', n)
      BY <1>1, <1>4, TypesOfMore
    <2>3. w \in ChatRows(n)
      BY <2>1, <1>3 DEF ChatRows, Roles
    <2>4. rows' \in SUBSET ChatRows(n) /\ lastRow' = n
      BY <2>1, <2>3, <1>1, <1>6
    <2> HIDE DEF n
    <2> QED
      BY <2>1, <2>2, <2>4, <1>1, <1>2 DEF StateTypes
  <1> QED
    BY <1>5, <1>6

\* A failure that is counted keeps its bound.
LEMMA FailsTypes == ASSUME StateTypes, Fails PROVE failures' \in 0..MaxFailures
  BY ContextConstants DEF Fails, StateTypes

\* The compression of a turn keeps the types.
LEMMA RewriteTypes == ASSUME StateTypes, BeforeModelRewriteState PROVE StateTypes'
  <1> DEFINE split == splitContextForSummary(query.context, TRUE)
             made == [through |-> query.boundary, covers |-> split.context.covered]
  <1>1. /\ lastRow \in Nat /\ rows \in SUBSET ChatRows(lastRow) /\ status \in [Questions -> Statuses]
        /\ SummaryOf(summary, lastRow) /\ Session(query, lastRow) /\ Saved(checkpoint, lastRow)
        /\ undecided \subseteq Questions /\ left \subseteq Questions /\ failures \in 0..MaxFailures
    BY DEF StateTypes
  <1>2. ContextOf(lastRow, split.context)
    <2>1. ContextOf(lastRow, query.context)
      BY <1>1 DEF Session
    <2> QED
      BY <2>1, <1>1, SplitTypes
  <1> HIDE DEF split
  <1>3. SummaryOf(made, lastRow)
    <2>1. query.boundary \in 0..lastRow /\ split.context.covered \subseteq 1..lastRow
      BY <1>1, <1>2 DEF Session, ContextOf
    <2> QED
      BY <2>1 DEF SummaryOf
  <1>4. UNCHANGED <<rows, status, checkpoint, undecided, left, lastRow>>
    BY DEF BeforeModelRewriteState
  <1> HIDE DEF made
  <1>5. \/ summary' = made /\ query' = [query EXCEPT !.settled = TRUE, !.context = split.context] /\ UNCHANGED failures
        \/ Fails /\ summary' = made /\ query' = [query EXCEPT !.settled = TRUE]
        \/ query' = [query EXCEPT !.settled = TRUE] /\ UNCHANGED <<summary, failures>>
    BY DEF BeforeModelRewriteState, split, made
  <1>5a. query = [kind |-> query.kind, turn |-> query.turn, context |-> query.context, boundary |-> query.boundary,
                 settled |-> query.settled, fresh |-> query.fresh]
    BY <1>1 DEF Session
  <1>6. ASSUME NEW q, q = [query EXCEPT !.settled = TRUE] PROVE Session(q, lastRow)
    <2>1. q = [kind |-> query.kind, turn |-> query.turn, context |-> query.context, boundary |-> query.boundary,
               settled |-> TRUE, fresh |-> query.fresh]
      BY <1>6, <1>5a
    <2>2. /\ q.kind = query.kind /\ q.turn = query.turn /\ q.context = query.context /\ q.boundary = query.boundary
          /\ q.settled = TRUE /\ q.fresh = query.fresh
      BY <2>1
    <2> QED
      BY <2>1, <2>2, <1>1 DEF Session
  <1>7. ASSUME NEW q, q = [query EXCEPT !.settled = TRUE, !.context = split.context] PROVE Session(q, lastRow)
    <2>1. q = [kind |-> query.kind, turn |-> query.turn, context |-> split.context, boundary |-> query.boundary,
               settled |-> TRUE, fresh |-> query.fresh]
      BY <1>7, <1>5a
    <2>2. /\ q.kind = query.kind /\ q.turn = query.turn /\ q.context = split.context /\ q.boundary = query.boundary
          /\ q.settled = TRUE /\ q.fresh = query.fresh
      BY <2>1
    <2> QED
      BY <2>1, <2>2, <1>1, <1>2 DEF Session
  <1>8. Session(query', lastRow) /\ SummaryOf(summary', lastRow)
    BY <1>1, <1>3, <1>5, <1>6, <1>7
  <1>9. failures' \in 0..MaxFailures
    BY <1>1, <1>5, FailsTypes
  <1> QED
    BY <1>1, <1>4, <1>8, <1>9 DEF StateTypes

\* A turn that resumes keeps the types.
LEMMA ResumeTypes == ASSUME StateTypes, NEW t \in Questions, ResumeAgentApprovals(t) PROVE StateTypes'
  <1>1. /\ lastRow \in Nat /\ rows \in SUBSET ChatRows(lastRow) /\ status \in [Questions -> Statuses]
        /\ SummaryOf(summary, lastRow) /\ Session(query, lastRow) /\ Saved(checkpoint, lastRow)
        /\ undecided \subseteq Questions /\ left \subseteq Questions /\ failures \in 0..MaxFailures
    BY DEF StateTypes
  <1> DEFINE pruned == Pruned(rows, status)
             b == BoundaryOf(buildModelContext(pruned).kept)
  <1>2. /\ rows' = pruned /\ status' = [status EXCEPT ![t] = "pending"]
        /\ query' = [kind |-> "turn", turn |-> t, boundary |-> b, context |-> checkpoint[t], settled |-> FALSE, fresh |-> FALSE]
        /\ UNCHANGED <<summary, checkpoint, undecided, left, lastRow, failures>>
    BY DEF ResumeAgentApprovals
  <1>3. pruned \in SUBSET rows
    BY DEF Pruned
  <1>4. b \in 0..lastRow
    BY <1>3, BuiltTypes
  <1>5. ContextOf(lastRow, checkpoint[t])
    BY <1>1 DEF Saved
  <1>6. t \in 0..MaxTurns
    BY ContextConstants DEF Questions
  <1> HIDE DEF b, pruned
  <1>7. Session(query', lastRow)
    <2>1. /\ query'.kind = "turn" /\ query'.turn = t /\ query'.boundary = b /\ query'.context = checkpoint[t]
          /\ query'.settled = FALSE /\ query'.fresh = FALSE
      BY <1>2
    <2> QED
      BY <2>1, <1>2, <1>4, <1>5, <1>6 DEF Session
  <1>8. status' \in [Questions -> Statuses]
    BY <1>1, <1>2 DEF Statuses
  <1>9. rows' \in SUBSET ChatRows(lastRow)
    BY <1>1, <1>2, <1>3
  <1> QED
    BY <1>1, <1>2, <1>7, <1>8, <1>9 DEF StateTypes

\* The compression of the operator keeps the types.
LEMMA CompressTypes == ASSUME StateTypes, CompressContext \/ ForceSummary PROVE StateTypes'
  <1>1. /\ lastRow \in Nat /\ rows \in SUBSET ChatRows(lastRow) /\ status \in [Questions -> Statuses]
        /\ SummaryOf(summary, lastRow) /\ Session(query, lastRow) /\ Saved(checkpoint, lastRow)
        /\ undecided \subseteq Questions /\ left \subseteq Questions /\ failures \in 0..MaxFailures
    BY DEF StateTypes
  <1>2. CASE CompressContext
    <2> DEFINE context == buildModelContext(rows)
               b == BoundaryOf(context.kept)
    <2>1. /\ query' = [kind |-> "compress", turn |-> 0, context |-> context, boundary |-> b, settled |-> FALSE, fresh |-> FALSE]
          /\ UNCHANGED <<rows, status, summary, checkpoint, undecided, left, lastRow, failures>>
      BY <1>2 DEF CompressContext
    <2>2. ContextOf(lastRow, context) /\ b \in 0..lastRow
      BY BuiltTypes
    <2> HIDE DEF context, b
    <2>3. /\ query'.kind = "compress" /\ query'.turn = 0 /\ query'.boundary = b /\ query'.context = context
          /\ query'.settled = FALSE /\ query'.fresh = FALSE /\ 0 \in 0..MaxTurns
      BY <2>1, ContextConstants
    <2>4. Session(query', lastRow)
      BY <2>1, <2>2, <2>3 DEF Session
    <2> QED
      BY <1>1, <2>1, <2>4 DEF StateTypes
  <1>3. CASE ForceSummary
    <2> DEFINE split == splitContextForSummary(query.context, FALSE)
               made == [through |-> query.boundary, covers |-> split.context.covered]
    <2>1. ContextOf(lastRow, split.context)
      <3>1. ContextOf(lastRow, query.context)
        BY <1>1 DEF Session
      <3> QED
        BY <3>1, <1>1, SplitTypes
    <2>2. /\ query' = Idle /\ (summary' = made \/ UNCHANGED summary)
          /\ UNCHANGED <<rows, status, checkpoint, undecided, left, lastRow, failures>>
      BY <1>3 DEF ForceSummary
    <2> HIDE DEF split
    <2>3. SummaryOf(made, lastRow)
      <3>1. query.boundary \in 0..lastRow /\ split.context.covered \subseteq 1..lastRow
        BY <1>1, <2>1 DEF Session, ContextOf
      <3> QED
        BY <3>1 DEF SummaryOf
    <2> HIDE DEF made
    <2>4. Session(query', lastRow) /\ SummaryOf(summary', lastRow)
      BY <1>1, <2>2, <2>3, SessionNone
    <2> QED
      BY <1>1, <2>2, <2>4 DEF StateTypes
  <1> QED
    BY <1>2, <1>3

\* Every step keeps the types.
LEMMA StateTypesGoOn == ASSUME StateTypes, [ContextNext]_contextVars PROVE StateTypes'
  <1>1. /\ lastRow \in Nat /\ rows \in SUBSET ChatRows(lastRow) /\ status \in [Questions -> Statuses]
        /\ SummaryOf(summary, lastRow) /\ Session(query, lastRow) /\ Saved(checkpoint, lastRow)
        /\ undecided \subseteq Questions /\ left \subseteq Questions /\ failures \in 0..MaxFailures
    BY DEF StateTypes
  <1>2. CASE UNCHANGED contextVars
    BY <1>1, <1>2 DEF StateTypes, contextVars
  <1>3. ASSUME NEW t \in Questions, QueryWithAttachments(t) PROVE StateTypes'
    BY <1>3, QueryTypes
  <1>4. ASSUME NEW t \in Questions, ToolCallEnds(t) PROVE StateTypes'
    BY <1>1, <1>4 DEF StateTypes, ToolCallEnds
  <1>5. ASSUME NEW t \in Questions, ResumeAgentApprovals(t) PROVE StateTypes'
    BY <1>5, ResumeTypes
  <1>6. ASSUME NEW role \in {"tool", "reasoning"}, Output(role) PROVE StateTypes'
    BY <1>6, OutputTypes
  <1>7. CASE BeforeModelRewriteState
    BY <1>7, RewriteTypes
  <1>8. CASE Pause
    <2>1. /\ status' = [status EXCEPT ![query.turn] = "waiting_for_approval"]
          /\ checkpoint' = [checkpoint EXCEPT ![query.turn] = query.context]
          /\ undecided' = undecided \cup {query.turn} /\ query.kind = "turn"
          /\ UNCHANGED <<rows, summary, query, left, lastRow, failures>>
      BY <1>8 DEF Pause, Running
    <2>2. ContextOf(lastRow, query.context) /\ query.turn \in Questions
      BY <1>1, <2>1 DEF Session
    <2>3. Saved(checkpoint', lastRow)
      BY <1>1, <2>1, <2>2, SavedTypes
    <2>4. status' \in [Questions -> Statuses]
      BY <1>1, <2>1 DEF Statuses
    <2> QED
      BY <1>1, <2>1, <2>2, <2>3, <2>4 DEF StateTypes
  <1>9. CASE Continue
    <2>1. status' \in [Questions -> Statuses]
      BY <1>1, <1>9 DEF Statuses, Continue
    <2> QED
      BY <1>1, <2>1, <1>9 DEF StateTypes, Continue
  <1>10. CASE Answer \/ Steer \/ Fail
    <2>1. PICK result \in {"completed", "failed"} : EndTurn(result)
      BY <1>10 DEF Answer, Steer, Fail
    <2>2. /\ query' = Idle /\ checkpoint' = [checkpoint EXCEPT ![query.turn] = NoContext]
          /\ status' = [status EXCEPT ![query.turn] = result] \/ status' = status
          /\ UNCHANGED failures \/ Fails
          /\ UNCHANGED <<summary, undecided, left>>
      BY <2>1 DEF EndTurn
    <2>3. failures' \in 0..MaxFailures
      BY <1>1, <2>2, FailsTypes
    <2>4. query.kind = "turn"
      BY <1>10 DEF Answer, Steer, Fail, Running
    <2>5. \/ rows' \in SUBSET rows /\ lastRow' = lastRow
          \/ /\ rows' = rows \cup {[id |-> lastRow + 1, turn |-> query.turn, role |-> "assistant"]}
             /\ lastRow' = lastRow + 1
      BY <1>10 DEF Answer, Steer, Fail, Pruned
    <2> QED
      BY <2>2, <2>3, <2>4, <2>5, EndTypes
  <1>11. CASE PruneFails
    <2>1. failures' \in 0..MaxFailures
      BY <1>11, FailsTypes DEF PruneFails
    <2>2. /\ query.kind = "turn" /\ query' = Idle /\ checkpoint' = [checkpoint EXCEPT ![query.turn] = NoContext]
          /\ status' = [status EXCEPT ![query.turn] = "failed"]
          /\ UNCHANGED <<rows, summary, undecided, left, lastRow>>
      BY <1>11 DEF PruneFails
    <2>3. "failed" \in {"completed", "failed"}
      OBVIOUS
    <2> QED
      BY <2>1, <2>2, <2>3, EndTypes
  <1>12. CASE Retain
    <2>1. failures' \in 0..MaxFailures
      BY <1>12, FailsTypes DEF Retain
    <2>2. /\ rows' \in SUBSET rows /\ status' = [status EXCEPT ![query.turn] = "waiting_for_approval"]
          /\ query' = Idle /\ UNCHANGED <<summary, checkpoint, undecided, left, lastRow>>
      BY <1>12 DEF Retain, Pruned
    <2>3. Session(query', lastRow)
      BY <1>1, <2>2, SessionNone
    <2>4. status' \in [Questions -> Statuses]
      BY <1>1, <2>2 DEF Statuses
    <2> QED
      BY <1>1, <2>1, <2>2, <2>3, <2>4 DEF StateTypes
  <1>13. CASE CompressContext \/ ForceSummary
    BY <1>13, CompressTypes
  <1>14. CASE RestartContext
    <2>1. failures' \in 0..MaxFailures
      BY <1>14, FailsTypes DEF RestartContext
    <2>2. /\ rows' \in SUBSET rows /\ query' = Idle
          /\ UNCHANGED <<summary, checkpoint, undecided, left, lastRow>>
          /\ status' = [t \in Questions |-> IF status[t] = "pending" /\ checkpoint[t] = NoContext THEN "failed" ELSE status[t]]
      BY <1>14 DEF RestartContext, Pruned
    <2>3. Session(query', lastRow)
      BY <1>1, <2>2, SessionNone
    <2>4. status' \in [Questions -> Statuses]
      BY <1>1, <2>2 DEF Statuses
    <2> QED
      BY <1>1, <2>1, <2>2, <2>3, <2>4 DEF StateTypes
  <1> QED
    BY <1>2, <1>3, <1>4, <1>5, <1>6, <1>7, <1>8, <1>9, <1>10, <1>11, <1>12, <1>13, <1>14 DEF ContextNext

-----------------------------------------------------------------------------
(* What the statuses and the rows keep. *)

\* A turn that moves to another status leaves the order and what the others have to show.
LEMMA StatusMoves ==
  ASSUME NEW n \in Nat, NEW R \in SUBSET ChatRows(n), NEW st \in [Questions -> Statuses], InOrder(R, st),
         NEW t \in Questions, InProgress(st, t), NEW x \in Statuses \ {"none"}, NEW st2, st2 = [st EXCEPT ![t] = x]
  PROVE  /\ InOrder(R, st2) /\ st2[t] = x
         /\ \A v \in Questions : v # t => st2[v] = st[v]
         /\ \A v \in Questions : Solid(R, st, v) => Solid(R, st2, v)
         /\ x \in {"pending", "waiting_for_approval"} => \A v \in Questions : Solid(R, st2, v) => Solid(R, st, v)
  <1>1. st2[t] = x /\ \A v \in Questions : v # t => st2[v] = st[v]
    OBVIOUS
  <1>2. /\ \A r \in R : r.turn <= t /\ (r.turn # t => Solid(R, st, r.turn))
        /\ \A u \in Questions : Began(st, u) => u <= t
        /\ ~Solid(R, st, t) /\ Began(st, t) /\ t \in Nat
    BY LastTurn
  <1>3. \A v \in Questions : Solid(R, st, v) => Solid(R, st2, v)
    <2>1. \A v \in Questions : v # t => (Solid(R, st, v) <=> Solid(R, st2, v))
      BY <1>1 DEF Solid
    <2> QED
      BY <2>1, <1>2
  <1>4. x \in {"pending", "waiting_for_approval"} => \A v \in Questions : Solid(R, st2, v) => Solid(R, st, v)
    <2>1. \A v \in Questions : v # t => (Solid(R, st, v) <=> Solid(R, st2, v))
      BY <1>1 DEF Solid
    <2>2. x \in {"pending", "waiting_for_approval"} => ~Solid(R, st2, t)
      BY <1>1 DEF Solid
    <2> QED
      BY <2>1, <2>2
  <1>5. \A v \in Questions : Began(st2, v) <=> Began(st, v)
    BY <1>1, <1>2 DEF Began
  <1>6. \A v \in Questions : Finished(st, v) => Finished(st2, v)
    <2>1. \A v \in Questions : v # t => (Finished(st, v) <=> Finished(st2, v))
      BY <1>1 DEF Finished
    <2>2. ~Finished(st, t)
      BY LastTurn
    <2> QED
      BY <2>1, <2>2
  <1>7. \A r \in R : r.turn \in Questions
    BY RowFields
  <1>8. InOrder(R, st2)
    <2>1. \A v, u \in Questions : u < v /\ Began(st2, v) => Finished(st2, u)
      BY <1>5, <1>6 DEF InOrder
    <2>2. \A r \in R : Began(st2, r.turn)
      BY <1>5, <1>7 DEF InOrder
    <2>3. \A r \in R : \A v \in Questions : r.turn < v /\ Began(st2, v) => Solid(R, st2, r.turn)
      BY <1>5, <1>3, <1>7 DEF InOrder
    <2>4. \A v \in Questions : InProgress(st2, v) => InProgress(st, v)
      <3>1. \A v \in Questions : v # t => (InProgress(st2, v) <=> InProgress(st, v))
        BY <1>1 DEF InProgress
      <3> QED
        BY <3>1
    <2>5. \A v \in Questions : InProgress(st2, v) => \E q \in Users(R) : q.turn = v
      BY <2>4 DEF InOrder
    <2>6. Orderly(R)
      BY DEF InOrder
    <2> QED
      BY <2>1, <2>2, <2>3, <2>5, <2>6 DEF InOrder
  <1> QED
    BY <1>1, <1>3, <1>4, <1>8

\* The questions of solid turns after m are of the rows, and more when more turns are solid.
LEMMA SolidGrows ==
  ASSUME NEW n \in Nat, NEW R \in SUBSET ChatRows(n), NEW st, NEW st2,
         \A v \in Questions : Solid(R, st, v) => Solid(R, st2, v), NEW m
  PROVE  /\ SolidAfter(R, st2, m) \in SUBSET (1..n)
         /\ SolidAfter(R, st, m) \subseteq SolidAfter(R, st2, m)
         /\ IsFiniteSet(SolidAfter(R, st2, m)) /\ Cardinality(SolidAfter(R, st2, m)) \in Nat
         /\ Cardinality(SolidAfter(R, st, m)) \in Nat
         /\ Cardinality(SolidAfter(R, st, m)) <= Cardinality(SolidAfter(R, st2, m))
  <1>1. \A u \in Users(R) : u.id \in 1..n /\ u.turn \in Questions
    BY RowFields DEF Users
  <1>2. SolidAfter(R, st2, m) \in SUBSET (1..n) /\ SolidAfter(R, st, m) \in SUBSET (1..n)
    BY <1>1 DEF SolidAfter
  <1>3. SolidAfter(R, st, m) \subseteq SolidAfter(R, st2, m)
    BY <1>1 DEF SolidAfter
  <1>4. /\ IsFiniteSet(SolidAfter(R, st2, m)) /\ Cardinality(SolidAfter(R, st2, m)) \in Nat
        /\ Cardinality(SolidAfter(R, st, m)) \in Nat
    BY <1>2, FiniteIds
  <1>5. Cardinality(SolidAfter(R, st, m)) <= Cardinality(SolidAfter(R, st2, m))
    BY <1>3, <1>4, FS_Subset
  <1> QED
    BY <1>2, <1>3, <1>4, <1>5

\* The summary fits as long as what is solid stays so, whatever is pruned.
LEMMA SummaryStays ==
  ASSUME NEW n \in Nat, NEW R \in SUBSET ChatRows(n), NEW st, NEW s, SummaryFits(s, R, st),
         NEW P \in SUBSET R, NEW st2, \A r \in R : Solid(R, st, r.turn) => r \in P /\ Solid(P, st2, r.turn)
  PROVE  SummaryFits(s, P, st2)
  <1>1. Between(P, s.through)
    BY DEF SummaryFits, Between
  <1>2. \A r \in P : r.id <= s.through <=> r.id \in s.covers
    BY DEF SummaryFits
  <1>3. s # NoSummary => \E r \in P : r.id = s.through /\ Solid(P, st2, r.turn)
    BY DEF SummaryFits
  <1> QED
    BY <1>1, <1>2, <1>3 DEF SummaryFits

\* The boundary of the summary is before an unfinished turn.
LEMMA SummaryBefore ==
  ASSUME NEW n \in Nat, NEW R \in SUBSET ChatRows(n), NEW st, InOrder(R, st),
         NEW t \in Questions, InProgress(st, t), NEW s, SummaryFits(s, R, st)
  PROVE  \A r \in R : r.turn = t => r.id > s.through
  <1>1. \A r \in R : r.id \in 1..n /\ r.id \in Nat
    BY RowFields
  <1>2. CASE s = NoSummary
    <2>1. s.through = 0
      BY <1>2 DEF NoSummary
    <2> QED
      BY <2>1, <1>1
  <1>3. CASE s # NoSummary
    <2>1. PICK e \in R : e.id = s.through /\ Solid(R, st, e.turn)
      BY <1>3 DEF SummaryFits
    <2>2. e.turn # t /\ e.turn <= t
      BY <2>1, LastTurn
    <2>3. e.turn < t
      <3>1. e.turn \in Nat /\ t \in Nat
        BY RowFields, ContextConstants DEF Questions
      <3> QED
        BY <3>1, <2>2
    <2>4. \A r \in R : r.turn = t => e.id < r.id
      BY <2>3, RowOrder DEF InOrder
    <2> QED
      BY <2>1, <2>4, <1>1
  <1> QED
    BY <1>2, <1>3

\* A row of an unfinished turn leaves the order, the summary, and what is solid.
LEMMA RowJoins ==
  ASSUME NEW n, NEW R, NEW t, NEW o, NEW w, NEW R2, Joins(n, R, t, o, w, R2),
         NEW st, InOrder(R, st), InProgress(st, t), NEW s, SummaryFits(s, R, st), SummaryOf(s, n)
  PROVE  /\ InOrder(R2, st) /\ SummaryFits(s, R2, st)
         /\ \A v \in Questions : Solid(R2, st, v) <=> Solid(R, st, v)
         /\ \A m : SolidAfter(R2, st, m) = SolidAfter(R, st, m)
         /\ o.id > s.through
  <1>1. /\ n \in Nat /\ R \in SUBSET ChatRows(n) /\ t \in Questions /\ o \in Users(R) /\ o.turn = t
        /\ w.id = n + 1 /\ w.turn = t /\ w.role # "user" /\ R2 = R \cup {w}
    BY DEF Joins
  <1>2. R2 \in SUBSET ChatRows(n + 1) /\ Orderly(R2) /\ Users(R2) = Users(R)
    BY RowAdded
  <1>3. \A r \in R : r.turn \in Questions /\ r.id \in 1..n /\ r.id \in Nat
    BY <1>1, RowFields
  <1>4. ~(st[t] = "completed") /\ ~(st[t] = "failed")
    BY DEF InProgress
  <1>5. \A v \in Questions : Solid(R2, st, v) <=> Solid(R, st, v)
    BY <1>1, <1>4 DEF Solid
  <1>6. InOrder(R2, st)
    <2>1. \A r \in R2 : Began(st, r.turn)
      <3>1. Began(st, w.turn)
        BY <1>1 DEF InProgress, Began
      <3> QED
        BY <3>1, <1>1 DEF InOrder
    <2>2. \A r \in R2 : \A v \in Questions : r.turn < v /\ Began(st, v) => Solid(R2, st, r.turn)
      <3>1. ASSUME NEW v \in Questions, t < v, Began(st, v) PROVE FALSE
        <4>1. v <= t /\ t \in Nat /\ v \in Nat
          BY <3>1, <1>1, LastTurn, ContextConstants DEF Questions
        <4> QED
          BY <4>1, <3>1
      <3>2. \A r \in R : \A v \in Questions : r.turn < v /\ Began(st, v) => Solid(R2, st, r.turn)
        BY <1>3, <1>5 DEF InOrder
      <3> QED
        BY <3>1, <3>2, <1>1
    <2>3. \A v \in Questions : InProgress(st, v) => \E q \in Users(R2) : q.turn = v
      BY <1>2 DEF InOrder
    <2> QED
      BY <2>1, <2>2, <2>3, <1>2 DEF InOrder
  <1>7. \A r \in R : r.turn = t => r.id > s.through
    BY <1>1, SummaryBefore
  <1>8. o.id > s.through /\ o \in R
    BY <1>1, <1>7 DEF Users
  <1>9. s.through \in 0..n /\ s.covers \subseteq 1..n
    BY DEF SummaryOf
  <1>10. Between(R2, s.through)
    BY <1>1, <1>8, <1>9, RowAdded DEF SummaryFits
  <1>11. ~(w.id <= s.through) /\ w.id \notin s.covers
    BY <1>1, <1>9
  <1>12. SummaryFits(s, R2, st)
    <2>1. \A r \in R2 : r.id <= s.through <=> r.id \in s.covers
      BY <1>1, <1>11 DEF SummaryFits
    <2>2. s # NoSummary => \E r \in R2 : r.id = s.through /\ Solid(R2, st, r.turn)
      BY <1>1, <1>3, <1>5 DEF SummaryFits
    <2> QED
      BY <2>1, <2>2, <1>10 DEF SummaryFits
  <1>13. \A m : SolidAfter(R2, st, m) = SolidAfter(R, st, m)
    <2>1. \A u \in Users(R) : Solid(R2, st, u.turn) <=> Solid(R, st, u.turn)
      BY <1>3, <1>5 DEF Users
    <2>2. ASSUME NEW m PROVE SolidAfter(R2, st, m) = SolidAfter(R, st, m)
      BY <2>1, <1>2 DEF SolidAfter
    <2> QED
      BY <2>2
  <1> QED
    BY <1>5, <1>6, <1>8, <1>12, <1>13

-----------------------------------------------------------------------------
(* The steps. *)

\* A message of the operator.
LEMMA QueryKeeps ==
  ASSUME StateTypes, Whole, NEW t \in Questions, QueryWithAttachments(t), left' = {}
  PROVE  Whole'
  <1>0. PICK P : P = Pruned(rows, status)
    OBVIOUS
  <1> DEFINE n == lastRow
             m == summary.through
             K == preparedTurns(HistoryAfter(P, m))
             w == [id |-> n + 1, turn |-> t, role |-> "user"]
             c == query'.context
  <1>1. /\ n \in Nat /\ rows \in SUBSET ChatRows(n) /\ status \in [Questions -> Statuses]
        /\ SummaryOf(summary, n) /\ m \in 0..n /\ m \in Nat /\ summary.covers \subseteq 1..n
        /\ failures \in 0..MaxFailures
    BY DEF StateTypes, SummaryOf
  <1>2. /\ rows' = P \cup {w} /\ lastRow' = n + 1 /\ status' = [status EXCEPT ![t] = "pending"]
        /\ query' = [kind |-> "turn", turn |-> t, boundary |-> BoundaryOf(buildModelContext(P).kept), settled |-> FALSE, fresh |-> TRUE,
                     context |-> [buildModelContext(P) EXCEPT !.kept = [q \in DOMAIN @ \cup {n + 1} |-> IF q = n + 1 THEN {n + 1} ELSE @[q]]]]
        /\ UNCHANGED <<summary, checkpoint, failures>> /\ query = Idle
        /\ status[t] = "none"
    BY <1>0 DEF QueryWithAttachments
  <1>3. \A u \in Questions : ~InProgress(status, u)
    BY DEF QueryWithAttachments, InProgress
  <1>4. InOrder(rows, status) /\ SessionStory /\ SummaryFits(summary, rows, status) /\ CountStory
    BY DEF Whole
  <1>5. \A u \in Questions : u \in Nat
    BY ContextConstants DEF Questions
  <1>6. \A r \in rows : r.turn \in Questions /\ r.turn \in Nat /\ Finished(status, r.turn) /\ r.turn < t
    <2>1. TAKE r \in rows
    <2>2. r.turn \in Questions /\ Began(status, r.turn)
      BY <1>1, <1>4, RowFields DEF InOrder
    <2>3. Finished(status, r.turn)
      BY <2>2, <1>1, <1>3 DEF Began, Finished, InProgress, Statuses
    <2>4. ~(t < r.turn)
      BY <2>2, <1>2, <1>4 DEF InOrder, Finished
    <2>5. r.turn # t
      BY <2>2, <1>2 DEF Began
    <2> QED
      BY <2>2, <2>3, <2>4, <2>5, <1>5
  <1>7. /\ P = {r \in rows : status[r.turn] # "failed" \/ Solid(rows, status, r.turn)}
        /\ P \in SUBSET rows /\ InOrder(P, status)
        /\ \A v : Solid(P, status, v) <=> Solid(rows, status, v)
        /\ SolidAfter(P, status, m) = SolidAfter(rows, status, m)
        /\ Between(P, m)
    BY <1>0, <1>1, <1>4, PrunedRows DEF SummaryFits
  <1>8. \A r \in P : Solid(P, status, r.turn) /\ r \in rows
    BY <1>6, <1>7 DEF Finished, Solid
  <1>9. \A r \in rows : Solid(rows, status, r.turn) => r \in P
    BY <1>7
  <1>10. buildModelContext(P) = [covered |-> summary.covers, kept |-> K]
    BY <1>4, <1>7, <1>9, ContextBuilt
  <1>11. P \in SUBSET ChatRows(n) /\ Orderly(P) /\ LaterSolid(P, status) /\ \A r \in P : r.turn < t
    BY <1>1, <1>6, <1>7, <1>8 DEF InOrder, LaterSolid
  <1>12. /\ SolidAfter(P, status, m) \subseteq DOMAIN K
         /\ \A d \in DOMAIN K : \E u \in Users(P) : u.id = d
         /\ \A u \in Users(P) : u.id \in DOMAIN K => u.id > m /\ K[u.id] = Ids(RowsOf(P, u.turn))
    <2>1. PICK k : k = preparedTurns(HistoryAfter(P, m))
      OBVIOUS
    <2>2. P \in SUBSET ChatRows(n) /\ Orderly(P) /\ m \in Nat /\ Between(P, m) /\ LaterSolid(P, status) /\ n \in Nat
      BY <1>1, <1>7, <1>11
    <2>3. /\ SolidAfter(P, status, m) \subseteq DOMAIN k
          /\ \A d \in DOMAIN k : \E u \in Users(P) : u.id = d
          /\ \A u \in Users(P) : u.id \in DOMAIN k => u.id > m
      BY <2>1, <2>2, PreparedTurns
    <2>4. \A u \in Users(P) : u.id \in DOMAIN k /\ (\A r \in P : Solid(P, status, r.turn)) => k[u.id] = Ids(RowsOf(P, u.turn))
      BY <2>1, <2>2, PreparedTurns
    <2> QED
      BY <1>8, <2>1, <2>3, <2>4
  <1> HIDE DEF K
  <1>13. \A u \in Users(P) : u.id > m => u.id \in SolidAfter(P, status, m)
    BY <1>8 DEF SolidAfter, Users
  <1>14. DOMAIN K = {q.id : q \in {u \in Users(P) : u.id > m}} /\ DOMAIN K = SolidAfter(P, status, m)
    <2>1. \A d \in DOMAIN K : \E u \in Users(P) : u.id = d /\ u.id > m
      BY <1>12
    <2>2. \A u \in Users(P) : u.id > m => u.id \in DOMAIN K
      BY <1>12, <1>13
    <2>3. DOMAIN K = {q.id : q \in {u \in Users(P) : u.id > m}}
      BY <2>1, <2>2
    <2>4. DOMAIN K \subseteq SolidAfter(P, status, m)
      BY <2>1, <1>13
    <2> QED
      BY <2>3, <2>4, <1>12
  <1>15. \A u \in Users(P) : u.id > m => K[u.id] = Ids(RowsOf(P, u.turn))
    BY <1>12, <1>14
  <1>16. /\ c = [covered |-> summary.covers,
                 kept |-> [q \in DOMAIN K \cup {n + 1} |-> IF q = n + 1 THEN {n + 1} ELSE K[q]]]
         /\ query'.kind = "turn" /\ query'.turn = t /\ query'.settled = FALSE /\ query'.fresh = TRUE
         /\ query'.boundary = BoundaryOf(K)
    BY <1>2, <1>10
  <1>17. /\ c.covered = summary.covers
         /\ c.kept = [q \in DOMAIN K \cup {n + 1} |-> IF q = n + 1 THEN {n + 1} ELSE K[q]]
    BY <1>16
  <1>18. \A r \in P : r.id \in c.covered <=> r.id <= m
    BY <1>4, <1>8, <1>17 DEF SummaryFits
  <1>19. PICK R2 : R2 = rows'
    OBVIOUS
  <1>20. PICK x : x = c
    OBVIOUS
  <1>21. PICK k : k = K
    OBVIOUS
  <1>22. PICK p : p = P
    OBVIOUS
  <1>23. /\ R2 \in SUBSET ChatRows(n + 1) /\ Orderly(R2) /\ Between(R2, m)
         /\ Users(R2) = Users(P) \cup {w} /\ RowsOf(R2, t) = {w}
         /\ \A v : v # t => RowsOf(R2, v) = RowsOf(P, v)
         /\ Fits(c, R2, t, m) /\ c.kept[n + 1] = {n + 1}
         /\ Others(R2, t, m) = DOMAIN K /\ n + 1 \notin DOMAIN K
    <2>1. PICK a : a = w
      OBVIOUS
    <2> HIDE DEF c, w
    <2>2. R2 = p \cup {a}
      BY <1>19, <1>2, <1>22, <2>1
    <2>3. a = [id |-> n + 1, turn |-> t, role |-> "user"]
      BY <2>1 DEF w
    <2>4. /\ p \in SUBSET ChatRows(n) /\ Orderly(p) /\ (\A r \in p : r.turn < t) /\ Between(p, m)
          /\ DOMAIN k = {q.id : q \in {u \in Users(p) : u.id > m}}
          /\ \A u \in Users(p) : u.id > m => k[u.id] = Ids(RowsOf(p, u.turn))
      BY <1>22, <1>21, <1>7, <1>11, <1>14, <1>15
    <2>5. /\ x.covered \subseteq 1..n /\ \A r \in p : r.id \in x.covered <=> r.id <= m
          /\ x.kept = [q \in DOMAIN k \cup {n + 1} |-> IF q = n + 1 THEN {n + 1} ELSE k[q]]
      BY <1>1, <1>17, <1>18, <1>20, <1>21, <1>22
    <2>6. /\ R2 \in SUBSET ChatRows(n + 1) /\ Orderly(R2) /\ Between(R2, m)
          /\ Users(R2) = Users(p) \cup {a} /\ RowsOf(R2, t) = {a}
          /\ \A v : v # t => RowsOf(R2, v) = RowsOf(p, v)
          /\ Fits(x, R2, t, m) /\ x.kept[n + 1] = {n + 1}
          /\ Others(R2, t, m) = DOMAIN k /\ n + 1 \notin DOMAIN k
      <3>1. BeginsTurn(n, p, t, a, R2, m, k, x)
        BY <2>2, <2>3, <2>4, <2>5, <1>1 DEF BeginsTurn
      <3> QED
        BY <3>1, FitsFresh
    <2> QED
      BY <2>1, <2>6, <1>20, <1>21, <1>22
  <1>24. status'[t] = "pending" /\ \A v \in Questions : v # t => status'[v] = status[v]
    BY <1>1, <1>2
  <1>25. PICK s : s = status'
    OBVIOUS
  <1>26. w.turn = t /\ w.id = n + 1 /\ w.role = "user" /\ w.id > m
    BY <1>1
  <1>27. ~Solid(R2, s, t) /\ \A v \in Questions : v # t => (Solid(R2, s, v) <=> Solid(P, status, v))
    <2>1. ~Solid(R2, s, t)
      BY <1>24, <1>25 DEF Solid
    <2>2. ASSUME NEW v \in Questions, v # t PROVE Solid(R2, s, v) <=> Solid(P, status, v)
      <3>1. \A r : r \in R2 /\ r.turn = v <=> r \in P /\ r.turn = v
        BY <2>2, <1>2, <1>19, <1>26
      <3> QED
        BY <3>1, <2>2, <1>24, <1>25 DEF Solid
    <2> QED
      BY <2>1, <2>2
  <1> HIDE DEF w, c
  <1>28. InOrder(R2, s)
    <2>1. \A v, u \in Questions : u < v /\ Began(s, v) => Finished(s, u)
      <3>1. TAKE v, u \in Questions
      <3>2. SUFFICES ASSUME u < v, Began(s, v) PROVE Finished(s, u)
        OBVIOUS
      <3>3. CASE v = t
        <4>1. Began(status, u)
          <5>1. u \in 1..(t - 1)
            BY <3>2, <3>3, <1>5 DEF Questions
          <5> QED
            BY <5>1 DEF QueryWithAttachments, Began
        <4>2. Finished(status, u)
          BY <4>1, <1>1, <1>3 DEF Began, Finished, InProgress, Statuses
        <4>3. u # t
          BY <3>2, <3>3, <1>5
        <4> QED
          BY <4>2, <4>3, <1>24, <1>25 DEF Finished
      <3>4. CASE v # t
        <4>1. Began(status, v)
          BY <3>2, <3>4, <1>24, <1>25 DEF Began
        <4>2. Finished(status, u)
          BY <4>1, <3>2, <1>4 DEF InOrder
        <4>3. u # t
          BY <4>2, <1>2 DEF Finished
        <4> QED
          BY <4>2, <4>3, <1>24, <1>25 DEF Finished
      <3> QED
        BY <3>3, <3>4
    <2>2. \A r \in R2 : r \in P \/ r = w
      BY <1>2, <1>19 DEF w
    <2>3. \A r \in P : r.turn \in Questions /\ r.turn # t /\ Solid(R2, s, r.turn)
      <3>1. \A r \in P : r.turn \in Questions /\ r.turn \in Nat /\ r.turn < t
        BY <1>6, <1>8
      <3>2. \A r \in P : r.turn # t
        BY <3>1, <1>5
      <3> QED
        BY <3>1, <3>2, <1>8, <1>27
    <2>4. \A r \in R2 : Began(s, r.turn)
      <3>1. Began(s, w.turn)
        BY <1>26, <1>24, <1>25 DEF Began
      <3>2. \A r \in P : Began(s, r.turn)
        BY <2>3 DEF Solid, Began
      <3> QED
        BY <2>2, <3>1, <3>2
    <2>5. \A r \in R2 : \A v \in Questions : r.turn < v /\ Began(s, v) => Solid(R2, s, r.turn)
      <3>1. ASSUME NEW v \in Questions, t < v, Began(s, v) PROVE FALSE
        <4>1. Began(status, v)
          BY <3>1, <1>5, <1>24, <1>25 DEF Began
        <4>2. Finished(status, t)
          BY <4>1, <3>1, <1>4 DEF InOrder
        <4> QED
          BY <4>2, <1>2 DEF Finished
      <3> QED
        BY <3>1, <2>2, <2>3, <1>26
    <2>6. \A v \in Questions : InProgress(s, v) => \E q \in Users(R2) : q.turn = v
      <3>1. \A v \in Questions : InProgress(s, v) => v = t
        BY <1>3, <1>24, <1>25 DEF InProgress
      <3>2. w \in Users(R2)
        BY <1>23
      <3> QED
        BY <3>1, <3>2, <1>26
    <2> QED
      BY <2>1, <2>4, <2>5, <2>6, <1>23 DEF InOrder
  <1>29. SolidAfter(R2, s, m) = SolidAfter(P, status, m)
    <2>1. \A u \in Users(P) : u.turn \in Questions /\ u.turn # t
      BY <1>6, <1>8, <1>5 DEF Users
    <2>2. \A u \in Users(P) : Solid(R2, s, u.turn) <=> Solid(P, status, u.turn)
      BY <2>1, <1>27
    <2>3. ~Solid(R2, s, w.turn)
      BY <1>26, <1>27
    <2>4. \A u : u \in Users(R2) /\ Solid(R2, s, u.turn) <=> u \in Users(P) /\ Solid(P, status, u.turn)
      BY <2>2, <2>3, <1>23
    <2> QED
      BY <2>4 DEF SolidAfter
  <1>30. InOrder(rows', status')
    BY <1>28, <1>19, <1>25
  <1>31. \A v \in Questions : checkpoint[v] = NoContext
    BY <1>3, <1>4 DEF SessionStory
  <1>32. SessionStory'
    <2>1. InProgress(s, t)
      BY <1>24, <1>25 DEF InProgress
    <2> QED
      BY <2>1, <1>2, <1>16, <1>25, <1>31 DEF SessionStory
  <1>33. SummaryFits(summary, R2, s)
    <2>1. \A r \in R2 : r \in P \/ r = w
      BY <1>2, <1>19 DEF w
    <2>2. ~(w.id <= m) /\ w.id \notin summary.covers
      BY <1>1, <1>26
    <2>3. \A r \in R2 : r.id <= m <=> r.id \in summary.covers
      BY <2>1, <2>2, <1>4, <1>8 DEF SummaryFits
    <2>4. summary # NoSummary => \E r \in R2 : r.id = m /\ Solid(R2, s, r.turn)
      <3>1. SUFFICES ASSUME summary # NoSummary PROVE \E r \in R2 : r.id = m /\ Solid(R2, s, r.turn)
        OBVIOUS
      <3>2. PICK r \in rows : r.id = m /\ Solid(rows, status, r.turn)
        BY <3>1, <1>4 DEF SummaryFits
      <3>3. r \in P /\ r \in R2 /\ Solid(P, status, r.turn)
        BY <3>2, <1>7, <1>2, <1>19
      <3>4. r.turn \in Questions /\ r.turn # t
        BY <3>2, <1>6, <1>5
      <3> QED
        BY <3>2, <3>3, <3>4, <1>27
    <2> QED
      BY <2>3, <2>4, <1>23 DEF SummaryFits
  <1>34. SummaryFits(summary', rows', status')
    BY <1>33, <1>2, <1>19, <1>25
  <1>35. CountStory'
    <2>1. SolidAfter(rows', status', summary'.through) = SolidAfter(rows, status, summary.through)
      BY <1>29, <1>7, <1>2, <1>19, <1>25
    <2> QED
      BY <2>1, <1>2, <1>4 DEF CountStory
  <1>36. FreshStory'
    <2>1. m \in 0..lastRow' /\ Fits(query'.context, rows', query'.turn, m)
      BY <1>1, <1>2, <1>16, <1>19, <1>23 DEF c
    <2>2. \A u \in Users(rows') : u.turn = t => query'.context.kept[u.id] = Ids(RowsOf(rows', u.turn))
      <3>1. \A u \in Users(R2) : u.turn = t => u = w
        BY <1>6, <1>8, <1>23, <1>5 DEF Users
      <3>2. Ids(RowsOf(R2, t)) = {n + 1}
        BY <1>23, <1>26 DEF Ids
      <3>3. c.kept[w.id] = Ids(RowsOf(R2, t))
        BY <3>2, <1>23, <1>26
      <3>4. \A u \in Users(R2) : u.turn = t => c.kept[u.id] = Ids(RowsOf(R2, u.turn))
        BY <3>1, <3>3, <1>26
      <3> QED
        BY <3>4, <1>19 DEF c
    <2>3. failures' = 0 /\ c.covered # {} => Cardinality(DOMAIN c.kept) > Preserve
      <3>1. SUFFICES ASSUME failures' = 0, c.covered # {} PROVE Cardinality(DOMAIN c.kept) > Preserve
        OBVIOUS
      <3>2. summary # NoSummary
        BY <3>1, <1>17 DEF NoSummary
      <3>3. Cardinality(DOMAIN K) >= Preserve
        BY <3>1, <3>2, <1>2, <1>4, <1>7, <1>14 DEF CountStory
      <3>4. IsFiniteSet(DOMAIN K) /\ Cardinality(DOMAIN K) \in Nat
        <4>1. DOMAIN K \in SUBSET (1..n)
          BY <1>14, <1>11, RowFields, <1>1 DEF Users
        <4> QED
          BY <4>1, <1>1, FiniteIds
      <3>5. DOMAIN c.kept = DOMAIN K \cup {n + 1}
        BY <1>17
      <3>6. Cardinality(DOMAIN c.kept) = Cardinality(DOMAIN K) + 1
        BY <3>4, <3>5, <1>23, FS_AddElement
      <3> QED
        BY <3>3, <3>4, <3>6, ContextConstants
    <2> QED
      BY <2>1, <2>2, <2>3, <1>16 DEF FreshStory, c
  <1>37. SplitStory'
    <2>1. Fits(query'.context, rows', query'.turn, summary'.through)
      BY <1>2, <1>16, <1>19, <1>23 DEF c
    <2>2. BoundaryOf(K) # 0 => Splits(BoundaryOf(K), R2, t, m)
      <3>1. SUFFICES ASSUME BoundaryOf(k) # 0 PROVE Splits(BoundaryOf(k), R2, t, m)
        BY <1>21
      <3>2. k = preparedTurns(HistoryAfter(P, m))
        BY <1>21 DEF K
      <3>3. /\ \A r \in P : Solid(P, status, r.turn) => r.turn # t
            /\ P \subseteq R2 /\ \A r \in R2 : r \in P \/ r.turn = t
            /\ DOMAIN k = Others(R2, t, m)
        <4>1. \A r \in P : r.turn # t
          BY <1>6, <1>8, <1>5
        <4>2. \A r \in R2 : r \in P \/ r = w
          BY <1>2, <1>19 DEF w
        <4>3. P \subseteq R2
          BY <1>2, <1>19
        <4> QED
          BY <4>1, <4>2, <4>3, <1>26, <1>21, <1>23
      <3> QED
        BY <3>1, <3>2, <3>3, <1>1, <1>7, <1>11, SplitsOf
    <2> QED
      BY <2>1, <2>2, <1>2, <1>16, <1>19 DEF SplitStory
  <1>38. CheckpointStory' /\ CompressStory'
    BY <1>2, <1>16, <1>31 DEF CheckpointStory, CompressStory
  <1> QED
    BY <1>30, <1>32, <1>34, <1>35, <1>36, <1>37, <1>38 DEF Whole

\* A row of a tool or of reasoning.
LEMMA OutputKeeps ==
  ASSUME StateTypes, Whole, NEW role \in {"tool", "reasoning"}, Output(role)
  PROVE  Whole'
  <1>1. /\ lastRow \in Nat /\ rows \in SUBSET ChatRows(lastRow) /\ status \in [Questions -> Statuses]
        /\ SummaryOf(summary, lastRow) /\ summary.through \in 0..lastRow
        /\ Session(query, lastRow) /\ Saved(checkpoint, lastRow)
    BY DEF StateTypes, SummaryOf
  <1>2. /\ InOrder(rows, status) /\ SessionStory /\ SummaryFits(summary, rows, status) /\ CountStory
        /\ FreshStory /\ SplitStory /\ CheckpointStory
    BY DEF Whole
  <1>3. PICK t, n, R, R2, m, w : /\ t = query.turn /\ n = lastRow /\ R = rows /\ R2 = rows' /\ m = summary.through
                                 /\ w = [id |-> lastRow + 1, turn |-> query.turn, role |-> role]
    OBVIOUS
  <1>4. /\ query.kind = "turn" /\ status[t] = "pending" /\ InProgress(status, t)
        /\ R2 = R \cup {w} /\ lastRow' = n + 1
        /\ query' = [query EXCEPT !.context.kept[Max(DOMAIN query.context.kept)] = @ \cup {n + 1}]
        /\ UNCHANGED <<status, summary, checkpoint, undecided, left, failures>>
    BY <1>3 DEF Output, Running, InProgress
  <1>5. t \in Questions /\ ContextOf(n, query.context)
    BY <1>1, <1>3, <1>4 DEF Session
  <1>5a. n \in Nat /\ R \in SUBSET ChatRows(n) /\ InOrder(R, status) /\ SummaryFits(summary, R, status) /\ SummaryOf(summary, n)
    BY <1>1, <1>2, <1>3
  <1>6. /\ \A r \in R : r.turn <= t
        /\ \A u \in Questions : InProgress(status, u) => u = t
        /\ \E o \in Users(R) : o.turn = t
    <2>1. InProgress(status, t)
      BY <1>4
    <2> QED
      BY <2>1, <1>5, <1>5a, LastTurn
  <1>7. PICK o \in Users(R) : o.turn = t
    BY <1>6
  <1>8. Joins(n, R, t, o, w, R2)
    BY <1>1, <1>2, <1>3, <1>4, <1>5, <1>6, <1>7 DEF Joins, InOrder, Roles
  <1>9. /\ InOrder(R2, status) /\ SummaryFits(summary, R2, status)
        /\ \A v \in Questions : Solid(R2, status, v) <=> Solid(R, status, v)
        /\ \A k : SolidAfter(R2, status, k) = SolidAfter(R, status, k)
    <2>1. InProgress(status, t)
      BY <1>4
    <2> QED
      BY <2>1, <1>5a, <1>8, RowJoins
  <1>10. /\ Users(R2) = Users(R) /\ RowsOf(R2, t) = RowsOf(R, t) \cup {w} /\ w.id = n + 1
         /\ \A v : v # t => RowsOf(R2, v) = RowsOf(R, v)
         /\ R \subseteq R2
    <2>1. w.id = n + 1 /\ R \subseteq R2
      BY <1>3, <1>4
    <2> QED
      BY <2>1, <1>8, RowAdded
  <1>11. /\ query'.kind = "turn" /\ query'.turn = t /\ query'.boundary = query.boundary
         /\ query'.settled = query.settled /\ query'.fresh = query.fresh
         /\ query'.context = [query.context EXCEPT !.kept[Max(DOMAIN query.context.kept)] = @ \cup {n + 1}]
    <2>1. query = [kind |-> query.kind, turn |-> query.turn, context |-> query.context, boundary |-> query.boundary,
                   settled |-> query.settled, fresh |-> query.fresh]
      BY <1>1 DEF Session
    <2> QED
      BY <2>1, <1>3, <1>4
  <1>12. PICK c, after : c = query.context /\ after = query'.context
    OBVIOUS
  <1>13. ASSUME NEW k \in 0..n, Fits(c, R, t, k)
         PROVE  /\ Fits(after, R2, t, k) /\ o.id \in DOMAIN c.kept
                /\ after.kept = [c.kept EXCEPT ![o.id] = @ \cup {n + 1}]
    <2>1. /\ o.id \in DOMAIN c.kept /\ Max(DOMAIN c.kept) = o.id
          /\ Fits([c EXCEPT !.kept[o.id] = @ \cup {n + 1}], R2, t, k)
      BY <1>5, <1>8, <1>12, <1>13, FitsGrow
    <2>2. after = [c EXCEPT !.kept[o.id] = @ \cup {n + 1}]
      BY <2>1, <1>11, <1>12
    <2>3. c = [covered |-> c.covered, kept |-> c.kept]
      BY <1>5, <1>12 DEF ContextOf
    <2> QED
      BY <2>1, <2>2, <2>3
  <1>14. SessionStory'
    <2>1. \A v \in Questions : checkpoint[v] # NoContext =>
            InProgress(status, v) /\ \E r \in R2 : r.turn = v /\ r.role = "tool"
      BY <1>2, <1>3, <1>10 DEF SessionStory
    <2>2. InProgress(status', query'.turn)
      BY <1>4, <1>11
    <2> QED
      BY <2>1, <2>2, <1>3, <1>4, <1>11 DEF SessionStory
  <1>15. CountStory'
    BY <1>2, <1>3, <1>4, <1>9 DEF CountStory
  <1>16. FreshStory'
    <2>1. SUFFICES ASSUME query.fresh
                   PROVE  /\ \E k \in 0..lastRow' : Fits(after, R2, t, k)
                          /\ \A u \in Users(R2) : u.turn = t => after.kept[u.id] = Ids(RowsOf(R2, u.turn))
                          /\ failures = 0 /\ after.covered # {} => Cardinality(DOMAIN after.kept) > Preserve
      BY <1>3, <1>4, <1>11, <1>12, ZenonT(60) DEF FreshStory
    <2>2. /\ \E k \in 0..n : Fits(c, R, t, k)
          /\ \A u \in Users(R) : u.turn = t => c.kept[u.id] = Ids(RowsOf(R, u.turn))
          /\ failures = 0 /\ c.covered # {} => Cardinality(DOMAIN c.kept) > Preserve
      BY <2>1, <1>2, <1>3, <1>4, <1>12 DEF FreshStory
    <2>3. PICK k \in 0..n : Fits(c, R, t, k)
      BY <2>2
    <2>4. /\ Fits(after, R2, t, k) /\ o.id \in DOMAIN c.kept
          /\ after.kept = [c.kept EXCEPT ![o.id] = @ \cup {n + 1}]
      BY <2>3, <1>13
    <2>5. k \in 0..lastRow'
      BY <2>3, <1>1, <1>3, <1>4
    <2>6. after.kept[o.id] = Ids(RowsOf(R2, t))
      <3>1. after.kept[o.id] = Ids(RowsOf(R, t)) \cup {n + 1}
        <4>1. c.kept = [d \in DOMAIN c.kept |-> c.kept[d]]
          BY <1>5, <1>12 DEF ContextOf
        <4> QED
          BY <4>1, <2>2, <2>4, <1>7
      <3>2. Ids(RowsOf(R2, t)) = Ids(RowsOf(R, t)) \cup {n + 1}
        BY <1>10 DEF Ids
      <3> QED
        BY <3>1, <3>2
    <2>7. \A u \in Users(R2) : u.turn = t => u = o
      BY <1>2, <1>3, <1>7, <1>10 DEF InOrder, Orderly
    <2>8. after.covered = c.covered /\ DOMAIN after.kept = DOMAIN c.kept
      <3>1. c = [covered |-> c.covered, kept |-> c.kept]
        BY <1>5, <1>12 DEF ContextOf
      <3> QED
        BY <3>1, <1>11, <1>12
    <2> QED
      BY <2>2, <2>4, <2>5, <2>6, <2>7, <2>8, <1>7
  <1>17. Few' <=> Few
    BY <1>3, <1>4, <1>9 DEF Few
  <1>18. SplitStory'
    <2>1. Fits(c, R, t, m) \/ (Few /\ (query.settled \/ query.boundary = 0))
      BY <1>2, <1>3, <1>4, <1>12 DEF SplitStory
    <2>2. Fits(after, R2, t, m) \/ (Few' /\ (query.settled \/ query.boundary = 0))
      BY <2>1, <1>1, <1>3, <1>13, <1>17
    <2>3. query.boundary # 0 /\ ~query.settled => Splits(query.boundary, R2, t, m)
      <3>1. SUFFICES ASSUME query.boundary # 0 /\ ~query.settled PROVE Splits(query.boundary, R2, t, m)
        OBVIOUS
      <3>2. Splits(query.boundary, R, t, m)
        BY <3>1, <1>2, <1>3, <1>4 DEF SplitStory
      <3>3. Others(R2, t, m) = Others(R, t, m)
        BY <1>10 DEF Others
      <3> QED
        BY <3>2, <3>3, <1>10 DEF Splits
    <2> QED
      BY <2>2, <2>3, <1>3, <1>4, <1>11, <1>12 DEF SplitStory
  <1>19. CheckpointStory'
    <2>1. SUFFICES ASSUME NEW v \in Questions, checkpoint[v] # NoContext
                   PROVE  Fits(checkpoint[v], R2, v, m) \/ Few
      BY <1>3, <1>4, <1>17 DEF CheckpointStory
    <2>2. v = t
      BY <2>1, <1>2, <1>6 DEF SessionStory
    <2>3. ContextOf(n, checkpoint[v])
      BY <1>1, <1>3 DEF Saved
    <2>4. Fits(checkpoint[v], R, v, m) \/ Few
      BY <2>1, <1>2, <1>3 DEF CheckpointStory
    <2>5. m \in 0..n
      BY <1>1, <1>3
    <2>6. Fits(checkpoint[v], R, v, m) => Fits(checkpoint[v], R2, v, m)
      BY <2>2, <2>3, <2>5, <1>8, FitsGrow
    <2> QED
      BY <2>4, <2>6
  <1>20. CompressStory'
    BY <1>11 DEF CompressStory
  <1>21. InOrder(rows', status') /\ SummaryFits(summary', rows', status')
    BY <1>3, <1>4, <1>9
  <1> QED
    BY <1>14, <1>15, <1>16, <1>18, <1>19, <1>20, <1>21 DEF Whole

\* The compression of a turn.
LEMMA RewriteKeeps ==
  ASSUME StateTypes, Whole, BeforeModelRewriteState
  PROVE  Whole'
  <1>1. /\ lastRow \in Nat /\ rows \in SUBSET ChatRows(lastRow) /\ status \in [Questions -> Statuses]
        /\ SummaryOf(summary, lastRow) /\ summary.through \in 0..lastRow /\ Session(query, lastRow)
    BY DEF StateTypes, SummaryOf
  <1>2. /\ InOrder(rows, status) /\ SessionStory /\ SummaryFits(summary, rows, status) /\ CountStory
        /\ FreshStory /\ SplitStory /\ CheckpointStory
    BY DEF Whole
  <1>3. PICK t, n, m, b, c, split :
          /\ t = query.turn /\ n = lastRow /\ m = summary.through /\ b = query.boundary /\ c = query.context
          /\ split = splitContextForSummary(c, TRUE)
    OBVIOUS
  <1>4. /\ query.kind = "turn" /\ InProgress(status, t) /\ b # 0 /\ ~query.settled
        /\ UNCHANGED <<rows, status, checkpoint, undecided, left, lastRow>>
    BY <1>3 DEF BeforeModelRewriteState, Running, InProgress
  <1>5. /\ t \in Questions /\ ContextOf(n, c) /\ b \in 0..n
        /\ query = [kind |-> query.kind, turn |-> query.turn, context |-> query.context, boundary |-> query.boundary,
                    settled |-> query.settled, fresh |-> query.fresh]
    BY <1>1, <1>3, <1>4 DEF Session
  <1>6. \/ /\ split.ok /\ summary' = [through |-> b, covers |-> split.context.covered]
           /\ query' = [query EXCEPT !.settled = TRUE, !.context = split.context]
           /\ failures' = failures
        \/ /\ split.ok /\ failures' = failures + 1 /\ summary' = [through |-> b, covers |-> split.context.covered]
           /\ query' = [query EXCEPT !.settled = TRUE]
        \/ /\ query' = [query EXCEPT !.settled = TRUE]
           /\ UNCHANGED <<summary, failures>>
    BY <1>3 DEF BeforeModelRewriteState, Fails
  <1>7. /\ query'.kind = "turn" /\ query'.turn = t /\ query'.boundary = b /\ query'.settled = TRUE
        /\ query'.fresh = query.fresh
    BY <1>3, <1>4, <1>5, <1>6
  <1>8. /\ \A r \in rows : r.turn <= t /\ (r.turn # t => Solid(rows, status, r.turn))
        /\ ~Solid(rows, status, t)
        /\ \E o \in Users(rows) : o.turn = t
    BY <1>1, <1>2, <1>4, <1>5, LastTurn
  <1>9. PICK o \in Users(rows) : o.turn = t
    BY <1>8
  <1>10. Fits(c, rows, t, m) /\ Splits(b, rows, t, m)
    BY <1>2, <1>3, <1>4 DEF SplitStory
  <1>11. SessionStory'
    BY <1>2, <1>3, <1>4, <1>7 DEF SessionStory
  <1>12. CompressStory'
    BY <1>7 DEF CompressStory
  <1>13. CASE /\ query' = [query EXCEPT !.settled = TRUE]
              /\ UNCHANGED <<summary, failures>>
    <2>1. query'.context = c
      BY <1>3, <1>5, <1>13
    <2>2. FreshStory'
      BY <2>1, <1>2, <1>3, <1>4, <1>7, <1>13 DEF FreshStory
    <2>3. SplitStory'
      BY <2>1, <1>3, <1>4, <1>7, <1>10, <1>13 DEF SplitStory
    <2>4. Few' <=> Few
      BY <1>4, <1>13 DEF Few
    <2>5. CheckpointStory'
      BY <2>4, <1>2, <1>4, <1>13 DEF CheckpointStory
    <2>6. CountStory' /\ SummaryFits(summary', rows', status') /\ InOrder(rows', status')
      BY <1>2, <1>4, <1>13 DEF CountStory
    <2> QED
      BY <2>2, <2>3, <2>5, <2>6, <1>11, <1>12 DEF Whole
  <1>14. CASE /\ split.ok /\ summary' = [through |-> b, covers |-> split.context.covered]
              /\ \/ query' = [query EXCEPT !.settled = TRUE, !.context = split.context]
                 \/ failures' = failures + 1 /\ query' = [query EXCEPT !.settled = TRUE]
    <2>1. PICK source, after : source = AllBut(Preserve + 1, DOMAIN c.kept) /\ after = split.context
      OBVIOUS
    <2>2. /\ source # {}
          /\ after.covered = c.covered \cup UNION {c.kept[q] : q \in source}
          /\ after.kept = [q \in DOMAIN c.kept \ source |-> c.kept[q]]
      <3>1. retain(TRUE) = Preserve + 1 /\ n \in Nat /\ TRUE \in BOOLEAN
        BY <1>1, <1>3 DEF retain
      <3>2. LET S == AllBut(retain(TRUE), DOMAIN c.kept) IN
            /\ split.ok <=> S # {}
            /\ split.context.covered = c.covered \cup UNION {c.kept[q] : q \in S}
            /\ split.context.kept = [q \in DOMAIN c.kept \ S |-> c.kept[q]]
        <4>1. ContextOf(n, c) /\ split = splitContextForSummary(c, TRUE) /\ n \in Nat
          BY <3>1, <1>3, <1>5
        <4> QED
          BY <3>1, <4>1, SplitTypes
      <3> QED
        BY <3>1, <3>2, <2>1, <1>14
    <2>3. /\ \A r \in rows : r.id \in after.covered <=> r.id <= b
          /\ Fits(after, rows, t, b)
          /\ o.id \in DOMAIN after.kept /\ after.kept[o.id] = c.kept[o.id]
          /\ Cardinality(DOMAIN after.kept) = Preserve + 1
          /\ Cardinality(Others(rows, t, b)) = Preserve
      <3>1. n \in Nat /\ rows \in SUBSET ChatRows(n) /\ Orderly(rows) /\ m \in 0..n /\ \A r \in rows : r.turn <= t
        BY <1>1, <1>2, <1>3, <1>8 DEF InOrder
      <3> QED
        <4>1. /\ t \in Questions /\ o.turn = t /\ ContextOf(n, c) /\ b \in 0..n
              /\ Fits(c, rows, t, m) /\ Splits(b, rows, t, m) /\ source = AllBut(Preserve + 1, DOMAIN c.kept)
          BY <2>1, <1>5, <1>9, <1>10
        <4> QED
          <5>1. Compresses(n, rows, t, o, c, m, b, source, after)
            BY <3>1, <4>1, <2>2 DEF Compresses
          <5> QED
            BY <5>1, FitsSplit
    <2>4. SolidAfter(rows, status, b) = Others(rows, t, b)
      BY <1>8 DEF SolidAfter, Others, Users
    <2>5. Preserve \in Nat /\ summary'.through = b /\ summary'.covers = after.covered
      BY <2>1, <1>14, ContextConstants
    <2>6. Cardinality(SolidAfter(rows', status', summary'.through)) = Preserve
      BY <2>3, <2>4, <2>5, <1>4
    <2>7. Few' /\ CountStory'
      BY <2>5, <2>6 DEF Few, CountStory
    <2>8. SummaryFits(summary', rows', status')
      <3>1. \E r \in rows : r.id = b /\ Solid(rows, status, r.turn)
        BY <1>8, <1>10 DEF Splits
      <3>2. Between(rows, b)
        BY <2>3 DEF Fits
      <3> QED
        BY <3>1, <3>2, <2>3, <2>5, <1>4 DEF SummaryFits
    <2>9. query'.context \in {c, after} /\ (query'.context = after \/ query'.context = c)
      BY <2>1, <1>3, <1>5, <1>6
    <2>10. FreshStory'
      <3>1. CASE query'.context = c /\ failures' # 0
        BY <3>1, <1>2, <1>3, <1>4, <1>7 DEF FreshStory
      <3>2. CASE query'.context = after
        <4>1. SUFFICES ASSUME query.fresh
                       PROVE  /\ \E k \in 0..n : Fits(after, rows, t, k)
                              /\ \A u \in Users(rows) : u.turn = t => after.kept[u.id] = Ids(RowsOf(rows, u.turn))
                              /\ Cardinality(DOMAIN after.kept) > Preserve
          BY <3>2, <1>3, <1>4, <1>7 DEF FreshStory
        <4>2. \A u \in Users(rows) : u.turn = t => u = o
          BY <1>2, <1>9 DEF InOrder, Orderly
        <4>3. c.kept[o.id] = Ids(RowsOf(rows, t))
          BY <4>1, <1>2, <1>3, <1>4, <1>9 DEF FreshStory
        <4> QED
          BY <4>2, <4>3, <2>3, <2>5, <1>5, <1>9
      <3>3. query'.context = after \/ failures' # 0
        <4>1. failures \in Nat
          BY ContextConstants DEF StateTypes
        <4>2. CASE query' = [query EXCEPT !.settled = TRUE, !.context = split.context]
          BY <4>2, <1>5, <2>1
        <4>3. CASE failures' = failures + 1
          BY <4>1, <4>3
        <4> QED
          BY <4>2, <4>3, <1>6, <1>14
      <3> QED
        BY <3>1, <3>2, <3>3, <2>9
    <2>11. SplitStory'
      <3>1. query'.context = after => Fits(query'.context, rows', t, summary'.through)
        BY <2>3, <2>5, <1>4
      <3> QED
        BY <3>1, <2>7, <1>7 DEF SplitStory
    <2>12. CheckpointStory'
      BY <2>7 DEF CheckpointStory
    <2>13. InOrder(rows', status')
      BY <1>2, <1>4
    <2> QED
      BY <2>7, <2>8, <2>10, <2>11, <2>12, <2>13, <1>11, <1>12 DEF Whole
  <1> QED
    BY <1>6, <1>13, <1>14

\* The questions of solid turns are the same when the solid turns are.
LEMMA SolidSame ==
  ASSUME NEW n \in Nat, NEW R \in SUBSET ChatRows(n), NEW st, NEW st2,
         \A v \in Questions : Solid(R, st2, v) <=> Solid(R, st, v), NEW m
  PROVE  SolidAfter(R, st2, m) = SolidAfter(R, st, m)
  <1>1. \A u \in Users(R) : u.turn \in Questions
    BY RowFields DEF Users
  <1>2. \A u \in Users(R) : Solid(R, st2, u.turn) <=> Solid(R, st, u.turn)
    BY <1>1
  <1> QED
    BY <1>2 DEF SolidAfter

\* A turn that waits, or goes on, leaves the order, the summary and what is solid.
LEMMA StatusWaits ==
  ASSUME NEW n \in Nat, NEW R \in SUBSET ChatRows(n), NEW st \in [Questions -> Statuses], InOrder(R, st),
         NEW t \in Questions, InProgress(st, t), NEW s, SummaryFits(s, R, st),
         NEW x \in {"pending", "waiting_for_approval"}, NEW st2, st2 = [st EXCEPT ![t] = x]
  PROVE  /\ InOrder(R, st2) /\ SummaryFits(s, R, st2) /\ InProgress(st2, t)
         /\ \A v \in Questions : v # t => st2[v] = st[v]
         /\ \A v \in Questions : Solid(R, st2, v) <=> Solid(R, st, v)
  <1>1. x \in Statuses \ {"none"}
    BY DEF Statuses
  <1>2. /\ InOrder(R, st2) /\ st2[t] = x
        /\ \A v \in Questions : v # t => st2[v] = st[v]
        /\ \A v \in Questions : Solid(R, st, v) => Solid(R, st2, v)
        /\ \A v \in Questions : Solid(R, st2, v) => Solid(R, st, v)
    BY <1>1, StatusMoves
  <1>4. SummaryFits(s, R, st2)
    <2>1. \A r \in R : Solid(R, st, r.turn) => r \in R /\ Solid(R, st2, r.turn)
      BY <1>2, RowFields
    <2> QED
      BY <2>1, SummaryStays
  <1>5. InProgress(st2, t)
    BY <1>2 DEF InProgress
  <1> QED
    BY <1>2, <1>4, <1>5

\* A turn that pauses, or goes on.
LEMMA WaitKeeps ==
  ASSUME StateTypes, Whole, query.kind = "turn", InProgress(status, query.turn),
         NEW x \in {"pending", "waiting_for_approval"}, status' = [status EXCEPT ![query.turn] = x],
         UNCHANGED <<rows, summary, query, lastRow, failures>>,
         \/ checkpoint' = checkpoint
         \/ /\ checkpoint' = [checkpoint EXCEPT ![query.turn] = query.context]
            /\ \E r \in rows : r.turn = query.turn /\ r.role = "tool"
  PROVE  Whole'
  <1>1. /\ lastRow \in Nat /\ rows \in SUBSET ChatRows(lastRow) /\ status \in [Questions -> Statuses]
        /\ Session(query, lastRow) /\ Saved(checkpoint, lastRow)
    BY DEF StateTypes
  <1>2. /\ InOrder(rows, status) /\ SessionStory /\ SummaryFits(summary, rows, status) /\ CountStory
        /\ FreshStory /\ SplitStory /\ CheckpointStory
    BY DEF Whole
  <1>3. PICK t, n, st : t = query.turn /\ n = lastRow /\ st = status'
    OBVIOUS
  <1>4. t \in Questions
    BY <1>1, <1>3 DEF Session
  <1>5. /\ n \in Nat /\ rows \in SUBSET ChatRows(n) /\ InProgress(status, t) /\ st = [status EXCEPT ![t] = x]
        /\ status \in [Questions -> Statuses]
    BY <1>1, <1>3
  <1>6. /\ InOrder(rows, st) /\ SummaryFits(summary, rows, st) /\ InProgress(st, t)
        /\ \A v \in Questions : v # t => st[v] = status[v]
        /\ SolidAfter(rows, st, summary.through) = SolidAfter(rows, status, summary.through)
    <2>1. /\ InOrder(rows, st) /\ SummaryFits(summary, rows, st) /\ InProgress(st, t)
          /\ \A v \in Questions : v # t => st[v] = status[v]
          /\ \A v \in Questions : Solid(rows, st, v) <=> Solid(rows, status, v)
      BY <1>2, <1>4, <1>5, StatusWaits
    <2>2. SolidAfter(rows, st, summary.through) = SolidAfter(rows, status, summary.through)
      <3>1. n \in Nat /\ rows \in SUBSET ChatRows(n)
        BY <1>5
      <3> QED
        BY <3>1, <2>1, SolidSame
    <2> QED
      BY <2>1, <2>2
  <1>10. \A v \in Questions : v # t => checkpoint'[v] = checkpoint[v]
    BY <1>1, <1>3 DEF Saved
  <1>11. checkpoint'[t] \in {checkpoint[t], query.context}
    BY <1>1, <1>3, <1>4 DEF Saved
  <1>12. SessionStory'
    <2>1. \A v \in Questions : checkpoint'[v] # NoContext =>
            InProgress(st, v) /\ \E r \in rows : r.turn = v /\ r.role = "tool"
      <3>1. TAKE v \in Questions
      <3>2. CASE v = t
        <4>1. checkpoint'[t] # NoContext => checkpoint[t] # NoContext \/ \E r \in rows : r.turn = t /\ r.role = "tool"
          BY <1>3
        <4> QED
          BY <4>1, <3>2, <1>2, <1>6 DEF SessionStory
      <3>3. CASE v # t
        <4>1. InProgress(st, v) <=> InProgress(status, v)
          BY <3>3, <1>6 DEF InProgress
        <4> QED
          BY <4>1, <3>3, <1>2, <1>10 DEF SessionStory
      <3> QED
        BY <3>2, <3>3
    <2> QED
      BY <2>1, <1>2, <1>3, <1>6 DEF SessionStory
  <1>13. Few' <=> Few
    BY <1>3, <1>6 DEF Few
  <1>14. CountStory'
    BY <1>2, <1>3, <1>6 DEF CountStory
  <1>15. FreshStory' /\ CompressStory'
    BY <1>2 DEF FreshStory, CompressStory
  <1>16. SplitStory'
    BY <1>2, <1>13 DEF SplitStory
  <1>17. CheckpointStory'
    <2>1. SUFFICES ASSUME NEW v \in Questions, checkpoint'[v] # NoContext
                   PROVE  Fits(checkpoint'[v], rows, v, summary.through) \/ Few
      BY <1>13 DEF CheckpointStory
    <2>2. CASE checkpoint'[v] = checkpoint[v]
      BY <2>1, <2>2, <1>2 DEF CheckpointStory
    <2>3. CASE v = t /\ checkpoint'[t] = query.context
      <3>1. Fits(query.context, rows, t, summary.through) \/ Few
        BY <1>2, <1>3 DEF SplitStory
      <3> QED
        BY <3>1, <2>3
    <2> QED
      BY <2>2, <2>3, <1>10, <1>11
  <1>18. InOrder(rows', status') /\ SummaryFits(summary', rows', status')
    BY <1>3, <1>6
  <1> QED
    BY <1>12, <1>14, <1>15, <1>16, <1>17, <1>18 DEF Whole

\* A tool call that ends.
LEMMA ToolCallKeeps == ASSUME Whole, NEW t \in Questions, ToolCallEnds(t) PROVE Whole'
  <1>1. UNCHANGED <<rows, status, summary, query, checkpoint, lastRow, failures>>
    BY DEF ToolCallEnds
  <1>2. SessionStory' /\ CountStory' /\ FreshStory'
    BY <1>1 DEF Whole, SessionStory, CountStory, FreshStory
  <1>3. SplitStory' /\ CheckpointStory' /\ CompressStory'
    BY <1>1, SMTT(30) DEF Whole, SplitStory, CheckpointStory, CompressStory, Few, buildModelContext, ListChatContextMessages, preparedTurns
  <1>4. InOrder(rows', status') /\ SummaryFits(summary', rows', status')
    BY <1>1 DEF Whole
  <1> QED
    BY <1>2, <1>3, <1>4 DEF Whole

\* The questions of the groups, while a turn is unfinished, are those of the solid turns.
LEMMA GroupsWhilePending ==
  ASSUME NEW n \in Nat, NEW R \in SUBSET ChatRows(n), status \in [Questions -> Statuses], InOrder(R, status),
         NEW t \in Questions, InProgress(status, t), NEW m \in Nat, Between(R, m),
         NEW K, K = preparedTurns(HistoryAfter(R, m))
  PROVE  DOMAIN K = SolidAfter(R, status, m) /\ DOMAIN K = Others(R, t, m)
  <1>1. LaterSolid(R, status) /\ Orderly(R)
    BY EarlierSolid DEF InOrder
  <1>2. /\ SolidAfter(R, status, m) \subseteq DOMAIN K
        /\ \A d \in DOMAIN K : \E u \in Users(R) : u.id = d
        /\ \A u \in Users(R) : u.id \in DOMAIN K => u.id > m /\ status[u.turn] \in {"completed", "failed"}
    BY <1>1, PreparedTurns
  <1>3. /\ \A r \in R : r.turn # t => Solid(R, status, r.turn)
        /\ ~Solid(R, status, t) /\ ~Finished(status, t)
    BY LastTurn
  <1>4. \A u \in Users(R) : u.id \in DOMAIN K => u.turn # t /\ Solid(R, status, u.turn) /\ u.id > m
    BY <1>2, <1>3 DEF Finished, Users
  <1>5. DOMAIN K \subseteq SolidAfter(R, status, m)
    BY <1>2, <1>4 DEF SolidAfter
  <1>6. SolidAfter(R, status, m) = Others(R, t, m)
    BY <1>3 DEF SolidAfter, Others, Users
  <1> QED
    BY <1>2, <1>5, <1>6

\* A turn that a new driver resumes.
LEMMA ResumeKeeps ==
  ASSUME StateTypes, Whole, NEW t \in Questions, ResumeAgentApprovals(t)
  PROVE  Whole'
  <1>1. /\ lastRow \in Nat /\ rows \in SUBSET ChatRows(lastRow) /\ status \in [Questions -> Statuses]
        /\ SummaryOf(summary, lastRow) /\ summary.through \in 0..lastRow /\ summary.through \in Nat
    BY DEF StateTypes, SummaryOf
  <1>2. /\ InOrder(rows, status) /\ SessionStory /\ SummaryFits(summary, rows, status) /\ CountStory
        /\ CheckpointStory
    BY DEF Whole
  <1>3. /\ InProgress(status, t) /\ checkpoint[t] # NoContext
        /\ status' = [status EXCEPT ![t] = "pending"]
        /\ UNCHANGED <<summary, checkpoint, undecided, left, lastRow, failures>>
    BY DEF ResumeAgentApprovals, InProgress
  <1>4. Pruned(rows, status) = rows
    BY <1>1, <1>2, <1>3, NothingToPrune
  <1>5. PICK n, m, st, K : n = lastRow /\ m = summary.through /\ st = status' /\ K = preparedTurns(HistoryAfter(rows, m))
    OBVIOUS
  <1>6. buildModelContext(rows).kept = K
    <2>1. rows \in SUBSET rows /\ \A r \in rows : Solid(rows, status, r.turn) => r \in rows
      OBVIOUS
    <2>2. buildModelContext(rows) = [covered |-> summary.covers, kept |-> preparedTurns(HistoryAfter(rows, summary.through))]
      BY <2>1, <1>2, ContextBuilt
    <2> QED
      BY <2>2, <1>5
  <1>7. /\ rows' = rows
        /\ query' = [kind |-> "turn", turn |-> t, boundary |-> BoundaryOf(K),
                     context |-> checkpoint[t], settled |-> FALSE, fresh |-> FALSE]
    BY <1>4, <1>6 DEF ResumeAgentApprovals
  <1>8. /\ query'.kind = "turn" /\ query'.turn = t /\ query'.boundary = BoundaryOf(K)
        /\ query'.context = checkpoint[t] /\ query'.settled = FALSE /\ query'.fresh = FALSE
    BY <1>7
  <1>9. /\ n \in Nat /\ rows \in SUBSET ChatRows(n) /\ st = [status EXCEPT ![t] = "pending"]
        /\ status \in [Questions -> Statuses] /\ InProgress(status, t)
        /\ "pending" \in {"pending", "waiting_for_approval"}
    BY <1>1, <1>3, <1>5
  <1>10. /\ InOrder(rows, st) /\ SummaryFits(summary, rows, st) /\ InProgress(st, t)
         /\ \A v \in Questions : v # t => st[v] = status[v]
         /\ SolidAfter(rows, st, m) = SolidAfter(rows, status, m)
    <2>1. /\ InOrder(rows, st) /\ SummaryFits(summary, rows, st) /\ InProgress(st, t)
          /\ \A v \in Questions : v # t => st[v] = status[v]
          /\ \A v \in Questions : Solid(rows, st, v) <=> Solid(rows, status, v)
      BY <1>2, <1>9, StatusWaits
    <2>2. SolidAfter(rows, st, m) = SolidAfter(rows, status, m)
      <3>1. n \in Nat /\ rows \in SUBSET ChatRows(n)
        BY <1>9
      <3> QED
        BY <3>1, <2>1, SolidSame
    <2> QED
      BY <2>1, <2>2
  <1>11. m \in Nat /\ Between(rows, m)
    BY <1>1, <1>2, <1>5 DEF SummaryFits
  <1>12. DOMAIN K = SolidAfter(rows, status, m) /\ DOMAIN K = Others(rows, t, m)
    BY <1>1, <1>2, <1>3, <1>5, <1>9, <1>11, GroupsWhilePending
  <1>13. Few' <=> Few
    BY <1>3, <1>5, <1>7, <1>10 DEF Few
  <1>14. SessionStory'
    <2>1. \A v \in Questions : checkpoint[v] # NoContext =>
            InProgress(st, v) /\ \E r \in rows : r.turn = v /\ r.role = "tool"
      BY <1>2, <1>10 DEF SessionStory, InProgress
    <2> QED
      BY <2>1, <1>3, <1>5, <1>7, <1>8, <1>10 DEF SessionStory
  <1>15. CountStory'
    BY <1>2, <1>3, <1>5, <1>7, <1>10 DEF CountStory
  <1>16. FreshStory' /\ CompressStory'
    BY <1>8 DEF FreshStory, CompressStory
  <1>17. SplitStory'
    <2>1. Fits(checkpoint[t], rows, t, m) \/ Few
      BY <1>2, <1>3, <1>5 DEF CheckpointStory
    <2>2. Few => BoundaryOf(K) = 0
      <3>1. Cardinality(DOMAIN K) \in Nat
        <4>1. SolidAfter(rows, status, m) \in SUBSET (1..n)
          BY <1>9, RowFields DEF SolidAfter, Users
        <4> QED
          BY <4>1, <1>9, <1>12, FiniteIds
      <3>2. Few => ~(Cardinality(DOMAIN K) > Preserve)
        BY <3>1, <1>5, <1>12, ContextConstants DEF Few
      <3> QED
        BY <3>2 DEF BoundaryOf
    <2>3. BoundaryOf(K) # 0 => Splits(BoundaryOf(K), rows, t, m)
      <3>1. SUFFICES ASSUME BoundaryOf(K) # 0 PROVE Splits(BoundaryOf(K), rows, t, m)
        OBVIOUS
      <3>2. Orderly(rows) /\ LaterSolid(rows, status)
        BY <1>2, <1>9, EarlierSolid DEF InOrder
      <3>3. \A r \in rows : Solid(rows, status, r.turn) => r.turn # t
        BY <1>2, <1>9, LastTurn
      <3>4. rows \subseteq rows /\ \A r \in rows : r \in rows \/ r.turn = t
        OBVIOUS
      <3> QED
        BY <3>1, <3>2, <3>3, <3>4, <1>5, <1>9, <1>11, <1>12, SplitsOf
    <2> QED
      BY <2>1, <2>2, <2>3, <1>3, <1>5, <1>7, <1>8, <1>13 DEF SplitStory
  <1>18. CheckpointStory'
    BY <1>2, <1>3, <1>7, <1>13 DEF CheckpointStory
  <1>19. InOrder(rows', status') /\ SummaryFits(summary', rows', status')
    BY <1>3, <1>5, <1>7, <1>10
  <1> QED
    BY <1>14, <1>15, <1>16, <1>17, <1>18, <1>19 DEF Whole

\* A prune leaves the questions of solid turns.
LEMMA PrunedAfter ==
  ASSUME NEW n \in Nat, NEW R \in SUBSET ChatRows(n), NEW st, InOrder(R, st), NEW P, P = Pruned(R, st), NEW m
  PROVE  SolidAfter(P, st, m) = SolidAfter(R, st, m)
  BY PrunedRows

\* A prune leaves the rows of solid turns.
LEMMA PrunedSpares ==
  ASSUME NEW n \in Nat, NEW R \in SUBSET ChatRows(n), NEW st, InOrder(R, st), NEW P, P = Pruned(R, st)
  PROVE  \A r \in R : Solid(R, st, r.turn) => r \in P /\ Solid(P, st, r.turn)
  <1>1. P = {r \in R : st[r.turn] # "failed" \/ Solid(R, st, r.turn)}
    BY ExcludedTurns DEF Pruned, InOrder
  <1>2. \A v : Solid(P, st, v) <=> Solid(R, st, v)
    BY PrunedRows
  <1> QED
    BY <1>1, <1>2

\* The boundary of the summary is never a row that a prune removes.
LEMMA BoundaryStays ==
  ASSUME NEW n \in Nat, NEW R \in SUBSET ChatRows(n), NEW st, Orderly(R), SummaryFits(summary, R, st)
  PROVE  Removable(R, st)
  <1>1. SUFFICES ASSUME summary.through \in Ids(excludedChatTurns(R, st)) PROVE FALSE
    BY DEF Removable
  <1>2. PICK x \in R : x.id = summary.through /\ ~Solid(R, st, x.turn)
    BY <1>1, ExcludedTurns DEF Ids
  <1>3. CASE summary = NoSummary
    BY <1>2, <1>3, RowFields DEF NoSummary
  <1>4. CASE summary # NoSummary
    <2>1. PICK e \in R : e.id = summary.through /\ Solid(R, st, e.turn)
      BY <1>4 DEF SummaryFits
    <2> QED
      BY <2>1, <1>2 DEF Orderly
  <1> QED
    BY <1>3, <1>4

\* The rows of a turn that ended, with the statuses st2, pruned or not.
LEMMA RowsAfterTurn ==
  ASSUME NEW n \in Nat, NEW R \in SUBSET ChatRows(n), NEW st, NEW st2, InOrder(R, st2),
         \A v \in Questions : Solid(R, st, v) => Solid(R, st2, v),
         NEW t \in Questions, \A r \in R : r.turn # t => Solid(R, st, r.turn),
         NEW s, SummaryFits(s, R, st), NEW result \in {"completed", "failed"}, st2[t] = result,
         NEW P, P = R \/ P = Pruned(R, st2)
  PROVE  /\ InOrder(P, st2) /\ SummaryFits(s, P, st2)
         /\ result = "completed" \/ P = Pruned(R, st2) => AllSolid(P, st2)
         /\ Cardinality(SolidAfter(R, st, s.through)) \in Nat /\ Cardinality(SolidAfter(P, st2, s.through)) \in Nat
         /\ Cardinality(SolidAfter(R, st, s.through)) <= Cardinality(SolidAfter(P, st2, s.through))
  <1>3. PICK p : p = Pruned(R, st2)
    OBVIOUS
  <1>4. /\ p = {r \in R : st2[r.turn] # "failed" \/ Solid(R, st2, r.turn)}
        /\ p \in SUBSET R /\ InOrder(p, st2)
        /\ \A v : Solid(p, st2, v) <=> Solid(R, st2, v)
        /\ SolidAfter(p, st2, s.through) = SolidAfter(R, st2, s.through)
    <2>1. p = {r \in R : st2[r.turn] # "failed" \/ Solid(R, st2, r.turn)}
      <3>1. Orderly(R)
        BY DEF InOrder
      <3> QED
        BY <3>1, <1>3, ExcludedTurns DEF Pruned
    <2>2. p \in SUBSET R
      BY <2>1
    <2>3. InOrder(p, st2)
      BY <1>3, PrunedRows
    <2>4. SolidAfter(p, st2, s.through) = SolidAfter(R, st2, s.through)
      BY <1>3, PrunedAfter
    <2>5. ASSUME NEW v PROVE Solid(p, st2, v) <=> Solid(R, st2, v)
      BY <1>3, PrunedRows
    <2> QED
      BY <2>1, <2>2, <2>3, <2>4, <2>5
  <1>5. \A r \in R : r.turn \in Questions
    BY RowFields
  <1>6. InOrder(P, st2) /\ P \in SUBSET R
    BY <1>3, <1>4
  <1>7. \A r \in R : Solid(R, st, r.turn) => r \in P /\ Solid(P, st2, r.turn)
    BY <1>3, <1>4, <1>5
  <1>8. SummaryFits(s, P, st2)
    BY <1>6, <1>7, SummaryStays
  <1>9. SolidAfter(P, st2, s.through) = SolidAfter(R, st2, s.through)
    BY <1>3, <1>4
  <1>10. /\ Cardinality(SolidAfter(R, st, s.through)) \in Nat /\ Cardinality(SolidAfter(P, st2, s.through)) \in Nat
         /\ Cardinality(SolidAfter(R, st, s.through)) <= Cardinality(SolidAfter(P, st2, s.through))
    BY <1>9, SolidGrows
  <1>11. \A r \in R : r.turn # t => Solid(R, st2, r.turn)
    BY <1>5
  <1>12. result = "completed" => AllSolid(P, st2)
    <2>1. result = "completed" => Solid(R, st2, t)
      BY DEF Solid
    <2>2. result = "completed" => \A r \in R : Solid(R, st2, r.turn)
      BY <2>1, <1>11
    <2>3. \A r \in P : Solid(R, st2, r.turn) => Solid(P, st2, r.turn)
      BY <1>3, <1>4
    <2> QED
      BY <2>2, <2>3, <1>6 DEF AllSolid
  <1>13. AllSolid(p, st2)
    <2>1. \A r \in p : r.turn = t => Solid(R, st2, r.turn)
      <3>1. CASE result = "failed"
        BY <3>1, <1>4
      <3>2. CASE result = "completed"
        BY <3>2 DEF Solid
      <3> QED
        BY <3>1, <3>2
    <2> QED
      BY <2>1, <1>4, <1>11 DEF AllSolid
  <1> QED
    BY <1>3, <1>6, <1>8, <1>10, <1>12, <1>13

\* A turn that ends leaves the order and the summary, and no less that is solid.
LEMMA TurnFinishes ==
  ASSUME NEW n \in Nat, NEW R \in SUBSET ChatRows(n), NEW st \in [Questions -> Statuses], InOrder(R, st),
         NEW t \in Questions, InProgress(st, t), NEW s, SummaryFits(s, R, st),
         NEW result \in {"completed", "failed"}, NEW st2, st2 = [st EXCEPT ![t] = result],
         NEW P, P = R \/ P = Pruned(R, st2)
  PROVE  /\ InOrder(P, st2) /\ SummaryFits(s, P, st2)
         /\ result = "completed" \/ P = Pruned(R, st2) => AllSolid(P, st2)
         /\ Cardinality(SolidAfter(R, st, s.through)) \in Nat /\ Cardinality(SolidAfter(P, st2, s.through)) \in Nat
         /\ Cardinality(SolidAfter(R, st, s.through)) <= Cardinality(SolidAfter(P, st2, s.through))
  <1>1. result \in Statuses \ {"none"}
    BY DEF Statuses
  <1>2. PICK st3 : st3 = st2
    OBVIOUS
  <1>3. /\ InOrder(R, st3) /\ st3[t] = result
        /\ \A v \in Questions : Solid(R, st, v) => Solid(R, st3, v)
    BY <1>1, <1>2, StatusMoves
  <1>4. \A r \in R : r.turn # t => Solid(R, st, r.turn)
    BY LastTurn
  <1>5. P = R \/ P = Pruned(R, st3)
    BY <1>2
  <1>6. /\ InOrder(P, st3) /\ SummaryFits(s, P, st3)
        /\ result = "completed" \/ P = Pruned(R, st3) => AllSolid(P, st3)
        /\ Cardinality(SolidAfter(R, st, s.through)) \in Nat /\ Cardinality(SolidAfter(P, st3, s.through)) \in Nat
        /\ Cardinality(SolidAfter(R, st, s.through)) <= Cardinality(SolidAfter(P, st3, s.through))
    BY <1>3, <1>4, <1>5, RowsAfterTurn
  <1> QED
    BY <1>2, <1>6

\* What is left when the session ends and nothing is made.
LEMMA IdleKeeps ==
  ASSUME Whole, query' = Idle, summary' = summary, \A v \in Questions : checkpoint'[v] = NoContext,
         InOrder(rows', status'), SummaryFits(summary, rows', status'),
         failures' = 0 => failures = 0 /\ AllSolid(rows', status'),
         Cardinality(SolidAfter(rows, status, summary.through)) \in Nat,
         Cardinality(SolidAfter(rows', status', summary.through)) \in Nat,
         Cardinality(SolidAfter(rows, status, summary.through)) <= Cardinality(SolidAfter(rows', status', summary.through))
  PROVE  Whole'
  <1>1. query'.kind = "none"
    BY DEF Idle
  <1>2. SessionStory'
    BY <1>1 DEF SessionStory
  <1>3. CountStory'
    <2>1. failures = 0 /\ summary # NoSummary => Cardinality(SolidAfter(rows, status, summary.through)) >= Preserve
      BY DEF Whole, CountStory
    <2>2. \A a, b \in Nat : a >= Preserve /\ a <= b => b >= Preserve
      BY ContextConstants
    <2>3. failures' = 0 /\ summary # NoSummary => Cardinality(SolidAfter(rows', status', summary.through)) >= Preserve
      BY <2>1, <2>2
    <2> QED
      BY <2>3 DEF CountStory
  <1>4. FreshStory' /\ SplitStory' /\ CompressStory' /\ CheckpointStory'
    BY <1>1 DEF FreshStory, SplitStory, CompressStory, CheckpointStory
  <1> QED
    BY <1>2, <1>3, <1>4 DEF Whole

\* Only the unfinished turn has something made.
LEMMA SavedOnce ==
  ASSUME StateTypes, Whole, NEW t \in Questions, InProgress(status, t), NEW v \in Questions, v # t
  PROVE  checkpoint[v] = NoContext
  <1>1. \A u \in Questions : InProgress(status, u) => u = t
    BY LastTurn DEF StateTypes, Whole
  <1> QED
    BY <1>1 DEF Whole, SessionStory

\* A turn that ends, whether its rows are pruned and its status is written or not.
LEMMA EndKeeps ==
  ASSUME StateTypes, Whole, query.kind = "turn",
         query' = Idle, checkpoint' = [checkpoint EXCEPT ![query.turn] = NoContext], summary' = summary,
         NEW result \in {"completed", "failed"},
         NEW n \in Nat, NEW R \in SUBSET ChatRows(n), InOrder(R, status), SummaryFits(summary, R, status),
         SolidAfter(R, status, summary.through) = SolidAfter(rows, status, summary.through),
         rows' = R \/ rows' = Pruned(R, status'),
         \/ status' = [status EXCEPT ![query.turn] = result] /\ UNCHANGED failures
         \/ status' = [status EXCEPT ![query.turn] = result] /\ failures' = failures + 1
         \/ status' = status /\ failures' = failures + 1,
         failures' = failures => result = "completed" \/ rows' = Pruned(R, status')
  PROVE  Whole'
  <1>1. /\ status \in [Questions -> Statuses] /\ Session(query, lastRow) /\ Saved(checkpoint, lastRow) /\ failures \in Nat
    BY ContextConstants DEF StateTypes
  <1>2. PICK t, st, P, s, ck : t = query.turn /\ st = status' /\ P = rows' /\ s = summary /\ ck = checkpoint'
    OBVIOUS
  <1>3. t \in Questions /\ InProgress(status, t)
    BY <1>1, <1>2 DEF Session, Whole, SessionStory
  <1>4. \A v \in Questions : ck[v] = NoContext
    BY <1>1, <1>2, <1>3, SavedOnce DEF Saved
  <1>5. P = R \/ P = Pruned(R, st)
    BY <1>2
  <1>6. Cardinality(SolidAfter(R, status, s.through)) \in Nat
    BY SolidGrows
  <1>7. CASE st = status
    <2>1. P = R
      <3>1. Pruned(R, status) = R
        BY <1>3, NothingToPrune
      <3> QED
        BY <3>1, <1>5, <1>7
    <2>2. failures' # 0
      BY <1>1, <1>2, <1>3, <1>7 DEF InProgress
    <2>3. /\ InOrder(rows', status') /\ SummaryFits(summary, rows', status')
          /\ SolidAfter(rows', status', summary.through) = SolidAfter(rows, status, summary.through)
      BY <2>1, <1>2, <1>7
    <2>4. Cardinality(SolidAfter(rows, status, summary.through)) \in Nat
      BY <1>2, <1>6
    <2>5. \A a, b \in Nat : a = b => a <= b
      OBVIOUS
    <2>6. \A v \in Questions : checkpoint'[v] = NoContext
      BY <1>2, <1>4
    <2> QED
      BY <2>2, <2>3, <2>4, <2>5, <2>6, IdleKeeps
  <1>8. CASE st = [status EXCEPT ![t] = result]
    <2>1. /\ InOrder(P, st) /\ SummaryFits(s, P, st)
          /\ result = "completed" \/ P = Pruned(R, st) => AllSolid(P, st)
          /\ Cardinality(SolidAfter(R, status, s.through)) \in Nat /\ Cardinality(SolidAfter(P, st, s.through)) \in Nat
          /\ Cardinality(SolidAfter(R, status, s.through)) <= Cardinality(SolidAfter(P, st, s.through))
      <3>1. SummaryFits(s, R, status)
        BY <1>2
      <3> QED
        BY <3>1, <1>1, <1>3, <1>5, <1>8, TurnFinishes, ZenonT(60)
    <2>2. failures' = 0 => failures = 0 /\ failures' = failures
      BY <1>1
    <2>3. failures' = 0 => failures = 0 /\ AllSolid(rows', status')
      BY <2>1, <2>2, <1>2
    <2>4. \A v \in Questions : checkpoint'[v] = NoContext
      BY <1>2, <1>4
    <2>5. /\ InOrder(rows', status') /\ SummaryFits(summary, rows', status')
          /\ Cardinality(SolidAfter(rows, status, summary.through)) \in Nat
          /\ Cardinality(SolidAfter(rows', status', summary.through)) \in Nat
          /\ Cardinality(SolidAfter(rows, status, summary.through)) <= Cardinality(SolidAfter(rows', status', summary.through))
      BY <2>1, <1>2
    <2> QED
      BY <2>3, <2>4, <2>5, IdleKeeps
  <1> QED
    BY <1>2, <1>7, <1>8

\* An answer, a steer, an error, and an error whose rows are not pruned.
LEMMA EndsKeep ==
  ASSUME StateTypes, Whole, Answer \/ Steer \/ Fail \/ PruneFails
  PROVE  Whole'
  <1>1. /\ lastRow \in Nat /\ rows \in SUBSET ChatRows(lastRow) /\ status \in [Questions -> Statuses]
        /\ SummaryOf(summary, lastRow) /\ Session(query, lastRow)
    BY DEF StateTypes
  <1>2. InOrder(rows, status) /\ SummaryFits(summary, rows, status) /\ SessionStory
    BY DEF Whole
  <1>3. CASE PruneFails
    <2>1. /\ query.kind = "turn" /\ query' = Idle /\ checkpoint' = [checkpoint EXCEPT ![query.turn] = NoContext]
          /\ summary' = summary /\ rows' = rows /\ status' = [status EXCEPT ![query.turn] = "failed"]
          /\ failures' = failures + 1 /\ failures' # failures
      BY <1>3, ContextConstants DEF PruneFails, Fails, StateTypes
    <2>2. "failed" \in {"completed", "failed"}
      OBVIOUS
    <2> QED
      BY <2>1, <2>2, <1>1, <1>2, EndKeeps
  <1>4. CASE Steer
    <2>1. /\ query.kind = "turn" /\ query' = Idle /\ checkpoint' = [checkpoint EXCEPT ![query.turn] = NoContext]
          /\ summary' = summary /\ rows' = rows
          /\ \/ status' = [status EXCEPT ![query.turn] = "completed"] /\ UNCHANGED failures
             \/ status' = status /\ failures' = failures + 1
      BY <1>4 DEF Steer, EndTurn, Fails, Running
    <2>2. "completed" \in {"completed", "failed"}
      OBVIOUS
    <2> QED
      BY <2>1, <2>2, <1>1, <1>2, EndKeeps
  <1>5. CASE Fail
    <2>1. /\ query.kind = "turn" /\ query' = Idle /\ checkpoint' = [checkpoint EXCEPT ![query.turn] = NoContext]
          /\ summary' = summary
          /\ rows' = IF Removable(rows, status') THEN Pruned(rows, status') ELSE rows
          /\ \/ status' = [status EXCEPT ![query.turn] = "failed"] /\ UNCHANGED failures
             \/ status' = status /\ failures' = failures + 1
      BY <1>5 DEF Fail, EndTurn, Fails
    <2>2. "failed" \in {"completed", "failed"} /\ failures \in Nat
      BY ContextConstants DEF StateTypes
    <2>3. failures' = failures => rows' = Pruned(rows, status')
      <3>1. SUFFICES ASSUME failures' = failures PROVE Removable(rows, status')
        BY <2>1
      <3>2. query.turn \in Questions /\ InProgress(status, query.turn)
        BY <2>1, <1>1, <1>2 DEF Session, SessionStory
      <3>3. PICK st : st = status'
        OBVIOUS
      <3>4. st = [status EXCEPT ![query.turn] = "failed"]
        BY <2>1, <2>2, <3>1, <3>3
      <3>5. InOrder(rows, st) /\ SummaryFits(summary, rows, st)
        <4>1. rows = rows \/ rows = Pruned(rows, st)
          OBVIOUS
        <4> QED
          BY <4>1, <3>2, <3>4, <2>2, <1>1, <1>2, TurnFinishes
      <3>6. Removable(rows, st)
        BY <3>5, <1>1, BoundaryStays DEF InOrder
      <3> QED
        BY <3>3, <3>6
    <2>4. rows' = rows \/ rows' = Pruned(rows, status')
      BY <2>1
    <2> QED
      BY <2>1, <2>2, <2>3, <2>4, <1>1, <1>2, EndKeeps
  <1>6. CASE Answer
    <2>1. /\ query.kind = "turn" /\ query' = Idle /\ checkpoint' = [checkpoint EXCEPT ![query.turn] = NoContext]
          /\ summary' = summary
          /\ rows' = rows \cup {[id |-> lastRow + 1, turn |-> query.turn, role |-> "assistant"]}
          /\ \/ status' = [status EXCEPT ![query.turn] = "completed"] /\ UNCHANGED failures
             \/ status' = status /\ failures' = failures + 1
      BY <1>6 DEF Answer, EndTurn, Fails, Running
    <2>2. "completed" \in {"completed", "failed"}
      OBVIOUS
    <2>3. PICK t, n, R, R2, w : /\ t = query.turn /\ n = lastRow /\ R = rows /\ R2 = rows'
                                /\ w = [id |-> lastRow + 1, turn |-> query.turn, role |-> "assistant"]
      OBVIOUS
    <2>4. t \in Questions /\ InProgress(status, t)
      BY <2>1, <2>3, <1>1, <1>2 DEF Session, SessionStory
    <2>5. /\ n \in Nat /\ R \in SUBSET ChatRows(n) /\ InOrder(R, status) /\ SummaryFits(summary, R, status)
          /\ SummaryOf(summary, n)
      BY <2>3, <1>1, <1>2
    <2>6. (\A r \in R : r.turn <= t) /\ \E o \in Users(R) : o.turn = t
      BY <2>4, <2>5, LastTurn
    <2>7. PICK o \in Users(R) : o.turn = t
      BY <2>6
    <2>8. Joins(n, R, t, o, w, R2)
      BY <2>1, <2>3, <2>4, <2>5, <2>6, <2>7 DEF Joins, InOrder, Roles
    <2>9. /\ InOrder(R2, status) /\ SummaryFits(summary, R2, status)
          /\ \A k : SolidAfter(R2, status, k) = SolidAfter(R, status, k)
      BY <2>4, <2>5, <2>8, RowJoins
    <2>10. R2 \in SUBSET ChatRows(n + 1) /\ n + 1 \in Nat
      BY <2>5, <2>8, RowAdded
    <2>11. SolidAfter(R2, status, summary.through) = SolidAfter(rows, status, summary.through)
      BY <2>3, <2>9
    <2>12. rows' = R2 \/ rows' = Pruned(R2, status')
      BY <2>3
    <2> QED
      BY <2>1, <2>2, <2>9, <2>10, <2>11, <2>12, EndKeeps
  <1> QED
    BY <1>3, <1>4, <1>5, <1>6

\* What is left when the session ends and a context stays made.
LEMMA LeaveKeeps ==
  ASSUME Whole, query' = Idle, UNCHANGED <<rows, summary, checkpoint>>, failures' # 0,
         InOrder(rows, status'), SummaryFits(summary, rows, status'),
         SolidAfter(rows, status', summary.through) = SolidAfter(rows, status, summary.through),
         \A v \in Questions : checkpoint[v] # NoContext => InProgress(status', v)
  PROVE  Whole'
  <1>1. query'.kind = "none"
    BY DEF Idle
  <1>2. SessionStory'
    BY <1>1 DEF SessionStory, Whole
  <1>3. CountStory'
    BY DEF CountStory
  <1>4. Few' <=> Few
    BY DEF Few
  <1>5. CheckpointStory'
    BY <1>4 DEF CheckpointStory, Whole
  <1>6. FreshStory' /\ SplitStory' /\ CompressStory'
    BY <1>1 DEF FreshStory, SplitStory, CompressStory
  <1> QED
    BY <1>2, <1>3, <1>5, <1>6 DEF Whole

\* An error of a turn that can be resumed.
LEMMA RetainKeeps == ASSUME StateTypes, Whole, Retain PROVE Whole'
  <1>1. /\ lastRow \in Nat /\ rows \in SUBSET ChatRows(lastRow) /\ status \in [Questions -> Statuses]
        /\ Session(query, lastRow) /\ failures \in Nat
    BY ContextConstants DEF StateTypes
  <1>2. InOrder(rows, status) /\ SummaryFits(summary, rows, status) /\ SessionStory
    BY DEF Whole
  <1>3. PICK t, n, f, st : /\ t = query.turn /\ n = lastRow
                           /\ f = [status EXCEPT ![query.turn] = "failed"] /\ st = status'
    OBVIOUS
  <1>4. /\ checkpoint[t] # NoContext /\ failures' # 0 /\ query' = Idle
        /\ rows' = IF Removable(rows, f) THEN Pruned(rows, f) ELSE rows
        /\ st = [status EXCEPT ![t] = "waiting_for_approval"]
        /\ UNCHANGED <<summary, checkpoint, undecided, left, lastRow>>
    BY <1>1, <1>3 DEF Retain, Fails
  <1>5. t \in Questions /\ InProgress(status, t)
    BY <1>1, <1>2, <1>3 DEF Session, SessionStory, Retain, Running
  <1>6. /\ n \in Nat /\ rows \in SUBSET ChatRows(n) /\ status \in [Questions -> Statuses]
        /\ "failed" \in Statuses \ {"none"} /\ f = [status EXCEPT ![t] = "failed"]
        /\ "waiting_for_approval" \in {"pending", "waiting_for_approval"}
    BY <1>1, <1>3 DEF Statuses
  <1>7. rows' = rows
    <2>1. PICK g : g = f
      OBVIOUS
    <2>2. /\ InOrder(rows, g) /\ g[t] = "failed"
          /\ \A v \in Questions : Solid(rows, status, v) => Solid(rows, g, v)
      BY <2>1, <1>2, <1>5, <1>6, StatusMoves
    <2>3. \A r \in rows : r.turn # t => Solid(rows, status, r.turn)
      BY <1>2, <1>5, <1>6, LastTurn
    <2>4. Solid(rows, g, t)
      <3>1. \E r \in rows : r.turn = t /\ r.role = "tool"
        BY <1>2, <1>4, <1>5 DEF SessionStory
      <3> QED
        BY <3>1, <2>2 DEF Solid
    <2>5. \A r \in rows : Solid(rows, g, r.turn)
      <3>1. \A r \in rows : r.turn \in Questions
        BY <1>6, RowFields
      <3> QED
        BY <3>1, <2>2, <2>3, <2>4
    <2>6. excludedChatTurns(rows, g) = {}
      <3>1. excludedChatTurns(rows, g) = {r \in rows : g[r.turn] = "failed" /\ ~Solid(rows, g, r.turn)}
        <4>1. n \in Nat /\ rows \in SUBSET ChatRows(n) /\ Orderly(rows)
          BY <1>6, <1>2 DEF InOrder
        <4> QED
          BY <4>1, ExcludedTurns
      <3> QED
        BY <3>1, <2>5
    <2> QED
      BY <2>1, <2>6, <1>4 DEF Pruned
  <1>8. /\ InOrder(rows, st) /\ SummaryFits(summary, rows, st) /\ InProgress(st, t)
        /\ \A v \in Questions : v # t => st[v] = status[v]
        /\ \A v \in Questions : Solid(rows, st, v) <=> Solid(rows, status, v)
    BY <1>2, <1>4, <1>5, <1>6, StatusWaits
  <1>9. SolidAfter(rows, st, summary.through) = SolidAfter(rows, status, summary.through)
    <2>1. n \in Nat /\ rows \in SUBSET ChatRows(n)
      BY <1>6
    <2> QED
      BY <2>1, <1>8, SolidSame
  <1>10. \A v \in Questions : checkpoint[v] # NoContext => InProgress(st, v)
    BY <1>2, <1>8 DEF SessionStory, InProgress
  <1> QED
    BY <1>3, <1>4, <1>7, <1>8, <1>9, <1>10, LeaveKeeps

\* A restart.
LEMMA RestartKeeps == ASSUME StateTypes, Whole, RestartContext PROVE Whole'
  <1>1. /\ lastRow \in Nat /\ rows \in SUBSET ChatRows(lastRow) /\ status \in [Questions -> Statuses] /\ failures \in Nat
    BY ContextConstants DEF StateTypes
  <1>2. InOrder(rows, status) /\ SummaryFits(summary, rows, status) /\ SessionStory
    BY DEF Whole
  <1>3. PICK n, st, P, s : n = lastRow /\ st = status' /\ P = rows' /\ s = summary
    OBVIOUS
  <1>4. /\ st = [t \in Questions |-> IF status[t] = "pending" /\ checkpoint[t] = NoContext THEN "failed" ELSE status[t]]
        /\ P = Pruned(rows, st) /\ query' = Idle /\ failures' # 0
        /\ UNCHANGED <<summary, checkpoint, undecided, left, lastRow>>
    BY <1>1, <1>3 DEF RestartContext, Fails
  <1>5. n \in Nat /\ rows \in SUBSET ChatRows(n) /\ SummaryFits(s, rows, status)
    BY <1>1, <1>2, <1>3
  <1>6. CASE \E t \in Questions : status[t] = "pending" /\ checkpoint[t] = NoContext
    <2>1. PICK t \in Questions : status[t] = "pending" /\ checkpoint[t] = NoContext
      BY <1>6
    <2>2. InProgress(status, t)
      BY <2>1 DEF InProgress
    <2>3. \A v \in Questions : v # t => ~InProgress(status, v)
      BY <2>2, <1>2, <1>5, LastTurn
    <2>4. st = [status EXCEPT ![t] = "failed"]
      <3>1. \A v \in Questions : v # t => status[v] # "pending"
        BY <2>3 DEF InProgress
      <3> QED
        BY <3>1, <2>1, <1>1, <1>4
    <2>5. \A v \in Questions : checkpoint'[v] = NoContext
      BY <2>1, <2>2, <1>4, SavedOnce
    <2>6. /\ InOrder(P, st) /\ SummaryFits(s, P, st)
          /\ Cardinality(SolidAfter(rows, status, s.through)) \in Nat /\ Cardinality(SolidAfter(P, st, s.through)) \in Nat
          /\ Cardinality(SolidAfter(rows, status, s.through)) <= Cardinality(SolidAfter(P, st, s.through))
      <3>1. "failed" \in {"completed", "failed"} /\ (P = rows \/ P = Pruned(rows, st))
        BY <1>4
      <3> QED
        BY <3>1, <2>2, <2>4, <1>1, <1>2, <1>5, TurnFinishes
    <2>7. /\ InOrder(rows', status') /\ SummaryFits(summary, rows', status')
          /\ Cardinality(SolidAfter(rows, status, summary.through)) \in Nat
          /\ Cardinality(SolidAfter(rows', status', summary.through)) \in Nat
          /\ Cardinality(SolidAfter(rows, status, summary.through)) <= Cardinality(SolidAfter(rows', status', summary.through))
      BY <2>6, <1>3
    <2> QED
      BY <2>5, <2>7, <1>4, IdleKeeps
  <1>7. CASE ~ \E t \in Questions : status[t] = "pending" /\ checkpoint[t] = NoContext
    <2>1. st = status
      BY <1>1, <1>4, <1>7
    <2>2. CASE \E v \in Questions : checkpoint[v] # NoContext
      <3>1. PICK v \in Questions : InProgress(status, v)
        BY <2>2, <1>2 DEF SessionStory
      <3>2. P = rows
        BY <2>1, <3>1, <1>2, <1>4, <1>5, NothingToPrune
      <3>3. \A u \in Questions : checkpoint[u] # NoContext => InProgress(status, u)
        BY <1>2 DEF SessionStory
      <3>4. status' = status /\ rows' = rows
        BY <2>1, <3>2, <1>3
      <3> QED
        BY <3>3, <3>4, <1>2, <1>4, LeaveKeeps
    <2>3. CASE \A v \in Questions : checkpoint[v] = NoContext
      <3>1. P = Pruned(rows, status)
        BY <2>1, <1>4
      <3>2. InOrder(P, status) /\ SolidAfter(P, status, s.through) = SolidAfter(rows, status, s.through)
        BY <3>1, <1>2, <1>5, PrunedRows, PrunedAfter
      <3>3. \A r \in rows : Solid(rows, status, r.turn) => r \in P /\ Solid(P, status, r.turn)
        BY <3>1, <1>2, <1>5, PrunedSpares
      <3>4. P \in SUBSET rows
        BY <3>1 DEF Pruned
      <3>5. SummaryFits(s, P, status)
        BY <3>3, <3>4, <1>5, SummaryStays
      <3>6. Cardinality(SolidAfter(rows, status, s.through)) \in Nat
        BY <1>5, SolidGrows
      <3>7. \A a, b \in Nat : a = b => a <= b
        OBVIOUS
      <3>8. \A v \in Questions : checkpoint'[v] = NoContext
        BY <2>3, <1>4
      <3>9. /\ InOrder(rows', status') /\ SummaryFits(summary, rows', status')
            /\ Cardinality(SolidAfter(rows, status, summary.through)) \in Nat
            /\ Cardinality(SolidAfter(rows', status', summary.through)) \in Nat
            /\ Cardinality(SolidAfter(rows, status, summary.through)) <= Cardinality(SolidAfter(rows', status', summary.through))
        BY <2>1, <3>2, <3>5, <3>6, <3>7, <1>3
      <3> QED
        BY <3>8, <3>9, <1>4, IdleKeeps
    <2> QED
      BY <2>2, <2>3
  <1> QED
    BY <1>6, <1>7

\* The operator compresses.
LEMMA CompressKeeps == ASSUME StateTypes, Whole, CompressContext PROVE Whole'
  <1>1. /\ query = Idle /\ BoundaryOf(buildModelContext(rows).kept) # 0
        /\ query' = [kind |-> "compress", turn |-> 0, context |-> buildModelContext(rows),
                     boundary |-> BoundaryOf(buildModelContext(rows).kept), settled |-> FALSE, fresh |-> FALSE]
        /\ UNCHANGED <<rows, status, summary, checkpoint, undecided, left, lastRow, failures>>
    BY DEF CompressContext
  <1>2. /\ query'.kind = "compress" /\ query'.context = buildModelContext(rows)
        /\ query'.boundary = BoundaryOf(buildModelContext(rows).kept)
    BY <1>1
  <1>3. buildModelContext(rows)' = buildModelContext(rows)
    <2>1. UNCHANGED <<rows, status, summary>>
      BY <1>1
    <2> QED
      BY <2>1 DEF buildModelContext, ListChatContextMessages, preparedTurns
  <1>4. CompressStory'
    <2>1. query'.context = buildModelContext(rows)' /\ query'.boundary = BoundaryOf(query'.context.kept) /\ query'.boundary # 0
      BY <1>1, <1>2, <1>3
    <2> QED
      BY <2>1 DEF CompressStory
  <1>5. SessionStory'
    BY <1>1, <1>2 DEF Whole, SessionStory, Idle
  <1>6. CountStory' /\ FreshStory' /\ SplitStory'
    BY <1>1, <1>2 DEF Whole, CountStory, FreshStory, SplitStory
  <1>7. Few' <=> Few
    BY <1>1 DEF Few
  <1>8. CheckpointStory'
    BY <1>1, <1>7 DEF Whole, CheckpointStory
  <1>9. InOrder(rows', status') /\ SummaryFits(summary', rows', status')
    BY <1>1 DEF Whole
  <1> QED
    BY <1>4, <1>5, <1>6, <1>8, <1>9 DEF Whole

\* A compression ends and its session with it.
LEMMA ForceKeeps ==
  ASSUME Whole, query' = Idle, UNCHANGED <<rows, status, checkpoint, failures>>, query.kind = "compress",
         SummaryFits(summary', rows, status), CountStory', (Few \/ summary' # summary) => Few'
  PROVE  Whole'
  <1>1. query'.kind = "none"
    BY DEF Idle
  <1>2. SessionStory'
    BY <1>1 DEF SessionStory, Whole
  <1>3. CheckpointStory'
    BY DEF CheckpointStory, Whole
  <1>4. FreshStory' /\ SplitStory' /\ CompressStory'
    BY <1>1 DEF FreshStory, SplitStory, CompressStory
  <1>5. InOrder(rows', status') /\ SummaryFits(summary', rows', status')
    BY DEF Whole
  <1> QED
    BY <1>2, <1>3, <1>4, <1>5 DEF Whole

\* The new summary of the groups K, with the boundary b, of n rows.
Summarises(n, R, m, covers, K, b, C) ==
  /\ n \in Nat /\ R \in SUBSET ChatRows(n) /\ InOrder(R, status)
  /\ m \in Nat /\ Between(R, m) /\ \A r \in R : r.id <= m <=> r.id \in covers
  /\ K = preparedTurns(HistoryAfter(R, m)) /\ b = BoundaryOf(K) /\ b # 0
  /\ C = covers \cup UNION {K[q] : q \in AllBut(Preserve, DOMAIN K)}

\* What it tells of are the rows up to its boundary, and as many questions stay as should.
LEMMA SummaryMade ==
  ASSUME NEW n, NEW R, NEW m, NEW covers, NEW K, NEW b, NEW C, Summarises(n, R, m, covers, K, b, C)
  PROVE  /\ \A r \in R : r.id <= b <=> r.id \in C
         /\ Between(R, b)
         /\ \E r \in R : r.id = b /\ Solid(R, status, r.turn)
         /\ Cardinality(SolidAfter(R, status, b)) <= Preserve
         /\ AllSolid(R, status) => Cardinality(SolidAfter(R, status, b)) = Preserve
  <1>0. /\ n \in Nat /\ R \in SUBSET ChatRows(n) /\ InOrder(R, status)
        /\ m \in Nat /\ Between(R, m) /\ \A r \in R : r.id <= m <=> r.id \in covers
        /\ K = preparedTurns(HistoryAfter(R, m)) /\ b = BoundaryOf(K) /\ b # 0
        /\ C = covers \cup UNION {K[q] : q \in AllBut(Preserve, DOMAIN K)}
    BY DEF Summarises
  <1>1. Orderly(R) /\ LaterSolid(R, status)
    BY <1>0, EarlierSolid DEF InOrder
  <1>2. PICK D, source : D = DOMAIN K /\ source = AllBut(Preserve, D)
    OBVIOUS
  <1>3. PICK x \in Users(R) :
           /\ x.id > m /\ Solid(R, status, x.turn)
           /\ \E r \in R : r.turn = x.turn /\ r.id = b
           /\ \A r \in R : r.id <= b <=> r.turn <= x.turn
           /\ \A u \in Users(R) : u.id \in source <=> u.id > m /\ u.turn <= x.turn
           /\ \A u \in Users(R) : u.id \in source => K[u.id] = Ids(RowsOf(R, u.turn))
    <2>1. BoundaryOf(K) # 0
      BY <1>0
    <2>2. \E y \in Users(R) :
           /\ y.id > m /\ Solid(R, status, y.turn)
           /\ \E r \in R : r.turn = y.turn /\ r.id = BoundaryOf(K)
           /\ \A r \in R : r.id <= BoundaryOf(K) <=> r.turn <= y.turn
           /\ \A u \in Users(R) : u.id \in AllBut(Preserve, DOMAIN K) <=> u.id > m /\ u.turn <= y.turn
           /\ \A u \in Users(R) : u.id \in AllBut(Preserve, DOMAIN K) => K[u.id] = Ids(RowsOf(R, u.turn))
      <3>1. n \in Nat /\ R \in SUBSET ChatRows(n) /\ m \in Nat /\ Between(R, m) /\ K = preparedTurns(HistoryAfter(R, m))
        BY <1>0
      <3> QED
        BY <3>1, <2>1, <1>1, BoundaryEnds
    <2>3. BoundaryOf(K) = b /\ AllBut(Preserve, DOMAIN K) = source
      BY <1>0, <1>2
    <2> QED
      BY <2>2, <2>3
  <1>4. /\ SolidAfter(R, status, m) \subseteq D
        /\ \A d \in D : \E u \in Users(R) : u.id = d
        /\ \A u \in Users(R) : u.id \in D => u.id > m
    <2>1. n \in Nat /\ R \in SUBSET ChatRows(n) /\ m \in Nat /\ Between(R, m)
      BY <1>0
    <2>2. PICK k : k = preparedTurns(HistoryAfter(R, m))
      OBVIOUS
    <2>3. /\ SolidAfter(R, status, m) \subseteq DOMAIN k
          /\ \A d \in DOMAIN k : \E u \in Users(R) : u.id = d
          /\ \A u \in Users(R) : u.id \in DOMAIN k => u.id > m
      BY <2>1, <2>2, <1>1, PreparedTurns
    <2> QED
      BY <2>2, <2>3, <1>0, <1>2
  <1>5. /\ \A r \in R : r.id \in Nat /\ r.id \in 1..n /\ r.turn \in Nat
        /\ \A u \in Users(R) : u \in R
    BY <1>0, RowFields DEF Users
  <1>6. D \in SUBSET (1..n)
    BY <1>4, <1>5
  <1>7. source \subseteq D
    BY <1>2 DEF AllBut
  <1>8. \A r \in R : r.id <= b <=> r.id \in C
    <2>1. TAKE r \in R
    <2>2. ASSUME r.id \in covers PROVE r.turn <= x.turn
      <3>1. r.id < x.id
        BY <2>2, <1>0, <1>3, <1>5
      <3> QED
        BY <3>1, <1>0, <1>1, <1>5, RowOrder
    <2>3. ASSUME NEW q \in source, r.id \in K[q] PROVE r.turn <= x.turn
      <3>1. PICK u \in Users(R) : u.id = q
        BY <1>4, <1>7
      <3>2. r.id \in Ids(RowsOf(R, u.turn)) /\ u.turn <= x.turn
        BY <2>3, <3>1, <1>3
      <3>3. PICK y \in RowsOf(R, u.turn) : y.id = r.id
        BY <3>2 DEF Ids
      <3>4. y = r /\ y.turn = u.turn
        BY <3>3, <1>1 DEF Orderly, RowsOf
      <3> QED
        BY <3>2, <3>4
    <2>4. ASSUME r.turn <= x.turn PROVE r.id \in covers \/ \E q \in source : r.id \in K[q]
      <3>1. PICK q \in Users(R) : q.turn = r.turn
        BY <1>1 DEF Orderly
      <3>2. CASE q.id > m
        <4>1. q.id \in source /\ K[q.id] = Ids(RowsOf(R, q.turn))
          BY <3>1, <3>2, <2>4, <1>3
        <4>2. r.id \in Ids(RowsOf(R, q.turn))
          BY <3>1 DEF Ids, RowsOf
        <4> QED
          BY <4>1, <4>2
      <3>3. CASE ~(q.id > m)
        <4>1. q.id <= m /\ q \in R
          BY <3>3, <1>0, <1>5
        <4>2. r.id <= m
          BY <4>1, <3>1, <1>0 DEF Between
        <4> QED
          BY <4>2, <1>0
      <3> QED
        BY <3>2, <3>3
    <2>5. r.id \in C <=> r.id \in covers \/ \E q \in source : r.id \in K[q]
      BY <1>0, <1>2
    <2> QED
      BY <2>2, <2>3, <2>4, <2>5, <1>3
  <1>9. Between(R, b)
    BY <1>3 DEF Between
  <1>10. \E r \in R : r.id = b /\ Solid(R, status, r.turn)
    BY <1>3
  <1>11. Cardinality(D) > Preserve
    BY <1>0, <1>2 DEF BoundaryOf
  <1>12. Cardinality(D \ source) = Preserve
    <2>1. Preserve \in Nat /\ n \in Nat
      BY <1>0, ContextConstants
    <2> QED
      BY <2>1, <1>2, <1>6, <1>11, AllButLeaves
  <1>13. SolidAfter(R, status, b) \subseteq D \ source
    <2>1. SUFFICES ASSUME NEW u \in Users(R), Solid(R, status, u.turn), u.id > b PROVE u.id \in D \ source
      BY DEF SolidAfter
    <2>2. ~(u.turn <= x.turn)
      <3>1. b \in Nat
        BY <1>3, <1>5
      <3> QED
        BY <3>1, <2>1, <1>3, <1>5
    <2>3. u.id \notin source
      BY <2>2, <1>3
    <2>4. u.id > m
      <3>1. x.turn < u.turn /\ x \in R /\ u \in R
        BY <2>2, <1>5
      <3>2. x.id < u.id
        BY <3>1, <1>1 DEF Orderly
      <3> QED
        BY <3>1, <3>2, <1>0, <1>3, <1>5
    <2>5. u.id \in SolidAfter(R, status, m)
      BY <2>1, <2>4 DEF SolidAfter
    <2> QED
      BY <2>3, <2>5, <1>4
  <1>14. AllSolid(R, status) => D \ source \subseteq SolidAfter(R, status, b)
    <2>1. SUFFICES ASSUME AllSolid(R, status), NEW d \in D, d \notin source PROVE d \in SolidAfter(R, status, b)
      OBVIOUS
    <2>2. PICK u \in Users(R) : u.id = d
      BY <1>4
    <2>3. u.id > m /\ Solid(R, status, u.turn)
      BY <2>1, <2>2, <1>4, <1>5 DEF AllSolid
    <2>4. ~(u.id <= b)
      BY <2>1, <2>2, <2>3, <1>3, <1>5
    <2>5. u.id > b
      BY <2>4, <1>3, <1>5
    <2> QED
      BY <2>2, <2>3, <2>5 DEF SolidAfter
  <1>15. IsFiniteSet(D \ source)
    <2>1. D \ source \in SUBSET (1..n)
      BY <1>6
    <2> QED
      BY <2>1, <1>0, FiniteIds
  <1>16. Cardinality(SolidAfter(R, status, b)) <= Preserve
    BY <1>12, <1>13, <1>15, FS_Subset
  <1>17. AllSolid(R, status) => Cardinality(SolidAfter(R, status, b)) = Preserve
    <2>1. AllSolid(R, status) => SolidAfter(R, status, b) = D \ source
      BY <1>13, <1>14
    <2> QED
      BY <2>1, <1>12
  <1> QED
    BY <1>8, <1>9, <1>10, <1>16, <1>17

\* The summary of the operator.
LEMMA SummaryKeeps == ASSUME StateTypes, Whole, ForceSummary PROVE Whole'
  <1>1. /\ lastRow \in Nat /\ rows \in SUBSET ChatRows(lastRow) /\ status \in [Questions -> Statuses]
        /\ SummaryOf(summary, lastRow) /\ summary.through \in Nat /\ Session(query, lastRow)
    BY DEF StateTypes, SummaryOf
  <1>2. InOrder(rows, status) /\ SummaryFits(summary, rows, status) /\ SessionStory /\ CountStory
    BY DEF Whole
  <1>3. PICK c, split : c = query.context /\ split = splitContextForSummary(c, FALSE)
    OBVIOUS
  <1>4. /\ query.kind = "compress" /\ query' = Idle
        /\ UNCHANGED <<rows, status, checkpoint, undecided, left, lastRow, failures>>
        /\ \/ summary' = [through |-> query.boundary, covers |-> split.context.covered]
           \/ UNCHANGED summary
    BY <1>3 DEF ForceSummary
  <1>5. CASE UNCHANGED summary
    <2>1. CountStory'
      BY <1>2, <1>4, <1>5 DEF CountStory
    <2>2. Few' <=> Few
      BY <1>4, <1>5 DEF Few
    <2>3. SummaryFits(summary', rows, status)
      BY <1>2, <1>5
    <2> QED
      BY <2>1, <2>2, <2>3, <1>4, <1>5, ForceKeeps
  <1>6. CASE summary' = [through |-> query.boundary, covers |-> split.context.covered]
    <2>1. PICK n, m, K, b, C : /\ n = lastRow /\ m = summary.through /\ K = preparedTurns(HistoryAfter(rows, summary.through))
                               /\ b = query.boundary /\ C = split.context.covered
      OBVIOUS
    <2>2. c = [covered |-> summary.covers, kept |-> K] /\ b = BoundaryOf(K) /\ b # 0
      <3>1. rows \in SUBSET rows /\ \A r \in rows : Solid(rows, status, r.turn) => r \in rows
        OBVIOUS
      <3>2. buildModelContext(rows) = [covered |-> summary.covers, kept |-> preparedTurns(HistoryAfter(rows, summary.through))]
        BY <3>1, <1>2, ContextBuilt
      <3>3. c = [covered |-> summary.covers, kept |-> K]
        BY <3>2, <2>1, <1>3, <1>4 DEF Whole, CompressStory
      <3>4. c.kept = K
        BY <3>3
      <3> QED
        BY <3>3, <3>4, <2>1, <1>3, <1>4 DEF Whole, CompressStory
    <2>3. c.covered = summary.covers /\ c.kept = K
      BY <2>2
    <2>4. C = summary.covers \cup UNION {K[q] : q \in AllBut(Preserve, DOMAIN K)}
      <3>1. retain(FALSE) = Preserve /\ FALSE \in BOOLEAN /\ n \in Nat /\ ContextOf(n, c)
        BY <2>1, <1>1, <1>3, ContextConstants DEF retain, Session
      <3>2. LET S == AllBut(retain(FALSE), DOMAIN c.kept) IN
            split.context.covered = c.covered \cup UNION {c.kept[q] : q \in S}
        <4>1. ContextOf(n, c) /\ split = splitContextForSummary(c, FALSE) /\ n \in Nat /\ FALSE \in BOOLEAN
          BY <3>1, <1>3
        <4>2. /\ ContextOf(n, split.context)
              /\ LET S == AllBut(retain(FALSE), DOMAIN c.kept) IN
                 /\ split.ok <=> S # {}
                 /\ split.context.covered = c.covered \cup UNION {c.kept[q] : q \in S}
                 /\ split.context.kept = [q \in DOMAIN c.kept \ S |-> c.kept[q]]
          BY <4>1, SplitTypes, ZenonT(60)
        <4> QED
          BY <4>2
      <3> QED
        BY <3>1, <3>2, <2>1, <2>3
    <2>5. Summarises(n, rows, m, summary.covers, K, b, C)
      <3>1. Between(rows, m) /\ \A r \in rows : r.id <= m <=> r.id \in summary.covers
        BY <2>1, <1>2 DEF SummaryFits
      <3> QED
        BY <3>1, <2>1, <2>2, <2>4, <1>1, <1>2 DEF Summarises
    <2>6. /\ \A r \in rows : r.id <= b <=> r.id \in C
          /\ Between(rows, b)
          /\ \E r \in rows : r.id = b /\ Solid(rows, status, r.turn)
          /\ Cardinality(SolidAfter(rows, status, b)) <= Preserve
          /\ AllSolid(rows, status) => Cardinality(SolidAfter(rows, status, b)) = Preserve
      BY <2>5, SummaryMade
    <2>7. summary'.through = b /\ summary'.covers = C
      BY <2>1, <1>6
    <2>8. SummaryFits(summary', rows, status)
      BY <2>6, <2>7 DEF SummaryFits
    <2>9. Few'
      BY <2>6, <2>7, <1>4 DEF Few
    <2>10. CountStory'
      <3>1. failures = 0 => AllSolid(rows, status)
        BY <1>2, <1>4 DEF SessionStory
      <3> QED
        BY <3>1, <2>6, <2>7, <1>4, ContextConstants DEF CountStory
    <2> QED
      BY <2>8, <2>9, <2>10, <1>4, ForceKeeps
  <1> QED
    BY <1>4, <1>5, <1>6

-----------------------------------------------------------------------------
(* The theorems. *)

\* The first state has the invariant.
LEMMA ContextBegins == ContextInit => ContextInv
  <1>1. SUFFICES ASSUME ContextInit PROVE ContextInv
    OBVIOUS
  <1>2. /\ rows = {} /\ summary = NoSummary /\ query = Idle /\ failures = 0
        /\ \A t \in Questions : status[t] = "none" /\ checkpoint[t] = NoContext
    <2>1. /\ rows = {} /\ summary = NoSummary /\ query = Idle /\ failures = 0
          /\ status = [t \in Questions |-> "none"] /\ checkpoint = [t \in Questions |-> NoContext]
      BY <1>1 DEF ContextInit
    <2> QED
      BY <2>1
  <1>3. query.kind = "none" /\ Users(rows) = {}
    BY <1>2 DEF Idle, Users
  <1>4. InOrder(rows, status)
    BY <1>2, <1>3 DEF InOrder, Orderly, Began, InProgress
  <1>5. SessionStory
    BY <1>2, <1>3 DEF SessionStory, AllSolid
  <1>6. SummaryFits(summary, rows, status)
    BY <1>2 DEF SummaryFits, Between
  <1>7. CountStory /\ FreshStory /\ SplitStory /\ CheckpointStory /\ CompressStory
    BY <1>2, <1>3 DEF CountStory, FreshStory, SplitStory, CheckpointStory, CompressStory
  <1> QED
    BY <1>1, <1>4, <1>5, <1>6, <1>7, StateTypesBegin DEF ContextInv, Whole

\* Every step keeps it.
LEMMA ContextGoesOn == ContextInv /\ [ContextNext]_contextVars => ContextInv'
  <1>1. SUFFICES ASSUME ContextInv, [ContextNext]_contextVars PROVE ContextInv'
    OBVIOUS
  <1>2. StateTypes /\ StateTypes'
    BY <1>1, StateTypesGoOn DEF ContextInv
  <1>3. SUFFICES ASSUME left' = {} PROVE Whole'
    BY <1>2 DEF ContextInv
  <1>4. left \subseteq left'
    BY <1>1 DEF ContextNext, contextVars, QueryWithAttachments, ToolCallEnds, ResumeAgentApprovals, Output,
       BeforeModelRewriteState, Pause, Continue, EndTurn, Answer, Steer, Fail, PruneFails, Retain,
       CompressContext, ForceSummary, RestartContext
  <1>5. Whole
    BY <1>1, <1>3, <1>4 DEF ContextInv
  <1>6. CASE UNCHANGED contextVars
    <2>1. UNCHANGED <<rows, status, summary, query, checkpoint, failures, lastRow>>
      BY <1>6 DEF contextVars
    <2>2. SessionStory' /\ CountStory' /\ FreshStory'
      BY <1>5, <2>1 DEF Whole, SessionStory, CountStory, FreshStory
    <2>3. SplitStory' /\ CheckpointStory' /\ CompressStory'
      BY <1>5, <2>1, SMTT(30) DEF Whole, SplitStory, CheckpointStory, CompressStory, Few, buildModelContext, ListChatContextMessages, preparedTurns
    <2>4. InOrder(rows', status') /\ SummaryFits(summary', rows', status')
      BY <1>5, <2>1 DEF Whole
    <2> QED
      BY <2>2, <2>3, <2>4 DEF Whole
  <1>7. ASSUME NEW t \in Questions, QueryWithAttachments(t) PROVE Whole'
    BY <1>2, <1>3, <1>5, <1>7, QueryKeeps
  <1>8. ASSUME NEW t \in Questions, ToolCallEnds(t) PROVE Whole'
    BY <1>5, <1>8, ToolCallKeeps
  <1>9. ASSUME NEW t \in Questions, ResumeAgentApprovals(t) PROVE Whole'
    BY <1>2, <1>5, <1>9, ResumeKeeps
  <1>10. ASSUME NEW role \in {"tool", "reasoning"}, Output(role) PROVE Whole'
    BY <1>2, <1>5, <1>10, OutputKeeps
  <1>11. CASE BeforeModelRewriteState
    BY <1>2, <1>5, <1>11, RewriteKeeps
  <1>12. CASE Pause
    <2>1. /\ query.kind = "turn" /\ InProgress(status, query.turn)
          /\ status' = [status EXCEPT ![query.turn] = "waiting_for_approval"]
          /\ UNCHANGED <<rows, summary, query, lastRow, failures>>
          /\ checkpoint' = [checkpoint EXCEPT ![query.turn] = query.context]
          /\ \E r \in rows : r.turn = query.turn /\ r.role = "tool"
      BY <1>12 DEF Pause, Running, InProgress
    <2>2. "waiting_for_approval" \in {"pending", "waiting_for_approval"}
      OBVIOUS
    <2> QED
      BY <2>1, <2>2, <1>2, <1>5, WaitKeeps
  <1>13. CASE Continue
    <2>1. /\ query.kind = "turn" /\ InProgress(status, query.turn)
          /\ status' = [status EXCEPT ![query.turn] = "pending"]
          /\ UNCHANGED <<rows, summary, query, lastRow, failures>>
          /\ checkpoint' = checkpoint
      BY <1>13 DEF Continue, InProgress
    <2>2. "pending" \in {"pending", "waiting_for_approval"}
      OBVIOUS
    <2> QED
      BY <2>1, <2>2, <1>2, <1>5, WaitKeeps
  <1>14. CASE Answer \/ Steer \/ Fail \/ PruneFails
    BY <1>2, <1>5, <1>14, EndsKeep
  <1>15. CASE Retain
    BY <1>2, <1>5, <1>15, RetainKeeps
  <1>16. CASE CompressContext
    BY <1>2, <1>5, <1>16, CompressKeeps
  <1>17. CASE ForceSummary
    BY <1>2, <1>5, <1>17, SummaryKeeps
  <1>18. CASE RestartContext
    BY <1>2, <1>5, <1>18, RestartKeeps
  <1> QED
    BY <1>1, <1>6, <1>7, <1>8, <1>9, <1>10, <1>11, <1>12, <1>13, <1>14, <1>15, <1>16, <1>17, <1>18 DEF ContextNext

\* A context that fits tells of each row in short or once in full.
LEMMA ToldOnce ==
  ASSUME NEW n \in Nat, NEW R \in SUBSET ChatRows(n), Orderly(R), NEW c, NEW t, NEW m \in Nat, Fits(c, R, t, m),
         \A u \in Users(R) : u.turn = t => c.kept[u.id] = Ids(RowsOf(R, u.turn)),
         NEW r \in R, NEW o \in Users(R), o.turn = r.turn
  PROVE  /\ r.id \in c.covered => {q \in DOMAIN c.kept : r.id \in c.kept[q]} = {}
         /\ r.id \notin c.covered => {q \in DOMAIN c.kept : r.id \in c.kept[q]} = {o.id}
  <1>1. /\ Between(R, m)
        /\ r.id \in c.covered <=> r.id <= m
        /\ DOMAIN c.kept = {q.id : q \in {u \in Users(R) : u.id > m}}
        /\ \A u \in Users(R) : u.id > m => c.kept[u.id] = Ids(RowsOf(R, u.turn))
    BY DEF Fits
  <1>2. \A u \in Users(R) : u \in R /\ u.id \in Nat
    BY RowFields DEF Users
  <1>3. r.id \in Nat /\ (r.id <= m <=> o.id <= m)
    BY <1>1, <1>2, RowFields DEF Between
  <1>4. \A q \in DOMAIN c.kept : r.id \in c.kept[q] => q = o.id /\ o.id > m
    <2>1. SUFFICES ASSUME NEW q \in DOMAIN c.kept, r.id \in c.kept[q] PROVE q = o.id /\ o.id > m
      OBVIOUS
    <2>2. PICK u \in Users(R) : u.id = q /\ u.id > m
      BY <2>1, <1>1
    <2>3. r.id \in Ids(RowsOf(R, u.turn))
      BY <2>1, <2>2, <1>1
    <2>4. PICK y \in RowsOf(R, u.turn) : y.id = r.id
      BY <2>3 DEF Ids
    <2>5. y = r /\ r.turn = u.turn
      BY <2>4 DEF Orderly, RowsOf
    <2>6. u = o
      BY <2>5 DEF Orderly
    <2> QED
      BY <2>2, <2>6
  <1>5. CASE r.id <= m
    <2>1. ~(o.id > m)
      BY <1>2, <1>3, <1>5
    <2> QED
      BY <2>1, <1>1, <1>4, <1>5
  <1>6. CASE ~(r.id <= m)
    <2>1. o.id > m
      BY <1>2, <1>3, <1>6
    <2>2. o.id \in DOMAIN c.kept /\ c.kept[o.id] = Ids(RowsOf(R, o.turn))
      BY <2>1, <1>1
    <2>3. r.id \in c.kept[o.id]
      BY <2>2 DEF Ids, RowsOf
    <2> QED
      BY <2>2, <2>3, <1>1, <1>4, <1>6
  <1> QED
    BY <1>5, <1>6

\* What a model call is told is whole.
LEMMA InvShowsWhole == ContextInv => ContextIsWhole
  <1>1. SUFFICES ASSUME ContextInv PROVE ContextIsWhole
    OBVIOUS
  <1>2. /\ lastRow \in Nat /\ rows \in SUBSET ChatRows(lastRow) /\ status \in [Questions -> Statuses]
        /\ SummaryOf(summary, lastRow) /\ Session(query, lastRow)
        /\ undecided \subseteq Questions /\ left \subseteq Questions /\ failures \in 0..MaxFailures
    BY <1>1 DEF ContextInv, StateTypes
  <1>3. ContextTypes
    <2>1. \A r \in rows : r.id \in 1..lastRow /\ r.turn \in Questions /\ r.role \in {"user", "tool", "reasoning", "assistant"}
      BY <1>2, RowFields DEF Roles
    <2>2. /\ status \in [Questions -> {"none", "pending", "waiting_for_approval", "completed", "failed"}]
          /\ summary.through \in 0..lastRow /\ summary.covers \subseteq 1..lastRow
          /\ query.kind \in {"none", "turn", "compress"} /\ query.turn \in 0..MaxTurns
      BY <1>2 DEF Statuses, SummaryOf, Session
    <2> QED
      BY <2>1, <2>2, <1>2 DEF ContextTypes
  <1>4. ASSUME left = {}
        PROVE  /\ \A r \in rows : r.id <= summary.through <=> r.id \in summary.covers
               /\ summary # NoSummary => \E r \in rows \ excludedChatTurns(rows, status) : r.id = summary.through
    <2>1. InOrder(rows, status) /\ SummaryFits(summary, rows, status)
      BY <1>1, <1>4 DEF ContextInv, Whole
    <2>2. excludedChatTurns(rows, status) = {r \in rows : status[r.turn] = "failed" /\ ~Solid(rows, status, r.turn)}
      BY <2>1, <1>2, ExcludedTurns DEF InOrder
    <2> QED
      BY <2>1, <2>2 DEF SummaryFits
  <1>5. ASSUME left = {}, query.kind = "turn", query.fresh,
               NEW r \in rows
        PROVE  /\ r.id \in query.context.covered => {q \in DOMAIN query.context.kept : r.id \in query.context.kept[q]} = {}
               /\ r.id \notin query.context.covered =>
                    {q \in DOMAIN query.context.kept : r.id \in query.context.kept[q]} = {Question(r.turn).id}
    <2>1. InOrder(rows, status) /\ FreshStory
      BY <1>1, <1>5 DEF ContextInv, Whole
    <2>2. PICK n, c, t, R : n = lastRow /\ c = query.context /\ t = query.turn /\ R = rows
      OBVIOUS
    <2>3. PICK m \in 0..n : Fits(c, R, t, m)
      BY <2>1, <2>2, <1>5 DEF FreshStory
    <2>4. \A u \in Users(R) : u.turn = t => c.kept[u.id] = Ids(RowsOf(R, u.turn))
      BY <2>1, <2>2, <1>5 DEF FreshStory
    <2>5. n \in Nat /\ R \in SUBSET ChatRows(n) /\ Orderly(R) /\ m \in Nat /\ r \in R
      BY <2>1, <2>2, <2>3, <1>2, <1>5 DEF InOrder
    <2>6. PICK o \in Users(R) : o.turn = r.turn
      BY <2>5 DEF Orderly
    <2>7. \A x \in rows : x.turn = r.turn /\ x.role = "user" => x = o
      BY <2>2, <2>5, <2>6 DEF Orderly, Users
    <2>8. Question(r.turn) = o
      <3>1. o \in rows /\ o.turn = r.turn /\ o.role = "user"
        BY <2>2, <2>6 DEF Users
      <3> QED
        BY <3>1, <2>7 DEF Question
    <2>9. /\ r.id \in c.covered => {q \in DOMAIN c.kept : r.id \in c.kept[q]} = {}
          /\ r.id \notin c.covered => {q \in DOMAIN c.kept : r.id \in c.kept[q]} = {o.id}
      BY <2>3, <2>4, <2>5, <2>6, ToldOnce
    <2> QED
      BY <2>2, <2>8, <2>9
  <1>6. ASSUME left = {}, query.kind = "turn", query.fresh
        PROVE  failures = 0 /\ query.context.covered # {} => Cardinality(DOMAIN query.context.kept) > Preserve
    BY <1>1, <1>6 DEF ContextInv, Whole, FreshStory
  <1> QED
    BY <1>3, <1>4, <1>5, <1>6 DEF ContextIsWhole

\* The order of the rows, the summary, and the contexts stay in their relation to each other.
THEOREM ContextInvariant == ContextSpec => []ContextInv
  <1>1. ContextInit => ContextInv
    BY ContextBegins
  <1>2. ContextInv /\ [ContextNext]_contextVars => ContextInv'
    BY ContextGoesOn
  <1> QED
    BY <1>1, <1>2, PTL DEF ContextSpec

\* A model call is told every earlier row once.
THEOREM ContextWhole == ContextSpec => []ContextIsWhole
  <1>1. ContextInv => ContextIsWhole
    BY InvShowsWhole
  <1> QED
    BY <1>1, ContextInvariant, PTL

-----------------------------------------------------------------------------
(* The conversation as a whole. *)

\* What belongs to one conversation stays its own, and is told whole, whatever requests, turns,
\* compressions and revisions overlap: its row and title, the context of its model calls, its plan.
THEOREM ConversationWhole == TurnsSpec => []ConversationIsWhole
<1> DEFINE Inv == ConversationInv /\ ContextInv /\ PlanInv
<1>1. TurnsInit => Inv
  BY ConversationBegins, ContextBegins, PlanBegins DEF TurnsInit
<1>2. Inv /\ [TurnsNext]_<<vars, conversationVars, contextVars, planVars, skillVars, concern>> => Inv'
  <2>1. SUFFICES ASSUME Inv, [TurnsNext]_<<vars, conversationVars, contextVars, planVars, skillVars, concern>> PROVE Inv'
    OBVIOUS
  <2>2. [ConversationNext]_conversationVars /\ [ContextNext]_contextVars /\ [PlanNext]_planVars
    BY <2>1 DEF TurnsNext
  <2>3. ConversationInv' BY <2>1, <2>2, ConversationGoesOn
  <2>4. ContextInv' BY <2>1, <2>2, ContextGoesOn
  <2>5. PlanInv' BY <2>1, <2>2, PlanGoesOn
  <2> QED BY <2>3, <2>4, <2>5
<1>3. Inv => ConversationIsWhole
  <2>1. ConversationInv => ConversationIsKept BY InvKeepsConversation
  <2>2. PlanInv => PlanIsKept BY InvKeepsPlan
  <2> QED BY <2>1, <2>2, InvShowsWhole DEF ConversationIsWhole
<1> QED BY <1>1, <1>2, <1>3, PTL DEF TurnsSpec
==============================================================================
