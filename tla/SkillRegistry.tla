--------------------------- MODULE SkillRegistry ---------------------------
(* The directories of managed skills: one writer at a time replaces whole    *)
(* packages by renaming directories, undoes what it did when a step fails,   *)
(* and may be cut off by a crash; the Agent loads a skill between writers.   *)
EXTENDS Naturals, Sequences, FiniteSets

CONSTANTS
  Skills,      \* names of skills
  Packages,    \* the names an upload brings, in the order of their paths
  Obstacles,   \* names that are taken by something that is no directory
  FirstSkills, \* names that have a skill when the server starts
  MaxVersions, \* bound: contents written, with the first ones
  MaxMishaps   \* bound: failed steps and crashes

ASSUME SkillConstants ==
  /\ Packages \subseteq Seq(Skills) \ {<<>>} /\ Obstacles \subseteq Skills /\ FirstSkills \subseteq Skills \ Obstacles
  /\ \A p \in Packages : \A i, j \in 1..Len(p) : p[i] = p[j] => i = j
  /\ MaxVersions \in Nat \ {0} /\ MaxMishaps \in Nat

VARIABLES
  skill,      \* what is at each name: its SKILL.md (0: none) and whether skill.json disables it
  aside,      \* directories under hidden names, .skill-rollback- and .skill-backup-
  writer,     \* who holds the lock, and how far it is
  version,    \* contents written so far
  given,      \* contents the Agent was given
  committed,  \* history: what the last writer that ended left at each name
  withdrawn,  \* history: contents whose import failed and was undone
  torn, half, \* history: names whose undoing failed, names a writer left half done
  mishaps

skillVars == <<skill, aside, writer, version, given, committed, withdrawn, torn, half, mishaps>>

Nothing   == [kind |-> "none", main |-> 0, off |-> FALSE]
Directory(v) == [kind |-> "dir", main |-> v, off |-> FALSE]
NoWriter  == [kind |-> "none", names |-> <<>>, at |-> "none", index |-> 0, had |-> {}, installed |-> {}, undone |-> TRUE]
Kept(n)   == \E d \in aside : d.name = n /\ d.skill = committed[n]

Mishap == mishaps < MaxMishaps /\ mishaps' = mishaps + 1
Named(w) == {w.names[i] : i \in 1..Len(w.names)}

-----------------------------------------------------------------------------
(* Readers. *)

\* A directory without SKILL.md is skipped; without skill.json the skill is enabled.
readUnlocked(n)   == skill[n].kind = "dir" /\ skill[n].main # 0
ListEnabledSkills == {n \in Skills : readUnlocked(n) /\ ~skill[n].off}

Unlocked == writer = NoWriter

LoadSkill(n) ==
  /\ Unlocked /\ n \in ListEnabledSkills
  /\ given' = given \cup {skill[n].main}
  /\ UNCHANGED <<skill, aside, writer, version, committed, withdrawn, torn, half, mishaps>>

-----------------------------------------------------------------------------
(* Replacing a package. *)

\* Every target is looked at before the first one is touched.
ImportPackage(p) ==
  /\ Unlocked /\ version < MaxVersions
  /\ \A i \in 1..Len(p) : skill[p[i]].kind # "file"
  /\ version' = version + 1
  /\ writer' = [NoWriter EXCEPT !.kind = "import", !.names = p, !.at = "aside", !.index = 1]
  /\ UNCHANGED <<skill, aside, given, committed, withdrawn, torn, half, mishaps>>

Target == writer.names[writer.index]

\* The old directory is renamed away; when that fails the ones before it are put back.
MoveAside ==
  /\ writer.kind = "import" /\ writer.at = "aside"
  /\ \/ /\ IF skill[Target] = Nothing THEN UNCHANGED <<skill, aside>> /\ writer' = [writer EXCEPT !.at = "install"]
           ELSE /\ skill' = [skill EXCEPT ![Target] = Nothing]
                /\ aside' = aside \cup {[name |-> Target, skill |-> skill[Target], by |-> version]}
                /\ writer' = [writer EXCEPT !.at = "install", !.had = @ \cup {Target}]
        /\ UNCHANGED mishaps
     \/ /\ Mishap /\ writer' = [writer EXCEPT !.at = "undo", !.index = @ - 1]
        /\ UNCHANGED <<skill, aside>>
  /\ UNCHANGED <<version, given, committed, withdrawn, torn, half>>

\* Mutant: undoing starts before the name that could not be installed.
UndoBefore(i) == i - 1

\* Undoing starts with the name whose rename failed: its old directory is away already.
UndoFrom(i) == i

Install ==
  /\ writer.kind = "import" /\ writer.at = "install"
  /\ \/ /\ skill' = [skill EXCEPT ![Target] = Directory(version)]
        /\ IF writer.index < Len(writer.names)
           THEN writer' = [writer EXCEPT !.at = "aside", !.index = @ + 1, !.installed = @ \cup {Target}]
                /\ UNCHANGED <<committed, torn, half>>
           ELSE writer' = [writer EXCEPT !.at = "done", !.installed = @ \cup {Target}]
                /\ committed' = [n \in Skills |-> IF n \in Named(writer) THEN skill'[n] ELSE committed[n]]
                /\ torn' = torn \ Named(writer) /\ half' = half \ Named(writer)
        /\ UNCHANGED mishaps
     \/ /\ Mishap /\ writer' = [writer EXCEPT !.at = "undo", !.index = UndoFrom(@)]
        /\ UNCHANGED <<skill, committed, torn, half>>
  /\ UNCHANGED <<aside, version, given, withdrawn>>

\* One name of rollback: what was installed is removed, what was there is renamed back.
Rollback ==
  /\ writer.kind = "import" /\ writer.at = "undo" /\ writer.index > 0
  /\ LET old == {d \in aside : d.name = Target /\ d.by = version}
         back == IF Target \in writer.had THEN (CHOOSE d \in old : TRUE).skill ELSE Nothing
         changed == Target \in writer.had \cup writer.installed
     IN \/ /\ skill' = IF changed THEN [skill EXCEPT ![Target] = back] ELSE skill
           /\ aside' = IF Target \in writer.had THEN aside \ old ELSE aside
           /\ writer' = [writer EXCEPT !.index = @ - 1]
           /\ UNCHANGED <<torn, mishaps>>
        \/ /\ changed /\ Mishap /\ torn' = torn \cup {Target}
           /\ \/ skill' = skill
              \/ skill' = [skill EXCEPT ![Target] = Nothing]
           /\ writer' = [writer EXCEPT !.index = @ - 1, !.undone = FALSE]
           /\ UNCHANGED aside
  /\ UNCHANGED <<version, given, committed, withdrawn, half>>

\* The hidden directory of this import is removed with all that is left in it.
EndImport ==
  /\ writer.kind = "import" /\ (writer.at = "done" \/ (writer.at = "undo" /\ writer.index = 0))
  /\ aside' = {d \in aside : d.by # version}
  /\ withdrawn' = IF writer.at = "undo" /\ writer.undone THEN withdrawn \cup {version} ELSE withdrawn
  /\ writer' = NoWriter
  /\ UNCHANGED <<skill, version, given, committed, torn, half, mishaps>>

-----------------------------------------------------------------------------
(* Editing one skill. *)

\* The directory is made first, the file appears by a rename; skill.json stays.
Save(n) ==
  /\ Unlocked /\ version < MaxVersions /\ skill[n].kind # "file"
  /\ version' = version + 1
  /\ skill' = [skill EXCEPT ![n].kind = "dir"]
  /\ committed' = [committed EXCEPT ![n] = skill'[n]]
  /\ writer' = [NoWriter EXCEPT !.kind = "save", !.names = <<n>>]
  /\ UNCHANGED <<aside, given, withdrawn, torn, half, mishaps>>

atomicWrite ==
  /\ writer.kind = "save" /\ writer' = NoWriter
  /\ \/ /\ skill' = [skill EXCEPT ![writer.names[1]].main = version]
        /\ committed' = [committed EXCEPT ![writer.names[1]] = skill'[writer.names[1]]]
        /\ torn' = torn \ Named(writer) /\ half' = half \ Named(writer)
        /\ UNCHANGED mishaps
     \/ Mishap /\ UNCHANGED <<skill, committed, torn, half>>
  /\ UNCHANGED <<aside, version, given, withdrawn>>

SetEnabled(n, enabled) ==
  /\ Unlocked /\ readUnlocked(n)
  /\ skill' = [skill EXCEPT ![n].off = ~enabled]
  /\ committed' = [committed EXCEPT ![n] = skill'[n]]
  /\ UNCHANGED <<aside, writer, version, given, withdrawn, torn, half, mishaps>>

\* The files go one by one, in no order; what fails leaves the rest.
Delete(n) ==
  /\ Unlocked /\ readUnlocked(n)
  /\ writer' = [NoWriter EXCEPT !.kind = "delete", !.names = <<n>>]
  /\ committed' = [committed EXCEPT ![n] = Nothing]
  /\ UNCHANGED <<skill, aside, version, given, withdrawn, torn, half, mishaps>>

RemoveAll ==
  /\ writer.kind = "delete"
  /\ LET n == writer.names[1] IN
     \/ /\ \/ skill[n].off /\ skill' = [skill EXCEPT ![n].off = FALSE]
           \/ skill[n].main # 0 /\ skill' = [skill EXCEPT ![n].main = 0]
        /\ UNCHANGED <<writer, half, mishaps>>
     \/ /\ skill[n].main = 0 /\ ~skill[n].off /\ skill' = [skill EXCEPT ![n] = Nothing]
        /\ writer' = NoWriter /\ UNCHANGED <<half, mishaps>>
     \/ Mishap /\ writer' = NoWriter /\ half' = half \cup {n} /\ UNCHANGED skill
  /\ UNCHANGED <<aside, version, given, committed, withdrawn, torn>>

\* Nothing that is hidden is put back or removed when the server starts again.
CrashRegistry ==
  /\ ~Unlocked /\ Mishap /\ writer' = NoWriter
  /\ half' = half \cup Named(writer)
  /\ UNCHANGED <<skill, aside, version, given, committed, withdrawn, torn>>

-----------------------------------------------------------------------------
SkillInit ==
  /\ skill = [n \in Skills |->
                IF n \in Obstacles THEN [Nothing EXCEPT !.kind = "file"]
                ELSE IF n \in FirstSkills THEN Directory(1) ELSE Nothing]
  /\ aside = {} /\ writer = NoWriter /\ version = 1 /\ given = {} /\ committed = skill
  /\ withdrawn = {} /\ torn = {} /\ half = {} /\ mishaps = 0

SkillNext ==
  \/ \E p \in Packages : ImportPackage(p)
  \/ MoveAside \/ Install \/ Rollback \/ EndImport
  \/ \E n \in Skills : Save(n) \/ Delete(n) \/ LoadSkill(n) \/ \E enabled \in BOOLEAN : SetEnabled(n, enabled)
  \/ atomicWrite \/ RemoveAll \/ CrashRegistry

SkillSpec == SkillInit /\ [][SkillNext]_skillVars

SkillTypes ==
  /\ \A n \in Skills : skill[n] \in [kind : {"none", "dir", "file"}, main : 0..version, off : BOOLEAN]
  /\ \A d \in aside : d.name \in Skills /\ d.skill.kind = "dir"
  /\ writer.kind \in {"none", "import", "save", "delete"} /\ version \in 0..MaxVersions
  /\ given \subseteq 1..version /\ withdrawn \subseteq 1..version /\ torn \cup half \subseteq Skills

\* Whatever step of a package fails and whenever the process dies, no skill is lost: it is
\* at its name or kept aside.  An import that failed leaves every skill of the package as
\* it was, none of them new, and none of its contents was ever given to the Agent.  All
\* this but for names whose undoing failed too, and new names a writer left half done.
SkillsAreKept ==
  /\ SkillTypes
  /\ \A n \in Skills \ torn :
       /\ committed[n] # Nothing => skill[n] = committed[n] \/ Kept(n)
       /\ Unlocked /\ n \notin half => skill[n] = committed[n]
  /\ given \cap withdrawn = {}
=============================================================================
