------------------------------ MODULE TextEdits ------------------------------
(***************************************************************************)
(* The text edit of a file: one block of whole lines is replaced by        *)
(* another.  fileedit.Apply does it to a Workspace file, two awk programs  *)
(* (service files.go) do it on a host.  A text is a sequence of bytes;     *)
(* "r", "n" and "nul" are the control characters, "s" is a space, "bom"    *)
(* and "u16" are the byte-order marks of UTF-8 and UTF-16.  A block is a   *)
(* sequence of lines.  The awk takes a line that looks like a number for   *)
(* one, and tells it from another by its value, as POSIX has it; which     *)
(* lines those are (signs, fractions, exponents, blanks, the base) is the  *)
(* host's affair.                                                          *)
(***************************************************************************)
EXTENDS Naturals, FiniteSets, Sequences, SequencesExt

CONSTANTS
  Files,     \* texts of the file
  OldTexts,  \* the block to replace, as the model writes it
  NewTexts,  \* what to replace it with
  Numerals   \* the value of each line that the awk of the host takes for a number

Bytes == {"x", "y", "0", "1", ".", "s", "r", "n", "nul", "bom", "u16"}

ASSUME EditAssumption == Files \cup OldTexts \cup NewTexts \cup DOMAIN Numerals \subseteq Seq(Bytes)

VARIABLES
  file,   \* the text before the edit
  edit,   \* the edit that was asked for: the blocks, as lines
  local,  \* what fileedit.Apply makes of it
  remote  \* what the program on the host makes of it

editVars == <<file, edit, local, remote>>

Refused == <<"refused">>
NoEditYet == [old |-> <<>>, new |-> <<>>]
LF == <<"n">>

---------------------------------------------------------------------------
Positions(text, byte) == {i \in DOMAIN text : text[i] = byte}
Sorted(set) ==
  [k \in 1..Cardinality(set) |-> CHOOSE i \in set : Cardinality({j \in set : j < i}) = k - 1]
Cut(text, from, to) == IF from > to THEN <<>> ELSE SubSeq(text, from, to)

\* strings.Split(text, "\n"): one part more than there are line feeds.
Split(text) ==
  LET ends == Sorted(Positions(text, "n") \cup {Len(text) + 1})
  IN [k \in 1..Len(ends) |-> Cut(text, IF k = 1 THEN 1 ELSE ends[k - 1] + 1, ends[k] - 1)]

\* normalizeBlock: no byte-order mark, line feeds only, without the last one.
Bare(text) == IF text # <<>> /\ text[1] = "bom" THEN Tail(text) ELSE text
Unix(text) ==
  LET kept == Sorted({i \in DOMAIN text : ~(text[i] = "r" /\ i < Len(text) /\ text[i + 1] = "n")})
  IN [k \in 1..Len(kept) |-> text[kept[k]]]
Normalized(text) ==
  LET unix == Unix(Bare(text))
  IN IF unix # <<>> /\ Last(unix) = "n" THEN Front(unix) ELSE unix
Valid(text) == Positions(Normalized(text), "r") \cup Positions(Normalized(text), "nul") = {}

Block(text) == IF Normalized(text) = <<>> THEN <<>> ELSE Split(Normalized(text))

\* Build: the diff the operator approves, as signs and lines.
Common(a, b) == Len(LongestCommonPrefix({a, b}))

Signed(sign, lines) == [k \in DOMAIN lines |-> <<sign, lines[k]>>]
Rest(lines, prefix) == Cut(lines, prefix + 1, Len(lines))

Diff(old, new) ==
  LET prefix == Common(old, new)
      suffix == Common(Reverse(Rest(old, prefix)), Reverse(Rest(new, prefix)))
      middle(lines) == Cut(lines, prefix + 1, Len(lines) - suffix)
  IN Signed(" ", Cut(old, 1, prefix)) \o Signed("-", middle(old)) \o Signed("+", middle(new))
     \o Signed(" ", Cut(old, Len(old) - suffix + 1, Len(old)))

---------------------------------------------------------------------------
\* editableTextLines: a text that is not UTF-8 is not edited; where each line of another
\* starts, its text ends and the next line starts.
Binary(text) == Positions(text, "nul") # {} \/ (text # <<>> /\ text[1] = "u16")

LineAt(text, start) ==
  LET feeds == {i \in Positions(text, "n") : i >= start}
      feed  == IF feeds = {} THEN Len(text) + 1 ELSE CHOOSE i \in feeds : \A j \in feeds : i <= j
      end   == IF feeds # {} /\ feed > start /\ text[feed - 1] = "r" THEN feed - 1 ELSE feed
      after == IF feeds = {} THEN feed ELSE feed + 1
  IN [text |-> Cut(text, start, end - 1), start |-> start, end |-> end, after |-> after,
      eol |-> Cut(text, end, after - 1)]

Start(text) == IF text # <<>> /\ text[1] = "bom" THEN 2 ELSE 1

Lines(text) ==
  LET starts == Sorted({i \in Start(text)..Len(text) : i = Start(text) \/ text[i - 1] = "n"})
  IN [k \in 1..Len(starts) |-> LineAt(text, starts[k])]

Matches(lines, old) ==
  {k \in 1..Len(lines) : /\ k + Len(old) - 1 <= Len(lines)
                         /\ \A o \in DOMAIN old : lines[k + o - 1].text = old[o]}

Joined(lines, eol) ==
  IF lines = <<>> THEN <<>>
  ELSE FoldLeft(LAMBDA text, line : text \o eol \o line, lines[1], Tail(lines))

Splice(text, from, to, middle) == Cut(text, 1, from - 1) \o middle \o Cut(text, to, Len(text))

\* The first line ending of the lines of a block, if any has one.
FirstEol(lines, from, to) ==
  LET with == {i \in from..to : lines[i].eol # <<>>}
  IN IF with = {} THEN <<>> ELSE lines[CHOOSE i \in with : \A j \in with : i <= j].eol

\* Apply, the line ending of new lines: that of the block, or, when the block ends the
\* file, of the line before it.
LocalEol(lines, from, to) ==
  LET first  == FirstEol(lines, from, to)
      before == IF from > 1 THEN lines[from - 1].eol ELSE <<>>
  IN IF lines[to].eol = <<>> /\ before # <<>> THEN before ELSE IF first # <<>> THEN first ELSE LF

Apply(text, old, new) ==
  LET lines == Lines(text)
      found == Matches(lines, old)
  IN IF Binary(text) \/ Cardinality(found) # 1 THEN Refused ELSE
     LET from == CHOOSE k \in found : TRUE
         to   == from + Len(old) - 1
         last == lines[to]
         cut  == IF new # <<>> \/ last.after > last.end \/ from = 1 THEN lines[from].start
                 ELSE lines[from - 1].end
         rest == IF new = <<>> THEN last.after ELSE last.end
     IN Splice(text, cut, rest, Joined(new, LocalEol(lines, from, to)))

---------------------------------------------------------------------------
\* A block in a file of the host, as awk reads it: a last line that is empty is none.
Records(block) == IF Len(block) > 1 /\ Last(block) = <<>> THEN Front(block) ELSE block

\* remoteTextEditLocateProgram, one line of the file against one of the block: two numbers
\* when both may be, else two texts.  A line that was cut (of its carriage return, or of the
\* byte-order mark) is a text.
Whole(text, lines, k) == lines[k].eol # <<"r", "n">> /\ (k > 1 \/ Start(text) = 1)
AwkSame(text, lines, k, line) ==
  \/ lines[k].text = line
  \/ /\ Whole(text, lines, k) /\ {lines[k].text, line} \subseteq DOMAIN Numerals
     /\ Numerals[lines[k].text] = Numerals[line]

RemoteMatches(text, lines, old) ==
  {k \in 1..Len(lines) : /\ k + Len(old) - 1 <= Len(lines)
                         /\ \A o \in DOMAIN old : AwkSame(text, lines, k + o - 1, old[o])}

\* The line ending of new lines: that of the block, or of the line before it when the block
\* has none.
RemoteEol(lines, from, to) ==
  LET first == FirstEol(lines, from, to)
  IN IF first # <<>> THEN first ELSE IF from > 1 THEN lines[from - 1].eol ELSE LF

\* The awk reads a byte as it comes, whatever the encoding of the file.
RemoteApply(text, old, new) ==
  LET lines == Lines(text)
      found == RemoteMatches(text, lines, old)
  IN IF Records(old) # old \/ Cardinality(found) # 1 THEN Refused ELSE
     LET from == CHOOSE k \in found : TRUE
         to   == from + Len(old) - 1
         last == lines[to]
         cut  == IF new # <<>> \/ last.after > last.end THEN lines[from].start
                 ELSE IF from > 1 THEN lines[from - 1].end ELSE 1
         rest == IF new = <<>> THEN last.after ELSE last.end
     IN Splice(text, cut, rest, Joined(Records(new), RemoteEol(lines, from, to)))

---------------------------------------------------------------------------
EditInit == file \in Files /\ edit = NoEditYet /\ local = <<>> /\ remote = <<>>

\* EditWorkspaceFile and EditRemoteFile of an existing file, with the same edit.
EditText ==
  /\ edit = NoEditYet
  /\ \E old \in OldTexts, new \in NewTexts :
       /\ Valid(old) /\ Valid(new) /\ Block(old) # <<>> /\ Normalized(old) # Normalized(new)
       /\ edit' = [old |-> Block(old), new |-> Block(new)]
  /\ local' = Apply(file, edit'.old, edit'.new)
  /\ remote' = RemoteApply(file, edit'.old, edit'.new)
  /\ UNCHANGED file

EditSpec == EditInit /\ [][EditText]_editVars

---------------------------------------------------------------------------
Done(outcome) == edit # NoEditYet /\ outcome # Refused
Texts(text) ==
  LET parts == Split(Bare(text))
      Ends(k) == k < Len(parts) /\ parts[k] # <<>> /\ Last(parts[k]) = "r"
  IN [k \in DOMAIN parts |-> IF Ends(k) THEN Front(parts[k]) ELSE parts[k]]
Endings(text) == {Lines(text)[k].eol : k \in DOMAIN Lines(text)} \ {<<>>}

\* An edit that succeeds replaces the lines of one block and no other, keeps the
\* byte-order mark and brings in no line ending that the file does not have; and the
\* diff the operator approved shows the lines that go and the lines that come.
EditKeepsTheRest ==
  /\ Done(local) =>
       /\ \E k \in 1..Len(Texts(file)) :
            LET rest == SubSeq(Texts(file), 1, k - 1) \o edit.new
                        \o SubSeq(Texts(file), k + Len(edit.old), Len(Texts(file)))
            IN /\ k + Len(edit.old) - 1 <= Len(Texts(file))
               /\ SubSeq(Texts(file), k, k + Len(edit.old) - 1) = edit.old
               /\ Texts(local) = IF rest = <<>> THEN <<(<<>>)>> ELSE rest
       /\ Start(file) = Start(local)
       /\ Endings(local) \subseteq Endings(file) \cup (IF Endings(file) = {} THEN {LF} ELSE {})
  /\ edit # NoEditYet =>
       LET diff == Diff(edit.old, edit.new)
           Side(sign) == LET kept == SelectSeq(diff, LAMBDA line : line[1] # sign) IN [k \in DOMAIN kept |-> kept[k][2]]
       IN Side("+") = edit.old /\ Side("-") = edit.new

\* A line of the file is another spelling of the number a line of the block spells.
Respelled(text, old) ==
  \E k \in DOMAIN Lines(text), o \in DOMAIN old :
    Lines(text)[k].text # old[o] /\ AwkSame(text, Lines(text), k, old[o])

\* A host edits a file as a Workspace does when the file is UTF-8 text, its lines end alike
\* and none is another spelling of a number of old_text, neither block ends in an empty line,
\* and a file with a byte-order mark does not lose all its lines.
RemoteEditsAlike ==
  edit # NoEditYet /\ ~Binary(file) /\ Cardinality(Endings(file)) <= 1 /\ ~Respelled(file, edit.old)
    /\ Records(edit.old) = edit.old /\ Records(edit.new) = edit.new /\ (edit.new # <<>> \/ Start(file) = 1)
  => remote = local

\* "Package fileedit implements the text-edit contract shared by remote and Workspace
\* files" (contract.go): the same edit of the same file has the same result on a host.
RemoteEditIsWorkspaceEdit == edit # NoEditYet => remote = local
=============================================================================
