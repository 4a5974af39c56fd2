---------------------------- MODULE MCTextEdits ----------------------------
(* Small texts, for TLC: files of up to four characters, with and without a  *)
(* byte-order mark, of every mixture of line endings; files of numbers in    *)
(* all the spellings that fit into three characters, and of bytes that are   *)
(* no UTF-8 text; blocks of up to three lines that are there once, twice or  *)
(* not at all.                                                               *)
EXTENDS TextEdits, TLC

Words(bytes, n) == UNION {[1..k -> bytes] : k \in 0..n}
Marked(words) == {<<"bom">> \o word : word \in words}
TextFiles == Words({"x", "r", "n"}, 4) \cup Marked(Words({"x", "r", "n"}, 3))
EditFiles ==
  TextFiles \cup Words({"0", "1", "s", "n"}, 3) \cup Marked(Words({"0", "1", "n"}, 2))
  \cup {<<"0", "1", "r", "n", "x">>, <<"x", "n", "1", "r">>, <<"1", ".", "0", "n", "1", "n">>}
  \cup Words({"x", "n", "nul"}, 2) \cup {<<"u16", "x", "n">>, <<"u16", "n", "x">>}
Blocks1 == {<<"x">>, <<"x", "n", "x">>, <<"n", "x">>, <<"x", "n", "n">>, <<"x", "r", "n", "x", "r", "n">>,
            <<"1">>, <<"0", "1">>, <<"1", "n", "0">>}
Blocks2 == {<<>>, <<"y">>, <<"y", "n", "y">>, <<"x", "n", "y", "n">>, <<"y", "n", "n">>,
            <<"x", "y", "r", "n", "x">>, <<"x", "n", "y", "n", "x">>, <<"r">>, <<"nul">>}

\* What gawk takes for a number: digits, with blanks around them or none (a carriage return
\* that was not cut is one); and one fraction.
Digits == {"0", "1"}
Value(text) ==
  FoldLeft(LAMBDA v, byte : IF byte \in Digits THEN 10 * v + (IF byte = "1" THEN 1 ELSE 0) ELSE v, 0, text)
SpelledNumbers ==
  [text \in {before \o digits \o after : before, after \in Words({"s"}, 2), digits \in Words(Digits, 3) \ {<<>>}}
              \cup {<<"1", "r">>}
     |-> Value(text)]
  @@ (<<"1", ".", "0">> :> 1)
=============================================================================
