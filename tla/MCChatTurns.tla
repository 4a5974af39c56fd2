----------------------------- MODULE MCChatTurns -----------------------------
(* Small instances of ChatTurns for TLC. *)
EXTENDS ChatTurns

CONSTANTS f1, f2, s1, s2
=============================================================================
