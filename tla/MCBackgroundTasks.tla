------------------------- MODULE MCBackgroundTasks -------------------------
(* BackgroundTasks for TLC.  Tasks share nothing but the shutdown, so one task *)
(* shows what its own threads do to it.                                        *)
EXTENDS BackgroundTasks

CONSTANTS t1, t2
=============================================================================
