------------------------- MODULE MCApplicationStream -------------------------
(* A small instance, for TLC, of the application WebSocket with two parts of *)
(* a page that listen to one topic.                                          *)
EXTENDS ApplicationStream

CONSTANTS p1, l1, l2
=============================================================================
