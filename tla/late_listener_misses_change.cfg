SPECIFICATION AppSpec
CONSTANTS
  p1 = p1
  l1 = l1
  l2 = l2
  Watched = {"chat_state"}
  Items = {1, 2}
  Publishers = {p1}
  Listeners = {l1, l2}
  Readers = {l1, l2}
  Room = 1
  Window = 1
  MaxStamp = 2
  MaxVisits = 2
  MaxSockets = 1
  MaxErrors = 0
INVARIANT EveryListenerCatchesUp
CHECK_DEADLOCK FALSE
