----------------------------- MODULE ChatMailbox -----------------------------
(***************************************************************************)
(* What the message queue of a conversation promises the person who writes *)
(* to a running Agent: a message that was accepted is taken in its turn --  *)
(* steering messages first, each kind in the order of its arrival -- or is *)
(* dropped together with everything that waits; while the box is closing   *)
(* nothing is accepted, and it goes away empty.                            *)
(***************************************************************************)
EXTENDS Naturals

CONSTANTS Messages, Steering

VARIABLES
  box,      \* "absent", "accepting" or "closing"
  waiting,  \* the accepted messages that were neither taken nor dropped
  arrival,  \* when each message was accepted; 0 before
  clock     \* how many were accepted so far

mailbox == <<box, waiting, arrival, clock>>

\* m has to be taken before n.
Precedes(m, n) ==
  \/ m \in Steering /\ n \notin Steering
  \/ (m \in Steering <=> n \in Steering) /\ arrival[m] < arrival[n]

MailboxInit == /\ box = "absent" /\ waiting = {}
               /\ arrival = [m \in Messages |-> 0] /\ clock = 0

Open == /\ box = "absent" /\ box' = "accepting"
        /\ UNCHANGED <<waiting, arrival, clock>>

Accept(m) == /\ box = "accepting" /\ arrival[m] = 0
             /\ waiting' = waiting \cup {m}
             /\ clock' = clock + 1 /\ arrival' = [arrival EXCEPT ![m] = clock + 1]
             /\ UNCHANGED box

Take(m) == /\ m \in waiting /\ \A n \in waiting \ {m} : Precedes(m, n)
           /\ waiting' = waiting \ {m}
           /\ UNCHANGED <<box, arrival, clock>>

\* The last turn ended and nothing waits.
LastTurn == /\ box # "absent" /\ waiting = {}
            /\ box' = "closing" /\ UNCHANGED <<waiting, arrival, clock>>

\* A stop or a failed turn drops what waits.
Drop == /\ box # "absent"
        /\ box' = "closing" /\ waiting' = {} /\ UNCHANGED <<arrival, clock>>

Leave == /\ box = "closing" /\ waiting = {}
         /\ box' = "absent" /\ UNCHANGED <<waiting, arrival, clock>>

MailboxNext == \/ Open \/ LastTurn \/ Drop \/ Leave
               \/ \E m \in Messages : Accept(m) \/ Take(m)

MailboxSpec == MailboxInit /\ [][MailboxNext]_mailbox
=============================================================================
