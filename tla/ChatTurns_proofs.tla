--------------------------- MODULE ChatTurns_proofs ---------------------------
(***************************************************************************)
(* Proofs about ChatTurns, for any set of messages, any bound of the queue *)
(* and any number of stops, failures and compressions.                     *)
(*                                                                         *)
(* That the head of the queue is the message to take follows from the      *)
(* order of the whole queue, which an insertion keeps because a new        *)
(* message is stamped later than all that wait.  That a turn and a         *)
(* compression exclude each other follows from what each of them knows     *)
(* about the session of the runtime.                                       *)
(***************************************************************************)
EXTENDS ChatTurns, SequenceTheorems, TLAPS

---------------------------------------------------------------------------
(* The inductive invariant *)

\* Each message of the queue has to be taken before those behind it.
OrderKept ==
  \A i, j \in 1..Len(items) : i < j => Mailbox!Precedes(items[i], items[j])

\* What waits was stamped, and the next stamp is later than every other.
Stamped ==
  /\ \A m \in Messages : arrival[m] <= clock /\ (send[m] = "new" => arrival[m] = 0)
  /\ \A i \in 1..Len(items) : arrival[items[i]] > 0

\* A queue that is gone or closing is empty, and the driver that leaves has
\* closed it.
BoxAndDriver ==
  /\ pc = "idle" <=> box = "absent"
  /\ box # "accepting" => items = <<>>
  /\ pc = "exit" => box = "closing"

\* Who works on the conversation has the session of the runtime.
SessionStory ==
  /\ InTurn => active
  /\ compress = "active" => active
  /\ OneUserOfContext

IInv == TypeOK /\ OrderKept /\ Stamped /\ BoxAndDriver /\ SessionStory
        /\ BoundedQueue /\ SteeringIsDelivered

---------------------------------------------------------------------------
(* The queue as a sequence *)

\* An insertion lengthens the queue by one and shifts what is behind it.
LEMMA InsertionFacts ==
  ASSUME items \in Seq(Messages), NEW m \in Messages, NEW p \in 1..(Len(items) + 1)
  PROVE  /\ InsertedAt(p, m) \in Seq(Messages)
         /\ Len(InsertedAt(p, m)) = Len(items) + 1
         /\ \A i \in 1..(Len(items) + 1) :
              InsertedAt(p, m)[i] = IF i < p THEN items[i] ELSE IF i = p THEN m ELSE items[i - 1]
<1> DEFINE n == Len(items) + 1
           s == InsertedAt(p, m)
<1>1. Len(items) \in Nat /\ n \in Nat /\ \A i \in 1..Len(items) : items[i] \in Messages
  BY LenProperties
<1>2. s = [i \in 1..n |-> IF i < p THEN items[i] ELSE IF i = p THEN m ELSE items[i - 1]]
  BY DEF InsertedAt
<1>3. \A i \in 1..n : (IF i < p THEN items[i] ELSE IF i = p THEN m ELSE items[i - 1]) \in Messages
  BY <1>1
<1>4. s \in [1..n -> Messages]
  BY <1>2, <1>3
<1>5. s \in Seq(Messages)
  BY <1>1, <1>4
<1>6. Len(s) = n
  BY <1>1, <1>4, <1>5, LenProperties
<1> QED
  BY <1>2, <1>5, <1>6

\* Every step keeps the types of the places, the queue and the history.
LEMMA DataStep == DataTypes /\ [Next]_vars => DataTypes'
<1> SUFFICES ASSUME DataTypes, [Next]_vars PROVE DataTypes'
  OBVIOUS
<1> USE DEF DataTypes, queue, driver, session, steer, history
<1>1. CASE BeginTurn
  BY <1>1 DEF BeginTurn, Vacant, BeginSession
<1>2. CASE PreambleFails
  BY <1>2 DEF PreambleFails, EndTurn, EndSession, Trouble
<1>3. CASE RunModel
  BY <1>3 DEF RunModel, AskedAtStart
<1>4. CASE TurnEnds
  BY <1>4 DEF TurnEnds, EndTurn, EndSession, Trouble
<1>5. CASE PauseCancelled
  BY <1>5 DEF PauseCancelled, EndTurn, EndSession
<1>6. CASE NextAfterTurn
  BY <1>6, HeadTailProperties DEF NextAfterTurn, Closing, Rest
<1>7. CASE ClearAfterFailure
  <2>1. items' \in Seq(Messages) /\ box' \in {"absent", "accepting", "closing"}
    <3>1. CASE box = "absent"
      <4>1. items' = items /\ box' = box
        BY <1>7, <3>1 DEF ClearAfterFailure, Clear
      <4> QED
        BY <4>1
    <3>2. CASE box # "absent"
      BY <1>7, <3>2 DEF ClearAfterFailure, Clear
    <3> QED
      BY <3>1, <3>2
  <2> QED
    BY <1>7, <2>1 DEF ClearAfterFailure
<1>8. CASE Finish
  BY <1>8 DEF Finish
<1>9. CASE CancelRun
  BY <1>9 DEF CancelRun
<1>10. CASE Pause
  BY <1>10 DEF Pause, EndTurn, EndSession
<1>11. CASE Resume
  BY <1>11 DEF Resume, EndTurn, EndSession, AskedAtStart
<1>12. CASE CancelSession
  BY <1>12 DEF CancelSession, Trouble
<1>13. CASE ClearQueue
  <2>1. items' \in Seq(Messages) /\ box' \in {"absent", "accepting", "closing"}
    <3>1. CASE box = "absent"
      <4>1. items' = items /\ box' = box
        BY <1>13, <3>1 DEF ClearQueue, Clear
      <4> QED
        BY <4>1
    <3>2. CASE box # "absent"
      BY <1>13, <3>2 DEF ClearQueue, Clear
    <3> QED
      BY <3>1, <3>2
  <2> QED
    BY <1>13, <2>1 DEF ClearQueue
<1>14. CASE CompressCheck
  BY <1>14 DEF CompressCheck, Trouble
<1>15. CASE CompressBegin
  BY <1>15 DEF CompressBegin, Vacant, BeginSession
<1>16. CASE CompressEnd
  BY <1>16 DEF CompressEnd, EndSession
<1>17. ASSUME NEW m \in Messages, StartDriver(m) PROVE DataTypes'
  BY <1>17 DEF StartDriver
<1>18. ASSUME NEW m \in Messages, Enqueue(m) PROVE DataTypes'
  <2>1. items' \in Seq(Messages)
    BY <1>18, InsertionFacts DEF Enqueue
  <2>2. send' \in [Messages -> {"new", "steer", "request", "sent", "refused"}]
    BY <1>18 DEF Enqueue
  <2>3. arrival' \in [Messages -> Nat] /\ clock' \in Nat
    BY <1>18 DEF Enqueue
  <2> QED
    BY <1>18, <2>1, <2>2, <2>3 DEF Enqueue
<1>19. ASSUME NEW m \in Messages, SteerMark(m) PROVE DataTypes'
  BY <1>19 DEF SteerMark
<1>20. ASSUME NEW m \in Messages, SteerRequest(m) PROVE DataTypes'
  BY <1>20 DEF SteerRequest
<1>21. CASE UNCHANGED vars
  BY <1>21 DEF vars
<1> QED
  BY <1>1, <1>2, <1>3, <1>4, <1>5, <1>6, <1>7, <1>8, <1>9, <1>10, <1>11, <1>12, <1>13, <1>14, <1>15, <1>16, <1>17, <1>18, <1>19, <1>20, <1>21 DEF Next, DriverStep

\* Every step keeps the types of the flags.
LEMMA FlagStep == FlagTypes /\ [Next]_vars => FlagTypes'
<1> SUFFICES ASSUME FlagTypes, [Next]_vars PROVE FlagTypes'
  OBVIOUS
<1> USE DEF FlagTypes, queue, driver, session, steer, history
<1>1. CASE BeginTurn
  BY <1>1 DEF BeginTurn, Vacant, BeginSession
<1>2. CASE PreambleFails
  BY <1>2 DEF PreambleFails, EndTurn, EndSession, Trouble
<1>3. CASE RunModel
  BY <1>3 DEF RunModel, AskedAtStart
<1>4. CASE TurnEnds
  BY <1>4 DEF TurnEnds, EndTurn, EndSession, Trouble
<1>5. CASE PauseCancelled
  BY <1>5 DEF PauseCancelled, EndTurn, EndSession
<1>6. CASE NextAfterTurn
  BY <1>6 DEF NextAfterTurn, Closing, Rest
<1>7. CASE ClearAfterFailure
  BY <1>7 DEF ClearAfterFailure, Clear
<1>8. CASE Finish
  BY <1>8 DEF Finish
<1>9. CASE CancelRun
  BY <1>9 DEF CancelRun
<1>10. CASE Pause
  BY <1>10 DEF Pause, EndTurn, EndSession
<1>11. CASE Resume
  BY <1>11 DEF Resume, EndTurn, EndSession, AskedAtStart
<1>12. CASE CancelSession
  BY <1>12 DEF CancelSession, Trouble
<1>13. CASE ClearQueue
  BY <1>13 DEF ClearQueue, Clear
<1>14. CASE CompressCheck
  BY <1>14 DEF CompressCheck, Trouble
<1>15. CASE CompressBegin
  BY <1>15 DEF CompressBegin, Vacant, BeginSession
<1>16. CASE CompressEnd
  BY <1>16 DEF CompressEnd, EndSession
<1>17. ASSUME NEW m \in Messages, StartDriver(m) PROVE FlagTypes'
  BY <1>17 DEF StartDriver
<1>18. ASSUME NEW m \in Messages, Enqueue(m) PROVE FlagTypes'
  BY <1>18 DEF Enqueue, Full
<1>19. ASSUME NEW m \in Messages, SteerMark(m) PROVE FlagTypes'
  BY <1>19 DEF SteerMark
<1>20. ASSUME NEW m \in Messages, SteerRequest(m) PROVE FlagTypes'
  BY <1>20 DEF SteerRequest
<1>21. CASE UNCHANGED vars
  BY <1>21 DEF vars
<1> QED
  BY <1>1, <1>2, <1>3, <1>4, <1>5, <1>6, <1>7, <1>8, <1>9, <1>10, <1>11, <1>12, <1>13, <1>14, <1>15, <1>16, <1>17, <1>18, <1>19, <1>20, <1>21 DEF Next, DriverStep

\* Two messages of an ordered queue differ.
LEMMA NoDuplicates ==
  ASSUME TypeOK, OrderKept
  PROVE  \A i, j \in 1..Len(items) : items[i] = items[j] => i = j
<1> SUFFICES ASSUME NEW i \in 1..Len(items), NEW j \in 1..Len(items),
                    items[i] = items[j], i < j
             PROVE  FALSE
  BY LenProperties DEF TypeOK, DataTypes
<1>1. Mailbox!Precedes(items[i], items[j])
  BY DEF OrderKept
<1>2. items[i] \in Messages /\ arrival[items[i]] \in Nat
  BY LenProperties DEF TypeOK, DataTypes
<1> QED
  BY <1>1, <1>2 DEF Mailbox!Precedes

---------------------------------------------------------------------------
(* The order of the queue *)

QueueInv == OrderKept /\ Stamped /\ BoundedQueue

\* A step that leaves the queue and its history alone keeps the order.
LEMMA QueueKept ==
  ASSUME QueueInv, UNCHANGED <<items, arrival, clock>>,
         \A m \in Messages : send'[m] = "new" => send[m] = "new"
  PROVE  QueueInv'
  BY DEF QueueInv, OrderKept, Stamped, BoundedQueue, Mailbox!Precedes

\* So does one that empties it.
LEMMA QueueEmptied ==
  ASSUME QueueInv, items' = <<>>, UNCHANGED <<arrival, clock>>,
         \A m \in Messages : send'[m] = "new" => send[m] = "new"
  PROVE  QueueInv'
<1>1. Len(items') = 0
  OBVIOUS
<1> QED
  BY <1>1, BoundAssumption DEF QueueInv, OrderKept, Stamped, BoundedQueue

\* Taking the head keeps the order of the rest.
LEMMA QueueTaken ==
  ASSUME TypeOK, QueueInv, items # <<>>, items' = Tail(items), UNCHANGED <<arrival, clock, send>>
  PROVE  QueueInv'
<1>1. /\ Len(items) \in Nat /\ Len(items') = Len(items) - 1
      /\ \A i \in 1..Len(items') : items'[i] = items[i + 1]
  BY HeadTailProperties, LenProperties DEF TypeOK, DataTypes
<1>2. OrderKept'
  BY <1>1 DEF QueueInv, OrderKept, Mailbox!Precedes
<1>3. Stamped'
  BY <1>1 DEF QueueInv, Stamped
<1>4. BoundedQueue'
  BY <1>1, BoundAssumption DEF QueueInv, BoundedQueue
<1> QED
  BY <1>2, <1>3, <1>4 DEF QueueInv

\* A new message goes where those before it precede it and it precedes those
\* behind it, for its stamp is later than all of theirs.
LEMMA QueueInserted ==
  ASSUME TypeOK, QueueInv, NEW m \in Messages, NEW p \in 1..(Len(items) + 1),
         send[m] = "new", ~Full, Place(m, p), items' = InsertedAt(p, m),
         clock' = clock + 1, arrival' = [arrival EXCEPT ![m] = clock + 1],
         send' = [send EXCEPT ![m] = IF m \in Steering THEN "steer" ELSE "sent"]
  PROVE  QueueInv'
<1>1. /\ Len(items') = Len(items) + 1
      /\ \A i \in 1..(Len(items) + 1) :
           items'[i] = IF i < p THEN items[i] ELSE IF i = p THEN m ELSE items[i - 1]
  <2>1. items \in Seq(Messages)
    BY DEF TypeOK, DataTypes
  <2> QED
    BY <2>1, InsertionFacts
<1>2. Len(items) \in Nat /\ clock \in Nat /\ arrival[m] = 0
  BY LenProperties DEF TypeOK, DataTypes, QueueInv, Stamped
<1>3. \A i \in 1..Len(items) :
        /\ items[i] \in Messages /\ arrival[items[i]] \in Nat
        /\ 0 < arrival[items[i]] /\ arrival[items[i]] <= clock /\ items[i] # m
  BY <1>2, LenProperties DEF TypeOK, DataTypes, QueueInv, Stamped
<1>4. \A i \in 1..Len(items) : arrival'[items[i]] = arrival[items[i]]
  BY <1>3 DEF TypeOK, DataTypes
<1>5. arrival'[m] = clock + 1
  BY DEF TypeOK, DataTypes
<1>6. OrderKept'
  <2> DEFINE Before(a, b) ==
        \/ a \in Steering /\ b \notin Steering
        \/ (a \in Steering <=> b \in Steering) /\ arrival'[a] < arrival'[b]
  <2> SUFFICES ASSUME NEW i \in 1..(Len(items) + 1), NEW j \in 1..(Len(items) + 1), i < j
               PROVE  Before(items'[i], items'[j])
    BY <1>1 DEF OrderKept, Mailbox!Precedes
  <2>1. \A k, l \in 1..Len(items) : k < l => Before(items[k], items[l])
    BY <1>3, <1>4 DEF QueueInv, OrderKept, Mailbox!Precedes
  <2>2. CASE i # p /\ j # p
    <3>1. \E k, l \in 1..Len(items) : k < l /\ items'[i] = items[k] /\ items'[j] = items[l]
      <4>1. CASE j < p
        BY <1>1, <1>2, <4>1
      <4>2. CASE i < p /\ p < j
        <5>1. items'[i] = items[i] /\ items'[j] = items[j - 1] /\ i < j - 1
          BY <1>1, <1>2, <4>2
        <5> QED
          BY <1>2, <4>2, <5>1
      <4>3. CASE p < i
        <5>1. items'[i] = items[i - 1] /\ items'[j] = items[j - 1]
          BY <1>1, <1>2, <4>3
        <5>2. i - 1 \in 1..Len(items) /\ j - 1 \in 1..Len(items) /\ i - 1 < j - 1
          BY <1>2, <4>3
        <5> QED
          BY <5>1, <5>2
      <4> QED
        BY <1>2, <2>2, <4>1, <4>2, <4>3
    <3> QED
      BY <2>1, <3>1
  <2>3. CASE i = p
    \* A message behind the new one: a follow-up, or the new one is none either.
    <3>1. items'[i] = m /\ items'[j] = items[j - 1] /\ j - 1 \in 1..Len(items)
      BY <1>1, <1>2, <2>3
    <3>2. m \in Steering /\ items[p] \notin Steering
      BY <1>2, <2>3, <3>1 DEF Place
    <3>3. items[j - 1] \notin Steering
      BY <1>2, <2>3, <3>1, <3>2 DEF QueueInv, OrderKept, Mailbox!Precedes
    <3> QED
      BY <3>1, <3>2, <3>3
  <2>4. CASE j = p
    <3>1. items'[j] = m /\ items'[i] = items[i] /\ i \in 1..Len(items) /\ i \in 1..(p - 1)
      BY <1>1, <1>2, <2>4
    <3>2. m \in Steering => items[i] \in Steering
      BY <3>1 DEF Place
    <3>3. arrival'[items[i]] < arrival'[m]
      BY <1>2, <1>3, <1>4, <1>5, <3>1
    <3> QED
      BY <3>1, <3>2, <3>3
  <2> QED
    BY <2>2, <2>3, <2>4
<1>7. Stamped'
  <2>1. \A n \in Messages : arrival'[n] <= clock' /\ (send'[n] = "new" => arrival'[n] = 0)
    BY <1>2 DEF TypeOK, DataTypes, QueueInv, Stamped
  <2>2. ASSUME NEW i \in 1..(Len(items) + 1) PROVE arrival'[items'[i]] > 0
    <3>1. CASE i = p
      BY <1>1, <1>2, <1>5, <3>1
    <3>2. CASE i # p
      <4>1. PICK k \in 1..Len(items) : items'[i] = items[k]
        BY <1>1, <1>2, <3>2
      <4> QED
        BY <1>3, <1>4, <4>1
    <3> QED
      BY <3>1, <3>2
  <2> QED
    BY <1>1, <2>1, <2>2 DEF Stamped
<1>8. BoundedQueue'
  BY <1>1, <1>2, BoundAssumption DEF BoundedQueue, Full
<1> QED
  BY <1>6, <1>7, <1>8 DEF QueueInv

\* Every step keeps the order of the queue.
LEMMA QueueStep == TypeOK /\ QueueInv /\ [Next]_vars => QueueInv'
<1> SUFFICES ASSUME TypeOK, QueueInv, [Next]_vars PROVE QueueInv'
  OBVIOUS
<1> USE DEF queue, driver, session, steer, history
<1>1. CASE BeginTurn
  BY <1>1, QueueKept DEF BeginTurn, Vacant, BeginSession, TypeOK, DataTypes
<1>2. CASE PreambleFails
  BY <1>2, QueueKept DEF PreambleFails, EndTurn, EndSession, Trouble, TypeOK, DataTypes
<1>3. CASE RunModel
  BY <1>3, QueueKept DEF RunModel, AskedAtStart, TypeOK, DataTypes
<1>4. CASE TurnEnds
  BY <1>4, QueueKept DEF TurnEnds, EndTurn, EndSession, Trouble, TypeOK, DataTypes
<1>5. CASE PauseCancelled
  BY <1>5, QueueKept DEF PauseCancelled, EndTurn, EndSession, TypeOK, DataTypes
<1>6. CASE NextAfterTurn
  BY <1>6, QueueTaken, QueueKept DEF NextAfterTurn, Closing, Rest
<1>7. CASE ClearAfterFailure
  BY <1>7, QueueEmptied, QueueKept DEF ClearAfterFailure, Clear
<1>8. CASE Finish
  BY <1>8, QueueEmptied DEF Finish, TypeOK, DataTypes
<1>9. CASE CancelRun
  BY <1>9, QueueKept DEF CancelRun, TypeOK, DataTypes
<1>10. CASE Pause
  BY <1>10, QueueKept DEF Pause, EndTurn, EndSession, TypeOK, DataTypes
<1>11. CASE Resume
  BY <1>11, QueueKept DEF Resume, EndTurn, EndSession, AskedAtStart, TypeOK, DataTypes
<1>12. CASE CancelSession
  BY <1>12, QueueKept DEF CancelSession, Trouble, TypeOK, DataTypes
<1>13. CASE ClearQueue
  BY <1>13, QueueEmptied, QueueKept DEF ClearQueue, Clear
<1>14. CASE CompressCheck
  BY <1>14, QueueKept DEF CompressCheck, Trouble, TypeOK, DataTypes
<1>15. CASE CompressBegin
  BY <1>15, QueueKept DEF CompressBegin, Vacant, BeginSession, TypeOK, DataTypes
<1>16. CASE CompressEnd
  BY <1>16, QueueKept DEF CompressEnd, EndSession, TypeOK, DataTypes
<1>17. ASSUME NEW m \in Messages, StartDriver(m) PROVE QueueInv'
  BY <1>17, QueueEmptied DEF StartDriver, TypeOK, DataTypes
<1>18. ASSUME NEW m \in Messages, Enqueue(m) PROVE QueueInv'
  <2>1. CASE box = "accepting" /\ ~Full
    BY <1>18, <2>1, QueueInserted DEF Enqueue
  <2>2. CASE ~(box = "accepting" /\ ~Full)
    BY <1>18, <2>2, QueueKept DEF Enqueue, TypeOK, DataTypes
  <2> QED
    BY <2>1, <2>2
<1>19. ASSUME NEW m \in Messages, SteerMark(m) PROVE QueueInv'
  BY <1>19, QueueKept DEF SteerMark, TypeOK, DataTypes
<1>20. ASSUME NEW m \in Messages, SteerRequest(m) PROVE QueueInv'
  BY <1>20, QueueKept DEF SteerRequest, TypeOK, DataTypes
<1>21. CASE UNCHANGED vars
  BY <1>21, QueueKept DEF vars
<1> QED
  BY <1>1, <1>2, <1>3, <1>4, <1>5, <1>6, <1>7, <1>8, <1>9, <1>10, <1>11, <1>12, <1>13, <1>14, <1>15, <1>16, <1>17, <1>18, <1>19, <1>20, <1>21 DEF Next, DriverStep

---------------------------------------------------------------------------
(* The driver, its queue and the session of the runtime *)

ControlInv == BoxAndDriver /\ SessionStory /\ SteeringIsDelivered

\* Every step keeps what the processes know of each other.
LEMMA ControlStep == TypeOK /\ ControlInv /\ [Next]_vars => ControlInv'
<1> SUFFICES ASSUME TypeOK, ControlInv, [Next]_vars PROVE ControlInv'
  OBVIOUS
<1> USE DEF ControlInv, BoxAndDriver, SessionStory, SteeringIsDelivered, OneUserOfContext, InTurn,
          queue, driver, session, steer, history
<1>1. CASE BeginTurn
  BY <1>1 DEF BeginTurn, Vacant, BeginSession, TypeOK, DataTypes
<1>2. CASE PreambleFails
  BY <1>2 DEF PreambleFails, EndTurn, EndSession, Trouble, TypeOK, DataTypes
<1>3. CASE RunModel
  BY <1>3 DEF RunModel, AskedAtStart, TypeOK, DataTypes
<1>4. CASE TurnEnds
  BY <1>4 DEF TurnEnds, EndTurn, EndSession, Trouble, TypeOK, DataTypes
<1>5. CASE PauseCancelled
  BY <1>5 DEF PauseCancelled, EndTurn, EndSession, TypeOK, DataTypes
<1>6. CASE NextAfterTurn
  BY <1>6 DEF NextAfterTurn, Closing, Rest
<1>7. CASE ClearAfterFailure
  BY <1>7 DEF ClearAfterFailure, Clear, TypeOK, DataTypes
<1>8. CASE Finish
  BY <1>8 DEF Finish, TypeOK, DataTypes
<1>9. CASE CancelRun
  BY <1>9 DEF CancelRun, TypeOK, DataTypes
<1>10. CASE Pause
  BY <1>10 DEF Pause, EndTurn, EndSession, TypeOK, DataTypes
<1>11. CASE Resume
  <2>1. CASE pc' = "model"
    BY <1>11, <2>1 DEF Resume, EndTurn, AskedAtStart, TypeOK, DataTypes
  <2>2. CASE pc' # "model"
    BY <1>11, <2>2 DEF Resume, EndTurn, EndSession, TypeOK, DataTypes
  <2> QED
    BY <2>1, <2>2
<1>12. CASE CancelSession
  BY <1>12 DEF CancelSession, Trouble, TypeOK, DataTypes
<1>13. CASE ClearQueue
  BY <1>13 DEF ClearQueue, Clear, TypeOK, DataTypes
<1>14. CASE CompressCheck
  BY <1>14 DEF CompressCheck, Trouble, TypeOK, DataTypes
<1>15. CASE CompressBegin
  BY <1>15 DEF CompressBegin, Vacant, BeginSession, TypeOK, DataTypes
<1>16. CASE CompressEnd
  BY <1>16 DEF CompressEnd, EndSession, TypeOK, DataTypes
<1>17. ASSUME NEW m \in Messages, StartDriver(m) PROVE ControlInv'
  BY <1>17 DEF StartDriver, TypeOK, DataTypes
<1>18. ASSUME NEW m \in Messages, Enqueue(m) PROVE ControlInv'
  BY <1>18 DEF Enqueue, Full, TypeOK, DataTypes
<1>19. ASSUME NEW m \in Messages, SteerMark(m) PROVE ControlInv'
  BY <1>19 DEF SteerMark, TypeOK, DataTypes
<1>20. ASSUME NEW m \in Messages, SteerRequest(m) PROVE ControlInv'
  BY <1>20 DEF SteerRequest, TypeOK, DataTypes
<1>21. CASE UNCHANGED vars
  BY <1>21 DEF vars
<1> QED
  BY <1>1, <1>2, <1>3, <1>4, <1>5, <1>6, <1>7, <1>8, <1>9, <1>10, <1>11, <1>12, <1>13, <1>14, <1>15, <1>16, <1>17, <1>18, <1>19, <1>20, <1>21 DEF Next, DriverStep

---------------------------------------------------------------------------
(* The promise of ChatMailbox *)

LEMMA MailboxUnmoved ==
  ASSUME UNCHANGED <<box, items, arrival, clock>>
  PROVE  UNCHANGED Mailbox!mailbox
  BY DEF Mailbox!mailbox, Waiting

\* Clear is a Drop, or a stuttering step when there is no box.
LEMMA ClearDrops ==
  ASSUME Clear, UNCHANGED <<arrival, clock>>
  PROVE  [Mailbox!MailboxNext]_(Mailbox!mailbox)
<1>1. CASE box = "absent"
  BY <1>1, MailboxUnmoved DEF Clear, queue
<1>2. CASE box # "absent"
  <2>1. Waiting' = {}
    BY <1>2 DEF Clear, Waiting
  <2>2. Mailbox!Drop
    BY <1>2, <2>1 DEF Clear, Mailbox!Drop
  <2> QED
    BY <2>2 DEF Mailbox!MailboxNext
<1> QED
  BY <1>1, <1>2

\* The head of the queue is the message to take.
LEMMA HeadIsTaken ==
  ASSUME TypeOK, QueueInv, items # <<>>, items' = Tail(items), UNCHANGED <<box, arrival, clock>>
  PROVE  Mailbox!Take(Head(items)) /\ Head(items) \in Messages
<1>1. items \in Seq(Messages)
  BY DEF TypeOK, DataTypes
<1>2. /\ Len(items) \in Nat /\ Len(items) > 0 /\ DOMAIN items = 1..Len(items)
      /\ Head(items) = items[1] /\ Head(items) \in Messages
  BY <1>1, LenProperties, HeadTailProperties
<1>3. /\ Len(items') = Len(items) - 1 /\ DOMAIN items' = 1..(Len(items) - 1)
      /\ \A i \in 1..(Len(items) - 1) : items'[i] = items[i + 1]
  BY <1>1, HeadTailProperties, LenProperties
<1>4. Waiting = {items[i] : i \in 1..Len(items)}
  BY <1>2 DEF Waiting
<1>5. Waiting' = {items[i + 1] : i \in 1..(Len(items) - 1)}
  BY <1>3 DEF Waiting
<1>6. \A i, j \in 1..Len(items) : items[i] = items[j] => i = j
  BY NoDuplicates DEF QueueInv
<1>7. Waiting' = Waiting \ {items[1]}
  <2>1. ASSUME NEW n \in Waiting' PROVE n \in Waiting \ {items[1]}
    <3>1. PICK i \in 1..(Len(items) - 1) : n = items[i + 1]
      BY <1>5
    <3>2. i + 1 \in 1..Len(items) /\ i + 1 # 1 /\ 1 \in 1..Len(items)
      BY <1>2
    <3> QED
      BY <1>4, <1>6, <3>1, <3>2
  <2>2. ASSUME NEW n \in Waiting \ {items[1]} PROVE n \in Waiting'
    <3>1. PICK i \in 1..Len(items) : n = items[i] /\ i # 1
      BY <1>4
    <3>2. i - 1 \in 1..(Len(items) - 1) /\ (i - 1) + 1 = i
      BY <1>2, <3>1
    <3> QED
      BY <1>5, <3>1, <3>2
  <2> QED
    BY <2>1, <2>2
<1>8. items[1] \in Waiting
  BY <1>2, <1>4
<1>9. ASSUME NEW n \in Waiting \ {items[1]} PROVE Mailbox!Precedes(items[1], n)
  <2>1. PICK i \in 1..Len(items) : n = items[i] /\ i # 1
    BY <1>4
  <2>2. 1 \in 1..Len(items) /\ 1 < i
    BY <1>2, <2>1
  <2> QED
    BY <2>1, <2>2 DEF QueueInv, OrderKept
<1> QED
  BY <1>2, <1>7, <1>8, <1>9 DEF Mailbox!Take

\* An insertion adds the message to those that wait.
LEMMA WaitingGrows ==
  ASSUME TypeOK, NEW m \in Messages, NEW p \in 1..(Len(items) + 1), items' = InsertedAt(p, m)
  PROVE  Waiting' = Waiting \cup {m}
<1>1. items \in Seq(Messages)
  BY DEF TypeOK, DataTypes
<1>2. /\ Len(items) \in Nat /\ DOMAIN items = 1..Len(items)
      /\ DOMAIN items' = 1..(Len(items) + 1)
  BY <1>1, InsertionFacts, LenProperties
<1>3. \A i \in 1..(Len(items) + 1) :
        items'[i] = IF i < p THEN items[i] ELSE IF i = p THEN m ELSE items[i - 1]
  BY <1>1, InsertionFacts
<1>4. Waiting = {items[i] : i \in 1..Len(items)} /\ Waiting' = {items'[i] : i \in 1..(Len(items) + 1)}
  BY <1>2 DEF Waiting
<1>5. ASSUME NEW n \in Waiting' PROVE n \in Waiting \cup {m}
  <2>1. PICK i \in 1..(Len(items) + 1) : n = items'[i]
    BY <1>4
  <2>2. CASE i < p
    BY <1>2, <1>3, <1>4, <2>1, <2>2
  <2>3. CASE i = p
    BY <1>2, <1>3, <2>1, <2>3
  <2>4. CASE p < i
    <3>1. i - 1 \in 1..Len(items) /\ n = items[i - 1]
      BY <1>2, <1>3, <2>1, <2>4
    <3> QED
      BY <1>4, <3>1
  <2> QED
    BY <1>2, <2>2, <2>3, <2>4
<1>6. ASSUME NEW n \in Waiting \cup {m} PROVE n \in Waiting'
  <2>1. CASE n = m
    BY <1>3, <1>4, <2>1
  <2>2. CASE n \in Waiting
    <3>1. PICK i \in 1..Len(items) : n = items[i]
      BY <1>4, <2>2
    <3>2. CASE i < p
      BY <1>2, <1>3, <1>4, <3>1, <3>2
    <3>3. CASE p <= i
      <4>1. i + 1 \in 1..(Len(items) + 1) /\ items'[i + 1] = items[i]
        BY <1>2, <1>3, <3>3
      <4> QED
        BY <1>4, <3>1, <4>1
    <3> QED
      BY <1>2, <3>2, <3>3
  <2> QED
    BY <2>1, <2>2
<1> QED
  BY <1>5, <1>6

\* Every step is one of the mailbox, or leaves it alone.
LEMMA MailboxStep ==
  TypeOK /\ QueueInv /\ ControlInv /\ [Next]_vars => [Mailbox!MailboxNext]_(Mailbox!mailbox)
<1> SUFFICES ASSUME TypeOK, QueueInv, ControlInv, [Next]_vars
             PROVE  [Mailbox!MailboxNext]_(Mailbox!mailbox)
  OBVIOUS
<1> USE DEF queue, driver, session, steer, history, ControlInv
<1>1. CASE BeginTurn
  BY <1>1, MailboxUnmoved DEF BeginTurn, Vacant, BeginSession
<1>2. CASE PreambleFails
  BY <1>2, MailboxUnmoved DEF PreambleFails, EndTurn, EndSession, Trouble
<1>3. CASE RunModel
  BY <1>3, MailboxUnmoved DEF RunModel, AskedAtStart
<1>4. CASE TurnEnds
  BY <1>4, MailboxUnmoved DEF TurnEnds, EndTurn, EndSession, Trouble
<1>5. CASE PauseCancelled
  BY <1>5, MailboxUnmoved DEF PauseCancelled, EndTurn, EndSession
<1>6. CASE NextAfterTurn
  <2>1. CASE items = <<>>
    <3>1. Waiting = {} /\ Waiting' = {}
      BY <1>6, <2>1 DEF NextAfterTurn, Waiting
    <3>2. Mailbox!LastTurn
      BY <1>6, <2>1, <3>1 DEF NextAfterTurn, Closing, BoxAndDriver, Mailbox!LastTurn
    <3> QED
      BY <3>2 DEF Mailbox!MailboxNext
  <2>2. CASE items # <<>>
    <3>1. Mailbox!Take(Head(items)) /\ Head(items) \in Messages
      BY <1>6, <2>2, HeadIsTaken DEF NextAfterTurn, Rest
    <3> QED
      BY <3>1 DEF Mailbox!MailboxNext
  <2> QED
    BY <2>1, <2>2
<1>7. CASE ClearAfterFailure
  BY <1>7, ClearDrops DEF ClearAfterFailure
<1>8. CASE Finish
  <2>1. Waiting = {} /\ Waiting' = {}
    BY <1>8 DEF Finish, Waiting, BoxAndDriver
  <2>2. Mailbox!Leave
    BY <1>8, <2>1 DEF Finish, Mailbox!Leave, BoxAndDriver
  <2> QED
    BY <2>2 DEF Mailbox!MailboxNext
<1>9. CASE CancelRun
  BY <1>9, MailboxUnmoved DEF CancelRun
<1>10. CASE Pause
  BY <1>10, MailboxUnmoved DEF Pause, EndTurn, EndSession
<1>11. CASE Resume
  BY <1>11, MailboxUnmoved DEF Resume, EndTurn, EndSession, AskedAtStart
<1>12. CASE CancelSession
  BY <1>12, MailboxUnmoved DEF CancelSession, Trouble
<1>13. CASE ClearQueue
  BY <1>13, ClearDrops DEF ClearQueue
<1>14. CASE CompressCheck
  BY <1>14, MailboxUnmoved DEF CompressCheck, Trouble
<1>15. CASE CompressBegin
  BY <1>15, MailboxUnmoved DEF CompressBegin, Vacant, BeginSession
<1>16. CASE CompressEnd
  BY <1>16, MailboxUnmoved DEF CompressEnd, EndSession
<1>17. ASSUME NEW m \in Messages, StartDriver(m) PROVE [Mailbox!MailboxNext]_(Mailbox!mailbox)
  <2>1. Waiting = {} /\ Waiting' = {}
    BY <1>17 DEF StartDriver, Waiting, BoxAndDriver
  <2>2. Mailbox!Open
    BY <1>17, <2>1 DEF StartDriver, Mailbox!Open
  <2> QED
    BY <2>2 DEF Mailbox!MailboxNext
<1>18. ASSUME NEW m \in Messages, Enqueue(m) PROVE [Mailbox!MailboxNext]_(Mailbox!mailbox)
  <2>1. CASE box = "accepting" /\ ~Full
    <3>1. Waiting' = Waiting \cup {m}
      BY <1>18, <2>1, WaitingGrows DEF Enqueue
    <3>2. arrival[m] = 0
      BY <1>18 DEF Enqueue, QueueInv, Stamped
    <3>3. Mailbox!Accept(m)
      BY <1>18, <2>1, <3>1, <3>2 DEF Enqueue, Mailbox!Accept
    <3> QED
      BY <3>3 DEF Mailbox!MailboxNext
  <2>2. CASE ~(box = "accepting" /\ ~Full)
    BY <1>18, <2>2, MailboxUnmoved DEF Enqueue
  <2> QED
    BY <2>1, <2>2
<1>19. ASSUME NEW m \in Messages, SteerMark(m) PROVE [Mailbox!MailboxNext]_(Mailbox!mailbox)
  BY <1>19, MailboxUnmoved DEF SteerMark
<1>20. ASSUME NEW m \in Messages, SteerRequest(m) PROVE [Mailbox!MailboxNext]_(Mailbox!mailbox)
  BY <1>20, MailboxUnmoved DEF SteerRequest
<1>21. CASE UNCHANGED vars
  BY <1>21, MailboxUnmoved DEF vars
<1> QED
  BY <1>1, <1>2, <1>3, <1>4, <1>5, <1>6, <1>7, <1>8, <1>9, <1>10, <1>11, <1>12, <1>13, <1>14, <1>15, <1>16, <1>17, <1>18, <1>19, <1>20, <1>21 DEF Next, DriverStep

---------------------------------------------------------------------------
(* The theorems *)

\* The invariant all of the properties below follow from.
THEOREM InductiveInvariant == Spec => []IInv
<1>1. Init => IInv
  <2> SUFFICES ASSUME Init PROVE IInv
    OBVIOUS
  <2>1. DataTypes
    BY DEF Init, DataTypes
  <2>2. FlagTypes
    BY DEF Init, FlagTypes
  <2>3. Len(items) = 0
    BY DEF Init
  <2>4. OrderKept /\ Stamped /\ BoundedQueue
    BY <2>3, BoundAssumption DEF Init, OrderKept, Stamped, BoundedQueue
  <2>5. BoxAndDriver
    BY DEF Init, BoxAndDriver
  <2>6. SessionStory /\ SteeringIsDelivered
    BY DEF Init, SessionStory, OneUserOfContext, InTurn, SteeringIsDelivered
  <2> QED
    BY <2>1, <2>2, <2>4, <2>5, <2>6 DEF IInv, TypeOK
<1>2. IInv /\ [Next]_vars => IInv'
  BY DataStep, FlagStep, QueueStep, ControlStep DEF IInv, TypeOK, QueueInv, ControlInv
<1> QED
  BY <1>1, <1>2, PTL DEF Spec

\* The variables keep their types.
THEOREM TypeCorrect == Spec => []TypeOK
  BY InductiveInvariant, PTL DEF IInv

\* The queue never exceeds its bound: enqueue compares before it inserts.
THEOREM QueueIsBounded == Spec => []BoundedQueue
  BY InductiveInvariant, PTL DEF IInv

\* No turn runs while the context is compressed, nor the other way round.
THEOREM SessionIsExclusive == Spec => []OneUserOfContext
  BY InductiveInvariant, PTL DEF IInv, SessionStory

\* A steering request that was granted reaches the model.
THEOREM SteeringArrives == Spec => []SteeringIsDelivered
  BY InductiveInvariant, PTL DEF IInv

\* The queue, its driver and its handlers implement ChatMailbox.
THEOREM KeepsChatMailbox == Spec => KeepsMailbox
<1>1. Init => Mailbox!MailboxInit
  BY DEF Init, Waiting, Mailbox!MailboxInit
<1>2. IInv /\ [Next]_vars => [Mailbox!MailboxNext]_(Mailbox!mailbox)
  BY MailboxStep DEF IInv, QueueInv, ControlInv
<1> QED
  BY <1>1, <1>2, InductiveInvariant, PTL DEF Spec, KeepsMailbox, Mailbox!MailboxSpec
=============================================================================
