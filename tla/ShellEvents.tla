----------------------------- MODULE ShellEvents -----------------------------
(***************************************************************************)
(* The events of one interactive shell: how output, input and status get   *)
(* sequence numbers under eventMu, reach the history through the batching  *)
(* writer (shellEventWriter), and reach the page of an operator through    *)
(* its web socket.  The history of an Agent's shell is a table that may    *)
(* fail; an operator's is a bounded list in memory.                        *)
(***************************************************************************)
EXTENDS Integers, FiniteSets, SequencesExt

CONSTANTS
  Persistent,   \* the shell's history may be a table (TRUE) or memory (FALSE)
  MaxBatch,     \* maxSSHShellPersistBatch
  MaxBacklog,   \* maxSSHShellPersistBacklog, in events
  MaxAttempts,  \* maxShellPersistAttempts
  MaxKept,      \* maxOperatorTerminalHistoryEvents
  PageBuffer,   \* room of a subscriber's channel
  MaxSequence,  \* bound: the events recorded before the shell's last
  MaxLife,      \* bound: the generations
  MaxFired      \* bound: the timers that fired and wait for the writer

ASSUME ShellEventAssumption ==
  /\ Persistent \subseteq BOOLEAN
  /\ {MaxBatch, MaxBacklog, MaxAttempts, MaxKept} \subseteq Nat \ {0}
  /\ {PageBuffer, MaxSequence, MaxLife, MaxFired} \subseteq Nat

VARIABLES
  persistent,  \* what the history of this shell is
  generation, outputClosed, reason,  \* of sshShellState
  log,         \* every event given a number: its generation and kind
  history,     \* the numbers the history holds
  writer,      \* the shellEventWriter of the generation
  fired,       \* timers that fired and whose callback waits for the writer's lock
  output,      \* the generations whose transport calls back with output
  stream,      \* serveSSHShellWebSocket: where it is
  channel,     \* the subscriber's channel
  overflow,    \* its overflow signal
  shown,       \* the numbers of the events the page has shown
  finishing    \* finishSSHShellLocked waits in writer.close, holding eventMu

writerVars == <<history, writer, fired>>
pageVars   == <<stream, channel, overflow, shown>>
shellEventVars == <<persistent, generation, outputClosed, reason, log, history, writer, fired, output,
                    stream, channel, overflow, shown, finishing>>

---------------------------------------------------------------------------
Numbers   == 1..(MaxSequence + MaxLife + 1)
NewWriter == [events |-> <<>>, attempts |-> 0, fatal |-> FALSE, timer |-> 0, closed |-> FALSE]
LastSequence == Len(log)
After == IF shown = <<>> THEN 0 ELSE Last(shown)

\* A timer that neither runs nor waits.
FreshTimer == CHOOSE t \in 1..(MaxFired + 2) : t \notin fired \cup {writer.timer}

\* scheduleLocked
Scheduled(w) ==
  IF w.closed \/ w.fatal \/ w.timer # 0 \/ w.events = <<>> THEN w
  ELSE [w EXCEPT !.timer = FreshTimer]

Written(w)   == [w EXCEPT !.events = <<>>, !.attempts = 0, !.timer = 0]
\* The attempts count up to their limit.
NotWritten(w) == [w EXCEPT !.attempts = IF @ < MaxAttempts THEN @ + 1 ELSE @, !.timer = 0,
                           !.fatal = @ \/ w.attempts + 1 >= MaxAttempts]

\* The history after a batch; memory drops its oldest events.
Appended(batch) ==
  LET all == history \o batch
  IN IF persistent \/ Len(all) <= MaxKept THEN all ELSE SubSeq(all, Len(all) - MaxKept + 1, Len(all))

\* flushLocked, after which the writer is scheduled again or not.
Flush(w, again) ==
  LET Then(w2) == IF again THEN Scheduled(w2) ELSE w2
  IN IF w.events = <<>> THEN writer' = Then([w EXCEPT !.timer = 0]) /\ UNCHANGED history
     ELSE \/ writer' = Then(Written(w)) /\ history' = Appended(w.events)
          \/ persistent /\ writer' = Then(NotWritten(w)) /\ UNCHANGED history

\* The callback of failLocked: the generation is cancelled.
NoteFatal == reason' = IF writer'.fatal /\ ~writer.fatal /\ reason = "" THEN "persistence_failed" ELSE reason

\* append of the writer: beyond the backlog the events are dropped and the writer fails.
Write(numbers, immediate) ==
  LET w == [writer EXCEPT !.events = @ \o numbers]
  IN IF Len(w.events) > MaxBacklog
     THEN writer' = [writer EXCEPT !.fatal = TRUE, !.timer = IF writer.fatal THEN @ ELSE 0] /\ UNCHANGED history
     ELSE IF ~w.fatal /\ (immediate \/ Len(w.events) >= MaxBatch) THEN Flush(w, TRUE)
     ELSE writer' = Scheduled(w) /\ UNCHANGED history

\* publishSSHShellEvents
Deliver(number) ==
  IF stream = "off" THEN UNCHANGED <<channel, overflow>>
  ELSE IF Len(channel) < PageBuffer THEN channel' = Append(channel, number) /\ UNCHANGED overflow
  ELSE overflow' = TRUE /\ UNCHANGED channel

\* recordSSHShellEventsLocked: a number, the writer, the pages.
Record(kind, immediate) ==
  LET number == LastSequence + 1
  IN /\ log' = Append(log, [gen |-> generation, kind |-> kind])
     /\ Write(<<number>>, immediate) /\ NoteFatal
     /\ Deliver(number)

---------------------------------------------------------------------------
\* The transport of the current generation has output and calls back.
OutputArrives ==
  /\ ~outputClosed /\ output' = output \cup {generation} /\ output # output'
  /\ UNCHANGED <<persistent, generation, outputClosed, reason, log, finishing>>
  /\ UNCHANGED writerVars /\ UNCHANGED pageVars

AnyGeneration(g) == reason # "persistence_failed"  \* mutant: the generation is not compared
IsCurrent(g) == g = generation /\ ~outputClosed /\ reason # "persistence_failed"

\* appendSSHShellGenerationOutput: output that comes late is dropped.
RecordOutput ==
  /\ ~finishing
  /\ \E g \in output :
       /\ output' = output \ {g}
       /\ IF IsCurrent(g) /\ LastSequence < MaxSequence
          THEN Record("output", FALSE) /\ UNCHANGED <<fired, stream, shown>>
          ELSE /\ ~IsCurrent(g) \/ LastSequence >= MaxSequence
               /\ UNCHANGED <<reason, log>> /\ UNCHANGED writerVars /\ UNCHANGED pageVars
  /\ UNCHANGED <<persistent, generation, outputClosed, finishing>>

\* An input event, or the status of a start: written at once.
RecordInput ==
  /\ ~finishing /\ ~outputClosed /\ LastSequence < MaxSequence
  /\ Record("input", TRUE)
  /\ UNCHANGED <<persistent, generation, outputClosed, output, fired, finishing, stream, shown>>

\* The delay of a scheduled flush passes.
TimerFires ==
  /\ writer.timer # 0 /\ writer.timer \notin fired /\ Cardinality(fired) < MaxFired
  /\ fired' = fired \cup {writer.timer}
  /\ UNCHANGED <<persistent, generation, outputClosed, reason, log, history, writer, output, finishing>>
  /\ UNCHANGED pageVars

\* The callback of a timer: it does nothing when it was stopped in between.
TimerFlushes ==
  /\ \E t \in fired :
       /\ fired' = fired \ {t}
       /\ IF writer.closed \/ writer.timer # t THEN UNCHANGED <<history, writer>> ELSE Flush(writer, TRUE)
  /\ NoteFatal
  /\ UNCHANGED <<persistent, generation, outputClosed, log, output, finishing>> /\ UNCHANGED pageVars

---------------------------------------------------------------------------
\* finishSSHShellLocked: the last event is recorded, then output ends and the writer
\* closes; it waits for the callbacks that are under way.
FinishOutput ==
  /\ ~finishing /\ ~outputClosed /\ Len(log) < MaxSequence + generation
  /\ Record("end", TRUE)
  /\ outputClosed' = TRUE /\ finishing' = TRUE
  /\ UNCHANGED <<persistent, generation, output, fired, stream, shown>>

CloseWriter ==
  /\ finishing /\ ~writer.closed
  /\ writer' = [writer EXCEPT !.closed = TRUE, !.timer = 0]
  /\ UNCHANGED <<persistent, generation, outputClosed, reason, log, history, fired, output, finishing>>
  /\ UNCHANGED pageVars


\* writer.close after the callbacks: tries until the events are written, the attempts
\* are used up or the time is over.
FinalFlush ==
  /\ finishing /\ writer.closed /\ fired = {}
  /\ Flush(writer, FALSE) /\ NoteFatal
  /\ finishing' = (writer'.events # <<>> /\ writer'.attempts < MaxAttempts)
  /\ UNCHANGED <<persistent, generation, outputClosed, log, fired, output>> /\ UNCHANGED pageVars

\* beginReconnect: an operator's terminal that was lost gets a new writer.
NextGeneration ==
  /\ ~persistent /\ outputClosed /\ ~finishing /\ reason = "" /\ generation < MaxLife
  /\ generation' = generation + 1 /\ outputClosed' = FALSE /\ writer' = NewWriter
  /\ UNCHANGED <<persistent, reason, log, history, fired, output, finishing>> /\ UNCHANGED pageVars

---------------------------------------------------------------------------
Hangup == stream' = "off" /\ channel' = <<>> /\ overflow' = FALSE

\* The page connects with the number of the last event it showed.
SubscribePage ==
  /\ stream = "off" /\ (~persistent => LastSequence > 0)
  /\ stream' = "subscribed" /\ channel' = <<>> /\ overflow' = FALSE
  /\ UNCHANGED <<persistent, generation, outputClosed, reason, log, output, finishing, shown>>
  /\ UNCHANGED writerVars

\* An Agent's shell leaves the registry when it is finished.
Registered == finishing \/ ~outputClosed \/ ~persistent

\* flushLiveSSHShellEvents: a flush that fails is the end of the stream.
FlushForPage ==
  /\ stream = "subscribed" /\ ~finishing
  /\ IF writer.closed THEN UNCHANGED <<history, writer>> ELSE Flush(writer, TRUE)
  /\ NoteFatal
  /\ IF Registered /\ (writer'.events # <<>> \/ (writer.closed /\ writer.fatal))
     THEN Hangup ELSE stream' = "flushed" /\ UNCHANGED <<channel, overflow>>
  /\ UNCHANGED <<persistent, generation, outputClosed, log, fired, output, finishing, shown>>

\* The events after the cursor, of a sequence that is in the order of the numbers.
NotShown(numbers) ==
  SubSeq(numbers, Cardinality({i \in DOMAIN numbers : numbers[i] <= After}) + 1, Len(numbers))

\* The snapshot is sent; a shell that has ended by then ends the stream.
SendSnapshot ==
  /\ stream = "flushed"
  /\ shown' = shown \o NotShown(history)
  /\ \/ outputClosed /\ ~finishing /\ Hangup
     \/ (outputClosed => finishing) /\ stream' = "live" /\ UNCHANGED <<channel, overflow>>
  /\ UNCHANGED <<persistent, generation, outputClosed, reason, log, output, finishing>>
  /\ UNCHANGED writerVars

\* A live event, shown unless the snapshot had it; the end of the shell ends the stream.
\* The select chooses at random between an event and the signal of the overflow; that
\* the signal loses for as long as the full channel lasts is left out.
SendLive ==
  /\ stream = "live" /\ channel # <<>> /\ ~overflow
  /\ shown' = shown \o NotShown(<<Head(channel)>>)
  /\ IF log[Head(channel)].kind = "end" THEN Hangup
     ELSE channel' = Tail(channel) /\ UNCHANGED <<stream, overflow>>
  /\ UNCHANGED <<persistent, generation, outputClosed, reason, log, output, finishing>>
  /\ UNCHANGED writerVars

\* The channel overflowed, or the client is gone.
PageLeaves ==
  /\ stream # "off" /\ Hangup
  /\ UNCHANGED <<persistent, generation, outputClosed, reason, log, output, finishing, shown>>
  /\ UNCHANGED writerVars

---------------------------------------------------------------------------
ShellEventInit ==
  /\ persistent \in Persistent /\ generation = 1 /\ outputClosed = FALSE /\ reason = ""
  /\ log = <<>> /\ history = <<>> /\ writer = NewWriter /\ fired = {} /\ output = {}
  /\ stream = "off" /\ channel = <<>> /\ overflow = FALSE /\ shown = <<>> /\ finishing = FALSE

Finalise == CloseWriter \/ FinalFlush
PageStep == FlushForPage \/ SendSnapshot \/ SendLive \/ (overflow /\ PageLeaves)

ShellEventNext ==
  \/ OutputArrives \/ RecordOutput \/ RecordInput \/ TimerFires \/ TimerFlushes
  \/ FinishOutput \/ Finalise \/ NextGeneration
  \/ SubscribePage \/ PageStep \/ PageLeaves

ShellEventSpec == ShellEventInit /\ [][ShellEventNext]_shellEventVars

ShellEventDuty(k) ==
  CASE k = 1 -> TimerFires [] k = 2 -> TimerFlushes [] k = 3 -> Finalise [] OTHER -> PageStep
ShellEventFairness == \A k \in 1..4 : WF_shellEventVars(ShellEventDuty(k))

---------------------------------------------------------------------------
ShellEventTypes ==
  /\ persistent \in BOOLEAN /\ generation \in Nat \ {0} /\ outputClosed \in BOOLEAN
  /\ reason \in {"", "persistence_failed"} /\ finishing \in BOOLEAN
  /\ log \in Seq([gen : Nat, kind : {"output", "input", "end"}])
  /\ history \in Seq(Nat) /\ fired \in SUBSET Nat /\ output \in SUBSET Nat
  /\ writer \in [events : Seq(Nat), attempts : Nat, fatal : BOOLEAN, timer : Nat, closed : BOOLEAN]
  /\ stream \in {"off", "subscribed", "flushed", "live"} /\ channel \in Seq(Nat)
  /\ overflow \in BOOLEAN /\ shown \in Seq(Nat)

Consecutive(numbers) == \A i \in 1..(Len(numbers) - 1) : numbers[i + 1] = numbers[i] + 1

\* Whatever fails and is retried, no event is written twice or out of order; a shell
\* whose end is not reported as a failure of persistence has its whole history; no
\* generation speaks after the next has begun; and a page shows every event once and in
\* order, through the snapshot, the live events and new connections, while its channel has
\* not overflowed and nothing was dropped by the history.
ShellHistoryIsWhole ==
  /\ \A i, j \in DOMAIN history : i < j => history[i] < history[j]
  /\ outputClosed /\ ~finishing /\ ~writer.fatal =>
       Consecutive(history) /\ history # <<>> /\ Last(history) = LastSequence
  /\ \A i, j \in DOMAIN log : i < j =>
       log[i].gen < log[j].gen \/ (log[i].gen = log[j].gen /\ log[i].kind # "end")
  /\ (persistent \/ Len(log) <= MaxKept) /\ ~writer.fatal => Consecutive(shown)
=============================================================================
