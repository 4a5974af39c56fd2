------------------------ MODULE ApprovalExplanations ------------------------
(* The explanations an Agent without tools writes for pending approvals:     *)
(* bounded work beside the operators' decisions, which cancel it, and beside *)
(* their requests to explain once more, which replace it.                    *)
EXTENDS Naturals, FiniteSets

CONSTANTS
  Asked,        \* operations that need approval
  MaxReviews,   \* maxConcurrentApprovalExplanations
  MaxWaiting,   \* maxQueuedApprovalExplanations, the ones at work included
  MaxRetries,   \* bound: requests to explain once more
  MaxTroubles   \* bound: rows that cannot be written, and restarts

ASSUME ExplanationConstants ==
  MaxReviews \in Nat \ {0} /\ MaxWaiting \in Nat \ {0} /\ MaxRetries \in Nat /\ MaxTroubles \in Nat

VARIABLES
  asked,       \* the approval's row
  review,      \* ai_review_json of its run: shown beside the approval
  explainer,   \* who works on the explanation of an operation, the first or again: where it is
  registered,  \* explanationActive
  called,      \* explanation contexts that were cancelled
  decider,     \* where the handler that decided is
  retries, troubles,
  unanswered   \* history: operations whose explanation nobody owes any more

explanationVars ==
  <<asked, review, explainer, registered, called, decider, retries, troubles, unanswered>>

Kinds == {"first", "again"}
Workers == Asked \X Kinds
Of(a, kind) == explainer[<<a, kind>>]

\* Workers that hold one of the places, and one of the reviewers.
Placed    == {t \in Workers : t[2] = "first" /\ explainer[t] \in {"queued", "reviewing", "writing", "leaving"}}
Reviewing == {t \in Workers : explainer[t] = "reviewing"}

At(t, place) == explainer' = [explainer EXCEPT ![t] = place]

\* Whoever was registered before is cancelled.
registerApprovalExplanation(t) ==
  /\ registered' = [registered EXCEPT ![t[1]] = t[2]]
  /\ called' = IF registered[t[1]] = "none" THEN called ELSE called \cup {<<t[1], registered[t[1]]>>}

clearWhoever(t) == registered' = [registered EXCEPT ![t[1]] = "none"]  \* mutant: no look at whose entry it is
\* Only its own entry.
clearApprovalExplanation(t) ==
  registered' = IF registered[t[1]] = t[2] THEN [registered EXCEPT ![t[1]] = "none"] ELSE registered

\* A review is only written while the approval is undecided.
UpdatePendingApprovalExplanation(a) ==
  review' = IF asked[a] = "pending" THEN [review EXCEPT ![a] = "told"] ELSE review

Trouble == troubles < MaxTroubles /\ troubles' = troubles + 1

-----------------------------------------------------------------------------
(* The explanation that is begun with the approval. *)

\* The operator sees the approval before its explanation has begun.
Submit(a) ==
  /\ asked[a] = "none" /\ asked' = [asked EXCEPT ![a] = "pending"]
  /\ review' = [review EXCEPT ![a] = "pending"] /\ At(<<a, "first">>, "asked")
  /\ UNCHANGED <<registered, called, decider, retries, troubles, unanswered>>

startPendingApprovalExplanation(t) ==
  /\ explainer[t] = "asked"
  /\ IF Cardinality(Placed) < MaxWaiting
     THEN At(t, "queued") /\ registerApprovalExplanation(t)
     ELSE At(t, "skipped") /\ UNCHANGED <<registered, called>>
  /\ UNCHANGED <<asked, review, decider, retries, troubles, unanswered>>

\* A full queue is an answer, too.
SkipExplanation(t) ==
  /\ explainer[t] = "skipped" /\ At(t, "idle")
  /\ UpdatePendingApprovalExplanation(t[1])
  /\ UNCHANGED <<asked, registered, called, decider, retries, troubles, unanswered>>

TakeReviewer(t) ==
  /\ explainer[t] = "queued" /\ Cardinality(Reviewing) < MaxReviews /\ At(t, "reviewing")
  /\ UNCHANGED <<asked, review, registered, called, decider, retries, troubles, unanswered>>

\* The time is up in the queue: an answer for the first, an error for who asked again.
GiveUpQueue(t) ==
  /\ explainer[t] = "queued"
  /\ At(t, IF t[2] = "again" \/ t \in called THEN "leaving" ELSE "writing")
  /\ UNCHANGED <<asked, review, registered, called, decider, retries, troubles, unanswered>>

\* With an explanation, a degraded one, an error or at the end of its time; who was
\* cancelled meanwhile writes nothing.
Review(t) ==
  /\ explainer[t] = "reviewing" /\ At(t, IF t \in called THEN "leaving" ELSE "writing")
  /\ UNCHANGED <<asked, review, registered, called, decider, retries, troubles, unanswered>>

\* The first writes with a context of its own, the other with that of its request.
PersistReview(t) ==
  /\ explainer[t] = "writing" /\ At(t, "leaving")
  /\ IF t[2] = "again" /\ t \in called THEN UNCHANGED review ELSE UpdatePendingApprovalExplanation(t[1])
  /\ UNCHANGED <<asked, registered, called, decider, retries, troubles, unanswered>>

PersistFails(t) ==
  /\ explainer[t] \in {"writing", "skipped"} /\ Trouble
  /\ At(t, IF explainer[t] = "skipped" THEN "idle" ELSE "leaving")
  /\ unanswered' = unanswered \cup {t[1]}
  /\ UNCHANGED <<asked, review, registered, called, decider, retries>>

\* The deferred calls.
Leave(t) ==
  /\ explainer[t] = "leaving" /\ At(t, "idle")
  /\ clearApprovalExplanation(t) /\ called' = called \ {t}
  /\ UNCHANGED <<asked, review, decider, retries, troubles, unanswered>>

-----------------------------------------------------------------------------
(* Decisions. *)

DecideAsked(a) ==
  /\ asked[a] = "pending" /\ asked' = [asked EXCEPT ![a] = "decided"]
  /\ decider' = [decider EXCEPT ![a] = "cancel"]
  /\ UNCHANGED <<review, explainer, registered, called, retries, troubles, unanswered>>

\* Without anybody to cancel, what the review says stays: nobody will take it back.
cancelApprovalExplanation(a) ==
  /\ decider[a] = "cancel"
  /\ \/ registered[a] = "none" /\ decider' = [decider EXCEPT ![a] = "done"]
        /\ unanswered' = unanswered \cup {a} /\ UNCHANGED <<registered, called>>
     \/ registered[a] # "none" /\ decider' = [decider EXCEPT ![a] = "erase"]
        /\ called' = called \cup {<<a, registered[a]>>}
        /\ registered' = [registered EXCEPT ![a] = "none"] /\ UNCHANGED unanswered
  /\ UNCHANGED <<asked, review, explainer, retries, troubles>>

\* Whatever the review is by now.
UpdateRunAIReview(a) ==
  /\ decider[a] = "erase" /\ decider' = [decider EXCEPT ![a] = "done"]
  /\ review' = [review EXCEPT ![a] = ""]
  /\ UNCHANGED <<asked, explainer, registered, called, retries, troubles, unanswered>>

\* Its error is nobody's: the client may have left, too.
EraseFails(a) ==
  /\ decider[a] = "erase" /\ Trouble /\ decider' = [decider EXCEPT ![a] = "done"]
  /\ unanswered' = unanswered \cup {a}
  /\ UNCHANGED <<asked, review, explainer, registered, called, retries>>

-----------------------------------------------------------------------------
(* A request to explain once more: it runs in the handler. *)

AskAgain(a) ==
  /\ asked[a] = "pending" /\ Of(a, "again") = "idle"
  /\ retries < MaxRetries /\ retries' = retries + 1
  /\ At(<<a, "again">>, "read")
  /\ UNCHANGED <<asked, review, registered, called, decider, troubles, unanswered>>

RetryApprovalExplanation(a) ==
  /\ Of(a, "again") = "read" /\ At(<<a, "again">>, "check")
  /\ registerApprovalExplanation(<<a, "again">>)
  /\ UNCHANGED <<asked, review, decider, retries, troubles, unanswered>>

\* "Close the decision race between the initial read and task registration."
CheckAgain(a) ==
  /\ Of(a, "again") = "check"
  /\ At(<<a, "again">>, IF asked[a] = "pending" /\ <<a, "again">> \notin called THEN "erase" ELSE "leaving")
  /\ unanswered' = IF asked[a] = "pending" /\ <<a, "again">> \in called THEN unanswered \cup {a} ELSE unanswered
  /\ UNCHANGED <<asked, review, registered, called, decider, retries, troubles>>

EraseReview(a) ==
  /\ Of(a, "again") = "erase"
  /\ IF <<a, "again">> \in called
     THEN At(<<a, "again">>, "leaving") /\ UNCHANGED review /\ unanswered' = unanswered \cup {a}
     ELSE At(<<a, "again">>, "queued") /\ review' = [review EXCEPT ![a] = ""] /\ UNCHANGED unanswered
  /\ UNCHANGED <<asked, registered, called, decider, retries, troubles>>

\* The request ends with its client.
ClientLeaves(a) ==
  /\ Of(a, "again") \notin {"idle", "leaving"} /\ called' = called \cup {<<a, "again">>}
  /\ UNCHANGED <<asked, review, explainer, registered, decider, retries, troubles, unanswered>>

-----------------------------------------------------------------------------
\* Explanations are not begun again; the shutdown does not wait for them either.
RestartExplanations ==
  /\ Trouble
  /\ explainer' = [t \in Workers |-> "idle"] /\ called' = {}
  /\ registered' = [a \in Asked |-> "none"]
  /\ decider' = [a \in Asked |-> IF decider[a] \in {"cancel", "erase"} THEN "done" ELSE decider[a]]
  /\ unanswered' = unanswered \cup {a \in Asked : review[a] = "pending"}
  /\ UNCHANGED <<asked, review, retries>>

ExplanationInit ==
  /\ asked = [a \in Asked |-> "none"] /\ review = [a \in Asked |-> ""]
  /\ explainer = [t \in Workers |-> "idle"] /\ registered = [a \in Asked |-> "none"]
  /\ called = {} /\ decider = [a \in Asked |-> "none"]
  /\ retries = 0 /\ troubles = 0 /\ unanswered = {}

ExplanationNext ==
  \/ \E a \in Asked :
       \/ Submit(a) \/ DecideAsked(a) \/ cancelApprovalExplanation(a) \/ UpdateRunAIReview(a) \/ EraseFails(a)
       \/ AskAgain(a) \/ RetryApprovalExplanation(a) \/ CheckAgain(a) \/ EraseReview(a) \/ ClientLeaves(a)
  \/ \E t \in Workers :
       \/ startPendingApprovalExplanation(t) \/ SkipExplanation(t) \/ TakeReviewer(t) \/ GiveUpQueue(t)
       \/ Review(t) \/ PersistReview(t) \/ PersistFails(t) \/ Leave(t)
  \/ RestartExplanations

ExplanationSpec == ExplanationInit /\ [][ExplanationNext]_explanationVars

ExplanationTypes ==
  /\ asked \in [Asked -> {"none", "pending", "decided"}] /\ review \in [Asked -> {"", "pending", "told"}]
  /\ explainer \in [Workers -> {"idle", "asked", "skipped", "read", "check", "erase", "queued", "reviewing", "writing", "leaving"}]
  /\ registered \in [Asked -> Kinds \cup {"none"}] /\ called \subseteq Workers
  /\ decider \in [Asked -> {"none", "cancel", "erase", "done"}] /\ unanswered \subseteq Asked

\* A decision reaches whoever explains: who is registered and not cancelled is the one the
\* registry names, also when another replaced it or left.  "Working" is shown only while
\* somebody will answer or take it back, but for the cases in unanswered.
ReviewsAreAnswered ==
  /\ ExplanationTypes
  /\ Cardinality(Reviewing) <= MaxReviews
  /\ \A t \in Workers \ called :
       explainer[t] \in {"check", "erase", "queued", "reviewing", "writing"} => registered[t[1]] = t[2]
  /\ \A a \in Asked : review[a] = "pending" /\ a \notin unanswered =>
       \/ decider[a] \in {"cancel", "erase"}
       \/ asked[a] = "pending"
          /\ \E kind \in Kinds :
               Of(a, kind) \in {"asked", "skipped", "check", "erase", "queued", "reviewing", "writing"}
=============================================================================
