------------------------------- MODULE Telegram -------------------------------
(***************************************************************************)
(* The end of a cycle in signal mode: the messages of the entries that     *)
(* were made and of the outcomes that were resolved, how each is tried,    *)
(* and what the rows say of it afterwards.  SignalDesk!Dispatch is the     *)
(* abstract form: an entry is sent or failed.                              *)
(*                                                                         *)
(* Telegram answers a call in one of four ways: it takes the message, it   *)
(* takes it but the answer is lost, it refuses it, or it refuses its       *)
(* markup.  An operator here is a function of those answers and of what    *)
(* the cycle has read.                                                     *)
(***************************************************************************)
EXTENDS Integers, Sequences, FiniteSets

-----------------------------------------------------------------------------
(* One message.  answers[k] is what Telegram makes of the k-th call.       *)

Answers == {"ok", "lost", "refused", "cannot_parse"}
Delivers(answer) == answer \in {"ok", "lost"}

\* A formatted call is repeated until one succeeds or the retries are used up.
LastFormatted(answers, retries) ==
    CHOOSE k \in 1..(retries + 1) :
        /\ answers[k] = "ok" \/ k = retries + 1
        /\ \A l \in 1..(k - 1) : answers[l] # "ok"

\* If the last of them could not be parsed the plain text is tried, once.
GoesPlain(answers, retries) == answers[LastFormatted(answers, retries)] = "cannot_parse"
Calls(answers, retries) ==
    LastFormatted(answers, retries) + IF GoesPlain(answers, retries) THEN 1 ELSE 0

Result(status, reason, parseMode) == [status |-> status, reason |-> reason, parseMode |-> parseMode]

SendMessage(answers, retries) ==
    LET last == answers[Calls(answers, retries)]
        mode == IF GoesPlain(answers, retries) THEN "none" ELSE "formatted"
    IN  IF last = "ok" THEN Result("sent", "none", mode) ELSE Result("failed", last, mode)

\* How often the chat shows the message in the end.
Copies(answers, retries) == Cardinality({k \in 1..Calls(answers, retries) : Delivers(answers[k])})

\* answersOf[m] are the answers to the m-th message.
sendSignalModeTelegramMessages(answersOf, credentials, retries) ==
    [m \in DOMAIN answersOf |->
        IF credentials THEN SendMessage(answersOf[m], retries)
        ELSE Result("failed", "missing_telegram_credentials", "formatted")]

-----------------------------------------------------------------------------
(* The entries of the cycle.  A candidate for dispatch has the id of its   *)
(* SignalEvent, its tier and its message, which may be missing.            *)

EntryDispatchPlan(entries) == SelectSeq(entries, LAMBDA e : e.message)
Guarded(entries) == SelectSeq(EntryDispatchPlan(entries), LAMBDA e : e.tier = "A+")

\* control is the RuntimeControlState row, a set of at most one.
TelegramPaused(control, enabled) ==
    \/ ~enabled
    \/ \E c \in control : c.telegramPaused \/ c.runtimeFrozen \/ c.emergencySafeMode

\* What is sent; a paused message gets a result too, a failure.
DispatchResults(entries, paused, sent) ==
    IF paused
    THEN [k \in DOMAIN Guarded(entries) |->
            Result("failed", "telegram_paused_by_runtime_control", "formatted")]
    ELSE sent

Failed(results) == {k \in DOMAIN results : results[k].status = "failed"}
Sent(results)   == DOMAIN results \ Failed(results)

\* The SignalEvent rows of the cycle: what was dispatched tells how it went,
\* what has no trade was not selected, what is left says nothing.
EventAfter(row, id, entries, results) ==
    LET mine == {k \in DOMAIN Guarded(entries) : Guarded(entries)[k].event = id}
    IN  IF mine # {}
        THEN LET r == results[CHOOSE k \in mine : \A l \in mine : l <= k]
             IN  [row EXCEPT !.status = r.status, !.reason = r.reason]
        ELSE IF row.status = "not_dispatched" /\ ~row.traded
        THEN [row EXCEPT !.reason = "not_selected_telegram_cap"] ELSE row

\* When no candidate has a message, nothing was attempted for any row.
EventWithoutPlan(row) ==
    IF row.status = "not_dispatched"
    THEN [row EXCEPT !.status = "not_attempted_no_message_payload",
                     !.reason = "not_attempted_no_message_payload"] ELSE row

EventsAfter(events, entries, results) ==
    [id \in DOMAIN events |->
        IF EntryDispatchPlan(entries) = <<>> THEN EventWithoutPlan(events[id])
        ELSE EventAfter(events[id], id, entries, results)]

\* The row of one dispatch.  Its key names the cycle, so that it is made
\* once: one attempt, however many calls there were.
TelegramDispatchTruth(result) ==
    [status |-> result.status, attemptCount |-> 1,
     retryCount |-> IF result.status = "failed" THEN 1 ELSE 0,
     lifecycle |-> IF result.status = "sent" THEN "telegram_entry_sent" ELSE "telegram_entry_failed"]

TelegramStatus(results) ==
    IF Failed(results) = {} THEN "healthy"
    ELSE IF Sent(results) # {} THEN "degraded" ELSE "failing"

ConsecutiveFailures(before, results) ==
    IF Failed(results) # {} /\ Sent(results) = {} THEN before + Cardinality(Failed(results)) ELSE 0

\* Incidents and dispatch_failure events, one for each failure.
Incidents(results) == Cardinality(Failed(results))

\* The board of a symbol keeps the first reason it was given.
BoardReason(before, result) ==
    IF result.status = "sent" \/ before # "none" THEN before ELSE result.reason

-----------------------------------------------------------------------------
(* The outcomes.  A result follows the newest entry ever sent of its       *)
(* symbol; the text of one that is not A+ does not pass.                   *)

\* history is the list of SignalEvent rows, newest first.
EntryReference(history, symbol) ==
    LET theirs == {k \in DOMAIN history : history[k].status = "sent" /\ history[k].symbol = symbol}
    IN  IF theirs = {} THEN 0 ELSE CHOOSE k \in theirs : \A l \in theirs : k <= l

AllowedResults(resolved, history) ==
    SelectSeq(resolved, LAMBDA o : EntryReference(history, o.symbol) # 0 /\ o.tier = "A+")
BlockedResults(resolved, history) ==
    SelectSeq(resolved, LAMBDA o : EntryReference(history, o.symbol) = 0)

\* Results go to the general chat, without a retry, whatever is paused.
ResultDispatches(resolved, history, credentials, answersOf) ==
    IF AllowedResults(resolved, history) = <<>> THEN <<>>
    ELSE sendSignalModeTelegramMessages(answersOf, credentials, 0)

=============================================================================
