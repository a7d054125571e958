------------------------------ MODULE EventLog -------------------------------
(***************************************************************************)
(* The durable event bus of the V2 core: a list of events, each numbered   *)
(* with the length of the list it was appended to.  An event is its number *)
(* and the instant it was published at; instants stand for the events.     *)
(***************************************************************************)
EXTENDS Integers, Sequences

publish(log, instant) == Append(log, [sequence |-> Len(log) + 1, timestamp |-> instant])

\* cleanup forgets what is older than its time to live.
cleanup(log, cutoff) == SelectSeq(log, LAMBDA e : e.timestamp >= cutoff)

replay(log, afterSequence) == SelectSeq(log, LAMBDA e : e.sequence > afterSequence)

\* Instants first..last, an event each.
PublishAll(log, first, last) ==
    LET after[t \in (first - 1)..last] ==
            IF t = first - 1 THEN log ELSE publish(after[t - 1], t)
    IN  after[last]

Instants(log) == {log[i].timestamp : i \in DOMAIN log}
=============================================================================
