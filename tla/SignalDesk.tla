----------------------------- MODULE SignalDesk -----------------------------
(***************************************************************************)
(* The cycle of the V1 worker as one process beside the operator: which    *)
(* candidates become signals, which signals become paper trades, who       *)
(* follows them, and what the operator's mode switch, stop, kill switch    *)
(* and reset do to a cycle that is under way.                              *)
(*                                                                         *)
(* The control row is read once, when a cycle begins.  Every await of the  *)
(* cycle is a step of its own here, so the operator's requests and a crash *)
(* fall between any two writes.                                            *)
(*                                                                         *)
(* A signal is one A+ candidate with the SignalEvent, SignalOutcome and    *)
(* SignalTrade rows made from it.  How the price moves a trade is module   *)
(* PaperTrade; here a trade stays, reaches its first target or closes.     *)
(***************************************************************************)
EXTENDS Integers, FiniteSets

CONSTANTS
    Signals,        \* candidates over the life of the system
    Symbols,
    MaxConcurrent,  \* SIGNAL_PAPER_MAX_CONCURRENT_POSITIONS
    Gains,          \* prices the feed may report, as gain over the entry
    Risk,           \* distance from entry to stop, the unit of R
    Tp1, Tp2,       \* gain at the targets
    Protect,        \* gain at the stop armed by the first target
    PartialNum, PartialDen,     \* SIGNAL_PARTIAL_PCT, 0 when the partial is off
    MaxCrashes      \* bound on crashes

ASSUME SignalsAssumption == IsFiniteSet(Signals)
ASSUME BoundsAssumption == MaxConcurrent \in Nat \ {0} /\ MaxCrashes \in Nat
ASSUME PricesAssumption ==
    /\ Gains \subseteq Int
    /\ Risk \in Nat \ {0} /\ Tp1 \in Nat \ {0} /\ Tp2 \in Nat /\ Tp1 < Tp2
    /\ Protect \in Nat
    /\ PartialNum \in Nat /\ PartialDen \in Nat \ {0} /\ PartialNum <= PartialDen

VARIABLES
    symbolOf,   \* the symbol of each candidate; it never changes
    control,    \* the SystemControl row: live is isRunning and not killSwitchActive
    cycle,      \* the cycle under way
    events,     \* dispatch status of each SignalEvent row
    outcomes,   \* SignalOutcome rows
    trades,     \* status of each SignalTrade row
    old,        \* active outcomes older than SIGNAL_OUTCOME_MAX_AGE_SECONDS
    crashes

vars == <<symbolOf, control, cycle, events, outcomes, trades, old, crashes>>

Modes == {"signal", "paper"}    \* personal and prop differ in sizing only
Steps == {"idle", "select", "create", "open", "book", "execute",
          "readTrades", "manage", "readOutcomes", "track", "dispatch"}
EventStatuses == {"none", "created", "not_dispatched", "not_attempted",
                  "sent", "failed", "deleted"}
OutcomeStatuses == {"none", "OPEN", "TP1_HIT", "TP2_HIT", "STOP_HIT", "EXPIRED",
                    "PARTIAL_WIN", "BE_AFTER_TP1"}
TradeStatuses == {"none", "open", "tp1_hit", "closed"}

NoOutcome == [status |-> "none", banked |-> 0, r |-> 0]
Idle == [pc |-> "idle", mode |-> "signal", picked |-> {}, left |-> {}, held |-> {}, entries |-> {}]

ActiveTrade(s)   == trades[s] \in {"open", "tp1_hit"}
ActiveOutcome(s) == outcomes[s].status \in {"OPEN", "TP1_HIT"}
HasEvent(s)      == events[s] \notin {"none", "deleted"}

-----------------------------------------------------------------------------
(* The life of an outcome.                                                 *)

\* Where the stop of an outcome is.
EffectiveStop(o) == IF o.status = "TP1_HIT" THEN Protect ELSE -Risk

Rest == PartialDen - PartialNum

\* R is counted in units of 1 / (Risk * PartialDen).
StoppedOutcome(o) ==
    IF o.status = "TP1_HIT"
    THEN LET at == EffectiveStop(o)
         IN  [o EXCEPT !.status = IF at <= 0 THEN "BE_AFTER_TP1" ELSE "PARTIAL_WIN",
                       !.r = o.banked + Rest * at]
    ELSE [o EXCEPT !.status = "STOP_HIT", !.r = -(Risk * PartialDen)]

\* What the price alone makes of an outcome.
Priced(o, gain) ==
    IF gain <= EffectiveStop(o) THEN StoppedOutcome(o)
    ELSE IF gain >= Tp2 THEN [o EXCEPT !.status = "TP2_HIT", !.r = o.banked + Rest * Tp2]
    ELSE IF gain >= Tp1 /\ o.status = "OPEN"
         THEN [o EXCEPT !.status = "TP1_HIT", !.banked = PartialNum * Tp1]
    ELSE o

\* Faulty: what the first target banked is forgotten.
ExpiredWorthless(o) == [o EXCEPT !.status = "EXPIRED", !.r = 0]

\* Faulty: a status the readers of the table do not know.
ExpiredUnnamed(o) == [o EXCEPT !.status = "TIMEOUT", !.r = o.banked]

\* An outcome still unresolved past its age is resolved by it.
Expired(o) ==
    IF o.status = "TP1_HIT"
    THEN [o EXCEPT !.status = IF o.banked > 0 THEN "PARTIAL_WIN" ELSE "EXPIRED", !.r = o.banked]
    ELSE [o EXCEPT !.status = "EXPIRED", !.r = 0]

\* Faulty: the age is checked in another mode only.
TrackedAgeless(o, gain, isOld) == Priced(o, gain)

Tracked(o, gain, isOld) ==
    LET p == Priced(o, gain)
    IN  IF isOld /\ p.status \in {"OPEN", "TP1_HIT"} THEN Expired(p) ELSE p

-----------------------------------------------------------------------------
(* Selection.                                                              *)

\* Faulty: the lock looks at the outcomes only.
LockedByOutcomes(y) == \E s \in Signals : symbolOf[s] = y /\ ActiveOutcome(s)

\* A symbol with an active trade or outcome takes no new signal.
Locked(y) == \E s \in Signals : symbolOf[s] = y /\ (ActiveTrade(s) \/ ActiveOutcome(s))

\* The best candidate of every symbol that is free; which one is best is the
\* strategies' business.
Selections(candidates) ==
    {picked \in SUBSET {s \in candidates : ~Locked(symbolOf[s])} :
        \A s \in candidates : ~Locked(symbolOf[s]) =>
            \E t \in picked : \A u \in picked : symbolOf[u] = symbolOf[s] <=> u = t}

-----------------------------------------------------------------------------
Init == /\ symbolOf \in [Signals -> Symbols]
        /\ control = [live |-> FALSE, mode |-> "signal"]
        /\ cycle = Idle
        /\ events = [s \in Signals |-> "none"]
        /\ outcomes = [s \in Signals |-> NoOutcome]
        /\ trades = [s \in Signals |-> "none"]
        /\ old = {} /\ crashes = 0

Goto(pc, left) == cycle' = [cycle EXCEPT !.pc = pc, !.left = left]
After(step) == cycle.pc = step /\ cycle.left = {}

\* A stopped or killed system skips its cycles: it only writes log events.
BeginCycle ==
    /\ cycle.pc = "idle" /\ control.live
    /\ cycle' = [Idle EXCEPT !.pc = "select", !.mode = control.mode]
    /\ UNCHANGED <<symbolOf, control, events, outcomes, trades, old, crashes>>

\* What follows the signals: trades in paper mode, outcomes in signal mode.
Following == IF cycle.mode = "signal" THEN "readOutcomes" ELSE "readTrades"

Select ==
    /\ cycle.pc = "select"
    /\ \E candidates \in SUBSET {s \in Signals : events[s] = "none"} :
         \E picked \in Selections(candidates) :
            cycle' = [cycle EXCEPT !.pc = IF picked = {} THEN Following ELSE "create",
                                   !.picked = picked, !.left = picked]
    /\ UNCHANGED <<symbolOf, control, events, outcomes, trades, old, crashes>>

CreateEvent(s) ==
    /\ cycle.pc = "create" /\ s \in cycle.left
    /\ events' = [events EXCEPT ![s] = "created"]
    /\ Goto("create", cycle.left \ {s})
    /\ UNCHANGED <<symbolOf, control, outcomes, trades, old, crashes>>

LabelEvents ==
    /\ After("create")
    /\ events' = [s \in Signals |-> IF s \in cycle.picked /\ HasEvent(s)
                                    THEN "not_dispatched" ELSE events[s]]
    /\ Goto("open", {})
    /\ UNCHANGED <<symbolOf, control, outcomes, trades, old, crashes>>

CreateOutcomes ==
    /\ cycle.pc = "open"
    /\ outcomes' = [s \in Signals |-> IF s \in cycle.picked
                                      THEN [NoOutcome EXCEPT !.status = "OPEN"] ELSE outcomes[s]]
    /\ Goto(IF cycle.mode = "signal" THEN "readOutcomes" ELSE "book", {})
    /\ UNCHANGED <<symbolOf, control, events, trades, old, crashes>>

-----------------------------------------------------------------------------
(* Paper execution and management of trades.                               *)

\* The open trades are read once and kept in memory for the whole loop.
ReadBook ==
    /\ cycle.pc = "book"
    /\ cycle' = [cycle EXCEPT !.pc = "execute", !.left = cycle.picked,
                              !.held = {s \in Signals : ActiveTrade(s)}]
    /\ UNCHANGED <<symbolOf, control, events, outcomes, trades, old, crashes>>

\* Faulty: an accepted trade is not added to the book in memory.
BookedStale(s) == cycle.held

Booked(s) == cycle.held \cup {s}

Accept(s) ==
    /\ cycle.pc = "execute" /\ s \in cycle.left /\ HasEvent(s)
    /\ \A t \in cycle.held : symbolOf[t] # symbolOf[s]
    /\ Cardinality(cycle.held) < MaxConcurrent
    /\ trades' = [trades EXCEPT ![s] = "open"]
    /\ cycle' = [cycle EXCEPT !.left = @ \ {s}, !.held = Booked(s),
                              !.entries = @ \cup {s}]
    /\ UNCHANGED <<symbolOf, control, events, outcomes, old, crashes>>

\* The symbol, the cap, the margin or the risk budget refuses the trade.
Reject(s) ==
    /\ cycle.pc = "execute" /\ s \in cycle.left
    /\ Goto("execute", cycle.left \ {s})
    /\ UNCHANGED <<symbolOf, control, events, outcomes, trades, old, crashes>>

ReadTrades ==
    /\ After("execute") \/ cycle.pc = "readTrades"
    /\ Goto("manage", {s \in Signals : ActiveTrade(s)})
    /\ UNCHANGED <<symbolOf, control, events, outcomes, trades, old, crashes>>

Manage(s) ==
    /\ cycle.pc = "manage" /\ s \in cycle.left /\ ActiveTrade(s)
    /\ \E status \in {"tp1_hit", "closed"} :
          trades' = [trades EXCEPT ![s] = status]
    /\ Goto("manage", cycle.left \ {s})
    /\ UNCHANGED <<symbolOf, control, events, outcomes, old, crashes>>

\* The feed has no price for the symbol, or the price moves nothing.
Passed(s) ==
    /\ cycle.pc \in {"manage", "track"} /\ s \in cycle.left
    /\ Goto(cycle.pc, cycle.left \ {s})
    /\ UNCHANGED <<symbolOf, control, events, outcomes, trades, old, crashes>>

PaperCycleDone ==
    /\ After("manage")
    /\ cycle' = Idle
    /\ UNCHANGED <<symbolOf, control, events, outcomes, trades, old, crashes>>

-----------------------------------------------------------------------------
(* Signal mode: outcomes and dispatch.                                     *)

\* Faulty: expired outcomes are followed once more.
FollowedAgain(s) == outcomes[s].status \in {"OPEN", "TP1_HIT", "EXPIRED"}

Followed(s) == ActiveOutcome(s)

ReadOutcomes ==
    /\ cycle.pc = "readOutcomes"
    /\ Goto("track", {s \in Signals : Followed(s)})
    /\ UNCHANGED <<symbolOf, control, events, outcomes, trades, old, crashes>>

Track(s) ==
    /\ cycle.pc = "track" /\ s \in cycle.left /\ outcomes[s] # NoOutcome
    /\ \E gain \in Gains :
          outcomes' = [outcomes EXCEPT ![s] = Tracked(@, gain, s \in old)]
    /\ old' = old \ {s}
    /\ Goto("track", cycle.left \ {s})
    /\ UNCHANGED <<symbolOf, control, events, trades, crashes>>

\* Entries are sent for the accepted paper trades of the cycle, and without
\* any the events of the cycle are closed as not attempted.
Dispatch ==
    /\ After("track")
    /\ \E sent \in SUBSET cycle.entries :
          events' = [s \in Signals |->
              IF s \notin cycle.picked \/ events[s] # "not_dispatched" THEN events[s]
              ELSE IF cycle.entries = {} THEN "not_attempted"
              ELSE IF s \in sent THEN "sent"
              ELSE IF s \in cycle.entries THEN "failed" ELSE "not_dispatched"]
    /\ cycle' = Idle
    /\ UNCHANGED <<symbolOf, control, outcomes, trades, old, crashes>>

-----------------------------------------------------------------------------
(* Failures, the operator and time.                                        *)

\* A write to a row that a reset has deleted throws and ends the cycle.
CycleFails ==
    /\ \E s \in cycle.left :
          \/ cycle.pc = "execute" /\ ~HasEvent(s)
          \/ cycle.pc = "manage" /\ ~ActiveTrade(s)
          \/ cycle.pc = "track" /\ outcomes[s] = NoOutcome
    /\ cycle' = Idle
    /\ UNCHANGED <<symbolOf, control, events, outcomes, trades, old, crashes>>

Crash ==
    /\ cycle.pc # "idle" /\ crashes < MaxCrashes
    /\ crashes' = crashes + 1
    /\ cycle' = Idle
    /\ UNCHANGED <<symbolOf, control, events, outcomes, trades, old>>

SetControl(live, mode) ==
    /\ control' = [live |-> live, mode |-> mode]
    /\ UNCHANGED <<symbolOf, cycle, events, outcomes, trades, old, crashes>>

\* One transaction; a trade goes with its event.
Reset(clearRecentSignals) ==
    /\ outcomes' = [s \in Signals |-> NoOutcome] /\ old' = {}
    /\ trades' = [s \in Signals |-> IF ActiveTrade(s) \/ clearRecentSignals
                                    THEN "none" ELSE trades[s]]
    /\ events' = [s \in Signals |-> IF clearRecentSignals /\ HasEvent(s)
                                    THEN "deleted" ELSE events[s]]
    /\ UNCHANGED <<symbolOf, control, cycle, crashes>>

Age(s) ==
    /\ ActiveOutcome(s) /\ s \notin old
    /\ old' = old \cup {s}
    /\ UNCHANGED <<symbolOf, control, cycle, events, outcomes, trades, crashes>>

Worker ==
    \/ BeginCycle \/ Select \/ LabelEvents \/ CreateOutcomes
    \/ ReadBook \/ ReadTrades \/ PaperCycleDone
    \/ ReadOutcomes \/ Dispatch \/ CycleFails
    \/ \E s \in Signals : \/ CreateEvent(s) \/ Accept(s) \/ Reject(s)
                          \/ Manage(s) \/ Track(s) \/ Passed(s)

Operator ==
    \/ \E live \in BOOLEAN, mode \in Modes : SetControl(live, mode)
    \/ \E clear \in BOOLEAN : Reset(clear)

Next == Worker \/ Operator \/ Crash \/ \E s \in Signals : Age(s)

Spec == Init /\ [][Next]_vars

\* The main loop keeps running, time passes, and the feed is not for ever
\* silent just when an outcome has its turn.
Fairness == /\ WF_vars(Worker)
            /\ \A s \in Signals : WF_vars(Age(s)) /\ SF_vars(Track(s))

FairSpec == Spec /\ Fairness

-----------------------------------------------------------------------------
(* Properties.                                                             *)

\* The rows and the cycle keep their types.
TypeOK ==
    /\ symbolOf \in [Signals -> Symbols]
    /\ control \in [live : BOOLEAN, mode : Modes]
    /\ cycle \in [pc : Steps, mode : Modes, picked : SUBSET Signals, left : SUBSET Signals,
                  held : SUBSET Signals, entries : SUBSET Signals]
    /\ events \in [Signals -> EventStatuses]
    /\ outcomes \in [Signals -> [status : OutcomeStatuses, banked : Nat, r : Int]]
    /\ trades \in [Signals -> TradeStatuses]
    /\ old \subseteq Signals
    /\ crashes \in 0 .. MaxCrashes

\* A symbol is worked by one signal at a time: two signals of one symbol never
\* both have an active trade or outcome, through mode switches that leave
\* trades and outcomes to different cycles, resets and crashes.
OneSignalPerSymbol == \A s, t \in Signals :
    (/\ ActiveTrade(s) \/ ActiveOutcome(s)
     /\ ActiveTrade(t) \/ ActiveOutcome(t)
     /\ symbolOf[s] = symbolOf[t]) => s = t

\* The cap on concurrent positions holds for the rows in the database, though
\* it is checked on the list in memory.
ConcurrentCapKept == Cardinality({s \in Signals : ActiveTrade(s)}) <= MaxConcurrent

\* What an outcome banked at its first target is never lost again: whatever
\* resolves it, it resolves at no less.
BankedNeverLost == \A s \in Signals :
    ~ActiveOutcome(s) => outcomes[s].banked = 0 \/ outcomes[s].r >= outcomes[s].banked

\* A resolved outcome keeps its result until the operator's reset deletes it.
OutcomesFinal == [][\A s \in Signals :
    (outcomes[s] # NoOutcome /\ ~ActiveOutcome(s)) => outcomes'[s] \in {outcomes[s], NoOutcome}]_vars

\* While the system runs in signal mode every outcome resolves, so that no
\* symbol stays locked by one.
TrackedOutcomesResolve ==
    <>[](control = [live |-> TRUE, mode |-> "signal"]) =>
        \A s \in Signals : ActiveOutcome(s) ~> ~ActiveOutcome(s)

\* docs/config-contract.md: SIGNAL_OUTCOME_MAX_AGE_SECONDS is the timeout for
\* unresolved signal outcomes.  Outcomes are opened in every mode and followed
\* in signal mode only.
OutcomesTimeOut == \A mode \in Modes :
    <>[](control = [live |-> TRUE, mode |-> mode]) =>
        \A s \in Signals : ActiveOutcome(s) ~> ~ActiveOutcome(s)

\* docs/config-contract.md: ENABLE_SIGNAL_MODE_OUTPUT enables the Telegram
\* path.  The entries to send come from paper execution, which signal mode
\* never runs.
EntriesAttempted == \A s \in Signals : events[s] # "not_attempted"

=============================================================================
