------------------------------- MODULE MainLoop -------------------------------
(***************************************************************************)
(* The main loop of the V1 worker: it applies the operator's queued        *)
(* commands to the control row, runs the scanner, follows the tracked      *)
(* positions and looks at its own health, pass after pass, beside the      *)
(* operator's two routes, a failing database and its own restarts.         *)
(*                                                                         *)
(* What the scanner does is module SignalDesk; here it succeeds or throws. *)
(* A position's milestones are kept twice: as events in the database and   *)
(* as keys in the worker's memory, rebuilt from the events on boot.        *)
(*                                                                         *)
(* Prices are gains over the entry in the direction of the position, so a  *)
(* long and a short position are the same here.                            *)
(***************************************************************************)
EXTENDS Integers, FiniteSets

CONSTANTS
    Positions,      \* SignalTruthPosition rows
    Forex,          \* those whose marketType is forex
    Gains,          \* prices the crypto providers may report
    Stub,           \* what price 0 of the forex stub is, as a gain, per forex position
    Risk,           \* distance from entry to stop
    Tp,             \* the gain at each target the position has
    Commands,       \* commands the operator uses
    MaxCommands,    \* bound on the commands sent
    BatchSize,      \* commands read at once (take: 20)
    Patches,        \* flags the operator sets directly
    MaxFaults       \* bound on crashes and failed writes

Targets == {"tp1_hit", "tp2_hit", "tp3_hit"}
Milestones == {"entry_triggered"} \cup Targets \cup {"stop_hit", "expired"}

\* The order of milestoneChecks.
Rank == [entry_triggered |-> 1, tp1_hit |-> 2, tp2_hit |-> 3, tp3_hit |-> 4,
         stop_hit |-> 5, expired |-> 6]

ASSUME RowsAssumption == IsFiniteSet(Positions) /\ Forex \subseteq Positions
ASSUME PricesAssumption ==
    /\ Gains \subseteq Int /\ Stub \in [Forex -> Int] /\ Risk \in Nat \ {0}
    /\ DOMAIN Tp \subseteq Targets /\ \A t \in DOMAIN Tp : Tp[t] \in Nat \ {0}
    /\ \A t, u \in DOMAIN Tp : Rank[t] < Rank[u] => Tp[t] < Tp[u]
ASSUME BoundsAssumption ==
    MaxCommands \in Nat /\ BatchSize \in Nat \ {0} /\ MaxFaults \in Nat

Flags == {"scannerPaused", "trackerPaused", "telegramPaused", "lifecyclePaused",
          "runtimeFrozen", "maintenanceMode", "emergencySafeMode",
          "cryptoEnabled", "forexEnabled"}

Sets(flag, value) == [flag |-> flag, value |-> value]
Effect == [
    pause_scanner |-> Sets("scannerPaused", TRUE),
    resume_scanner |-> Sets("scannerPaused", FALSE),
    pause_tracker |-> Sets("trackerPaused", TRUE),
    resume_tracker |-> Sets("trackerPaused", FALSE),
    pause_dispatch |-> Sets("telegramPaused", TRUE),
    resume_dispatch |-> Sets("telegramPaused", FALSE),
    emergency_freeze |-> Sets("runtimeFrozen", TRUE),
    clear_emergency_freeze |-> Sets("runtimeFrozen", FALSE),
    maintenance_mode_on |-> Sets("maintenanceMode", TRUE),
    maintenance_mode_off |-> Sets("maintenanceMode", FALSE),
    crypto_enable |-> Sets("cryptoEnabled", TRUE),
    crypto_disable |-> Sets("cryptoEnabled", FALSE),
    forex_enable |-> Sets("forexEnabled", TRUE),
    forex_disable |-> Sets("forexEnabled", FALSE)]

Resumes == {"resume_scanner", "resume_tracker", "resume_dispatch"}
Unsupported == {"prop_enable", "prop_disable", "paper_mode_enable", "paper_mode_disable"}

ASSUME CommandsAssumption ==
    Commands \subseteq DOMAIN Effect \cup Unsupported /\ Patches \subseteq Flags

VARIABLES
    control,    \* the RuntimeControlState row
    queue,      \* OperatorTerminalCommand rows by the order they were created in
    pass,       \* the worker's pass under way
    sent,       \* lifecycleMilestonesSent: the milestones it remembers, per position
    events,     \* how many SignalTruthLifecycleEvent rows each milestone has
    rows,       \* status and resolution of each position
    aged,       \* positions past their expiresAt
    stale,      \* whether the tracker's heartbeat is older than its threshold
    alarmed,    \* whether an incident within the dedupe window tells of a stopped tracker
    patched,    \* history: flags set by the runtime-control route
    disturbed,  \* history: positions one of whose events and updates were parted
    faults

vars == <<control, queue, pass, sent, events, rows, aged, stale, alarmed,
          patched, disturbed, faults>>

operator == <<queue, patched>>
tracked  == <<sent, events, rows, disturbed>>
outside  == <<aged, stale, alarmed, faults>>

Steps == {"down", "idle", "apply", "mark", "check", "scan", "track", "next",
          "record", "update", "health"}
Statuses == {"waiting_for_entry", "active", "tp1_hit", "tp2_hit", "resolved"}
Resolutions == {"tp3_hit", "stop_hit", "expired"}

Defaults == [f \in Flags |-> f \in {"cryptoEnabled", "forexEnabled"}]
Waiting == [status |-> "waiting_for_entry", reason |-> "none"]
AtRest(pc) == [pc |-> pc, batch |-> {}, seenFrozen |-> FALSE, held |-> {},
               left |-> {}, hand |-> {}, hits |-> {}, mark |-> "none"]

-----------------------------------------------------------------------------
(* The milestones of a position.                                           *)

PricesOf(p) == IF p \in Forex THEN {Stub[p]} ELSE Gains

\* Faulty: the age is not looked at.
HitAgeless(m, gain, old) ==
    \/ m = "entry_triggered" /\ gain >= 0
    \/ m \in DOMAIN Tp /\ gain >= Tp[m]
    \/ m = "stop_hit" /\ gain <= -Risk

Hit(m, gain, old) ==
    \/ m = "entry_triggered" /\ gain >= 0
    \/ m \in DOMAIN Tp /\ gain >= Tp[m]
    \/ m = "stop_hit" /\ gain <= -Risk
    \/ m = "expired" /\ old

\* Faulty: the checks start with the age.
FirstByAge(ms) ==
    IF "expired" \in ms THEN "expired" ELSE CHOOSE m \in ms : \A n \in ms : Rank[m] <= Rank[n]

First(ms) == CHOOSE m \in ms : \A n \in ms : Rank[m] <= Rank[n]

\* Faulty: the first target closes the position.
StatusAfterTarget(m) == IF m = "entry_triggered" THEN "active" ELSE "resolved"

\* Faulty: a stopped position is closed under another name.
StatusAfterStopped(m) ==
    CASE m = "entry_triggered" -> "active" [] m = "tp1_hit" -> "tp1_hit"
      [] m = "tp2_hit" -> "tp2_hit" [] m = "stop_hit" -> "stopped" [] OTHER -> "resolved"

StatusAfter(m) ==
    CASE m = "entry_triggered" -> "active"
      [] m = "tp1_hit" -> "tp1_hit"
      [] m = "tp2_hit" -> "tp2_hit"
      [] OTHER -> "resolved"

Resolved(p) == rows[p].status = "resolved"

-----------------------------------------------------------------------------
(* The operator.                                                           *)

Init == /\ control = Defaults /\ queue = <<>>
        /\ pass = AtRest("down")
        /\ sent = [p \in Positions |-> {}]
        /\ events = [p \in Positions |-> [m \in Milestones |-> 0]]
        /\ rows = [p \in Positions |-> Waiting]
        /\ aged = {} /\ stale = FALSE /\ alarmed = FALSE
        /\ patched = {} /\ disturbed = {} /\ faults = 0

\* The operator-terminal route queues a command.
Enqueue ==
    /\ Cardinality(DOMAIN queue) < MaxCommands
    /\ \E c \in Commands :
         LET n == Cardinality(DOMAIN queue) + 1
         IN  queue' = [i \in 1..n |-> IF i = n THEN [command |-> c, status |-> "queued"]
                                      ELSE queue[i]]
    /\ UNCHANGED <<control, pass, tracked, outside, patched>>

\* The runtime-control route writes a flag at once, past the queue; a flag is
\* patched at most once here.
Patch ==
    \E f \in Patches \ patched : \E v \in BOOLEAN :
        /\ control' = [control EXCEPT ![f] = v]
        /\ patched' = patched \cup {f}
        /\ UNCHANGED <<queue, pass, tracked, outside>>

-----------------------------------------------------------------------------
(* The worker's pass.                                                      *)

Goto(pc) == pass' = [pass EXCEPT !.pc = pc]

\* Faulty: the memory starts empty.
Forgotten(p) == {}

Remembered(p) == {m \in Milestones : events[p][m] > 0}

\* Boot: the remembered milestones are rebuilt from the events.
Boot ==
    /\ pass.pc = "down"
    /\ sent' = [p \in Positions |-> Remembered(p)]
    /\ pass' = AtRest("idle")
    /\ UNCHANGED <<control, operator, events, rows, disturbed, outside>>

Queued == {i \in DOMAIN queue : queue[i].status = "queued"}

Oldest == {i \in Queued : Cardinality({j \in Queued : j <= i}) <= BatchSize}

\* The oldest queued commands and the control row are read.  A command that
\* arrives between the two reads waits for the next pass either way.
ReadCommands ==
    /\ pass.pc = "idle"
    /\ pass' = [pass EXCEPT !.pc = "apply", !.batch = Oldest,
                            !.seenFrozen = control.runtimeFrozen]
    /\ UNCHANGED <<control, operator, tracked, outside>>

\* Faulty: the newest command of the batch first.
NewestOf(batch) == CHOOSE i \in batch : \A j \in batch : j <= i

InTurn(batch) == CHOOSE i \in batch : \A j \in batch : i <= j

\* What a resume is refused on is the row as it was before the batch.
Refused(c) == c \in Unsupported \/ (c \in Resumes /\ pass.seenFrozen)

\* Faulty: a rejected command stays queued.
SettleExecuted(i, status) ==
    /\ queue' = [queue EXCEPT ![i].status = IF status = "executed" THEN status ELSE @]
    /\ pass' = [pass EXCEPT !.pc = "apply", !.batch = @ \ {i}]

Settle(i, status) ==
    /\ queue' = [queue EXCEPT ![i].status = status]
    /\ pass' = [pass EXCEPT !.pc = "apply", !.batch = @ \ {i}]

Reject ==
    /\ pass.pc = "apply" /\ pass.batch # {}
    /\ Refused(queue[InTurn(pass.batch)].command)
    /\ Settle(InTurn(pass.batch), "rejected")
    /\ UNCHANGED <<control, patched, tracked, outside>>

Apply ==
    /\ pass.pc = "apply" /\ pass.batch # {}
    /\ LET c == queue[InTurn(pass.batch)].command
       IN  /\ ~Refused(c)
           /\ control' = [control EXCEPT ![Effect[c].flag] = Effect[c].value]
    /\ Goto("mark")
    /\ UNCHANGED <<operator, tracked, outside>>

\* After the audit row and the acknowledgement.
MarkExecuted ==
    /\ pass.pc = "mark"
    /\ Settle(InTurn(pass.batch), "executed")
    /\ UNCHANGED <<control, patched, tracked, outside>>

CommandsDone ==
    /\ pass.pc = "apply" /\ pass.batch = {}
    /\ pass' = AtRest("check")
    /\ UNCHANGED <<control, operator, tracked, outside>>

Frozen == control.runtimeFrozen \/ control.emergencySafeMode

\* The loops this pass leaves out.
Held == {l \in {"scanner", "tracker"} :
           Frozen \/ control[IF l = "scanner" THEN "scannerPaused" ELSE "trackerPaused"]}

\* Faulty: the control row is read before the commands are applied.
CheckSeen ==
    /\ pass.pc = "check"
    /\ pass' = [pass EXCEPT !.pc = "scan", !.held = IF pass.seenFrozen THEN {"scanner", "tracker"} ELSE {}]
    /\ UNCHANGED <<control, operator, tracked, outside>>

CheckControl ==
    /\ pass.pc = "check"
    /\ pass' = [pass EXCEPT !.pc = "scan", !.held = Held]
    /\ UNCHANGED <<control, operator, tracked, outside>>

\* The scanner is held, not due yet, or runs to its end.
ScanPassed ==
    /\ pass.pc = "scan"
    /\ Goto("track")
    /\ UNCHANGED <<control, operator, tracked, outside>>

\* Faulty: a cycle that throws is not reported.
CatchQuietly == alarmed' = alarmed

\* The catch of the loop reports the pass.
Catch == alarmed' = TRUE

\* A cycle that throws takes the tracker and the health check of the pass with it.
ScanFails ==
    /\ pass.pc = "scan" /\ "scanner" \notin pass.held
    /\ pass' = AtRest("idle") /\ Catch
    /\ UNCHANGED <<control, operator, tracked, aged, stale, faults>>

TrackerSkipped ==
    /\ pass.pc = "track"
    /\ pass' = AtRest("health")
    /\ UNCHANGED <<control, operator, tracked, outside>>

Unresolved == {p \in Positions : ~Resolved(p)}

BeginTracking ==
    /\ pass.pc = "track" /\ "tracker" \notin pass.held
    /\ pass' = [AtRest("next") EXCEPT !.left = Unresolved]
    /\ UNCHANGED <<control, operator, tracked, outside>>

\* A price that cannot be fetched passes the position over.
PriceFails(p) ==
    /\ pass.pc = "next" /\ p \in pass.left /\ p \notin Forex
    /\ pass' = [pass EXCEPT !.left = @ \ {p}]
    /\ UNCHANGED <<control, operator, tracked, outside>>

Priced(p) ==
    /\ pass.pc = "next" /\ p \in pass.left
    /\ \E gain \in PricesOf(p) :
         pass' = [pass EXCEPT !.pc = "record", !.left = @ \ {p}, !.hand = {p},
                              !.hits = {m \in Milestones : Hit(m, gain, p \in aged)}]
    /\ UNCHANGED <<control, operator, tracked, outside>>

New(p) == pass.hits \ sent[p]

\* The key is remembered, then the event is written.
Record(p) ==
    /\ pass.pc = "record" /\ p \in pass.hand /\ New(p) # {}
    /\ LET m == First(New(p))
       IN  /\ sent' = [sent EXCEPT ![p] = @ \cup {m}]
           /\ events' = [events EXCEPT ![p][m] = @ + 1]
           /\ pass' = [pass EXCEPT !.pc = "update", !.mark = m]
    /\ UNCHANGED <<control, operator, rows, disturbed, outside>>

\* The row follows its event; only a resolving milestone names a reason.
Update(p) ==
    /\ pass.pc = "update" /\ p \in pass.hand
    /\ rows' = [rows EXCEPT ![p] =
                  [status |-> StatusAfter(pass.mark),
                   reason |-> IF pass.mark \in Resolutions THEN pass.mark ELSE @.reason]]
    /\ pass' = [pass EXCEPT !.pc = "record", !.mark = "none"]
    /\ UNCHANGED <<control, operator, sent, events, disturbed, outside>>

PositionDone(p) ==
    /\ pass.pc = "record" /\ p \in pass.hand /\ New(p) = {}
    /\ pass' = [pass EXCEPT !.pc = "next", !.hand = {}, !.hits = {}]
    /\ UNCHANGED <<control, operator, tracked, outside>>

\* The tracker's heartbeat is written when all its positions are done.
Heartbeat ==
    /\ pass.pc = "next" /\ pass.left = {}
    /\ Goto("health") /\ stale' = FALSE
    /\ UNCHANGED <<control, operator, tracked, aged, alarmed, faults>>

\* The end of a pass reports a stale tracker.
Health ==
    /\ pass.pc = "health"
    /\ pass' = AtRest("idle")
    /\ alarmed' = (alarmed \/ stale)
    /\ UNCHANGED <<control, operator, tracked, aged, stale, faults>>

-----------------------------------------------------------------------------
(* Faults and the passing of time.  A pass is short beside the thresholds: *)
(* time passes while the worker sleeps or is down.                         *)

\* Positions whose event and row this fault parts.
Parted == IF pass.pc = "update" THEN pass.hand ELSE {}

\* A write of the pass fails: the catch ends the pass and reports it if it can.
WriteFails ==
    /\ faults < MaxFaults /\ pass.pc \notin {"down", "idle"}
    /\ faults' = faults + 1
    /\ pass' = AtRest("idle")
    /\ \/ UNCHANGED alarmed
       \/ Catch
    /\ disturbed' = disturbed \cup Parted
    /\ UNCHANGED <<control, operator, sent, events, rows, aged, stale>>

\* The event of a milestone cannot be written: its key is remembered already.
RecordFails(p) ==
    /\ faults < MaxFaults
    /\ pass.pc = "record" /\ p \in pass.hand /\ New(p) # {}
    /\ faults' = faults + 1
    /\ sent' = [sent EXCEPT ![p] = @ \cup {First(New(p))}]
    /\ disturbed' = disturbed \cup {p}
    /\ pass' = AtRest("idle")
    /\ \/ UNCHANGED alarmed
       \/ Catch
    /\ UNCHANGED <<control, operator, events, rows, aged, stale>>

\* The process ends; its memory is gone.
Crash ==
    /\ faults < MaxFaults /\ pass.pc # "down"
    /\ faults' = faults + 1
    /\ pass' = AtRest("down")
    /\ sent' = [p \in Positions |-> {}]
    /\ disturbed' = disturbed \cup Parted
    /\ UNCHANGED <<control, operator, events, rows, aged, stale, alarmed>>

TimePasses == pass.pc \in {"idle", "down"}

GrowOld(p) ==
    /\ TimePasses /\ p \notin aged
    /\ aged' = aged \cup {p}
    /\ UNCHANGED <<control, operator, pass, tracked, stale, alarmed, faults>>

HeartbeatAges ==
    /\ TimePasses /\ ~stale
    /\ stale' = TRUE
    /\ UNCHANGED <<control, operator, pass, tracked, aged, alarmed, faults>>

\* The dedupe window of the incidents passes.
IncidentsAge ==
    /\ TimePasses /\ alarmed
    /\ alarmed' = FALSE
    /\ UNCHANGED <<control, operator, pass, tracked, aged, stale, faults>>

Commanding == ReadCommands \/ Reject \/ Apply \/ MarkExecuted \/ CommandsDone
Tracking == \E p \in Positions : PriceFails(p) \/ Priced(p) \/ Record(p) \/ Update(p) \/ PositionDone(p)
Looping == CheckControl \/ ScanPassed \/ ScanFails \/ TrackerSkipped \/ BeginTracking \/ Heartbeat \/ Health

Worker == Boot \/ Commanding \/ Looping \/ Tracking

Next == \/ Worker
        \/ Enqueue \/ Patch
        \/ WriteFails \/ Crash \/ \E p \in Positions : RecordFails(p) \/ GrowOld(p)
        \/ HeartbeatAges \/ IncidentsAge

Spec == Init /\ [][Next]_vars

\* The loop never stops by itself, the tracker comes due, and a price request
\* that is made for ever succeeds now and then.
Fairness == WF_vars(Worker) /\ SF_vars(BeginTracking) /\ \A p \in Positions : SF_vars(Priced(p))

FairSpec == Spec /\ Fairness

-----------------------------------------------------------------------------
(* Properties.                                                             *)

\* The rows, the memory and the pass keep their types.
TypeOK ==
    /\ control \in [Flags -> BOOLEAN]
    /\ \E n \in 0..MaxCommands :
         queue \in [1..n -> [command : Commands, status : {"queued", "executed", "rejected"}]]
    /\ pass \in [pc : Steps, batch : SUBSET DOMAIN queue, seenFrozen : BOOLEAN,
                 held : SUBSET {"scanner", "tracker"}, left : SUBSET Positions,
                 hand : SUBSET Positions, hits : SUBSET Milestones,
                 mark : Milestones \cup {"none"}]
    /\ sent \in [Positions -> SUBSET Milestones]
    /\ events \in [Positions -> [Milestones -> Nat]]
    /\ rows \in [Positions -> [status : Statuses, reason : Resolutions \cup {"none"}]]
    /\ aged \subseteq Positions /\ stale \in BOOLEAN
    /\ alarmed \in BOOLEAN
    /\ patched \subseteq Flags /\ disturbed \subseteq Positions
    /\ faults \in 0..MaxFaults

\* A milestone of a position is recorded at most once, though the key that
\* prevents a second record is kept in memory and the column is not unique:
\* neither a crash between the event and the row nor a failed write repeats it.
RecordedOnce == \A p \in Positions : \A m \in Milestones : events[p][m] <= 1

Follows(status) == CASE status = "active" -> "entry_triggered" [] OTHER -> status

\* A position's status never runs ahead of its events, and a resolved one
\* names a resolution that was recorded.
StatusExplained ==
    \A p \in Positions :
        /\ rows[p].status \in {"active", "tp1_hit", "tp2_hit"} =>
             events[p][Follows(rows[p].status)] > 0
        /\ Resolved(p) => rows[p].reason \in Resolutions /\ events[p][rows[p].reason] > 0

Progress == [waiting_for_entry |-> 0, active |-> 1, tp1_hit |-> 2, tp2_hit |-> 3, resolved |-> 4]

\* The status of a position only moves forward, over any number of passes and
\* restarts, unless a fault parted one of its events from its row; and no
\* fault brings a resolved position back.
NeverRegresses ==
    [][\A p \in Positions :
         \/ Progress[rows'[p].status] >= Progress[rows[p].status]
         \/ p \in disturbed /\ ~Resolved(p)]_vars

Says(i, f, v) == queue[i].command \in DOMAIN Effect /\ Effect[queue[i].command] = Sets(f, v)

\* Commands that may have had their effect: the executed ones; the oldest one
\* still queued, when a fault fell between its effect and its mark; and a resume
\* that was refused when it was repeated, because a freeze of its own batch had
\* come before it.
Acted == {i \in DOMAIN queue :
            \/ queue[i].status = "executed"
            \/ i \in Queued /\ \A j \in Queued : i <= j
            \/ queue[i].status = "rejected" /\ queue[i].command \in Resumes}

\* Commands executed about f.
Executed(f) == {i \in DOMAIN queue : queue[i].status = "executed" /\ \E v \in BOOLEAN : Says(i, f, v)}

\* But for direct patches, the control row is what the commands say in the
\* order the operator sent them: nothing overtakes an executed command but a
\* later one that may have acted.
ControlExplained ==
    \A f \in Flags \ patched :
        \/ control[f] = Defaults[f] /\ Executed(f) = {}
        \/ \E i \in Acted : Says(i, f, control[f]) /\ \A j \in Executed(f) : j <= i

\* A freeze or a tracker pause sent through the queue stands before the pass
\* that reads it records anything: no milestone is recorded while the tracker
\* is held, unless a direct patch held it in the middle of a pass.
FreezeHolds ==
    [][events' # events /\ "tracker" \in Held =>
         patched \cap {"runtimeFrozen", "emergencySafeMode", "trackerPaused"} # {}]_vars

\* Every queued command is executed or rejected in the end, whatever becomes
\* of the scanner and after any bounded number of faults.
CommandsSettle ==
    \A i \in 1..MaxCommands :
        i \in DOMAIN queue ~> i \in DOMAIN queue /\ queue[i].status # "queued"

\* Once the tracker is no longer held and passes reach it, a position past its
\* age is resolved, unless a fault parted one of its events from its row.
AgedResolve ==
    (<>[]("tracker" \notin Held) /\ []<>(pass.pc = "track")) =>
        \A p \in Positions : p \in aged ~> Resolved(p) \/ p \in disturbed

\* A tracker that stops beating is not passed over in silence, be it paused,
\* or kept from running by a scanner that throws in every pass.
StallsReported == stale ~> ~stale \/ alarmed
=============================================================================
