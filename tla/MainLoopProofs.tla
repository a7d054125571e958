--------------------------- MODULE MainLoopProofs ---------------------------
(***************************************************************************)
(* Theorems about MainLoop, for any positions, prices, targets, commands,  *)
(* batch size and number of faults.                                        *)
(*                                                                         *)
(* That a milestone is recorded once rests on the memory being ahead of    *)
(* the events whenever the worker is up.  That a status never runs back    *)
(* rests on the order of the checks: when a target is recorded, everything *)
(* below it has been, so what is still to come lies above.  That the       *)
(* control row follows the commands rests on their being settled oldest    *)
(* first, so that a fault repeats the oldest queued one and no other.      *)
(***************************************************************************)
EXTENDS MainLoop, FiniteSetTheorems, WellFoundedInduction, TLAPS

-----------------------------------------------------------------------------
(* Least elements.                                                         *)

\* A set of naturals that is not empty has a least element.
LEMMA LeastExists ==
  ASSUME NEW S \in SUBSET Nat, S # {}
  PROVE  \E i \in S : \A j \in S : i <= j
<1>1. PICK i \in S : \A j \in S : ~(<<j, i>> \in OpToRel(<, Nat))
  BY NatLessThanWellFounded, WFMin
<1>2. \A j \in S : j \in Nat /\ i \in Nat /\ ~(j < i)
  BY <1>1, Zenon DEF OpToRel
<1> QED BY <1>2

\* A batch that is not empty has a first command.
LEMMA TurnExists ==
  ASSUME NEW S \in SUBSET Nat, S # {}
  PROVE  InTurn(S) \in S /\ \A j \in S : InTurn(S) <= j
BY LeastExists DEF InTurn

\* The checks of a position have a first one.
LEMMA FirstExists ==
  ASSUME NEW S \in SUBSET Milestones, S # {}
  PROVE  First(S) \in S /\ \A n \in S : Rank[First(S)] <= Rank[n]
<1> DEFINE R == {Rank[m] : m \in S}
<1>1. \A m \in Milestones : Rank[m] \in Nat
  BY DEF Milestones, Targets, Rank
<1>2. R \in SUBSET Nat /\ R # {}
  BY <1>1
<1>3. PICK r \in R : \A q \in R : r <= q
  BY <1>2, LeastExists
<1>4. PICK m \in S : r = Rank[m]
  BY <1>3
<1>5. \A n \in S : Rank[m] <= Rank[n]
  BY <1>3, <1>4
<1> QED BY <1>5 DEF First

-----------------------------------------------------------------------------
(* Types.                                                                  *)

Entry == [command : Commands, status : {"queued", "executed", "rejected"}]

Pass == [pc : Steps, batch : SUBSET DOMAIN queue, seenFrozen : BOOLEAN,
         held : SUBSET {"scanner", "tracker"}, left : SUBSET Positions,
         hand : SUBSET Positions, hits : SUBSET Milestones, mark : Milestones \cup {"none"}]

\* What the steps rely on beyond the types.
Steady ==
    /\ pass.pc = "mark" => pass.batch # {}
    /\ pass.pc = "update" => pass.mark \in Milestones

QueueTyped == \E n \in 0..MaxCommands : queue \in [1..n -> Entry]

TypeInv == TypeOK /\ Steady

LEMMA CommandEffects ==
  /\ \A c \in DOMAIN Effect : Effect[c].flag \in Flags /\ Effect[c].value \in BOOLEAN
  /\ \A c \in Commands : c \notin Unsupported => c \in DOMAIN Effect
<1>1. DOMAIN Effect = {"pause_scanner", "resume_scanner", "pause_tracker", "resume_tracker",
        "pause_dispatch", "resume_dispatch", "emergency_freeze", "clear_emergency_freeze",
        "maintenance_mode_on", "maintenance_mode_off", "crypto_enable", "crypto_disable",
        "forex_enable", "forex_disable"}
  BY DEF Effect
<1>2. \A f \in Flags : \A v \in BOOLEAN : Sets(f, v).flag \in Flags /\ Sets(f, v).value \in BOOLEAN
  BY DEF Sets
<1>a. /\ Effect["pause_scanner"] = Sets("scannerPaused", TRUE)
     /\ Effect["resume_scanner"] = Sets("scannerPaused", FALSE)
     /\ Effect["pause_tracker"] = Sets("trackerPaused", TRUE)
     /\ Effect["resume_tracker"] = Sets("trackerPaused", FALSE)
     /\ Effect["pause_dispatch"] = Sets("telegramPaused", TRUE)
     /\ Effect["resume_dispatch"] = Sets("telegramPaused", FALSE)
     /\ Effect["emergency_freeze"] = Sets("runtimeFrozen", TRUE)
     /\ Effect["clear_emergency_freeze"] = Sets("runtimeFrozen", FALSE)
     /\ Effect["maintenance_mode_on"] = Sets("maintenanceMode", TRUE)
     /\ Effect["maintenance_mode_off"] = Sets("maintenanceMode", FALSE)
     /\ Effect["crypto_enable"] = Sets("cryptoEnabled", TRUE)
     /\ Effect["crypto_disable"] = Sets("cryptoEnabled", FALSE)
     /\ Effect["forex_enable"] = Sets("forexEnabled", TRUE)
     /\ Effect["forex_disable"] = Sets("forexEnabled", FALSE)
  BY DEF Effect
<1>b. {"scannerPaused", "trackerPaused", "telegramPaused", "runtimeFrozen", "maintenanceMode",
       "cryptoEnabled", "forexEnabled"} \subseteq Flags
  BY DEF Flags
<1>3. \A c \in DOMAIN Effect : \E f \in Flags : \E v \in BOOLEAN : Effect[c] = Sets(f, v)
  BY <1>1, <1>a, <1>b
<1>4. \A c \in DOMAIN Effect : Effect[c].flag \in Flags /\ Effect[c].value \in BOOLEAN
  BY <1>2, <1>3
<1> QED BY <1>4, CommandsAssumption

LEMMA AtRestTyped ==
  ASSUME NEW pc \in Steps
  PROVE  AtRest(pc) \in Pass
BY DEF AtRest, Pass

LEMMA StatusesTyped ==
  \A m \in Milestones : StatusAfter(m) \in Statuses
BY DEF StatusAfter, Statuses, Milestones, Targets

\* The indices of the queue are naturals.
LEMMA QueueIndices ==
  ASSUME QueueTyped
  PROVE  DOMAIN queue \in SUBSET Nat /\ \A i \in DOMAIN queue : queue[i] \in Entry
BY DEF QueueTyped

LEMMA InitTypes == Init => TypeInv
<1> SUFFICES ASSUME Init PROVE TypeInv
  OBVIOUS
<1>1. queue \in [1..0 -> Entry] /\ 0 \in 0..MaxCommands
  BY BoundsAssumption DEF Init
<1>2. AtRest("down") \in Pass
  BY AtRestTyped DEF Steps
<1>3. AtRest("down").pc = "down"
  BY DEF AtRest
<1>4. Defaults \in [Flags -> BOOLEAN] /\ Waiting \in [status : Statuses, reason : Resolutions \cup {"none"}]
  BY DEF Defaults, Waiting, Statuses
<1>5. Steady
  BY <1>3 DEF Init, Steady
<1>6. pass \in Pass
  BY <1>2 DEF Init
<1>7. \E n \in 0..MaxCommands : queue \in [1..n -> Entry]
  BY <1>1
<1>8. sent \in [Positions -> SUBSET Milestones] /\ events \in [Positions -> [Milestones -> Nat]]
  BY DEF Init
<1>9. rows \in [Positions -> [status : Statuses, reason : Resolutions \cup {"none"}]]
  BY <1>4 DEF Init
<1>10. control \in [Flags -> BOOLEAN]
  BY <1>4 DEF Init
<1>a. /\ aged \subseteq Positions /\ stale \in BOOLEAN /\ alarmed \in BOOLEAN
      /\ patched \subseteq Flags /\ disturbed \subseteq Positions
  BY DEF Init
<1>b. faults \in 0..MaxFaults
  BY BoundsAssumption DEF Init
<1>11. TypeOK
  BY <1>6, <1>7, <1>8, <1>9, <1>10, <1>a, <1>b, Zenon DEF TypeOK, Entry, Pass
<1> QED BY <1>5, <1>11 DEF TypeInv

LEMMA StepTypes == TypeInv /\ [Next]_vars => TypeInv'
<1> SUFFICES ASSUME TypeInv, [Next]_vars PROVE TypeInv'
  OBVIOUS
<1> USE DEF operator, tracked, outside
<1>0. QueueTyped /\ pass \in Pass
  BY DEF TypeInv, TypeOK, QueueTyped, Entry, Pass
<1>q. DOMAIN queue \in SUBSET Nat /\ \A i \in DOMAIN queue : queue[i] \in Entry
  BY <1>0, QueueIndices
<1>r. \A pc \in Steps : AtRest(pc) \in Pass
  BY AtRestTyped
<1>s. \A pc : AtRest(pc).pc = pc
  BY DEF AtRest
<1> DEFINE Rest == /\ TypeOK' <=> /\ control' \in [Flags -> BOOLEAN] /\ QueueTyped' /\ pass' \in Pass'
                                 /\ sent' \in [Positions -> SUBSET Milestones]
                                 /\ events' \in [Positions -> [Milestones -> Nat]]
                                 /\ rows' \in [Positions -> [status : Statuses, reason : Resolutions \cup {"none"}]]
                                 /\ aged' \subseteq Positions /\ stale' \in BOOLEAN /\ alarmed' \in BOOLEAN
                                 /\ patched' \subseteq Flags /\ disturbed' \subseteq Positions
                                 /\ faults' \in 0..MaxFaults
<1>t. Rest
  BY DEF TypeOK, QueueTyped, Entry, Pass
<1>u. UNCHANGED queue => QueueTyped' /\ Pass' = Pass
  BY <1>0 DEF QueueTyped, Pass
<1>f. \A c \in Nat : c < MaxFaults => c + 1 \in 0..MaxFaults
  BY BoundsAssumption
<1> HIDE DEF Rest
<1>1. CASE Enqueue
  <2>1. PICK n \in 0..MaxCommands : queue \in [1..n -> Entry]
    BY <1>0 DEF QueueTyped
  <2>2. Cardinality(DOMAIN queue) = n
    BY <2>1, FS_Interval, BoundsAssumption
  <2>3. n + 1 \in 0..MaxCommands
    BY <1>1, <2>2, BoundsAssumption DEF Enqueue
  <2>4. PICK c \in Commands :
          queue' = [i \in 1..n+1 |-> IF i = n + 1 THEN [command |-> c, status |-> "queued"] ELSE queue[i]]
    BY <1>1, <2>2 DEF Enqueue
  <2>5. queue' \in [1..n+1 -> Entry]
    BY <2>1, <2>4 DEF Entry
  <2>6. DOMAIN queue \subseteq DOMAIN queue'
    BY <2>1, <2>5
  <2>7. pass' \in Pass' /\ QueueTyped' /\ Steady'
    BY <1>1, <1>0, <2>3, <2>5, <2>6 DEF Enqueue, Pass, QueueTyped, TypeInv, Steady
  <2> QED BY <1>1, <1>t, <2>7 DEF Rest, Enqueue, TypeInv, TypeOK
<1>2. CASE Patch
  <2>1. PICK f \in Patches \ patched, v \in BOOLEAN :
          control' = [control EXCEPT ![f] = v] /\ patched' = patched \cup {f}
    BY <1>2 DEF Patch
  <2>2. control' \in [Flags -> BOOLEAN] /\ patched' \subseteq Flags
    BY <2>1, CommandsAssumption DEF TypeInv, TypeOK
  <2> QED BY <1>2, <2>2, <1>0, <1>t, <1>u DEF Patch, Rest, TypeInv, TypeOK, Steady
<1>3. CASE Boot
  <2>1. AtRest("idle") \in Pass /\ AtRest("idle").pc = "idle"
    BY <1>r, <1>s DEF Steps
  <2>2. \A p : Remembered(p) \in SUBSET Milestones
    BY DEF Remembered
  <2> QED BY <1>3, <2>1, <2>2, <1>0, <1>t, <1>u DEF Boot, Rest, TypeInv, TypeOK, Steady
<1>4. CASE ReadCommands
  <2>1. Oldest \in SUBSET DOMAIN queue
    BY DEF Oldest, Queued
  <2>2. pass' \in Pass
    BY <1>4, <1>0, <2>1 DEF ReadCommands, Pass, Steps, Flags, TypeInv, TypeOK
  <2> QED BY <1>4, <2>2, <1>0, <1>t, <1>u DEF ReadCommands, Rest, TypeInv, TypeOK, Steady, Pass
<1>5. ASSUME NEW i, NEW st \in {"executed", "rejected"}, i \in DOMAIN queue, Settle(i, st),
             UNCHANGED <<control, patched, tracked, outside>>
      PROVE  TypeInv'
  <2>1. PICK n \in 0..MaxCommands : queue \in [1..n -> Entry]
    BY <1>0 DEF QueueTyped
  <2>2. queue' \in [1..n -> Entry]
    BY <2>1, <1>5 DEF Settle, Entry
  <2>3. pass' \in Pass' /\ QueueTyped' /\ Steady'
    BY <1>5, <1>0, <2>1, <2>2 DEF Settle, Pass, QueueTyped, Steps, Steady
  <2> QED BY <1>5, <1>t, <2>3 DEF Rest, TypeInv, TypeOK
<1>6. pass.batch # {} => InTurn(pass.batch) \in DOMAIN queue
  BY <1>0, <1>q, TurnExists DEF Pass
<1>7. CASE Reject
  BY <1>7, <1>5, <1>6 DEF Reject
<1>8. CASE Apply
  <2>1. queue[InTurn(pass.batch)].command \in DOMAIN Effect
    BY <1>8, <1>6, <1>q, CommandEffects DEF Apply, Refused, Entry
  <2>2. control' \in [Flags -> BOOLEAN]
    BY <1>8, <2>1, CommandEffects DEF Apply, TypeInv, TypeOK
  <2>3. pass' \in Pass /\ Steady'
    BY <1>8, <1>0 DEF Apply, Goto, Pass, Steps, Steady
  <2> QED BY <1>8, <2>2, <2>3, <1>0, <1>t, <1>u DEF Apply, Rest, TypeInv, TypeOK
<1>9. CASE MarkExecuted
  BY <1>9, <1>5, <1>6 DEF MarkExecuted, TypeInv, Steady
<1>10. CASE CommandsDone
  <2>1. AtRest("check") \in Pass /\ AtRest("check").pc = "check"
    BY <1>r, <1>s DEF Steps
  <2> QED BY <1>10, <2>1, <1>0, <1>t, <1>u DEF CommandsDone, Rest, TypeInv, TypeOK, Steady
<1>11. CASE CheckControl \/ ScanPassed
  <2>1. pass' \in Pass /\ Steady'
    BY <1>11, <1>0 DEF CheckControl, ScanPassed, Goto, Pass, Steps, Held, Steady
  <2> QED BY <1>11, <2>1, <1>0, <1>t, <1>u DEF CheckControl, ScanPassed, Rest, TypeInv, TypeOK
<1>12. CASE ScanFails \/ TrackerSkipped \/ Health
  <2>1. \A pc \in {"idle", "health"} : AtRest(pc) \in Pass /\ AtRest(pc).pc = pc
    BY <1>r, <1>s DEF Steps
  <2> QED BY <1>12, <2>1, <1>0, <1>t, <1>u
    DEF ScanFails, TrackerSkipped, Health, Catch, Rest, TypeInv, TypeOK, Steady
<1>13. CASE BeginTracking
  <2>1. AtRest("next") \in Pass
    BY <1>r DEF Steps
  <2>2. pass' \in Pass /\ pass'.pc = "next"
    BY <1>13, <2>1, <1>s DEF BeginTracking, Pass, Unresolved
  <2> QED BY <1>13, <2>2, <1>0, <1>t, <1>u DEF BeginTracking, Rest, TypeInv, TypeOK, Steady
<1>14. CASE Heartbeat
  <2>1. pass' \in Pass /\ pass'.pc = "health"
    BY <1>14, <1>0 DEF Heartbeat, Goto, Pass, Steps
  <2> QED BY <1>14, <2>1, <1>0, <1>t, <1>u DEF Heartbeat, Rest, TypeInv, TypeOK, Steady
<1>15. ASSUME NEW p \in Positions, PriceFails(p) \/ Priced(p) \/ PositionDone(p)
       PROVE  TypeInv'
  <2>1. PriceFails(p) => pass' \in Pass /\ pass'.pc = "next"
    BY <1>0 DEF PriceFails, Pass
  <2>2. Priced(p) => pass' \in Pass /\ pass'.pc = "record"
    <3> SUFFICES ASSUME Priced(p) PROVE pass' \in Pass /\ pass'.pc = "record"
      OBVIOUS
    <3>1. PICK h \in SUBSET Milestones :
            pass' = [pass EXCEPT !.pc = "record", !.left = @ \ {p}, !.hand = {p}, !.hits = h]
      BY DEF Priced
    <3> QED BY <3>1, <1>0 DEF Pass, Steps
  <2>3. PositionDone(p) => pass' \in Pass /\ pass'.pc = "next"
    BY <1>0 DEF PositionDone, Pass, Steps
  <2> QED BY <1>15, <2>1, <2>2, <2>3, <1>0, <1>t, <1>u
    DEF PriceFails, Priced, PositionDone, Rest, TypeInv, TypeOK, Steady
<1>16. ASSUME NEW p \in Positions, Record(p) PROVE TypeInv'
  <2>1. First(New(p)) \in Milestones
    BY <1>16, <1>0, FirstExists DEF Record, New, Pass
  <2>2. pass' \in Pass /\ pass'.pc = "update" /\ pass'.mark \in Milestones
    BY <1>16, <1>0, <2>1 DEF Record, Pass, Steps
  <2>3. sent' \in [Positions -> SUBSET Milestones] /\ events' \in [Positions -> [Milestones -> Nat]]
    BY <1>16, <2>1 DEF Record, TypeInv, TypeOK
  <2> QED BY <1>16, <2>2, <2>3, <1>0, <1>t, <1>u DEF Record, Rest, TypeInv, TypeOK, Steady
<1>17. ASSUME NEW p \in Positions, Update(p) PROVE TypeInv'
  <2>1. pass.mark \in Milestones
    BY <1>17 DEF Update, TypeInv, Steady
  <2>2. rows' \in [Positions -> [status : Statuses, reason : Resolutions \cup {"none"}]]
    BY <1>17, <2>1, StatusesTyped DEF Update, TypeInv, TypeOK
  <2>3. pass' \in Pass /\ pass'.pc = "record"
    BY <1>17, <1>0 DEF Update, Pass, Steps
  <2> QED BY <1>17, <2>2, <2>3, <1>0, <1>t, <1>u DEF Update, Rest, TypeInv, TypeOK, Steady
<1>18. CASE WriteFails \/ Crash
  <2>1. \A pc \in {"idle", "down"} : AtRest(pc) \in Pass /\ AtRest(pc).pc = pc
    BY <1>r, <1>s DEF Steps
  <2>2. Parted \subseteq Positions
    BY <1>0 DEF Parted, Pass
  <2>3. faults' \in 0..MaxFaults
    BY <1>18, <1>f, BoundsAssumption DEF WriteFails, Crash, TypeInv, TypeOK
  <2> QED BY <1>18, <2>1, <2>2, <2>3, <1>0, <1>t, <1>u
    DEF WriteFails, Crash, Catch, Rest, TypeInv, TypeOK, Steady
<1>19. ASSUME NEW p \in Positions, RecordFails(p) PROVE TypeInv'
  <2>1. First(New(p)) \in Milestones
    BY <1>19, <1>0, FirstExists DEF RecordFails, New, Pass
  <2>2. AtRest("idle") \in Pass /\ AtRest("idle").pc = "idle"
    BY <1>r, <1>s DEF Steps
  <2>3. faults' \in 0..MaxFaults
    BY <1>19, <1>f, BoundsAssumption DEF RecordFails, TypeInv, TypeOK
  <2> QED BY <1>19, <2>1, <2>2, <2>3, <1>0, <1>t, <1>u
    DEF RecordFails, Catch, Rest, TypeInv, TypeOK, Steady
<1>20. CASE (\E p \in Positions : GrowOld(p)) \/ HeartbeatAges \/ IncidentsAge
  <2>1. UNCHANGED <<control, operator, pass, tracked, faults>>
    BY <1>20 DEF GrowOld, HeartbeatAges, IncidentsAge
  <2>2. aged' \subseteq Positions /\ stale' \in BOOLEAN /\ alarmed' \in BOOLEAN
    BY <1>20 DEF GrowOld, HeartbeatAges, IncidentsAge, TypeInv, TypeOK
  <2> QED BY <2>1, <2>2, <1>0, <1>t, <1>u DEF Rest, TypeInv, TypeOK, Steady
<1>21. CASE UNCHANGED vars
  BY <1>21, <1>0, <1>t, <1>u DEF vars, Rest, TypeInv, TypeOK, Steady
<1>22. Commanding => TypeInv'
  BY <1>4, <1>7, <1>8, <1>9, <1>10 DEF Commanding
<1>23. Looping => TypeInv'
  BY <1>11, <1>12, <1>13, <1>14 DEF Looping
<1>24. Tracking => TypeInv'
  BY <1>15, <1>16, <1>17 DEF Tracking
<1>25. Next => \/ Boot \/ Commanding \/ Looping \/ Tracking \/ Enqueue \/ Patch \/ WriteFails \/ Crash
               \/ (\E p \in Positions : RecordFails(p)) \/ (\E p \in Positions : GrowOld(p))
               \/ HeartbeatAges \/ IncidentsAge
  BY DEF Next, Worker
<1> QED BY <1>1, <1>2, <1>3, <1>18, <1>19, <1>20, <1>21, <1>22, <1>23, <1>24, <1>25

\* Every reachable state of the loop is well typed.
THEOREM TypeCorrect == Spec => []TypeOK
<1>1. Init => TypeInv
  BY InitTypes
<1>2. TypeInv /\ [Next]_vars => TypeInv'
  BY StepTypes
<1>3. TypeInv => TypeOK
  BY DEF TypeInv
<1> QED BY <1>1, <1>2, <1>3, PTL DEF Spec

-----------------------------------------------------------------------------
(* The milestones of the tracked positions.                                *)

Below(t) == {l \in {"entry_triggered"} \cup DOMAIN Tp : Rank[l] < Rank[t]}

\* While the worker is up it remembers what is recorded, and no more but for faults.
Remembers ==
    pass.pc # "down" =>
        \A p \in Positions : /\ Remembered(p) \subseteq sent[p]
                             /\ p \notin disturbed => sent[p] \subseteq Remembered(p)

\* What lies below a recorded target is recorded.
BelowRecorded ==
    \A p \in Positions \ disturbed : \A t \in Targets :
        events[p][t] > 0 => \A l \in Below(t) : events[p][l] > 0

\* The positions still to come are unresolved, and one at a time is in hand.
InHand ==
    /\ pass.pc \in {"next", "record", "update"} => \A p \in pass.left : ~Resolved(p)
    /\ pass.pc \in {"record", "update"} =>
         /\ \E p \in Positions : pass.hand = {p} /\ p \notin pass.left
         /\ \A t \in pass.hits \cap Targets : t \in DOMAIN Tp /\ Below(t) \subseteq pass.hits
    /\ pass.pc = "record" => \A p \in pass.hand : Resolved(p) => New(p) \subseteq Resolutions

\* Between an event and its row, the row is behind and the rest lies ahead.
BetweenWrites ==
    pass.pc = "update" =>
        \A p \in pass.hand :
            /\ events[p][pass.mark] > 0
            /\ Resolved(p) => pass.mark \in Resolutions
            /\ \A n \in New(p) : Rank[n] > Rank[pass.mark]
            /\ p \notin disturbed => Progress[StatusAfter(pass.mark)] >= Progress[rows[p].status]

TrackInv == /\ RecordedOnce /\ StatusExplained /\ Remembers /\ BelowRecorded
            /\ InHand /\ BetweenWrites

LEMMA MilestoneFacts ==
  /\ Milestones = {"entry_triggered", "tp1_hit", "tp2_hit", "tp3_hit", "stop_hit", "expired"}
  /\ \A m \in Milestones : Rank[m] \in 1..6
  /\ \A m, n \in Milestones : Rank[m] = Rank[n] => m = n
  /\ \A m \in Milestones : Rank[m] > 3 <=> m \in Resolutions
  /\ \A m \in Milestones : StatusAfter(m) = "resolved" <=> m \in Resolutions
<1>1. Milestones = {"entry_triggered", "tp1_hit", "tp2_hit", "tp3_hit", "stop_hit", "expired"}
  BY DEF Milestones, Targets
<1>2. /\ Rank["entry_triggered"] = 1 /\ Rank["tp1_hit"] = 2 /\ Rank["tp2_hit"] = 3
      /\ Rank["tp3_hit"] = 4 /\ Rank["stop_hit"] = 5 /\ Rank["expired"] = 6
  BY DEF Rank
<1>3. \A m \in Milestones : StatusAfter(m) = "resolved" <=> m \in Resolutions
  BY <1>1 DEF StatusAfter, Resolutions
<1> QED BY <1>1, <1>2, <1>3 DEF Resolutions

\* How far along each status is.
LEMMA ProgressFacts ==
  /\ Progress["waiting_for_entry"] = 0 /\ Progress["active"] = 1 /\ Progress["tp1_hit"] = 2
  /\ Progress["tp2_hit"] = 3 /\ Progress["resolved"] = 4
BY DEF Progress

\* A price that hits a target hits what lies below it.
LEMMA HitsAreClosed ==
  ASSUME NEW gain \in Int, NEW old,
         NEW t \in {m \in Milestones : Hit(m, gain, old)} \cap Targets
  PROVE  t \in DOMAIN Tp /\ Below(t) \subseteq {m \in Milestones : Hit(m, gain, old)}
<1>1. t \in DOMAIN Tp /\ gain >= Tp[t] /\ Tp[t] \in Nat \ {0}
  BY PricesAssumption DEF Hit, Targets
<1>2. \A l \in Below(t) : l = "entry_triggered" \/ (l \in DOMAIN Tp /\ Tp[l] \in Nat /\ Tp[l] < Tp[t])
  BY <1>1, PricesAssumption DEF Below
<1>3. \A l \in Below(t) : l \in Milestones
  BY PricesAssumption DEF Below, Milestones
<1>4. \A l \in Below(t) : Hit(l, gain, old)
  BY <1>1, <1>2 DEF Hit
<1> QED BY <1>1, <1>3, <1>4

\* What a step may do to the tracker's part of the state.
Elsewhere == /\ pass'.pc \notin {"down", "next", "record", "update"} /\ pass.pc # "down"
             /\ UNCHANGED <<sent, events, rows>> /\ disturbed \subseteq disturbed'

LEMMA StepKinds ==
  ASSUME TypeInv, [Next]_vars
  PROVE  \/ UNCHANGED <<pass, sent, events, rows, disturbed>>
         \/ Elsewhere
         \/ Boot \/ Crash \/ BeginTracking
         \/ \E p \in Positions : \/ PriceFails(p) \/ Priced(p) \/ Record(p) \/ Update(p)
                                 \/ PositionDone(p) \/ RecordFails(p)
<1> USE DEF operator, tracked, outside
<1>0. pass \in Pass
  BY DEF TypeInv, TypeOK, Pass
<1>s. \A pc : AtRest(pc).pc = pc
  BY DEF AtRest
<1>1. Enqueue \/ Patch \/ (\E p \in Positions : GrowOld(p)) \/ HeartbeatAges \/ IncidentsAge \/ UNCHANGED vars
        => UNCHANGED <<pass, sent, events, rows, disturbed>>
  BY DEF Enqueue, Patch, GrowOld, HeartbeatAges, IncidentsAge, vars
<1>2. Commanding => Elsewhere
  BY <1>0, <1>s
  DEF Commanding, ReadCommands, Reject, Apply, MarkExecuted, CommandsDone, Settle, Goto, Elsewhere, Pass
<1>3. Looping => Elsewhere \/ BeginTracking
  BY <1>0, <1>s
  DEF Looping, CheckControl, ScanPassed, ScanFails, TrackerSkipped, Heartbeat, Health, Goto, Elsewhere, Pass
<1>4. WriteFails => Elsewhere
  BY <1>s DEF WriteFails, Elsewhere
<1> QED BY <1>1, <1>2, <1>3, <1>4 DEF Next, Worker, Tracking

LEMMA InitTracks == Init => TrackInv
<1>1. Init => /\ pass.pc = "down" /\ \A p \in Positions : rows[p] = Waiting
              /\ \A p \in Positions : \A m \in Milestones : events[p][m] = 0
  BY DEF Init, AtRest
<1>2. Targets \subseteq Milestones
  BY DEF Milestones
<1> QED BY <1>1, <1>2
  DEF TrackInv, RecordedOnce, StatusExplained, Remembers, BelowRecorded, InHand, BetweenWrites,
      Waiting, Resolved

LEMMA StepTracks == TypeInv /\ TrackInv /\ [Next]_vars => TrackInv'
<1> SUFFICES ASSUME TypeInv, TrackInv, [Next]_vars PROVE TrackInv'
  OBVIOUS
<1> USE DEF operator, tracked, outside
<1>0. pass \in Pass
  BY DEF TypeInv, TypeOK, Pass
<1>t. /\ events \in [Positions -> [Milestones -> Nat]] /\ sent \in [Positions -> SUBSET Milestones]
      /\ rows \in [Positions -> [status : Statuses, reason : Resolutions \cup {"none"}]]
  BY DEF TypeInv, TypeOK
<1>m. Targets \subseteq Milestones /\ Resolutions \subseteq Milestones /\ "entry_triggered" \in Milestones
  BY DEF Milestones, Targets, Resolutions
<1>1. CASE UNCHANGED <<pass, sent, events, rows, disturbed>>
  BY <1>1 DEF TrackInv, RecordedOnce, StatusExplained, Remembers, BelowRecorded, InHand,
              BetweenWrites, Remembered, Resolved, New
<1>2. CASE Elsewhere
  BY <1>2 DEF Elsewhere, TrackInv, RecordedOnce, StatusExplained, Remembers, BelowRecorded, InHand,
              BetweenWrites, Remembered, Resolved
<1>3. CASE Boot
  <2>1. pass'.pc = "idle" /\ UNCHANGED <<events, rows, disturbed>>
    BY <1>3 DEF Boot, AtRest
  <2>2. \A p \in Positions : sent'[p] = Remembered(p) /\ Remembered(p)' = Remembered(p)
    BY <1>3 DEF Boot, Remembered
  <2> QED BY <2>1, <2>2
    DEF TrackInv, RecordedOnce, StatusExplained, Remembers, BelowRecorded, InHand, BetweenWrites, Resolved
<1>4. CASE Crash
  <2>1. pass'.pc = "down" /\ UNCHANGED <<events, rows>> /\ disturbed \subseteq disturbed'
    BY <1>4 DEF Crash, AtRest
  <2> QED BY <2>1
    DEF TrackInv, RecordedOnce, StatusExplained, Remembers, BelowRecorded, InHand, BetweenWrites, Resolved
<1>5. CASE BeginTracking
  <2>1. pass'.pc = "next" /\ pass'.left = Unresolved /\ pass.pc = "track"
        /\ UNCHANGED <<sent, events, rows, disturbed>>
    BY <1>5 DEF BeginTracking, AtRest
  <2> QED BY <2>1 DEF TrackInv, RecordedOnce, StatusExplained, Remembers, BelowRecorded, InHand,
                      BetweenWrites, Resolved, Remembered, Unresolved
<1>6. ASSUME NEW p \in Positions, PriceFails(p) PROVE TrackInv'
  <2>1. pass'.pc = "next" /\ pass.pc = "next" /\ pass'.left \subseteq pass.left
        /\ UNCHANGED <<sent, events, rows, disturbed>>
    BY <1>6, <1>0 DEF PriceFails, Pass
  <2> QED BY <2>1 DEF TrackInv, RecordedOnce, StatusExplained, Remembers, BelowRecorded, InHand,
                      BetweenWrites, Resolved, Remembered
<1>7. ASSUME NEW p \in Positions, Priced(p) PROVE TrackInv'
  <2>1. PICK gain \in PricesOf(p) :
          pass' = [pass EXCEPT !.pc = "record", !.left = @ \ {p}, !.hand = {p},
                               !.hits = {m \in Milestones : Hit(m, gain, p \in aged)}]
    BY <1>7 DEF Priced
  <2>2. gain \in Int
    BY <2>1, PricesAssumption DEF PricesOf
  <2>3. /\ pass'.pc = "record" /\ pass'.left = pass.left \ {p} /\ pass'.hand = {p}
        /\ pass'.hits = {m \in Milestones : Hit(m, gain, p \in aged)}
        /\ pass.pc = "next" /\ p \in pass.left /\ UNCHANGED <<sent, events, rows, disturbed>>
    BY <1>7, <2>1, <1>0 DEF Priced, Pass
  <2>4. \A t \in pass'.hits \cap Targets : t \in DOMAIN Tp /\ Below(t) \subseteq pass'.hits
    BY <2>2, <2>3, HitsAreClosed
  <2>5. ~Resolved(p) /\ \A q \in pass'.left : ~Resolved(q)
    BY <2>3 DEF TrackInv, InHand
  <2>6. InHand'
    BY <2>3, <2>4, <2>5 DEF InHand, Resolved
  <2> QED BY <2>3, <2>6 DEF TrackInv, RecordedOnce, StatusExplained, Remembers, BelowRecorded,
                            BetweenWrites, Resolved, Remembered
<1>8. ASSUME NEW p \in Positions, PositionDone(p) PROVE TrackInv'
  <2>1. /\ pass'.pc = "next" /\ pass.pc = "record" /\ pass'.left = pass.left
        /\ UNCHANGED <<sent, events, rows, disturbed>>
    BY <1>8, <1>0 DEF PositionDone, Pass
  <2> QED BY <2>1 DEF TrackInv, RecordedOnce, StatusExplained, Remembers, BelowRecorded, InHand,
                      BetweenWrites, Resolved, Remembered
<1>9. ASSUME NEW p \in Positions, Record(p) PROVE TrackInv'
  <2> DEFINE m == First(New(p))
  <2>1. /\ pass.pc = "record" /\ p \in pass.hand /\ New(p) # {} /\ New(p) \in SUBSET Milestones
        /\ sent' = [sent EXCEPT ![p] = @ \cup {m}] /\ events' = [events EXCEPT ![p][m] = @ + 1]
        /\ UNCHANGED <<rows, disturbed>>
    BY <1>9, <1>0 DEF Record, New, Pass
  <2>2. m \in New(p) /\ m \in Milestones /\ \A n \in New(p) : Rank[m] <= Rank[n]
    BY <2>1, FirstExists
  <2>3. /\ pass'.pc = "update" /\ pass'.mark = m /\ pass'.hits = pass.hits
        /\ pass'.left = pass.left /\ pass'.hand = pass.hand /\ pass.hand = {p} /\ p \notin pass.left
    BY <1>9, <1>0, <2>1 DEF Record, Pass, TrackInv, InHand
  <2> HIDE DEF m
  <2>4. m \notin sent[p] /\ m \in pass.hits /\ events[p][m] = 0
    <3>1. m \notin sent[p] /\ m \in pass.hits
      BY <2>2 DEF New
    <3>2. m \notin Remembered(p)
      BY <3>1, <2>1 DEF TrackInv, Remembers
    <3> QED BY <3>1, <3>2, <2>2, <1>t DEF Remembered
  <2>5. /\ \A q \in Positions : \A n \in Milestones :
             events'[q][n] = IF q = p /\ n = m THEN 1 ELSE events[q][n]
        /\ \A q \in Positions : sent'[q] = IF q = p THEN sent[q] \cup {m} ELSE sent[q]
    <3>1. \A q \in Positions : sent'[q] = IF q = p THEN sent[q] \cup {m} ELSE sent[q]
      BY <2>1, <1>t
    <3>2. \A q \in Positions : events'[q] = IF q = p THEN [events[p] EXCEPT ![m] = @ + 1] ELSE events[q]
      BY <2>1, <1>t
    <3>3. events[p] \in [Milestones -> Nat]
      BY <1>t
    <3>4. \A n \in Milestones : events'[p][n] = IF n = m THEN 1 ELSE events[p][n]
      BY <3>2, <3>3, <2>2, <2>4
    <3> QED BY <3>1, <3>2, <3>4
  <2>6. \A q \in Positions : Remembered(q)' = IF q = p THEN Remembered(q) \cup {m} ELSE Remembered(q)
    BY <2>5, <2>2, <1>t DEF Remembered
  <2>7. RecordedOnce' /\ StatusExplained'
    <3>1. RecordedOnce'
      BY <2>5 DEF TrackInv, RecordedOnce
    <3>2. \A q \in Positions : \A n \in Milestones : events[q][n] > 0 => events'[q][n] > 0
      BY <2>5
    <3>3. \A st \in {"active", "tp1_hit", "tp2_hit"} : Follows(st) \in Milestones
      BY DEF Follows, Milestones, Targets
    <3> QED BY <3>1, <3>2, <3>3, <2>1, <1>m DEF TrackInv, StatusExplained, Resolved
  <2>8. Remembers'
    BY <2>1, <2>3, <2>5, <2>6 DEF TrackInv, Remembers
  <2>9. p \notin disturbed => \A l \in Below(m) \cap pass.hits : events[p][l] > 0
    <3> SUFFICES ASSUME p \notin disturbed, NEW l \in Below(m) \cap pass.hits PROVE events[p][l] > 0
      OBVIOUS
    <3>1. l \in Milestones /\ Rank[l] < Rank[m]
      BY <1>0 DEF Below, Pass
    <3>2. l \notin New(p)
      BY <3>1, <2>2, MilestoneFacts
    <3>3. l \in Remembered(p)
      BY <3>2, <2>1 DEF New, TrackInv, Remembers
    <3> QED BY <3>3 DEF Remembered
  <2>10. BelowRecorded'
    <3> SUFFICES ASSUME NEW q \in Positions \ disturbed, NEW t \in Targets, events'[q][t] > 0,
                        NEW l \in Below(t)
                 PROVE  events'[q][l] > 0
      BY <2>1 DEF BelowRecorded
    <3>1. l \in Milestones
      BY PricesAssumption DEF Below, Milestones
    <3>2. CASE q = p /\ t = m
      <4>1. l \in pass.hits
        BY <3>2, <2>1, <2>4 DEF TrackInv, InHand
      <4> QED BY <4>1, <3>1, <3>2, <2>5, <2>9
    <3>3. CASE ~(q = p /\ t = m)
      <4>1. events[q][t] > 0
        BY <3>3, <2>5, <1>m
      <4> QED BY <4>1, <3>1, <2>5 DEF TrackInv, BelowRecorded
    <3> QED BY <3>2, <3>3
  <2>11. InHand'
    BY <2>1, <2>3 DEF TrackInv, InHand, Resolved
  <2>12. Resolved(p) => m \in Resolutions
    BY <2>1, <2>2 DEF TrackInv, InHand
  <2>13. \A n \in New(p)' : Rank[n] > Rank[m]
    <3>1. New(p)' = New(p) \ {m}
      BY <2>3, <2>5 DEF New
    <3> QED BY <3>1, <2>1, <2>2, MilestoneFacts
  <2>14. p \notin disturbed => Progress[StatusAfter(m)] >= Progress[rows[p].status]
    <3> SUFFICES ASSUME p \notin disturbed PROVE Progress[StatusAfter(m)] >= Progress[rows[p].status]
      OBVIOUS
    <3>1. rows[p].status \in Statuses
      BY <1>t
    <3>2. rows[p].status \in {"active", "tp1_hit", "tp2_hit"} => events[p][Follows(rows[p].status)] > 0
      BY DEF TrackInv, StatusExplained
    <3>3. \A t \in {"tp1_hit", "tp2_hit"} : rows[p].status = t => \A l \in Below(t) : events[p][l] > 0
      BY <3>2 DEF TrackInv, BelowRecorded, Follows, Targets
    <3>4. m \in Targets => m \in DOMAIN Tp
      BY <2>1, <2>4 DEF TrackInv, InHand
    <3>5. rows[p].status = "tp1_hit" => m # "entry_triggered" /\ m # "tp1_hit"
      BY <3>2, <3>3, <2>4 DEF Below, Rank, Follows
    <3>6. rows[p].status = "tp2_hit" => m \notin {"entry_triggered", "tp1_hit", "tp2_hit"}
      BY <3>2, <3>3, <3>4, <2>4 DEF Below, Rank, Follows, Targets
    <3>7. m \in {"entry_triggered", "tp1_hit", "tp2_hit", "tp3_hit", "stop_hit", "expired"}
      BY <2>2, MilestoneFacts
    <3>8. rows[p].status = "resolved" => m \in Resolutions
      BY <2>12 DEF Resolved
    <3>9. /\ StatusAfter("entry_triggered") = "active" /\ StatusAfter("tp1_hit") = "tp1_hit"
          /\ StatusAfter("tp2_hit") = "tp2_hit" /\ StatusAfter("tp3_hit") = "resolved"
          /\ StatusAfter("stop_hit") = "resolved" /\ StatusAfter("expired") = "resolved"
      BY DEF StatusAfter
    <3> QED BY <3>1, <3>5, <3>6, <3>7, <3>8, <3>9, ProgressFacts DEF Statuses, Resolutions
  <2>15. BetweenWrites'
    BY <2>1, <2>2, <2>3, <2>5, <2>12, <2>13, <2>14 DEF BetweenWrites, Resolved
  <2> QED BY <2>7, <2>8, <2>10, <2>11, <2>15 DEF TrackInv
<1>10. ASSUME NEW p \in Positions, Update(p) PROVE TrackInv'
  <2> DEFINE m == pass.mark
  <2>1. /\ pass.pc = "update" /\ p \in pass.hand /\ m \in Milestones
        /\ UNCHANGED <<sent, events, disturbed>>
        /\ rows' = [rows EXCEPT ![p] = [status |-> StatusAfter(m),
                       reason |-> IF m \in Resolutions THEN m ELSE @.reason]]
    BY <1>10 DEF Update, TypeInv, Steady
  <2>2. /\ pass'.pc = "record" /\ pass'.hits = pass.hits /\ pass'.left = pass.left
        /\ pass'.hand = pass.hand /\ pass.hand = {p} /\ p \notin pass.left
    BY <1>10, <1>0, <2>1 DEF Update, Pass, TrackInv, InHand
  <2>3. events[p][m] > 0 /\ \A n \in New(p) : Rank[n] > Rank[m]
    BY <2>1 DEF TrackInv, BetweenWrites
  <2> HIDE DEF m
  <2>4. /\ rows'[p].status = StatusAfter(m) /\ (m \in Resolutions => rows'[p].reason = m)
        /\ \A q \in Positions : q # p => rows'[q] = rows[q]
    BY <2>1, <1>t
  <2>5. StatusExplained'
    <3>1. m \in Milestones => (StatusAfter(m) \in {"active", "tp1_hit", "tp2_hit"} => Follows(StatusAfter(m)) = m)
      BY MilestoneFacts DEF StatusAfter, Follows
    <3>2. StatusAfter(m) = "resolved" => m \in Resolutions
      BY <2>1, MilestoneFacts
    <3>3. /\ rows'[p].status \in {"active", "tp1_hit", "tp2_hit"} => events[p][Follows(rows'[p].status)] > 0
          /\ rows'[p].status = "resolved" => rows'[p].reason \in Resolutions /\ events[p][rows'[p].reason] > 0
      BY <2>1, <2>3, <2>4, <3>1, <3>2
    <3> QED BY <2>1, <2>4, <3>3 DEF TrackInv, StatusExplained, Resolved
  <2>6. Resolved(p)' => New(p)' \subseteq Resolutions
    <3> SUFFICES ASSUME Resolved(p)', NEW n \in New(p)' PROVE n \in Resolutions
      OBVIOUS
    <3>1. n \in New(p) /\ n \in Milestones
      BY <2>1, <2>2, <1>0 DEF New, Pass
    <3>2. m \in Resolutions
      BY <2>1, <2>4, MilestoneFacts DEF Resolved
    <3> QED BY <3>1, <3>2, <2>1, <2>3, MilestoneFacts
  <2>7. \A q \in pass.left : ~Resolved(q)'
    BY <2>1, <2>2, <2>4, <1>0 DEF TrackInv, InHand, Resolved, Pass
  <2>8. InHand'
    BY <2>1, <2>2, <2>6, <2>7 DEF TrackInv, InHand
  <2> QED BY <2>1, <2>2, <2>5, <2>8
    DEF TrackInv, RecordedOnce, Remembers, BelowRecorded, BetweenWrites, Remembered
<1>11. ASSUME NEW p \in Positions, RecordFails(p) PROVE TrackInv'
  <2>1. /\ pass'.pc = "idle" /\ pass.pc # "down" /\ UNCHANGED <<events, rows>>
        /\ disturbed' = disturbed \cup {p}
        /\ \A q \in Positions : sent[q] \subseteq sent'[q] /\ (q # p => sent'[q] = sent[q])
    BY <1>11, <1>t DEF RecordFails, AtRest
  <2> QED BY <2>1
    DEF TrackInv, RecordedOnce, StatusExplained, Remembers, BelowRecorded, InHand, BetweenWrites,
        Remembered, Resolved
<1> QED BY <1>1, <1>2, <1>3, <1>4, <1>5, <1>6, <1>7, <1>8, <1>9, <1>10, <1>11, StepKinds

\* No milestone of a position is recorded twice, whatever crashes or fails.
THEOREM MilestonesOnce == Spec => []RecordedOnce
<1>1. Init => TypeInv /\ TrackInv
  BY InitTypes, InitTracks
<1>2. TypeInv /\ TrackInv /\ [Next]_vars => (TypeInv /\ TrackInv)'
  BY StepTypes, StepTracks
<1>3. TrackInv => RecordedOnce
  BY DEF TrackInv
<1> QED BY <1>1, <1>2, <1>3, PTL DEF Spec

\* A status never runs ahead of its events, and a resolution was recorded.
THEOREM StatusHasEvent == Spec => []StatusExplained
<1>1. Init => TypeInv /\ TrackInv
  BY InitTypes, InitTracks
<1>2. TypeInv /\ TrackInv /\ [Next]_vars => (TypeInv /\ TrackInv)'
  BY StepTypes, StepTracks
<1>3. TrackInv => StatusExplained
  BY DEF TrackInv
<1> QED BY <1>1, <1>2, <1>3, PTL DEF Spec

\* A status only moves forward unless a fault parted an event from its row, and
\* a resolved position stays so.
THEOREM StatusMovesForward == Spec => NeverRegresses
<1> DEFINE Forward == \A p \in Positions : \/ Progress[rows'[p].status] >= Progress[rows[p].status]
                                           \/ p \in disturbed /\ ~Resolved(p)
<1>1. Init => TypeInv /\ TrackInv
  BY InitTypes, InitTracks
<1>2. TypeInv /\ TrackInv /\ [Next]_vars => (TypeInv /\ TrackInv)'
  BY StepTypes, StepTracks
<1>3. ASSUME TypeInv, TrackInv, [Next]_vars PROVE [Forward]_vars
  <2>0. /\ rows \in [Positions -> [status : Statuses, reason : Resolutions \cup {"none"}]]
        /\ \A st \in Statuses : Progress[st] \in Int
    <3>1. rows \in [Positions -> [status : Statuses, reason : Resolutions \cup {"none"}]]
      BY <1>3 DEF TypeInv, TypeOK
    <3> QED BY <3>1, ProgressFacts DEF Statuses
  <2>1. CASE \E p \in Positions : Update(p)
    <3>1. PICK p \in Positions : Update(p)
      BY <2>1
    <3>2. /\ pass.pc = "update" /\ p \in pass.hand /\ pass.mark \in Milestones
          /\ rows'[p].status = StatusAfter(pass.mark)
          /\ \A q \in Positions : q # p => rows'[q] = rows[q]
      BY <1>3, <3>1, <2>0 DEF Update, TypeInv, Steady
    <3>3. p \notin disturbed => Progress[rows'[p].status] >= Progress[rows[p].status]
      BY <1>3, <3>2 DEF TrackInv, BetweenWrites
    <3>4. Resolved(p) => rows'[p].status = rows[p].status
      BY <1>3, <3>2, MilestoneFacts DEF TrackInv, BetweenWrites, Resolved
    <3> QED BY <3>2, <3>3, <3>4, <2>0
  <2>2. CASE rows' = rows
    BY <2>0, <2>2
  <2>3. rows' = rows \/ \E p \in Positions : Update(p)
    BY <1>3, StepKinds
    DEF Elsewhere, Boot, Crash, BeginTracking, PriceFails, Priced, Record, PositionDone, RecordFails, tracked
  <2> QED BY <2>1, <2>2, <2>3
<1>4. [][Forward]_vars => NeverRegresses
  BY PTL DEF NeverRegresses
<1> QED BY <1>1, <1>2, <1>3, <1>4, PTL DEF Spec

-----------------------------------------------------------------------------
(* A freeze is never worked past.                                          *)

Holds == {"runtimeFrozen", "emergencySafeMode", "trackerPaused"}

\* What the pass found of the tracker still stands while it tracks.
FoundStands ==
    patched \cap Holds = {} =>
        /\ pass.pc \in {"scan", "track"} /\ "tracker" \notin pass.held => "tracker" \notin Held
        /\ pass.pc \in {"next", "record", "update"} => "tracker" \notin Held

LEMMA TrackerHeld ==
  "tracker" \in Held <=>
      control["runtimeFrozen"] \/ control["emergencySafeMode"] \/ control["trackerPaused"]
BY DEF Held, Frozen

LEMMA InitStands == Init => FoundStands
BY DEF Init, AtRest, FoundStands

LEMMA StepStands == TypeInv /\ FoundStands /\ [Next]_vars => FoundStands'
<1> SUFFICES ASSUME TypeInv, FoundStands, [Next]_vars PROVE FoundStands'
  OBVIOUS
<1> USE DEF operator, tracked, outside
<1>0. pass \in Pass /\ control \in [Flags -> BOOLEAN] /\ patched \subseteq Flags
  BY DEF TypeInv, TypeOK, Pass
<1>s. \A pc : AtRest(pc).pc = pc
  BY DEF AtRest
<1>h. UNCHANGED control => Held' = Held
  BY DEF Held, Frozen
<1>1. CASE Patch
  <2>1. PICK f \in Patches \ patched, v \in BOOLEAN :
          control' = [control EXCEPT ![f] = v] /\ patched' = patched \cup {f} /\ pass' = pass
    BY <1>1 DEF Patch
  <2>2. CASE f \in Holds
    BY <2>1, <2>2 DEF FoundStands
  <2>3. CASE f \notin Holds
    <3>1. \A g \in Holds : control'[g] = control[g]
      BY <2>1, <2>3, <1>0 DEF Holds, Flags
    <3>2. ("tracker" \in Held)' <=> control'["runtimeFrozen"] \/ control'["emergencySafeMode"]
                                     \/ control'["trackerPaused"]
      BY DEF Held, Frozen
    <3>3. ("tracker" \in Held)' <=> "tracker" \in Held
      BY <3>1, <3>2, TrackerHeld DEF Holds
    <3>4. patched' \cap Holds = {} => patched \cap Holds = {}
      BY <2>1
    <3> QED BY <2>1, <3>3, <3>4 DEF FoundStands
  <2> QED BY <2>2, <2>3
<1>2. CASE Apply
  BY <1>2, <1>0 DEF Apply, Goto, FoundStands, Pass
<1>3. CASE CheckControl
  BY <1>3, <1>0, <1>h DEF CheckControl, FoundStands, Pass
<1>4. CASE ScanPassed
  BY <1>4, <1>0, <1>h DEF ScanPassed, Goto, FoundStands, Pass
<1>5. CASE BeginTracking
  BY <1>5, <1>s, <1>h DEF BeginTracking, FoundStands, AtRest
<1>6. ASSUME NEW p \in Positions, PriceFails(p) \/ Priced(p) \/ Record(p) \/ Update(p) \/ PositionDone(p)
      PROVE  FoundStands'
  <2>1. pass.pc \in {"next", "record", "update"} /\ UNCHANGED <<control, patched>>
    BY <1>6 DEF PriceFails, Priced, Record, Update, PositionDone
  <2>2. pass'.pc \in {"next", "record", "update"}
    BY <1>6, <1>0 DEF PriceFails, Priced, Record, Update, PositionDone, Pass
  <2> QED BY <2>1, <2>2, <1>h DEF FoundStands
<1>7. CASE ReadCommands \/ Reject \/ MarkExecuted \/ CommandsDone \/ Boot \/ Heartbeat
  <2>1. pass'.pc \in {"apply", "check", "idle", "health"}
    <3>1. ReadCommands \/ Heartbeat => pass'.pc \in {"apply", "health"}
      BY <1>0 DEF ReadCommands, Heartbeat, Goto, Pass
    <3>2. Reject \/ MarkExecuted => pass'.pc = "apply"
      BY <1>0 DEF Reject, MarkExecuted, Settle, Pass
    <3>3. CommandsDone \/ Boot => pass'.pc \in {"check", "idle"}
      BY <1>s DEF CommandsDone, Boot
    <3> QED BY <1>7, <3>1, <3>2, <3>3
  <2> QED BY <2>1 DEF FoundStands
<1>8. CASE ScanFails \/ TrackerSkipped \/ Health \/ WriteFails \/ Crash \/ \E p \in Positions : RecordFails(p)
  BY <1>8, <1>s DEF ScanFails, TrackerSkipped, Health, WriteFails, Crash, RecordFails, FoundStands
<1>9. CASE Enqueue \/ (\E p \in Positions : GrowOld(p)) \/ HeartbeatAges \/ IncidentsAge \/ UNCHANGED vars
  BY <1>9, <1>h DEF Enqueue, GrowOld, HeartbeatAges, IncidentsAge, vars, FoundStands
<1>10. Next => \/ Boot \/ Commanding \/ Looping \/ Tracking \/ Enqueue \/ Patch \/ WriteFails \/ Crash
               \/ (\E p \in Positions : RecordFails(p)) \/ (\E p \in Positions : GrowOld(p))
               \/ HeartbeatAges \/ IncidentsAge
  BY DEF Next, Worker
<1> QED BY <1>1, <1>2, <1>3, <1>4, <1>5, <1>6, <1>7, <1>8, <1>9, <1>10 DEF Commanding, Looping, Tracking

\* No milestone is recorded while the tracker is held, unless a flag that holds
\* it was patched past the queue.
THEOREM FreezeRespected == Spec => FreezeHolds
<1> DEFINE Respected == events' # events /\ "tracker" \in Held =>
                          patched \cap {"runtimeFrozen", "emergencySafeMode", "trackerPaused"} # {}
<1>1. Init => TypeInv /\ FoundStands
  BY InitTypes, InitStands
<1>2. TypeInv /\ FoundStands /\ [Next]_vars => (TypeInv /\ FoundStands)'
  BY StepTypes, StepStands
<1>3. ASSUME TypeInv, FoundStands, [Next]_vars PROVE [Respected]_vars
  <2>1. events' # events => pass.pc = "record"
    BY <1>3, StepKinds
    DEF Elsewhere, Boot, Crash, BeginTracking, PriceFails, Priced, Record, Update, PositionDone,
        RecordFails, tracked
  <2> QED BY <1>3, <2>1 DEF FoundStands, Holds
<1>4. [][Respected]_vars => FreezeHolds
  BY PTL DEF FreezeHolds
<1> QED BY <1>1, <1>2, <1>3, <1>4, PTL DEF Spec

-----------------------------------------------------------------------------
(* The control row follows the commands.                                   *)

\* Commands are settled in the order they were created.
OldestFirst ==
    \A i, j \in DOMAIN queue :
        i < j /\ queue[j].status # "queued" => queue[i].status # "queued"

\* A batch holds the oldest of the queued commands.
BatchOldest ==
    pass.pc \in {"apply", "mark"} =>
        /\ pass.batch \subseteq Queued
        /\ \A i \in pass.batch : \A j \in Queued : j < i => j \in pass.batch

\* Between a command's effect and its mark the row says what the command says.
EffectStands ==
    pass.pc = "mark" =>
        /\ pass.batch # {}
        /\ queue[InTurn(pass.batch)].command \in DOMAIN Effect
        /\ LET e == Effect[queue[InTurn(pass.batch)].command]
           IN  e.flag \notin patched => control[e.flag] = e.value

CommandInv == ControlExplained /\ OldestFirst /\ BatchOldest /\ EffectStands

LEMMA UnsupportedHaveNoEffect == \A c \in Unsupported : c \notin DOMAIN Effect
BY DEF Unsupported, Effect

LEMMA EffectsAreSets ==
  \A c \in DOMAIN Effect : Effect[c] = Sets(Effect[c].flag, Effect[c].value)
BY DEF Effect, Sets

LEMMA SetsApart ==
  ASSUME NEW f, NEW g, NEW v, NEW w, Sets(f, v) = Sets(g, w)
  PROVE  f = g /\ v = w
BY DEF Sets

LEMMA InitExplains == Init => CommandInv
<1> SUFFICES ASSUME Init PROVE CommandInv
  OBVIOUS
<1>1. control = Defaults /\ DOMAIN queue = {} /\ pass.pc = "down"
  BY DEF Init, AtRest
<1>2. \A f : Executed(f) = {}
  BY <1>1 DEF Executed
<1> QED BY <1>1, <1>2 DEF CommandInv, ControlExplained, OldestFirst, BatchOldest, EffectStands

LEMMA SettleExplains ==
  ASSUME TypeInv, CommandInv, pass.pc \in {"apply", "mark"}, pass.batch # {}, NEW st \in {"executed", "rejected"},
         Settle(InTurn(pass.batch), st), UNCHANGED <<control, patched>>,
         st = "executed" => pass.pc = "mark",
         st = "rejected" => Refused(queue[InTurn(pass.batch)].command)
  PROVE  CommandInv'
<1> DEFINE i == InTurn(pass.batch)
<1>0. QueueTyped /\ pass \in Pass
  BY DEF TypeInv, TypeOK, QueueTyped, Entry, Pass
<1>q. DOMAIN queue \in SUBSET Nat /\ \A j \in DOMAIN queue : queue[j] \in Entry
  BY <1>0, QueueIndices
<1>1. i \in pass.batch /\ i \in DOMAIN queue /\ \A j \in pass.batch : i <= j
  BY <1>0, <1>q, TurnExists DEF Pass
<1>2. /\ DOMAIN queue' = DOMAIN queue
      /\ \A j \in DOMAIN queue : /\ queue'[j].command = queue[j].command
                                 /\ queue'[j].status = IF j = i THEN st ELSE queue[j].status
      /\ pass'.pc = "apply" /\ pass'.batch = pass.batch \ {i}
  <2>1. PICK n \in 0..MaxCommands : queue \in [1..n -> Entry]
    BY <1>0 DEF QueueTyped
  <2> QED BY <2>1, <1>0, <1>1 DEF Settle, Pass, Entry
<1>e. EffectStands /\ i = InTurn(pass.batch)
  BY DEF CommandInv
<1> HIDE DEF i
<1>3. i \in Queued /\ \A j \in Queued : i <= j
  <2>1. pass.batch \subseteq Queued /\ \A k \in pass.batch : \A j \in Queued : j < k => j \in pass.batch
    BY DEF CommandInv, BatchOldest
  <2>2. Queued \subseteq Nat /\ i \in Queued
    BY <1>q, <1>1, <2>1 DEF Queued
  <2>3. ASSUME NEW j \in Queued PROVE i <= j
    <3>1. j < i => i <= j
      BY <1>1, <2>1, <2>3
    <3>2. i \in Nat /\ j \in Nat
      BY <2>2
    <3> QED BY <3>1, <3>2
  <2> QED BY <2>2, <2>3
<1>4. Queued' = Queued \ {i}
  BY <1>2 DEF Queued
<1>5. OldestFirst'
  BY <1>2, <1>3, <1>q DEF CommandInv, OldestFirst, Queued
<1>6. BatchOldest' /\ EffectStands'
  BY <1>2, <1>4 DEF CommandInv, BatchOldest, EffectStands
<1>7. \A j, f, v : j \in DOMAIN queue => (Says(j, f, v)' <=> Says(j, f, v))
  BY <1>2 DEF Says
<1>8. \A j \in DOMAIN queue : queue[j].status # "queued" => j < i
  <2> SUFFICES ASSUME NEW j \in DOMAIN queue, queue[j].status # "queued" PROVE j < i
    OBVIOUS
  <2>1. j # i /\ ~(i < j)
    BY <1>1, <1>3 DEF CommandInv, OldestFirst, Queued
  <2> QED BY <2>1, <1>1, <1>q
<1>9. ASSUME NEW f \in Flags \ patched
      PROVE  \/ control[f] = Defaults[f] /\ Executed(f)' = {}
             \/ \E j \in Acted' : Says(j, f, control[f])' /\ \A k \in Executed(f)' : k <= j
  <2>1. \/ control[f] = Defaults[f] /\ Executed(f) = {}
        \/ \E j \in Acted : Says(j, f, control[f]) /\ \A k \in Executed(f) : k <= j
    BY DEF CommandInv, ControlExplained
  <2>2. CASE st = "rejected"
    <3>1. queue[i].command \in Resumes \/ queue[i].command \notin DOMAIN Effect
      BY <1>e, <2>2, UnsupportedHaveNoEffect DEF Refused
    <3>2. \A j \in Acted : j \in Acted' \/ \A v : ~Says(j, f, v)
      BY <1>2, <1>3, <1>4, <2>2, <3>1 DEF Acted, Says
    <3>3. Executed(f)' = Executed(f)
      BY <1>2, <1>3, <1>7, <2>2 DEF Executed, Queued
    <3>4. Acted \subseteq DOMAIN queue
      BY DEF Acted
    <3> QED BY <2>1, <3>2, <3>3, <3>4, <1>7
  <2>3. CASE st = "executed"
    <3>1. pass.pc = "mark" /\ queue[i].command \in DOMAIN Effect
      BY <1>e, <2>3 DEF EffectStands
    <3>2. i \in Acted' /\ \A j \in Acted : j \in Acted'
      BY <1>1, <1>2, <1>3, <1>4, <2>3 DEF Acted
    <3>3. \A k \in Executed(f)' : k <= i /\ (k = i \/ k \in Executed(f))
      <4>1. \A k \in Executed(f)' : k \in DOMAIN queue /\ (k = i \/ k \in Executed(f))
        BY <1>2, <1>7 DEF Executed
      <4>2. \A k \in Executed(f) : k < i
        BY <1>8 DEF Executed
      <4> QED BY <4>1, <4>2, <1>q, <1>1
    <3>4. CASE Effect[queue[i].command].flag = f
      <4>1. Says(i, f, control[f])
        BY <3>1, <3>4, <1>e, EffectsAreSets DEF EffectStands, Says
      <4> QED BY <4>1, <3>2, <3>3, <1>7, <1>1
    <3>5. CASE Effect[queue[i].command].flag # f
      <4>1. \A v : ~Says(i, f, v)
        BY <3>5, <3>1, EffectsAreSets, SetsApart DEF Says
      <4>2. Executed(f)' \subseteq Executed(f)
        <5>1. i \notin Executed(f)'
          BY <4>1, <1>1, <1>7 DEF Executed
        <5> QED BY <5>1, <3>3
      <4>3. Acted \subseteq DOMAIN queue
        BY DEF Acted
      <4> QED BY <2>1, <4>2, <4>3, <3>2, <1>7
    <3> QED BY <3>4, <3>5
  <2> QED BY <2>2, <2>3
<1>10. ControlExplained'
  BY <1>9 DEF ControlExplained
<1> QED BY <1>5, <1>6, <1>10 DEF CommandInv

LEMMA StepExplains == TypeInv /\ CommandInv /\ [Next]_vars => CommandInv'
<1> SUFFICES ASSUME TypeInv, CommandInv, [Next]_vars PROVE CommandInv'
  OBVIOUS
<1> USE DEF operator, tracked, outside
<1>0. QueueTyped /\ pass \in Pass /\ control \in [Flags -> BOOLEAN]
  BY DEF TypeInv, TypeOK, QueueTyped, Entry, Pass
<1>q. DOMAIN queue \in SUBSET Nat /\ \A i \in DOMAIN queue : queue[i] \in Entry
  BY <1>0, QueueIndices
<1>s. \A pc : AtRest(pc).pc = pc
  BY DEF AtRest
<1>1. CASE Enqueue
  <2>1. PICK n \in 0..MaxCommands : queue \in [1..n -> Entry]
    BY <1>0 DEF QueueTyped
  <2>2. Cardinality(DOMAIN queue) = n
    BY <2>1, FS_Interval, BoundsAssumption
  <2>3. PICK c \in Commands :
          queue' = [i \in 1..n+1 |-> IF i = n + 1 THEN [command |-> c, status |-> "queued"] ELSE queue[i]]
    BY <1>1, <2>2 DEF Enqueue
  <2>4. UNCHANGED <<control, pass, patched>>
    BY <1>1 DEF Enqueue
  <2>5. /\ DOMAIN queue = 1..n /\ DOMAIN queue' = 1..n+1
        /\ \A i \in 1..n : i # n + 1 /\ queue'[i] = queue[i] /\ i < n + 1
        /\ queue'[n+1].status = "queued"
    BY <2>1, <2>3, BoundsAssumption
  <2>6. Queued' = Queued \cup {n + 1} /\ Queued \subseteq 1..n
    BY <2>1, <2>5, BoundsAssumption DEF Queued
  <2>7. OldestFirst'
    BY <2>1, <2>5, BoundsAssumption DEF CommandInv, OldestFirst
  <2>8. BatchOldest'
    <3>1. \A i \in 1..n : ~(n + 1 < i)
      BY <2>1, BoundsAssumption
    <3> QED BY <2>4, <2>6, <3>1 DEF CommandInv, BatchOldest
  <2>9. EffectStands'
    <3>1. pass.pc = "mark" => InTurn(pass.batch) \in 1..n
      BY <1>0, <1>q, <2>5, TurnExists DEF CommandInv, EffectStands, Pass
    <3> QED BY <2>4, <2>5, <3>1 DEF CommandInv, EffectStands
  <2>10. \A j \in 1..n : \A f, v : Says(j, f, v)' <=> Says(j, f, v)
    BY <2>5 DEF Says
  <2>11. Acted \subseteq 1..n /\ Acted \subseteq Acted'
    <3>1. \A j \in 1..n : j <= n + 1
      BY <2>1, BoundsAssumption
    <3>2. Acted \subseteq 1..n
      BY <2>5 DEF Acted
    <3> SUFFICES ASSUME NEW j \in Acted PROVE j \in Acted'
      BY <3>2
    <3>3. j \in 1..n /\ j \in DOMAIN queue' /\ queue'[j] = queue[j]
      BY <2>5, <3>2
    <3>4. j \in Queued /\ (\A k \in Queued : j <= k) => j \in Queued' /\ \A k \in Queued' : j <= k
      BY <2>6, <3>1, <3>3
    <3> QED BY <3>3, <3>4 DEF Acted
  <2>12. \A f : Executed(f)' = Executed(f)
    BY <2>5, <2>10 DEF Executed
  <2>13. ControlExplained'
    BY <2>4, <2>10, <2>11, <2>12 DEF CommandInv, ControlExplained
  <2> QED BY <2>7, <2>8, <2>9, <2>13 DEF CommandInv
<1>2. CASE Patch
  <2>1. PICK f \in Patches \ patched, v \in BOOLEAN :
          control' = [control EXCEPT ![f] = v] /\ patched' = patched \cup {f} /\ UNCHANGED <<queue, pass>>
    BY <1>2 DEF Patch
  <2>2. \A g \in Flags \ patched' : control'[g] = control[g] /\ g \in Flags \ patched
    BY <2>1, <1>0
  <2>3. Queued' = Queued /\ Acted' = Acted /\ (\A g : Executed(g)' = Executed(g))
        /\ \A j, g, w : Says(j, g, w)' <=> Says(j, g, w)
    BY <2>1 DEF Queued, Acted, Executed, Says
  <2>4. ControlExplained'
    BY <2>2, <2>3 DEF CommandInv, ControlExplained
  <2>5. EffectStands'
    <3>1. queue[InTurn(pass.batch)].command \in DOMAIN Effect =>
            Effect[queue[InTurn(pass.batch)].command].flag \in Flags
      BY CommandEffects
    <3> QED BY <2>1, <2>2, <3>1 DEF CommandInv, EffectStands
  <2>6. OldestFirst' /\ BatchOldest'
    BY <2>1, <2>3 DEF CommandInv, OldestFirst, BatchOldest
  <2> QED BY <2>4, <2>5, <2>6 DEF CommandInv
<1>3. CASE Reject
  <2>1. Settle(InTurn(pass.batch), "rejected") /\ UNCHANGED <<control, patched>>
        /\ Refused(queue[InTurn(pass.batch)].command) /\ pass.batch # {} /\ pass.pc = "apply"
    BY <1>3 DEF Reject
  <2> QED BY <2>1, SettleExplains
<1>4. CASE MarkExecuted
  <2>1. Settle(InTurn(pass.batch), "executed") /\ UNCHANGED <<control, patched>> /\ pass.pc = "mark"
    BY <1>4 DEF MarkExecuted
  <2>2. pass.batch # {}
    BY <2>1 DEF CommandInv, EffectStands
  <2> QED BY <2>1, <2>2, SettleExplains
<1>5. CASE Apply
  <2> DEFINE i == InTurn(pass.batch)
             e == Effect[queue[i].command]
  <2>1. i \in pass.batch /\ i \in DOMAIN queue /\ \A j \in pass.batch : i <= j
    BY <1>5, <1>0, <1>q, TurnExists DEF Apply, Pass
  <2>2. /\ pass.pc = "apply" /\ pass.batch # {} /\ ~Refused(queue[i].command)
        /\ control' = [control EXCEPT ![e.flag] = e.value]
        /\ UNCHANGED <<queue, patched>>
        /\ pass'.pc = "mark" /\ pass'.batch = pass.batch
    BY <1>5, <1>0 DEF Apply, Goto, Pass
  <2>3. queue[i].command \in DOMAIN Effect /\ e.flag \in Flags /\ e.value \in BOOLEAN
    <3>1. queue[i].command \in Commands /\ queue[i].command \notin Unsupported
      BY <2>1, <2>2, <1>q DEF Refused, Entry
    <3> QED BY <3>1, CommandEffects
  <2>4. \A f \in Flags : control'[f] = IF f = e.flag THEN e.value ELSE control[f]
    BY <2>2, <2>3, <1>0
  <2>5. EffectStands'
    BY <2>2, <2>3, <2>4 DEF EffectStands
  <2>e. queue[i].command \in DOMAIN Effect => e = Sets(e.flag, e.value)
    BY EffectsAreSets
  <2>6. Says(i, e.flag, e.value)
    BY <2>3, <2>e DEF Says
  <2> HIDE DEF i
  <2>7. i \in Queued /\ \A j \in Queued : i <= j
    <3>1. pass.batch \subseteq Queued /\ \A k \in pass.batch : \A j \in Queued : j < k => j \in pass.batch
      BY <2>2 DEF CommandInv, BatchOldest
    <3>2. Queued \subseteq Nat /\ i \in Queued
      BY <1>q, <2>1, <3>1 DEF Queued
    <3>3. ASSUME NEW j \in Queued PROVE i <= j
      <4>1. j < i => i <= j
        BY <2>1, <3>1, <3>3
      <4>2. i \in Nat /\ j \in Nat
        BY <3>2
      <4> QED BY <4>1, <4>2
    <3> QED BY <3>2, <3>3
  <2>8. \A f : \A k \in Executed(f) : k <= i
    <3> SUFFICES ASSUME NEW f, NEW k \in Executed(f) PROVE k <= i
      OBVIOUS
    <3>1. k \in DOMAIN queue /\ queue[k].status # "queued"
      BY DEF Executed
    <3>2. ~(i < k)
      BY <3>1, <2>1, <2>7 DEF CommandInv, OldestFirst, Queued
    <3> QED BY <3>1, <3>2, <2>1, <1>q
  <2>9. Queued' = Queued /\ Acted' = Acted /\ (\A f : Executed(f)' = Executed(f))
        /\ (\A j, f, v : Says(j, f, v)' <=> Says(j, f, v)) /\ i \in Acted
    BY <2>2, <2>1, <2>7 DEF Queued, Acted, Executed, Says
  <2>10. ControlExplained'
    <3> SUFFICES ASSUME NEW f \in Flags \ patched
                 PROVE  \/ control'[f] = Defaults[f] /\ Executed(f) = {}
                        \/ \E j \in Acted : Says(j, f, control'[f]) /\ \A k \in Executed(f) : k <= j
      BY <2>2, <2>9 DEF ControlExplained
    <3>1. CASE f = e.flag
      BY <3>1, <2>4, <2>6, <2>8, <2>9
    <3>2. CASE f # e.flag
      BY <3>2, <2>4 DEF CommandInv, ControlExplained
    <3> QED BY <3>1, <3>2
  <2>11. OldestFirst' /\ BatchOldest'
    BY <2>2, <2>9 DEF CommandInv, OldestFirst, BatchOldest
  <2> QED BY <2>5, <2>10, <2>11 DEF CommandInv
<1>6. ASSUME UNCHANGED <<queue, control, patched>>,
             \/ pass' = pass
             \/ pass'.pc \notin {"apply", "mark"}
             \/ pass'.pc = "apply" /\ pass'.batch = Oldest
      PROVE  CommandInv'
  <2>1. Queued' = Queued /\ Acted' = Acted /\ (\A f : Executed(f)' = Executed(f))
        /\ (\A j, f, v : Says(j, f, v)' <=> Says(j, f, v))
    BY <1>6 DEF Queued, Acted, Executed, Says
  <2>2. ControlExplained' /\ OldestFirst'
    BY <1>6, <2>1 DEF CommandInv, ControlExplained, OldestFirst
  <2>3. \A i \in Oldest : \A j \in Queued : j < i => j \in Oldest
    <3> SUFFICES ASSUME NEW i \in Oldest, NEW j \in Queued, j < i PROVE j \in Oldest
      OBVIOUS
    <3>1. i \in Nat /\ j \in Nat /\ Queued \subseteq Nat
      BY <1>q DEF Oldest, Queued
    <3>2. {k \in Queued : k <= j} \subseteq {k \in Queued : k <= i}
      <4>1. ASSUME NEW k \in Queued, k <= j PROVE k <= i
        BY <3>1, <4>1
      <4> QED BY <4>1
    <3>3. IsFiniteSet({k \in Queued : k <= i}) /\ IsFiniteSet({k \in Queued : k <= j})
      <4>1. PICK n \in 0..MaxCommands : queue \in [1..n -> Entry]
        BY <1>0 DEF QueueTyped
      <4>2. IsFiniteSet(1..n)
        BY FS_Interval, BoundsAssumption
      <4>3. {k \in Queued : k <= i} \subseteq 1..n /\ {k \in Queued : k <= j} \subseteq 1..n
        BY <4>1 DEF Queued
      <4> QED BY <4>2, <4>3, FS_Subset
    <3>4. Cardinality({k \in Queued : k <= j}) <= Cardinality({k \in Queued : k <= i})
      BY <3>2, <3>3, FS_Subset
    <3>5. Cardinality({k \in Queued : k <= j}) \in Nat /\ Cardinality({k \in Queued : k <= i}) \in Nat
      BY <3>3, FS_CardinalityType
    <3> QED BY <3>4, <3>5, BoundsAssumption DEF Oldest
  <2>4. Oldest \subseteq Queued
    BY DEF Oldest
  <2>5. BatchOldest'
    BY <1>6, <2>1, <2>3, <2>4 DEF CommandInv, BatchOldest
  <2>6. EffectStands'
    BY <1>6 DEF CommandInv, EffectStands
  <2> QED BY <2>2, <2>5, <2>6 DEF CommandInv
<1>7. CASE ReadCommands
  BY <1>6, <1>7, <1>0 DEF ReadCommands, Pass
<1>8. CASE CommandsDone \/ Boot \/ ScanFails \/ TrackerSkipped \/ Health
  BY <1>6, <1>8, <1>s DEF CommandsDone, Boot, ScanFails, TrackerSkipped, Health
<1>9. CASE CheckControl \/ ScanPassed \/ Heartbeat
  BY <1>6, <1>9, <1>0 DEF CheckControl, ScanPassed, Heartbeat, Goto, Pass
<1>10. CASE BeginTracking
  BY <1>6, <1>10 DEF BeginTracking, AtRest
<1>11. ASSUME NEW p \in Positions, PriceFails(p) \/ Priced(p) \/ Record(p) \/ Update(p) \/ PositionDone(p)
       PROVE  CommandInv'
  <2>1. pass'.pc \in {"next", "record", "update"} /\ UNCHANGED <<control, queue, patched>>
    BY <1>11, <1>0 DEF PriceFails, Priced, Record, Update, PositionDone, Pass
  <2> QED BY <2>1, <1>6
<1>12. CASE WriteFails \/ Crash \/ \E p \in Positions : RecordFails(p)
  BY <1>6, <1>12, <1>s DEF WriteFails, Crash, RecordFails
<1>13. CASE (\E p \in Positions : GrowOld(p)) \/ HeartbeatAges \/ IncidentsAge \/ UNCHANGED vars
  BY <1>6, <1>13 DEF GrowOld, HeartbeatAges, IncidentsAge, vars
<1>14. Next => \/ Boot \/ Commanding \/ Looping \/ Tracking \/ Enqueue \/ Patch \/ WriteFails \/ Crash
               \/ (\E p \in Positions : RecordFails(p)) \/ (\E p \in Positions : GrowOld(p))
               \/ HeartbeatAges \/ IncidentsAge
  BY DEF Next, Worker
<1> QED BY <1>1, <1>2, <1>3, <1>4, <1>5, <1>7, <1>8, <1>9, <1>10, <1>11, <1>12, <1>13, <1>14
        DEF Commanding, Looping, Tracking

\* But for direct patches the control row is what the commands say, in the order
\* they were sent, whatever faults fall between an effect and its mark.
THEOREM ControlFollowsCommands == Spec => []ControlExplained
<1>1. Init => TypeInv /\ CommandInv
  BY InitTypes, InitExplains
<1>2. TypeInv /\ CommandInv /\ [Next]_vars => (TypeInv /\ CommandInv)'
  BY StepTypes, StepExplains
<1>3. CommandInv => ControlExplained
  BY DEF CommandInv
<1> QED BY <1>1, <1>2, <1>3, PTL DEF Spec

-----------------------------------------------------------------------------
(* The socket of the market feed (MarketFeed).                             *)

Feed == INSTANCE MarketFeed

LEMMA SetInduction ==
    ASSUME NEW S, 0 \in S, \A k \in Nat : k \in S => k + 1 \in S
    PROVE  \A n \in Nat : n \in S
<1> SUFFICES ASSUME Nat \ S # {} PROVE FALSE
  OBVIOUS
<1>1. PICK least \in Nat \ S : \A n \in Nat \ S : least <= n
  BY LeastExists
<1>2. least # 0 /\ least - 1 \in Nat /\ ~(least <= least - 1)
  OBVIOUS
<1>3. least - 1 \in S
  BY <1>1, <1>2
<1> QED BY <1>2, <1>3

\* A socket that was lost has its timer running.
Sockets == [current : {"none", "connecting", "open", "closed"}, abandoned : Nat, timer : BOOLEAN,
            attempt : Nat, connected : BOOLEAN]
Watched == {s \in Sockets : s.current = "closed" => s.timer}

LEMMA OpenedIsWatched ==
    ASSUME NEW s \in Sockets
    PROVE  Feed!openSocket(s) \in Watched
<1> DEFINE others == IF s.current \in {"connecting", "open"} THEN s.abandoned + 1 ELSE s.abandoned
<1>1. others \in Nat
  <2>1. s.abandoned \in Nat
    BY DEF Sockets
  <2> QED BY <2>1
<1>2. Feed!openSocket(s) = [s EXCEPT !.current = "connecting", !.abandoned = others]
  BY DEF Feed!openSocket
<1> HIDE DEF others
<1>3. Feed!openSocket(s) \in Sockets /\ Feed!openSocket(s).current = "connecting"
  BY <1>1, <1>2 DEF Sockets
<1> QED BY <1>3 DEF Watched

LEMMA ScheduledIsWatched ==
    ASSUME NEW s \in Sockets
    PROVE  Feed!scheduleReconnect(s) \in Watched
<1>1. CASE s.timer
  BY <1>1 DEF Feed!scheduleReconnect, Watched
<1>2. CASE ~s.timer
  <2>1. Feed!scheduleReconnect(s) =
           [current |-> s.current, abandoned |-> s.abandoned, timer |-> TRUE,
            attempt |-> s.attempt + 1, connected |-> s.connected]
    BY <1>2 DEF Feed!scheduleReconnect, Sockets
  <2> QED BY <2>1 DEF Watched, Sockets
<1> QED BY <1>1, <1>2

LEMMA StepIsWatched ==
    ASSUME NEW s \in Watched, NEW t \in Feed!SocketSteps(s)
    PROVE  t \in Watched
<1>s. s \in Sockets /\ (s.current = "closed" => s.timer)
  BY DEF Watched
<1>1. CASE t = Feed!ensureConnected(s)
  BY <1>1, <1>s, OpenedIsWatched DEF Feed!ensureConnected, Watched
<1>2. CASE t = Feed!onopen(s)
  BY <1>2, <1>s DEF Feed!onopen, Watched, Sockets
<1>3. CASE t = Feed!onclose(s)
  <2> DEFINE lost == [s EXCEPT !.current = "closed", !.connected = FALSE]
  <2>1. lost \in Sockets
    BY <1>s DEF Sockets
  <2> HIDE DEF lost
  <2>2. Feed!scheduleReconnect(lost) \in Watched
    BY <2>1, ScheduledIsWatched
  <2> QED BY <1>3, <2>2 DEF Feed!onclose, lost
<1>4. CASE s.abandoned > 0 /\ t = Feed!oncloseAbandoned(s)
  <2> DEFINE left == [s EXCEPT !.abandoned = s.abandoned - 1, !.connected = FALSE]
  <2>1. left \in Sockets
    <3>1. s.abandoned \in Nat /\ s.abandoned > 0
      BY <1>4, <1>s DEF Sockets
    <3>2. s.abandoned - 1 \in Nat
      BY <3>1
    <3> QED BY <3>2, <1>s DEF Sockets
  <2> HIDE DEF left
  <2>2. Feed!scheduleReconnect(left) \in Watched
    BY <2>1, ScheduledIsWatched
  <2> QED BY <1>4, <2>2 DEF Feed!oncloseAbandoned, left
<1>5. CASE t \in {Feed!onTimer(s), Feed!onTimerRefused(s)}
  <2> DEFINE fired == [s EXCEPT !.timer = FALSE]
  <2>1. fired \in Sockets
    BY <1>s DEF Sockets
  <2> HIDE DEF fired
  <2>2. Feed!openSocket(fired) \in Watched /\ Feed!scheduleReconnect(fired) \in Watched
    BY <2>1, OpenedIsWatched, ScheduledIsWatched
  <2> QED BY <1>5, <2>2 DEF Feed!onTimer, Feed!onTimerRefused, fired
<1> QED BY <1>1, <1>2, <1>3, <1>4, <1>5 DEF Feed!SocketSteps

\* However a socket opens, closes, is abandoned, is asked for again or is
\* refused by the exchange, and however long this goes on, one that is lost has
\* its timer running: scheduleReconnect is reached on every path, also when the
\* timer's own attempt fails (market-data-provider-layer.ts).
THEOREM LostSocketsReconnect ==
    ASSUME NEW n \in Nat, NEW history,
           history[0] = Feed!FreshSocket,
           \A k \in 0..(n - 1) : history[k + 1] \in Feed!SocketSteps(history[k])
    PROVE  history[n].current = "closed" => history[n].timer
<1> DEFINE Good == {k \in Nat : k <= n => history[k] \in Watched}
<1>1. 0 \in Good
  <2>1. Feed!FreshSocket \in Watched
    BY DEF Feed!FreshSocket, Watched, Sockets
  <2> QED BY <2>1
<1>2. ASSUME NEW k \in Nat, k \in Good
      PROVE  k + 1 \in Good
  <2>1. ASSUME k + 1 <= n
        PROVE  history[k + 1] \in Watched
    <3>1. k \in 0..(n - 1) /\ history[k] \in Watched
      BY <1>2, <2>1
    <3>2. history[k + 1] \in Feed!SocketSteps(history[k])
      BY <3>1
    <3> QED BY <3>1, <3>2, StepIsWatched
  <2> QED BY <2>1
<1>3. n \in Good
  <2> HIDE DEF Good
  <2> QED BY <1>1, <1>2, SetInduction
<1> QED BY <1>3 DEF Watched
=============================================================================
