-------------------------- MODULE SignalDeskProofs --------------------------
(***************************************************************************)
(* Theorems about SignalDesk, for any signals, symbols, cap, prices and    *)
(* partial fraction.                                                       *)
(*                                                                         *)
(* The rows alone do not tell why a symbol has one signal: between the     *)
(* reading of the lock and the writing of the rows the claim is held by    *)
(* the cycle in memory.  The invariant counts that claim too, says that    *)
(* the book in memory is never behind the rows, and that a signal being    *)
(* created has no rows yet.                                                *)
(***************************************************************************)
EXTENDS SignalDesk, FiniteSetTheorems, WellFoundedInduction, TLAPS

\* The signals the cycle has selected and not yet settled.
Pending(s) == \/ cycle.pc \in {"create", "open", "book"} /\ s \in cycle.picked
              \/ cycle.pc = "execute" /\ s \in cycle.left

Claims(s) == ActiveTrade(s) \/ ActiveOutcome(s) \/ Pending(s)

OneClaim == \A s, t \in Signals :
    Claims(s) /\ Claims(t) /\ symbolOf[s] = symbolOf[t] => s = t

ActiveTrades == {s \in Signals : ActiveTrade(s)}

BookIsCurrent ==
    /\ Cardinality(ActiveTrades) <= MaxConcurrent
    /\ cycle.pc = "execute" => /\ ActiveTrades \subseteq cycle.held
                               /\ Cardinality(cycle.held) <= MaxConcurrent

\* A candidate has no rows, and no outcome until its outcome is created.
NewAreClean == \A s \in Signals :
    /\ events[s] = "none" => outcomes[s] = NoOutcome
    /\ cycle.pc \in {"create", "open"} /\ s \in cycle.picked =>
          outcomes[s] = NoOutcome /\ (events[s] = "none" => s \in cycle.left)
    /\ cycle.pc = "open" => cycle.left = {}

Banked(o) == /\ o.status = "OPEN" => o.banked = 0
             /\ o.status \notin {"OPEN", "TP1_HIT"} => o.banked = 0 \/ o.r >= o.banked

OutcomesSound ==
    /\ \A s \in Signals : Banked(outcomes[s])
    /\ cycle.pc = "track" => \A s \in cycle.left : outcomes[s] = NoOutcome \/ ActiveOutcome(s)

Inv == TypeOK /\ OneClaim /\ BookIsCurrent /\ NewAreClean /\ OutcomesSound

Outcome == [status : OutcomeStatuses, banked : Nat, r : Int]

-----------------------------------------------------------------------------
(* The life of an outcome.                                                 *)

\* What a share of a gain is worth.
LEMMA ShareOfGain ==
  ASSUME NEW n \in Nat
  PROVE  /\ Rest \in Nat /\ Rest * n \in Nat
         /\ PartialNum * Tp1 \in Nat /\ Risk * PartialDen \in Nat
<1>1. Rest \in Nat
  BY PricesAssumption DEF Rest
<1>2. \A a, b \in Nat : a * b \in Nat
  BY SMT
<1> QED BY <1>1, <1>2, PricesAssumption

\* The price takes an active outcome to an outcome, and what the first target
\* banked stays.
LEMMA PricedIsSound ==
  ASSUME NEW o \in Outcome, Banked(o), o.status \in {"OPEN", "TP1_HIT"},
         NEW gain \in Gains
  PROVE  Priced(o, gain) \in Outcome /\ Banked(Priced(o, gain))
<1> DEFINE p == Priced(o, gain)
<1>0. /\ gain \in Int /\ Protect \in Nat /\ Tp1 \in Nat /\ Tp2 \in Nat
      /\ Rest * Protect \in Nat /\ Rest * Tp2 \in Nat
      /\ PartialNum * Tp1 \in Nat /\ Risk * PartialDen \in Nat /\ Risk \in Nat
  BY PricesAssumption, ShareOfGain
<1>1. CASE gain <= EffectiveStop(o)
  <2>1. p = StoppedOutcome(o)
    BY <1>1 DEF Priced
  <2>2. CASE o.status = "TP1_HIT"
    <3>1. p = [o EXCEPT !.status = IF Protect <= 0 THEN "BE_AFTER_TP1" ELSE "PARTIAL_WIN",
                        !.r = o.banked + Rest * Protect]
      BY <2>1, <2>2 DEF StoppedOutcome, EffectiveStop
    <3>2. o.banked + Rest * Protect \in Int /\ o.banked + Rest * Protect >= o.banked
      BY <1>0 DEF Outcome
    <3> QED BY <3>1, <3>2 DEF Outcome, OutcomeStatuses, Banked
  <2>3. CASE o.status = "OPEN"
    <3>1. p = [o EXCEPT !.status = "STOP_HIT", !.r = -(Risk * PartialDen)]
      BY <2>1, <2>3 DEF StoppedOutcome
    <3>2. -(Risk * PartialDen) \in Int
      BY <1>0
    <3> QED BY <3>1, <3>2, <2>3 DEF Outcome, OutcomeStatuses, Banked
  <2> QED BY <2>2, <2>3
<1>2. CASE ~(gain <= EffectiveStop(o)) /\ gain >= Tp2
  <2>1. p = [o EXCEPT !.status = "TP2_HIT", !.r = o.banked + Rest * Tp2]
    BY <1>2 DEF Priced
  <2>2. o.banked + Rest * Tp2 \in Int /\ o.banked + Rest * Tp2 >= o.banked
    BY <1>0 DEF Outcome
  <2> QED BY <2>1, <2>2 DEF Outcome, OutcomeStatuses, Banked
<1>3. CASE /\ ~(gain <= EffectiveStop(o)) /\ ~(gain >= Tp2)
           /\ gain >= Tp1 /\ o.status = "OPEN"
  <2>1. p = [o EXCEPT !.status = "TP1_HIT", !.banked = PartialNum * Tp1]
    BY <1>3 DEF Priced
  <2> QED BY <2>1, <1>0 DEF Outcome, OutcomeStatuses, Banked
<1>4. CASE /\ ~(gain <= EffectiveStop(o)) /\ ~(gain >= Tp2)
           /\ ~(gain >= Tp1 /\ o.status = "OPEN")
  BY <1>4 DEF Priced
<1> QED BY <1>1, <1>2, <1>3, <1>4

\* So does the age of an outcome that is still active.
LEMMA ExpiredIsSound ==
  ASSUME NEW o \in Outcome, o.status \in {"OPEN", "TP1_HIT"}, Banked(o)
  PROVE  Expired(o) \in Outcome /\ Banked(Expired(o))
<1>1. CASE o.status = "TP1_HIT"
  <2>1. Expired(o) = [o EXCEPT !.status = IF o.banked > 0 THEN "PARTIAL_WIN" ELSE "EXPIRED",
                               !.r = o.banked]
    BY <1>1 DEF Expired
  <2>2. o.banked \in Int /\ o.banked >= o.banked
    BY DEF Outcome
  <2> QED BY <2>1, <2>2 DEF Outcome, OutcomeStatuses, Banked
<1>2. CASE o.status = "OPEN"
  <2>1. Expired(o) = [o EXCEPT !.status = "EXPIRED", !.r = 0]
    BY <1>2 DEF Expired
  <2>2. o.banked = 0
    BY <1>2 DEF Banked
  <2>3. Expired(o) \in Outcome
    <3>1. \A r \in Int : [o EXCEPT !.status = "EXPIRED", !.r = r] \in Outcome
      BY DEF Outcome, OutcomeStatuses
    <3>2. 0 \in Int
      OBVIOUS
    <3> QED BY <2>1, <3>1, <3>2, Zenon
  <2>4. Expired(o).banked = 0 /\ Expired(o).status = "EXPIRED"
    BY <2>1, <2>2 DEF Outcome
  <2> QED BY <2>3, <2>4 DEF Banked
<1> QED BY <1>1, <1>2

\* Hence tracking an active outcome never loses what it banked.
LEMMA TrackedIsSound ==
  ASSUME NEW o \in Outcome, Banked(o), o.status \in {"OPEN", "TP1_HIT"},
         NEW gain \in Gains, NEW isOld
  PROVE  Tracked(o, gain, isOld) \in Outcome /\ Banked(Tracked(o, gain, isOld))
<1>1. Priced(o, gain) \in Outcome /\ Banked(Priced(o, gain))
  BY PricedIsSound
<1>2. CASE isOld /\ Priced(o, gain).status \in {"OPEN", "TP1_HIT"}
  BY <1>1, <1>2, ExpiredIsSound DEF Tracked
<1>3. CASE ~(isOld /\ Priced(o, gain).status \in {"OPEN", "TP1_HIT"})
  BY <1>1, <1>3 DEF Tracked
<1> QED BY <1>2, <1>3

-----------------------------------------------------------------------------
(* The invariant.                                                          *)

\* A set of signals within another has no more elements.
LEMMA FewerSignals ==
  ASSUME NEW B \in SUBSET Signals, NEW A \in SUBSET B
  PROVE  /\ Cardinality(A) \in Nat /\ Cardinality(B) \in Nat
         /\ Cardinality(A) <= Cardinality(B)
BY SignalsAssumption, FS_Subset, FS_CardinalityType

\* No step but the reading of the book and an accepted trade needs more than this.
LEMMA BookStays ==
  ASSUME Inv, ActiveTrades' \subseteq ActiveTrades,
         cycle'.pc = "execute" => cycle.pc = "execute" /\ cycle'.held = cycle.held
  PROVE  BookIsCurrent'
<1>1. ActiveTrades \in SUBSET Signals
  BY DEF ActiveTrades
<1>2. Cardinality(ActiveTrades') <= Cardinality(ActiveTrades)
  BY <1>1, FewerSignals
<1>3. Cardinality(ActiveTrades') \in Nat /\ Cardinality(ActiveTrades) \in Nat
  BY <1>1, FewerSignals
<1> QED BY <1>2, <1>3, BoundsAssumption DEF Inv, BookIsCurrent

LEMMA InitInv == Init => Inv
<1> SUFFICES ASSUME Init PROVE Inv
  OBVIOUS
<1>1. TypeOK
  BY BoundsAssumption DEF Init, TypeOK, Idle, NoOutcome, Modes, Steps, EventStatuses,
                          OutcomeStatuses, TradeStatuses
<1>2. OneClaim /\ NewAreClean /\ OutcomesSound
  BY DEF Init, OneClaim, NewAreClean, OutcomesSound, Claims, Pending, ActiveTrade,
         ActiveOutcome, Idle, NoOutcome, Banked
<1>3. BookIsCurrent
  <2>1. ActiveTrades = {}
    BY DEF Init, ActiveTrades, ActiveTrade
  <2> QED BY <2>1, FS_EmptySet, BoundsAssumption DEF Init, BookIsCurrent, Idle
<1> QED BY <1>1, <1>2, <1>3 DEF Inv

\* What Select may choose: candidates without rows, on free symbols, one each.
Chosen(picked) ==
    /\ cycle' = [cycle EXCEPT !.pc = IF picked = {} THEN Following ELSE "create",
                              !.picked = picked, !.left = picked]
    /\ \A s \in picked : events[s] = "none" /\ ~Locked(symbolOf[s])
    /\ \A s, t \in picked : symbolOf[s] = symbolOf[t] => s = t

\* Select chooses so.
LEMMA SelectChooses ==
  ASSUME Select
  PROVE  \E picked \in SUBSET Signals : Chosen(picked)
<1>1. PICK candidates \in SUBSET {s \in Signals : events[s] = "none"} :
        \E picked \in Selections(candidates) :
          cycle' = [cycle EXCEPT !.pc = IF picked = {} THEN Following ELSE "create",
                                 !.picked = picked, !.left = picked]
  BY DEF Select
<1>2. PICK picked \in Selections(candidates) :
          cycle' = [cycle EXCEPT !.pc = IF picked = {} THEN Following ELSE "create",
                                 !.picked = picked, !.left = picked]
  BY <1>1
<1>3. /\ picked \in SUBSET Signals
      /\ \A s \in picked : events[s] = "none" /\ ~Locked(symbolOf[s])
      /\ \A s, t \in picked : symbolOf[s] = symbolOf[t] => s = t
  BY DEF Selections
<1> QED BY <1>2, <1>3 DEF Chosen

(* One lemma per action: it keeps every conjunct of the invariant.         *)

LEMMA BeginCycleKeepsInv ==
  ASSUME Inv, BeginCycle
  PROVE  Inv'
<1>1. TypeOK'
  BY DEF Inv, BeginCycle, TypeOK, Idle, Modes, Steps
<1>2. OneClaim'
  BY DEF Inv, BeginCycle, OneClaim, Claims, Pending, ActiveTrade, ActiveOutcome, TypeOK,
         Idle
<1>3. BookIsCurrent'
  <2>1. ActiveTrades' \subseteq ActiveTrades
    BY DEF Inv, BeginCycle, ActiveTrades, ActiveTrade, TypeOK
  <2>2. cycle'.pc = "execute" => cycle.pc = "execute" /\ cycle'.held = cycle.held
    BY DEF Inv, BeginCycle, TypeOK, Idle
  <2> QED BY <2>1, <2>2, BookStays
<1>4. NewAreClean'
  BY DEF Inv, BeginCycle, NewAreClean, TypeOK, Idle
<1>5. OutcomesSound'
  BY DEF Inv, BeginCycle, OutcomesSound, TypeOK, ActiveOutcome, Idle
<1> QED BY <1>1, <1>2, <1>3, <1>4, <1>5 DEF Inv

LEMMA SelectKeepsInv ==
  ASSUME Inv, Select
  PROVE  Inv'
<1>1. TypeOK'
  <2>1. PICK picked \in SUBSET Signals : Chosen(picked)
    BY SelectChooses
  <2> QED BY <2>1 DEF Chosen, Inv, Select, TypeOK, Following, Steps
<1>2. OneClaim'
  <2>1. PICK picked \in SUBSET Signals : Chosen(picked)
    BY SelectChooses
  <2>2. \A s \in picked, t \in Signals :
          symbolOf[s] = symbolOf[t] => ~ActiveTrade(t) /\ ~ActiveOutcome(t)
    BY <2>1 DEF Chosen, Locked
  <2>3. \A s \in Signals : Claims(s)' => ActiveTrade(s) \/ ActiveOutcome(s) \/ s \in picked
    BY <2>1 DEF Chosen, Select, Claims, Pending, ActiveTrade, ActiveOutcome, Following,
                Inv, TypeOK
  <2>4. \A s \in Signals : ActiveTrade(s) \/ ActiveOutcome(s) => Claims(s)
    BY DEF Claims
  <2> QED BY <2>1, <2>2, <2>3, <2>4 DEF Chosen, Inv, OneClaim, Select
<1>3. BookIsCurrent'
  <2>1. ActiveTrades' \subseteq ActiveTrades
    BY DEF Inv, Select, ActiveTrades, ActiveTrade, TypeOK
  <2>2. cycle'.pc = "execute" => cycle.pc = "execute" /\ cycle'.held = cycle.held
    BY DEF Inv, Select, TypeOK, Following
  <2> QED BY <2>1, <2>2, BookStays
<1>4. NewAreClean'
  <2>1. PICK picked \in SUBSET Signals : Chosen(picked)
    BY SelectChooses
  <2> QED BY <2>1 DEF Chosen, Inv, Select, NewAreClean, TypeOK
<1>5. OutcomesSound'
  BY DEF Inv, Select, OutcomesSound, TypeOK, ActiveOutcome, Following
<1> QED BY <1>1, <1>2, <1>3, <1>4, <1>5 DEF Inv

LEMMA LabelEventsKeepsInv ==
  ASSUME Inv, LabelEvents
  PROVE  Inv'
<1>1. TypeOK'
  BY DEF Inv, LabelEvents, TypeOK, Goto, After, Steps, EventStatuses
<1>2. OneClaim'
  BY DEF Inv, LabelEvents, OneClaim, Claims, Pending, ActiveTrade, ActiveOutcome,
         TypeOK, Goto, After
<1>3. BookIsCurrent'
  <2>1. ActiveTrades' \subseteq ActiveTrades
    BY DEF Inv, LabelEvents, ActiveTrades, ActiveTrade, TypeOK
  <2>2. cycle'.pc = "execute" => cycle.pc = "execute" /\ cycle'.held = cycle.held
    BY DEF Inv, LabelEvents, TypeOK, Goto, After
  <2> QED BY <2>1, <2>2, BookStays
<1>4. NewAreClean'
  BY DEF Inv, LabelEvents, NewAreClean, TypeOK, Goto, After, HasEvent
<1>5. OutcomesSound'
  BY DEF Inv, LabelEvents, OutcomesSound, TypeOK, ActiveOutcome, Goto, After
<1> QED BY <1>1, <1>2, <1>3, <1>4, <1>5 DEF Inv

LEMMA CreateOutcomesKeepsInv ==
  ASSUME Inv, CreateOutcomes
  PROVE  Inv'
<1>1. TypeOK'
  <2>1. [NoOutcome EXCEPT !.status = "OPEN"] \in Outcome
    <3>1. \A n \in Nat, r \in Int : [status |-> "OPEN", banked |-> n, r |-> r] \in Outcome
      BY DEF Outcome, OutcomeStatuses
    <3>2. [NoOutcome EXCEPT !.status = "OPEN"] = [status |-> "OPEN", banked |-> 0, r |-> 0]
      BY DEF NoOutcome
    <3>3. 0 \in Nat /\ 0 \in Int
      OBVIOUS
    <3> QED BY <3>1, <3>2, <3>3, Zenon
  <2>2. outcomes' \in [Signals -> Outcome]
    BY <2>1 DEF Inv, TypeOK, CreateOutcomes, Outcome
  <2> QED BY <2>2 DEF Inv, TypeOK, CreateOutcomes, Goto, Steps, Outcome
<1>2. OneClaim'
  BY DEF Inv, CreateOutcomes, OneClaim, Claims, Pending, ActiveTrade, ActiveOutcome,
         TypeOK, Goto, NoOutcome
<1>3. BookIsCurrent'
  <2>1. ActiveTrades' \subseteq ActiveTrades
    BY DEF Inv, CreateOutcomes, ActiveTrades, ActiveTrade, TypeOK
  <2>2. cycle'.pc = "execute" => cycle.pc = "execute" /\ cycle'.held = cycle.held
    BY DEF Inv, CreateOutcomes, TypeOK, Goto
  <2> QED BY <2>1, <2>2, BookStays
<1>4. NewAreClean'
  BY DEF Inv, CreateOutcomes, NewAreClean, TypeOK, Goto
<1>5. OutcomesSound'
  BY DEF Inv, CreateOutcomes, OutcomesSound, TypeOK, ActiveOutcome, Goto, NoOutcome,
         Banked
<1> QED BY <1>1, <1>2, <1>3, <1>4, <1>5 DEF Inv

LEMMA ReadBookKeepsInv ==
  ASSUME Inv, ReadBook
  PROVE  Inv'
<1>1. TypeOK'
  BY DEF Inv, ReadBook, TypeOK, Steps
<1>2. OneClaim'
  BY DEF Inv, ReadBook, OneClaim, Claims, Pending, ActiveTrade, ActiveOutcome, TypeOK
<1>3. BookIsCurrent'
  <2>1. ActiveTrades' = ActiveTrades /\ cycle'.held = ActiveTrades
    BY DEF Inv, ReadBook, ActiveTrades, ActiveTrade, TypeOK
  <2> QED BY <2>1 DEF Inv, BookIsCurrent
<1>4. NewAreClean'
  BY DEF Inv, ReadBook, NewAreClean, TypeOK
<1>5. OutcomesSound'
  BY DEF Inv, ReadBook, OutcomesSound, TypeOK, ActiveOutcome
<1> QED BY <1>1, <1>2, <1>3, <1>4, <1>5 DEF Inv

LEMMA ReadTradesKeepsInv ==
  ASSUME Inv, ReadTrades
  PROVE  Inv'
<1>1. TypeOK'
  BY DEF Inv, ReadTrades, TypeOK, Goto, After, Steps
<1>2. OneClaim'
  BY DEF Inv, ReadTrades, OneClaim, Claims, Pending, ActiveTrade, ActiveOutcome, TypeOK,
         Goto, After
<1>3. BookIsCurrent'
  <2>1. ActiveTrades' \subseteq ActiveTrades
    BY DEF Inv, ReadTrades, ActiveTrades, ActiveTrade, TypeOK
  <2>2. cycle'.pc = "execute" => cycle.pc = "execute" /\ cycle'.held = cycle.held
    BY DEF Inv, ReadTrades, TypeOK, Goto, After
  <2> QED BY <2>1, <2>2, BookStays
<1>4. NewAreClean'
  BY DEF Inv, ReadTrades, NewAreClean, TypeOK, Goto, After
<1>5. OutcomesSound'
  BY DEF Inv, ReadTrades, OutcomesSound, TypeOK, ActiveOutcome, Goto, After
<1> QED BY <1>1, <1>2, <1>3, <1>4, <1>5 DEF Inv

LEMMA PaperCycleDoneKeepsInv ==
  ASSUME Inv, PaperCycleDone
  PROVE  Inv'
<1>1. TypeOK'
  BY DEF Inv, PaperCycleDone, TypeOK, After, Idle, Modes, Steps
<1>2. OneClaim'
  BY DEF Inv, PaperCycleDone, OneClaim, Claims, Pending, ActiveTrade, ActiveOutcome,
         TypeOK, After, Idle
<1>3. BookIsCurrent'
  <2>1. ActiveTrades' \subseteq ActiveTrades
    BY DEF Inv, PaperCycleDone, ActiveTrades, ActiveTrade, TypeOK
  <2>2. cycle'.pc = "execute" => cycle.pc = "execute" /\ cycle'.held = cycle.held
    BY DEF Inv, PaperCycleDone, TypeOK, After, Idle
  <2> QED BY <2>1, <2>2, BookStays
<1>4. NewAreClean'
  BY DEF Inv, PaperCycleDone, NewAreClean, TypeOK, After, Idle
<1>5. OutcomesSound'
  BY DEF Inv, PaperCycleDone, OutcomesSound, TypeOK, ActiveOutcome, After, Idle
<1> QED BY <1>1, <1>2, <1>3, <1>4, <1>5 DEF Inv

LEMMA ReadOutcomesKeepsInv ==
  ASSUME Inv, ReadOutcomes
  PROVE  Inv'
<1>1. TypeOK'
  BY DEF Inv, ReadOutcomes, TypeOK, Goto, Steps
<1>2. OneClaim'
  BY DEF Inv, ReadOutcomes, OneClaim, Claims, Pending, ActiveTrade, ActiveOutcome,
         TypeOK, Goto
<1>3. BookIsCurrent'
  <2>1. ActiveTrades' \subseteq ActiveTrades
    BY DEF Inv, ReadOutcomes, ActiveTrades, ActiveTrade, TypeOK
  <2>2. cycle'.pc = "execute" => cycle.pc = "execute" /\ cycle'.held = cycle.held
    BY DEF Inv, ReadOutcomes, TypeOK, Goto
  <2> QED BY <2>1, <2>2, BookStays
<1>4. NewAreClean'
  BY DEF Inv, ReadOutcomes, NewAreClean, TypeOK, Goto
<1>5. OutcomesSound'
  BY DEF Inv, ReadOutcomes, OutcomesSound, TypeOK, ActiveOutcome, Goto, Followed
<1> QED BY <1>1, <1>2, <1>3, <1>4, <1>5 DEF Inv

LEMMA DispatchKeepsInv ==
  ASSUME Inv, Dispatch
  PROVE  Inv'
<1>1. TypeOK'
  BY DEF Inv, Dispatch, TypeOK, After, Idle, Modes, Steps, EventStatuses
<1>2. OneClaim'
  BY DEF Inv, Dispatch, OneClaim, Claims, Pending, ActiveTrade, ActiveOutcome, TypeOK,
         After, Idle
<1>3. BookIsCurrent'
  <2>1. ActiveTrades' \subseteq ActiveTrades
    BY DEF Inv, Dispatch, ActiveTrades, ActiveTrade, TypeOK
  <2>2. cycle'.pc = "execute" => cycle.pc = "execute" /\ cycle'.held = cycle.held
    BY DEF Inv, Dispatch, TypeOK, After, Idle
  <2> QED BY <2>1, <2>2, BookStays
<1>4. NewAreClean'
  BY DEF Inv, Dispatch, NewAreClean, TypeOK, After, Idle
<1>5. OutcomesSound'
  BY DEF Inv, Dispatch, OutcomesSound, TypeOK, ActiveOutcome, After, Idle
<1> QED BY <1>1, <1>2, <1>3, <1>4, <1>5 DEF Inv

LEMMA CycleFailsKeepsInv ==
  ASSUME Inv, CycleFails
  PROVE  Inv'
<1>1. TypeOK'
  BY DEF Inv, CycleFails, TypeOK, Idle, NoOutcome, Modes, Steps
<1>2. OneClaim'
  BY DEF Inv, CycleFails, OneClaim, Claims, Pending, ActiveTrade, ActiveOutcome, TypeOK,
         Idle, NoOutcome
<1>3. BookIsCurrent'
  <2>1. ActiveTrades' \subseteq ActiveTrades
    BY DEF Inv, CycleFails, ActiveTrades, ActiveTrade, TypeOK
  <2>2. cycle'.pc = "execute" => cycle.pc = "execute" /\ cycle'.held = cycle.held
    BY DEF Inv, CycleFails, TypeOK, Idle
  <2> QED BY <2>1, <2>2, BookStays
<1>4. NewAreClean'
  BY DEF Inv, CycleFails, NewAreClean, TypeOK, Idle, NoOutcome
<1>5. OutcomesSound'
  BY DEF Inv, CycleFails, OutcomesSound, TypeOK, ActiveOutcome, Idle, NoOutcome
<1> QED BY <1>1, <1>2, <1>3, <1>4, <1>5 DEF Inv

LEMMA CrashKeepsInv ==
  ASSUME Inv, Crash
  PROVE  Inv'
<1>1. TypeOK'
  BY BoundsAssumption DEF Inv, Crash, TypeOK, Idle, Modes, Steps
<1>2. OneClaim'
  BY DEF Inv, Crash, OneClaim, Claims, Pending, ActiveTrade, ActiveOutcome, TypeOK, Idle
<1>3. BookIsCurrent'
  <2>1. ActiveTrades' \subseteq ActiveTrades
    BY DEF Inv, Crash, ActiveTrades, ActiveTrade, TypeOK
  <2>2. cycle'.pc = "execute" => cycle.pc = "execute" /\ cycle'.held = cycle.held
    BY DEF Inv, Crash, TypeOK, Idle
  <2> QED BY <2>1, <2>2, BookStays
<1>4. NewAreClean'
  BY DEF Inv, Crash, NewAreClean, TypeOK, Idle
<1>5. OutcomesSound'
  BY DEF Inv, Crash, OutcomesSound, TypeOK, ActiveOutcome, Idle
<1> QED BY <1>1, <1>2, <1>3, <1>4, <1>5 DEF Inv

LEMMA CreateEventKeepsInv ==
  ASSUME NEW s \in Signals, Inv, CreateEvent(s)
  PROVE  Inv'
<1>1. TypeOK'
  BY DEF Inv, CreateEvent, TypeOK, Goto, Steps, EventStatuses
<1>2. OneClaim'
  BY DEF Inv, CreateEvent, OneClaim, Claims, Pending, ActiveTrade, ActiveOutcome,
         TypeOK, Goto
<1>3. BookIsCurrent'
  <2>1. ActiveTrades' \subseteq ActiveTrades
    BY DEF Inv, CreateEvent, ActiveTrades, ActiveTrade, TypeOK
  <2>2. cycle'.pc = "execute" => cycle.pc = "execute" /\ cycle'.held = cycle.held
    BY DEF Inv, CreateEvent, TypeOK, Goto
  <2> QED BY <2>1, <2>2, BookStays
<1>4. NewAreClean'
  BY DEF Inv, CreateEvent, NewAreClean, TypeOK, Goto
<1>5. OutcomesSound'
  BY DEF Inv, CreateEvent, OutcomesSound, TypeOK, ActiveOutcome, Goto
<1> QED BY <1>1, <1>2, <1>3, <1>4, <1>5 DEF Inv

LEMMA AcceptKeepsInv ==
  ASSUME NEW s \in Signals, Inv, Accept(s)
  PROVE  Inv'
<1>1. TypeOK'
  BY DEF Inv, Accept, Booked, TypeOK, Steps, TradeStatuses
<1>2. OneClaim'
  BY DEF Inv, Accept, OneClaim, Claims, Pending, ActiveTrade, ActiveOutcome, TypeOK
<1>3. BookIsCurrent'
  <2>1. /\ cycle'.held = cycle.held \cup {s} /\ cycle.held \in SUBSET Signals
        /\ cycle.pc = "execute" /\ Cardinality(cycle.held) < MaxConcurrent
    BY DEF Inv, Accept, Booked, TypeOK
  <2>2. ActiveTrades' \subseteq cycle'.held
    BY <2>1 DEF Inv, Accept, BookIsCurrent, ActiveTrades, ActiveTrade, TypeOK
  <2>3. cycle'.held \in SUBSET Signals
    BY <2>1
  <2>4. Cardinality(cycle'.held) <= MaxConcurrent
    <3>1. IsFiniteSet(cycle.held)
      BY <2>1, SignalsAssumption, FS_Subset
    <3>2. Cardinality(cycle.held) \in Nat
      BY <3>1, FS_CardinalityType
    <3>3. \/ Cardinality(cycle'.held) = Cardinality(cycle.held)
          \/ Cardinality(cycle'.held) = Cardinality(cycle.held) + 1
      BY <2>1, <3>1, FS_AddElement
    <3> QED BY <2>1, <3>2, <3>3, BoundsAssumption
  <2>5. Cardinality(ActiveTrades') <= MaxConcurrent
    BY <2>2, <2>3, <2>4, FewerSignals, BoundsAssumption
  <2> QED BY <2>2, <2>4, <2>5 DEF BookIsCurrent
<1>4. NewAreClean'
  BY DEF Inv, Accept, NewAreClean, TypeOK
<1>5. OutcomesSound'
  BY DEF Inv, Accept, OutcomesSound, TypeOK, ActiveOutcome
<1> QED BY <1>1, <1>2, <1>3, <1>4, <1>5 DEF Inv

LEMMA RejectKeepsInv ==
  ASSUME NEW s \in Signals, Inv, Reject(s)
  PROVE  Inv'
<1>1. TypeOK'
  BY DEF Inv, Reject, TypeOK, Goto, Steps
<1>2. OneClaim'
  BY DEF Inv, Reject, OneClaim, Claims, Pending, ActiveTrade, ActiveOutcome, TypeOK,
         Goto
<1>3. BookIsCurrent'
  <2>1. ActiveTrades' \subseteq ActiveTrades
    BY DEF Inv, Reject, ActiveTrades, ActiveTrade, TypeOK
  <2>2. cycle'.pc = "execute" => cycle.pc = "execute" /\ cycle'.held = cycle.held
    BY DEF Inv, Reject, TypeOK, Goto
  <2> QED BY <2>1, <2>2, BookStays
<1>4. NewAreClean'
  BY DEF Inv, Reject, NewAreClean, TypeOK, Goto
<1>5. OutcomesSound'
  BY DEF Inv, Reject, OutcomesSound, TypeOK, ActiveOutcome, Goto
<1> QED BY <1>1, <1>2, <1>3, <1>4, <1>5 DEF Inv

LEMMA ManageKeepsInv ==
  ASSUME NEW s \in Signals, Inv, Manage(s)
  PROVE  Inv'
<1>1. TypeOK'
  BY DEF Inv, Manage, TypeOK, Goto, Steps, TradeStatuses
<1>2. OneClaim'
  BY DEF Inv, Manage, OneClaim, Claims, Pending, ActiveTrade, ActiveOutcome, TypeOK,
         Goto
<1>3. BookIsCurrent'
  <2>1. ActiveTrades' \subseteq ActiveTrades
    BY DEF Inv, Manage, ActiveTrades, ActiveTrade, TypeOK
  <2>2. cycle'.pc = "execute" => cycle.pc = "execute" /\ cycle'.held = cycle.held
    BY DEF Inv, Manage, TypeOK, Goto
  <2> QED BY <2>1, <2>2, BookStays
<1>4. NewAreClean'
  BY DEF Inv, Manage, NewAreClean, TypeOK, Goto
<1>5. OutcomesSound'
  BY DEF Inv, Manage, OutcomesSound, TypeOK, ActiveOutcome, Goto
<1> QED BY <1>1, <1>2, <1>3, <1>4, <1>5 DEF Inv

LEMMA TrackKeepsInv ==
  ASSUME NEW s \in Signals, Inv, Track(s)
  PROVE  Inv'
<1>1. TypeOK'
  <2>1. PICK gain \in Gains : outcomes' = [outcomes EXCEPT ![s] = Tracked(@, gain, s \in old)]
    BY DEF Track
  <2>2. outcomes[s] \in Outcome /\ Banked(outcomes[s]) /\ outcomes[s].status \in {"OPEN", "TP1_HIT"}
    BY DEF Inv, TypeOK, Track, OutcomesSound, ActiveOutcome, Outcome
  <2>3. Tracked(outcomes[s], gain, s \in old) \in Outcome
    BY <2>2, TrackedIsSound
  <2>4. outcomes' \in [Signals -> Outcome]
    BY <2>1, <2>3 DEF Inv, TypeOK, Outcome
  <2> QED BY <2>4 DEF Inv, Track, TypeOK, Goto, Steps, Outcome
<1>2. OneClaim'
  <2>1. ActiveOutcome(s)
    BY DEF Inv, Track, OutcomesSound
  <2>2. \A t \in Signals : ActiveOutcome(t)' => ActiveOutcome(t)
    BY <2>1 DEF Inv, Track, TypeOK, ActiveOutcome
  <2> QED BY <2>2 DEF Inv, Track, OneClaim, Claims, Pending, ActiveTrade, TypeOK, Goto
<1>3. BookIsCurrent'
  <2>1. ActiveTrades' \subseteq ActiveTrades
    BY DEF Inv, Track, ActiveTrades, ActiveTrade, TypeOK
  <2>2. cycle'.pc = "execute" => cycle.pc = "execute" /\ cycle'.held = cycle.held
    BY DEF Inv, Track, TypeOK, Goto
  <2> QED BY <2>1, <2>2, BookStays
<1>4. NewAreClean'
  BY DEF Inv, Track, NewAreClean, TypeOK, Goto, NoOutcome
<1>5. OutcomesSound'
  <2>1. PICK gain \in Gains : outcomes' = [outcomes EXCEPT ![s] = Tracked(@, gain, s \in old)]
    BY DEF Track
  <2>2. outcomes[s] \in Outcome /\ Banked(outcomes[s]) /\ outcomes[s].status \in {"OPEN", "TP1_HIT"}
    BY DEF Inv, TypeOK, Track, OutcomesSound, ActiveOutcome, Outcome
  <2>3. Banked(Tracked(outcomes[s], gain, s \in old))
    BY <2>2, TrackedIsSound
  <2>4. \A t \in Signals : Banked(outcomes'[t])
    BY <2>1, <2>3 DEF Inv, TypeOK, OutcomesSound
  <2>5. \A t \in cycle'.left : outcomes'[t] = NoOutcome \/ ActiveOutcome(t)'
    BY <2>1 DEF Inv, Track, TypeOK, OutcomesSound, ActiveOutcome, Goto
  <2> QED BY <2>4, <2>5 DEF OutcomesSound
<1> QED BY <1>1, <1>2, <1>3, <1>4, <1>5 DEF Inv

LEMMA PassedKeepsInv ==
  ASSUME NEW s \in Signals, Inv, Passed(s)
  PROVE  Inv'
<1>1. TypeOK'
  BY DEF Inv, Passed, TypeOK, Goto, Steps
<1>2. OneClaim'
  BY DEF Inv, Passed, OneClaim, Claims, Pending, ActiveTrade, ActiveOutcome, TypeOK,
         Goto
<1>3. BookIsCurrent'
  <2>1. ActiveTrades' \subseteq ActiveTrades
    BY DEF Inv, Passed, ActiveTrades, ActiveTrade, TypeOK
  <2>2. cycle'.pc = "execute" => cycle.pc = "execute" /\ cycle'.held = cycle.held
    BY DEF Inv, Passed, TypeOK, Goto
  <2> QED BY <2>1, <2>2, BookStays
<1>4. NewAreClean'
  BY DEF Inv, Passed, NewAreClean, TypeOK, Goto
<1>5. OutcomesSound'
  BY DEF Inv, Passed, OutcomesSound, TypeOK, ActiveOutcome, Goto
<1> QED BY <1>1, <1>2, <1>3, <1>4, <1>5 DEF Inv

LEMMA AgeKeepsInv ==
  ASSUME NEW s \in Signals, Inv, Age(s)
  PROVE  Inv'
<1>1. TypeOK'
  BY DEF Inv, Age, TypeOK
<1>2. OneClaim'
  BY DEF Inv, Age, OneClaim, Claims, Pending, ActiveTrade, ActiveOutcome, TypeOK
<1>3. BookIsCurrent'
  <2>1. ActiveTrades' \subseteq ActiveTrades
    BY DEF Inv, Age, ActiveTrades, ActiveTrade, TypeOK
  <2>2. cycle'.pc = "execute" => cycle.pc = "execute" /\ cycle'.held = cycle.held
    BY DEF Inv, Age, TypeOK
  <2> QED BY <2>1, <2>2, BookStays
<1>4. NewAreClean'
  BY DEF Inv, Age, NewAreClean, TypeOK
<1>5. OutcomesSound'
  BY DEF Inv, Age, OutcomesSound, TypeOK, ActiveOutcome
<1> QED BY <1>1, <1>2, <1>3, <1>4, <1>5 DEF Inv

LEMMA SetControlKeepsInv ==
  ASSUME NEW live \in BOOLEAN, NEW mode \in Modes, Inv, SetControl(live, mode)
  PROVE  Inv'
<1>1. TypeOK'
  BY DEF Inv, SetControl, TypeOK, Modes
<1>2. OneClaim'
  BY DEF Inv, SetControl, OneClaim, Claims, Pending, ActiveTrade, ActiveOutcome, TypeOK
<1>3. BookIsCurrent'
  <2>1. ActiveTrades' \subseteq ActiveTrades
    BY DEF Inv, SetControl, ActiveTrades, ActiveTrade, TypeOK
  <2>2. cycle'.pc = "execute" => cycle.pc = "execute" /\ cycle'.held = cycle.held
    BY DEF Inv, SetControl, TypeOK
  <2> QED BY <2>1, <2>2, BookStays
<1>4. NewAreClean'
  BY DEF Inv, SetControl, NewAreClean, TypeOK
<1>5. OutcomesSound'
  BY DEF Inv, SetControl, OutcomesSound, TypeOK, ActiveOutcome
<1> QED BY <1>1, <1>2, <1>3, <1>4, <1>5 DEF Inv

LEMMA ResetKeepsInv ==
  ASSUME NEW clear \in BOOLEAN, Inv, Reset(clear)
  PROVE  Inv'
<1>1. TypeOK'
  BY DEF Inv, Reset, TypeOK, NoOutcome, EventStatuses, OutcomeStatuses, TradeStatuses
<1>2. OneClaim'
  BY DEF Inv, Reset, OneClaim, Claims, Pending, ActiveTrade, ActiveOutcome, TypeOK,
         NoOutcome
<1>3. BookIsCurrent'
  <2>1. ActiveTrades' \subseteq ActiveTrades
    BY DEF Inv, Reset, ActiveTrades, ActiveTrade, TypeOK
  <2>2. cycle'.pc = "execute" => cycle.pc = "execute" /\ cycle'.held = cycle.held
    BY DEF Inv, Reset, TypeOK
  <2> QED BY <2>1, <2>2, BookStays
<1>4. NewAreClean'
  BY DEF Inv, Reset, NewAreClean, TypeOK, NoOutcome
<1>5. OutcomesSound'
  BY DEF Inv, Reset, OutcomesSound, TypeOK, ActiveOutcome, NoOutcome, Banked
<1> QED BY <1>1, <1>2, <1>3, <1>4, <1>5 DEF Inv

LEMMA NextInv == Inv /\ [Next]_vars => Inv'
<1> SUFFICES ASSUME Inv, [Next]_vars PROVE Inv'
  OBVIOUS
<1>1. CASE Worker
  <2>1. CASE BeginCycle \/ Select \/ LabelEvents \/ CreateOutcomes \/ ReadBook
    BY <2>1, BeginCycleKeepsInv, SelectKeepsInv, LabelEventsKeepsInv,
       CreateOutcomesKeepsInv, ReadBookKeepsInv
  <2>2. CASE ReadTrades \/ PaperCycleDone \/ ReadOutcomes \/ Dispatch \/ CycleFails
    BY <2>2, ReadTradesKeepsInv, PaperCycleDoneKeepsInv, ReadOutcomesKeepsInv,
       DispatchKeepsInv, CycleFailsKeepsInv
  <2>3. ASSUME NEW s \in Signals,
               CreateEvent(s) \/ Accept(s) \/ Reject(s) \/ Manage(s) \/ Track(s) \/ Passed(s)
        PROVE  Inv'
    BY <2>3, CreateEventKeepsInv, AcceptKeepsInv, RejectKeepsInv, ManageKeepsInv,
       TrackKeepsInv, PassedKeepsInv
  <2> QED BY <1>1, <2>1, <2>2, <2>3 DEF Worker
<1>2. CASE Operator
  BY <1>2, SetControlKeepsInv, ResetKeepsInv DEF Operator
<1>3. CASE Crash \/ \E s \in Signals : Age(s)
  BY <1>3, CrashKeepsInv, AgeKeepsInv
<1>4. CASE UNCHANGED vars
  BY <1>4 DEF vars, Inv, TypeOK, OneClaim, Claims, Pending, ActiveTrade, ActiveOutcome,
              BookIsCurrent, ActiveTrades, NewAreClean, OutcomesSound
<1> QED BY <1>1, <1>2, <1>3, <1>4 DEF Next

\* The invariant holds in every reachable state.
THEOREM Invariant == Spec => []Inv
<1>1. Init => Inv
  BY InitInv
<1>2. Inv /\ [Next]_vars => Inv'
  BY NextInv
<1> QED BY <1>1, <1>2, PTL DEF Spec

\* The rows and the cycle of the worker are always well typed.
THEOREM TypeCorrect == Spec => []TypeOK
<1>1. Inv => TypeOK
  BY DEF Inv
<1> QED BY <1>1, Invariant, PTL

\* However mode switches, resets and crashes fall between the steps of a
\* cycle, a symbol has at most one signal with an active trade or outcome.
THEOREM SymbolsAreExclusive == Spec => []OneSignalPerSymbol
<1>1. Inv => OneSignalPerSymbol
  BY DEF Inv, OneClaim, Claims, OneSignalPerSymbol
<1> QED BY <1>1, Invariant, PTL

\* The rows never hold more active trades than the cap, though the worker
\* checks it against the book it keeps in memory.
THEOREM CapIsKept == Spec => []ConcurrentCapKept
<1>1. Inv => ConcurrentCapKept
  BY DEF Inv, BookIsCurrent, ActiveTrades, ConcurrentCapKept
<1> QED BY <1>1, Invariant, PTL

\* An outcome never resolves below what its first target banked.
THEOREM BankedIsKept == Spec => []BankedNeverLost
<1>1. Inv => BankedNeverLost
  <2> SUFFICES ASSUME Inv, NEW s \in Signals, ~ActiveOutcome(s)
               PROVE  outcomes[s].banked = 0 \/ outcomes[s].r >= outcomes[s].banked
    BY DEF BankedNeverLost
  <2> QED BY DEF Inv, OutcomesSound, Banked, ActiveOutcome
<1> QED BY <1>1, Invariant, PTL

\* Nothing but the operator's reset changes a resolved outcome.
THEOREM ResolvedOutcomesAreFinal == Spec => OutcomesFinal
<1> DEFINE Kept == \A s \in Signals :
      (outcomes[s] # NoOutcome /\ ~ActiveOutcome(s)) => outcomes'[s] \in {outcomes[s], NoOutcome}
<1>1. Inv /\ [Next]_vars => Kept
  <2> SUFFICES ASSUME Inv, [Next]_vars, NEW s \in Signals,
                      outcomes[s] # NoOutcome, ~ActiveOutcome(s)
               PROVE  outcomes'[s] \in {outcomes[s], NoOutcome}
    OBVIOUS
  <2>1. CASE UNCHANGED outcomes
    BY <2>1
  <2>2. CASE CreateOutcomes
    BY <2>2 DEF Inv, TypeOK, NewAreClean, CreateOutcomes
  <2>3. ASSUME NEW t \in Signals, Track(t)
        PROVE  outcomes'[s] \in {outcomes[s], NoOutcome}
    <3>1. t # s
      BY <2>3 DEF Inv, OutcomesSound, Track
    <3> QED BY <2>3, <3>1 DEF Track, Inv, TypeOK
  <2>4. ASSUME NEW clear \in BOOLEAN, Reset(clear)
        PROVE  outcomes'[s] \in {outcomes[s], NoOutcome}
    BY <2>4 DEF Reset
  <2>5. \/ UNCHANGED outcomes \/ CreateOutcomes \/ \E t \in Signals : Track(t)
        \/ \E clear \in BOOLEAN : Reset(clear)
    BY DEF Next, Worker, Operator, vars, BeginCycle, Select, LabelEvents, ReadBook, ReadTrades,
           PaperCycleDone, ReadOutcomes, Dispatch, CycleFails, CreateEvent, Accept, Reject,
           Manage, Passed, SetControl, Crash, Age
  <2> QED BY <2>1, <2>2, <2>3, <2>4, <2>5
<1>2. Kept => [\A s \in Signals :
      (outcomes[s] # NoOutcome /\ ~ActiveOutcome(s)) => outcomes'[s] \in {outcomes[s], NoOutcome}]_vars
  OBVIOUS
<1> QED BY <1>1, <1>2, Invariant, PTL DEF Spec, OutcomesFinal


-----------------------------------------------------------------------------
(* The control plane (ControlPlane).                                       *)

Control == INSTANCE ControlPlane

LEMMA OneIsGiven ==
  ASSUME NEW value, NEW default
  PROVE  Control!Or({value}, default) = value
<1>1. {value} # {} /\ (CHOOSE v \in {value} : TRUE) = value
  OBVIOUS
<1> QED BY <1>1 DEF Control!Or, Control!Missing

\* Fields written over others are what they were.
LEMMA WrittenOver ==
  ASSUME NEW next, NEW current, "isRunning" \in DOMAIN next
  PROVE  /\ Control!Over(next, current).isRunning = next.isRunning
         /\ "isRunning" \in DOMAIN Control!Over(next, current)
<1>1. "isRunning" \in DOMAIN next \cup DOMAIN current
  OBVIOUS
<1> QED BY <1>1 DEF Control!Over

\* A control, or a change of one, that stops.
Stops(fields) == "isRunning" \in DOMAIN fields /\ fields.isRunning = FALSE

\* A file written with a stop, whatever it held before, is one a worker reads,
\* and it tells the worker to stop.
LEMMA StopIsFiled ==
  ASSUME NEW file, NEW next, Stops(next), NEW default
  PROVE  Stops(Control!Or(Control!workerFile(Control!writeSystemControlFile(file, next)), default))
<1> DEFINE current == Control!readSystemControlFile(file).control
           merged == Control!Over(next, current)
           asked == [isRunning |-> {merged.isRunning}, activeMode |-> {merged.activeMode},
                     killSwitchActive |-> {merged.killSwitchActive},
                     allowedSymbols |-> {{Control!Entry(n) : n \in merged.allowedSymbols}}]
           saved == Control!normalize(asked)
           entries == {Control!Entry(n) : n \in saved.allowedSymbols}
           written == [isRunning |-> {saved.isRunning}, activeMode |-> {saved.activeMode},
                       killSwitchActive |-> {saved.killSwitchActive},
                       allowedSymbols |-> {entries}]
<1>1. merged.isRunning = FALSE
  BY WrittenOver DEF Stops
<1> HIDE DEF merged
<1>2. Control!writeSystemControlFile(file, next) = {written}
  <2>1. Control!Written(merged) = {asked} /\ Control!Written(saved) = {written}
    BY Zenon DEF Control!Written
  <2>2. Control!Or(Control!Written(merged), 0) = asked
    BY <2>1, OneIsGiven, Zenon
  <2> QED BY <2>1, <2>2, Zenon DEF Control!writeSystemControlFile, Control!Merged, merged
<1>3. saved.isRunning = FALSE
  <2>1. asked.isRunning = {FALSE} /\ {FALSE} # {TRUE}
    BY <1>1
  <2> HIDE DEF asked
  <2> QED BY <2>1 DEF Control!normalize
<1> HIDE DEF saved
<1>4. written.isRunning = {FALSE} /\ written.allowedSymbols = {entries}
  BY <1>3
<1>5. \A e \in entries : e.text
  BY DEF Control!Entry
<1> HIDE DEF entries, written
<1> DEFINE read(p) == [isRunning        |-> p.isRunning = {TRUE},
                       activeMode       |-> Control!Mode(p.activeMode),
                       killSwitchActive |-> p.killSwitchActive = {TRUE},
                       allowedSymbols   |-> Control!Names(Control!Or(p.allowedSymbols, {}))]
<1>6. Control!workerFile({written}) = {read(written)}
  <2>1. written.allowedSymbols # Control!Missing
    BY <1>4 DEF Control!Missing
  <2>2. Control!Or(written.allowedSymbols, {}) = entries
    BY <1>4, OneIsGiven
  <2>3. {q \in {written} : q.allowedSymbols # Control!Missing
                             /\ \A e \in Control!Or(q.allowedSymbols, {}) : e.text} = {written}
    BY <1>5, <2>1, <2>2
  <2>4. Control!workerFile({written}) = {read(p) : p \in {written}}
    BY <2>3, Zenon DEF Control!workerFile
  <2> HIDE DEF read
  <2> QED BY <2>4
<1>7. Stops(read(written))
  <2>1. {FALSE} # {TRUE}
    OBVIOUS
  <2> QED BY <1>4, <2>1 DEF Stops
<1> HIDE DEF read
<1> QED BY <1>2, <1>6, <1>7, OneIsGiven

\* What the worker does where it finds no file: it runs.
LEMMA WithoutAFileItRuns ==
  ASSUME NEW env
  PROVE  Control!FileOrDefault(Control!Missing, env).isRunning = TRUE
<1> DEFINE default == [isRunning |-> TRUE, activeMode |-> Control!toRuntimeMode(env),
                       killSwitchActive |-> FALSE,
                       allowedSymbols |-> {s.symbol : s \in Control!buildRuntimeSymbols(env)}]
<1>1. Control!FileOrDefault(Control!Missing, env) = Control!Or(Control!workerFile(Control!Missing), default)
  BY Zenon DEF Control!FileOrDefault
<1>2. default.isRunning = TRUE
  OBVIOUS
<1> HIDE DEF default
<1>3. Control!workerFile(Control!Missing) = Control!Missing
  BY DEF Control!workerFile, Control!Missing
<1>4. Control!Or(Control!Missing, default) = default
  BY Zenon DEF Control!Or
<1> QED BY <1>1, <1>2, <1>3, <1>4

\* A stop that was granted ends the worker's next cycle, whatever the row, the
\* files, the environment and the symbols are, exactly if the worker reaches
\* the database and the queue's store or runs on the host of the web: the row
\* and the web's file carry it (system/stop, writeSystemControlFile), and a
\* worker in a container of its own has no file and falls back to running
\* (readSystemControl, the catch of runWorkerCycle).
THEOREM GrantedStopsHold ==
  ASSUME NEW Rows, NEW Files, NEW Configs,
         NEW world \in [row : Rows, file : Files, config : Configs],
         NEW env, NEW infra, NEW oneHost \in BOOLEAN,
         Control!SetRunning(world, "up", FALSE).status = 200
  PROVE  LET after == Control!SetRunning(world, "up", FALSE).world
         IN  Control!skipReason(Control!workerControl(after, env, infra, oneHost), env) = "system_stopped"
                <=> infra = "up" \/ oneHost
<1> DEFINE stopped == Control!SetRunning(world, "up", FALSE)
           seen == [world EXCEPT !.row = {Control!ensureControlRow(world)}]
           update == [isRunning |-> FALSE]
           row == Control!Over(update, Control!ensureControlRow(seen))
           after == [seen EXCEPT !.row = {row}, !.file = Control!writeSystemControlFile(seen.file, row)]
           told == Control!workerControl(after, env, infra, oneHost)
<1>1. stopped.world = after
  <2>1. Control!Status(world, "up") = [status |-> 200, world |-> seen]
    BY DEF Control!Status, Control!Answer
  <2>2. Control!Update(seen, "up", update) = [status |-> 200, world |-> after]
    BY DEF Control!Update, Control!Answer
  <2> HIDE DEF seen, after, update
  <2>3. \/ stopped = [Control!Status(world, "up") EXCEPT !.status = 409]
        \/ stopped = Control!Update(seen, "up", update)
    BY <2>1 DEF Control!SetRunning, update
  <2>4. stopped.status = 200
    OBVIOUS
  <2> HIDE DEF stopped
  <2> QED BY <2>1, <2>2, <2>3, <2>4
<1>2. Stops(row)
  <2>1. "isRunning" \in DOMAIN update /\ update.isRunning = FALSE
    OBVIOUS
  <2> HIDE DEF update
  <2> QED BY <2>1, WrittenOver DEF Stops
<1> HIDE DEF row
<1>3. after.row = {row} /\ after.file = Control!writeSystemControlFile(seen.file, row)
  OBVIOUS
<1> HIDE DEF after, seen
<1>4. CASE infra = "up"
  <2>1. \E default : told = Control!Or(after.row, default)
    BY <1>4, Zenon DEF Control!workerControl
  <2>2. PICK default : told = Control!Or(after.row, default)
    BY <2>1
  <2>3. Control!Or({row}, default) = row
    BY OneIsGiven, Zenon
  <2>4. told.isRunning = FALSE
    BY <1>2, <1>3, <2>2, <2>3 DEF Stops
  <2> HIDE DEF stopped, told
  <2>5. Control!skipReason(told, env) = "system_stopped"
    BY <2>4 DEF Control!skipReason
  <2> QED BY <1>1, <1>4, <2>5 DEF stopped, told
<1>5. CASE infra # "up" /\ oneHost
  <2> DEFINE default == [isRunning |-> TRUE, activeMode |-> Control!toRuntimeMode(env),
                         killSwitchActive |-> FALSE,
                         allowedSymbols |-> {s.symbol : s \in Control!buildRuntimeSymbols(env)}]
  <2>1. told = Control!FileOrDefault(after.file, env)
    BY <1>5, Zenon DEF Control!workerControl, Control!OwnFile
  <2>2. Control!FileOrDefault(after.file, env) = Control!Or(Control!workerFile(after.file), default)
    BY Zenon DEF Control!FileOrDefault
  <2> HIDE DEF default
  <2>3. Stops(Control!Or(Control!workerFile(Control!writeSystemControlFile(seen.file, row)), default))
    BY <1>2, StopIsFiled
  <2>4. told.isRunning = FALSE
    BY <1>3, <2>1, <2>2, <2>3 DEF Stops
  <2> HIDE DEF stopped, told
  <2>5. Control!skipReason(told, env) = "system_stopped"
    BY <2>4 DEF Control!skipReason
  <2> QED BY <1>1, <1>5, <2>5 DEF stopped, told
<1>6. CASE infra # "up" /\ ~oneHost
  <2>1. told = Control!FileOrDefault(Control!Missing, env)
    BY <1>6, Zenon DEF Control!workerControl, Control!OwnFile
  <2> HIDE DEF stopped, told
  <2>2. told.isRunning = TRUE
    BY <2>1, WithoutAFileItRuns
  <2>3. Control!skipReason(told, env) # "system_stopped"
    BY <2>2 DEF Control!skipReason
  <2> QED BY <1>1, <1>6, <2>3 DEF stopped, told
<1> QED BY <1>4, <1>5, <1>6

-----------------------------------------------------------------------------
(* A message to Telegram (Telegram).                                       *)

Chat == INSTANCE Telegram

LEMMA LeastExists ==
  ASSUME NEW S \in SUBSET Nat, S # {}
  PROVE  \E i \in S : \A j \in S : i <= j
<1>1. PICK i \in S : \A j \in S : ~(<<j, i>> \in OpToRel(<, Nat))
  BY NatLessThanWellFounded, WFMin
<1>2. \A j \in S : j \in Nat /\ i \in Nat /\ ~(j < i)
  BY <1>1, Zenon DEF OpToRel
<1> QED BY <1>2

\* The formatted calls end with the first that succeeds, or with the retries.
LEMMA FormattedEnds ==
  ASSUME NEW retries \in Nat, NEW answers
  PROVE  LET k == Chat!LastFormatted(answers, retries)
         IN  /\ k \in 1..(retries + 1)
             /\ answers[k] = "ok" \/ k = retries + 1
             /\ \A l \in 1..(k - 1) : answers[l] # "ok"
<1> DEFINE Ends == {k \in 1..(retries + 1) : answers[k] = "ok" \/ k = retries + 1}
<1>1. Ends \in SUBSET Nat /\ retries + 1 \in Ends
  OBVIOUS
<1>2. PICK k \in Ends : \A j \in Ends : k <= j
  <2> HIDE DEF Ends
  <2> QED BY <1>1, LeastExists
<1>3. ASSUME NEW l \in 1..(k - 1)
      PROVE  answers[l] # "ok"
  BY <1>2
<1>4. \E i \in 1..(retries + 1) :
         /\ answers[i] = "ok" \/ i = retries + 1
         /\ \A l \in 1..(i - 1) : answers[l] # "ok"
  BY <1>2, <1>3
<1> QED BY <1>4 DEF Chat!LastFormatted

\* However Telegram answers, the chat shows a message once for every answer
\* that was lost on the way, and once more exactly if it is reported as sent:
\* nothing is repeated after a success, and what is reported as failed may
\* have been shown (sendSingleMessage).
THEOREM ShownOncePerLostAnswer ==
  ASSUME NEW retries \in Nat, NEW answers \in [1..(retries + 2) -> Chat!Answers]
  PROVE  LET calls == Chat!Calls(answers, retries)
             lost == {k \in 1..calls : answers[k] = "lost"}
             sent == Chat!SendMessage(answers, retries).status = "sent"
         IN  /\ calls \in 1..(retries + 2)
             /\ Chat!Copies(answers, retries) = Cardinality(lost) + (IF sent THEN 1 ELSE 0)
<1> DEFINE last == Chat!LastFormatted(answers, retries)
           plain == answers[last] = "cannot_parse"
           calls == Chat!Calls(answers, retries)
           lost == {k \in 1..calls : answers[k] = "lost"}
           shown == {k \in 1..calls : Chat!Delivers(answers[k])}
           sent == Chat!SendMessage(answers, retries).status = "sent"
<1>1. /\ last \in 1..(retries + 1)
      /\ answers[last] = "ok" \/ last = retries + 1
      /\ \A l \in 1..(last - 1) : answers[l] # "ok"
  BY FormattedEnds
<1>2. calls = IF plain THEN last + 1 ELSE last
  <2>1. last \in Nat
    BY <1>1
  <2> HIDE DEF last
  <2> QED BY <2>1 DEF Chat!Calls, Chat!GoesPlain, last
<1> HIDE DEF last, calls
<1>3. calls \in 1..(retries + 2)
  BY <1>1, <1>2
<1>4. sent <=> answers[calls] = "ok"
  <2>1. sent <=> Chat!SendMessage(answers, retries).status = "sent"
    OBVIOUS
  <2>2. Chat!SendMessage(answers, retries).status =
           IF answers[calls] = "ok" THEN "sent" ELSE "failed"
    BY DEF Chat!SendMessage, Chat!Result, calls
  <2> HIDE DEF sent
  <2> QED BY <2>1, <2>2
<1>5. ASSUME NEW k \in 1..calls, k # calls
      PROVE  answers[k] # "ok"
  <2>1. CASE plain
    BY <1>1, <1>2, <1>3, <1>5, <2>1
  <2>2. CASE ~plain
    BY <1>1, <1>2, <1>3, <1>5, <2>2
  <2> QED BY <2>1, <2>2
<1> HIDE DEF sent
<1>6. /\ sent => shown = lost \cup {calls} /\ calls \notin lost
      /\ ~sent => shown = lost
  <2>1. shown = {k \in 1..calls : answers[k] = "ok" \/ answers[k] = "lost"}
    BY DEF Chat!Delivers
  <2>2. calls \in 1..calls
    BY <1>3
  <2> QED BY <1>4, <1>5, <2>1, <2>2
<1>7. IsFiniteSet(lost) /\ Cardinality(lost) \in Nat
  <2>1. IsFiniteSet(1..calls)
    BY <1>3, FS_Interval
  <2>2. IsFiniteSet(lost)
    BY <2>1, FS_Subset
  <2> QED BY <2>2, FS_CardinalityType
<1> HIDE DEF lost
<1>8. Chat!Copies(answers, retries) = Cardinality(shown)
  BY Zenon DEF Chat!Copies, calls, shown, Chat!Cardinality, Cardinality
<1> HIDE DEF shown
<1>9. ASSUME sent
      PROVE  Chat!Copies(answers, retries) = Cardinality(lost) + 1
  <2>1. Cardinality(lost \cup {calls}) = Cardinality(lost) + 1
    BY <1>6, <1>7, <1>9, FS_AddElement
  <2> QED BY <1>6, <1>8, <1>9, <2>1
<1>10. ASSUME ~sent
       PROVE  Chat!Copies(answers, retries) = Cardinality(lost)
  BY <1>6, <1>7, <1>8, <1>10
<1>11. Chat!Copies(answers, retries) = Cardinality(lost) + (IF sent THEN 1 ELSE 0)
  BY <1>7, <1>9, <1>10
<1> QED BY <1>3, <1>11 DEF sent, lost, calls
=============================================================================
