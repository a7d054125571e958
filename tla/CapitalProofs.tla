---------------------------- MODULE CapitalProofs ----------------------------
(***************************************************************************)
(* What the paper account and the allocator guarantee of every signal,     *)
(* and what they do not: facts about the operators of PaperAccount and     *)
(* Allocation, for all amounts.                                            *)
(***************************************************************************)
EXTENDS PaperAccount, Allocation, WellFoundedInduction, TLAPS

\* The bounds that products and quotients of integers obey.
LEMMA QuotientTimes ==
    ASSUME NEW a \in Int, NEW b \in Nat \ {0}
    PROVE  /\ a \div b \in Int
           /\ (a \div b) * b <= a
           /\ a < (a \div b) * b + b
  OBVIOUS

LEMMA ProductGrows ==
    ASSUME NEW a \in Int, NEW b \in Int, NEW c \in Nat, a <= b
    PROVE  a * c <= b * c
  OBVIOUS

-----------------------------------------------------------------------------
(* The exits.                                                              *)

Engines == {"engine1", "engine2", "engine3", "engine4"}
Regimes == {"compressed", "normal", "expansion"}

\* The stop behind the entry, the targets ahead of it in order, the second at
\* least as far away as the stop.
InOrder(e) ==
    LET Ahead(price) == Direction(e.side) * (price - e.entry)
    IN  /\ Ahead(e.stop) < 0
        /\ 0 < Ahead(e.tp1)
        /\ Ahead(e.tp1) < Ahead(e.tp2)
        /\ -Ahead(e.stop) <= Ahead(e.tp2)

LEMMA RiskIsPositive ==
    ASSUME NEW entry \in Nat, entry >= 2000, NEW stop \in Int, NEW atr \in Nat,
           NEW engine \in Engines
    PROVE  /\ AdjustedRisk(entry, stop, atr, HoldProfile(engine)) \in Nat
           /\ AdjustedRisk(entry, stop, atr, HoldProfile(engine)) > 0
  <1> DEFINE hold == HoldProfile(engine)
             base == Greatest(Abs(entry - stop), (atr * 35) \div 100)
  <1>1. StopMult(hold) \in Nat
    BY DEF StopMult
  <1>2. base \in Nat
    BY DEF Greatest, Abs
  <1>3. (base * StopMult(hold)) \div 100 \in Nat
    <2>1. base * StopMult(hold) \in Nat
      BY <1>1, <1>2
    <2> HIDE DEF base, hold
    <2> QED  BY <2>1
  <1>4. entry \div 2000 \in Nat /\ entry \div 2000 > 0
    OBVIOUS
  <1> HIDE DEF base, hold
  <1>5. AdjustedRisk(entry, stop, atr, hold)
          = Greatest((base * StopMult(hold)) \div 100, entry \div 2000)
    BY DEF AdjustedRisk, base
  <1> QED  BY <1>3, <1>4, <1>5 DEF Greatest, hold

\* The exits the worker trades a signal with are a plan in order, on either
\* side, whatever stop and ATR the signal came with: what PaperTrade assumes
\* of its plans (buildDynamicExitPrices).
THEOREM ExitsInOrder ==
    ASSUME NEW entry \in Nat, entry >= 2000, NEW stop \in Int, NEW atr \in Nat,
           NEW engine \in Engines, NEW regime \in Regimes, NEW side \in {"LONG", "SHORT"}
    PROVE  InOrder(DynamicExits(side, entry, stop, atr, engine, regime))
  <1> DEFINE hold == HoldProfile(engine)
             risk == AdjustedRisk(entry, stop, atr, hold)
             e == DynamicExits(side, entry, stop, atr, engine, regime)
             one == Tp1R(hold)
             two == Tp2R(hold, regime)
  <1>1. risk \in Nat /\ risk > 0
    BY RiskIsPositive
  <1>2. one \in Nat /\ two \in Nat /\ 0 < one /\ one < two /\ 10 <= two
    BY DEF Tp1R, Tp2R, Tp2Base, HoldProfile, Engines, Regimes
  <1>3. /\ e.side = side /\ e.entry = 10 * entry
        /\ e.stop = 10 * entry + Direction(side) * (risk * (-10))
        /\ e.tp1  = 10 * entry + Direction(side) * (risk * one)
        /\ e.tp2  = 10 * entry + Direction(side) * (risk * two)
    BY DEF DynamicExits
  <1> HIDE DEF hold, risk, e, one, two
  <1>4. /\ risk * one \in Nat /\ risk * two \in Nat
        /\ 0 < risk * one /\ risk * one < risk * two /\ risk * 10 <= risk * two
    BY <1>1, <1>2
  <1>5. Direction(side) \in {1, -1}
    BY DEF Direction
  <1>6. InOrder(e)
    <2>1. /\ Direction(e.side) * (e.stop - e.entry) = -(risk * 10)
          /\ Direction(e.side) * (e.tp1 - e.entry) = risk * one
          /\ Direction(e.side) * (e.tp2 - e.entry) = risk * two
      BY <1>1, <1>3, <1>4, <1>5
    <2> QED  BY <2>1, <1>1, <1>4 DEF InOrder
  <1> QED  BY <1>6 DEF e

-----------------------------------------------------------------------------
(* The decision.                                                           *)

AccountType == [equity : Int, freeMargin : Int, openCount : Nat, maxConcurrent : Nat]
ProfileType == [equity : Nat, leverage : Nat \ {0}, riskPct : Nat, share : Nat, maxConcurrent : Nat]

\* What is ever aimed at fits the free margin at the leverage of the profile.
LEMMA TargetFits ==
    ASSUME NEW account \in AccountType, NEW profile \in ProfileType
    PROVE  /\ TargetNotional(account, profile) \in Int
           /\ TargetNotional(account, profile) <= account.freeMargin * profile.leverage
  <1>1. (account.equity * profile.share) \div 10000 \in Int
    <2>1. account.equity * profile.share \in Int
      BY DEF AccountType, ProfileType
    <2> QED  BY <2>1
  <1>2. CapitalBasis(account, profile) \in Int
    BY <1>1 DEF CapitalBasis, Least, Greatest, AccountType
  <1>3. /\ CapitalBasis(account, profile) * profile.leverage \in Int
        /\ account.freeMargin * profile.leverage \in Int
    BY <1>2 DEF AccountType, ProfileType
  <1> QED  BY <1>3 DEF TargetNotional, Least

\* The quantities the decision compares.
LEMMA QuantitiesBounded ==
    ASSUME NEW account \in AccountType, NEW profile \in ProfileType,
           NEW entry \in Nat \ {0}, NEW distance \in Nat \ {0}, NEW allowed \in Int,
           NEW target \in Int, NEW qty \in Int, 0 < qty,
           qty = Least(target \div entry, allowed \div distance)
    PROVE  /\ 0 < qty * entry /\ qty * entry <= target
           /\ 0 < qty * distance /\ qty * distance <= allowed
  <1>1. /\ target \div entry \in Int /\ allowed \div distance \in Int
        /\ (target \div entry) * entry <= target
        /\ (allowed \div distance) * distance <= allowed
    BY QuotientTimes
  <1>2. qty <= target \div entry /\ qty <= allowed \div distance
    BY <1>1 DEF Least
  <1>3. /\ qty * entry <= (target \div entry) * entry
        /\ qty * distance <= (allowed \div distance) * distance
    BY <1>1, <1>2, ProductGrows
  <1>4. /\ qty * entry \in Int /\ 0 < qty * entry
        /\ qty * distance \in Int /\ 0 < qty * distance
    OBVIOUS
  <1> QED
    <2>1. /\ (target \div entry) * entry \in Int /\ (allowed \div distance) * distance \in Int
      BY <1>1
    <2> QED  BY <1>1, <1>3, <1>4, <2>1

LEMMA AllowedRiskType ==
    ASSUME NEW account \in AccountType, NEW profile \in ProfileType, NEW amount \in Int
    PROVE  AllowedRisk(account, profile, amount) \in Int
  <1>1. account.equity * profile.riskPct \in Int
    BY DEF AccountType, ProfileType
  <1> QED  BY <1>1 DEF AllowedRisk

\* The whole free margin is asked for, and rounding takes it past.
AllAsked(account, profile, rounding) ==
    /\ rounding = 1
    /\ TargetNotional(account, profile) = account.freeMargin * profile.leverage

\* What a decision promises of what it accepts.
Fits(d, account, profile, entry, stop, amount) ==
    d.accepted =>
        /\ d.qty \in Nat \ {0}
        /\ 0 < d.notional /\ d.notional <= account.freeMargin * profile.leverage
        /\ 0 < d.risk /\ d.risk <= AllowedRisk(account, profile, amount)
        /\ d.risk = d.qty * Abs(entry - stop) /\ d.notional = d.qty * entry
        /\ DOMAIN d = {"accepted", "reason", "qty", "notional", "risk"}

\* What is computed back from the quantity exceeds the room only by rounding,
\* and only where the target is all of it.
LEMMA BackFits ==
    ASSUME NEW target \in Int, NEW room \in Int, target <= room, NEW entry \in Nat \ {0},
           NEW byRisk \in Int, NEW rounding \in Roundings,
           (IF target \div entry <= byRisk THEN target
            ELSE Least(target \div entry, byRisk) * entry) + rounding > room
    PROVE  rounding = 1 /\ target = room
  <1> DEFINE byTarget == target \div entry
             qty == Least(byTarget, byRisk)
  <1>1. byTarget \in Int /\ byTarget * entry <= target
    BY QuotientTimes
  <1>2. rounding \in {0, 1}
    BY DEF Roundings
  <1>3. CASE byTarget <= byRisk
    BY <1>2, <1>3
  <1>4. CASE ~(byTarget <= byRisk)
    <2>1. qty \in Int /\ qty + 1 <= byTarget
      BY <1>1, <1>4 DEF Least
    <2> HIDE DEF qty, byTarget
    <2>2. (qty + 1) * entry <= byTarget * entry
      BY <1>1, <2>1, ProductGrows
    <2>3. (qty + 1) * entry = qty * entry + entry /\ qty * entry \in Int /\ byTarget * entry \in Int
      BY <1>1, <2>1
    <2>4. qty * entry + rounding <= target
      BY <1>1, <1>2, <2>2, <2>3
    <2> QED  BY <1>2, <1>4, <2>3, <2>4 DEF qty, byTarget
  <1> QED  BY <1>3, <1>4

\* What the decision accepts needs no more than the free margin and risks no
\* more than it was allowed.  It refuses for want of margin only where it asks
\* for the whole free margin and rounding takes it past, and it never loses a
\* quantity to anything but the risk (computePaperExecutionDecision).
LEMMA DecisionsFit ==
    ASSUME NEW account \in AccountType, NEW profile \in ProfileType, NEW entry \in Int,
           NEW stop \in Int, NEW taken \in BOOLEAN, NEW amount \in Int,
           NEW rounding \in Roundings
    PROVE  LET d == Decision(account, profile, entry, stop, taken, amount, rounding)
           IN  /\ d.reason # "blocked_zero_or_negative_qty"
               /\ d.reason = "blocked_margin_unavailable" => AllAsked(account, profile, rounding)
               /\ Fits(d, account, profile, entry, stop, amount)
  <1> DEFINE d == Decision(account, profile, entry, stop, taken, amount, rounding)
             distance == Abs(entry - stop)
             target == TargetNotional(account, profile)
             allowed == AllowedRisk(account, profile, amount)
             room == account.freeMargin * profile.leverage
             qty == Least(target \div entry, allowed \div distance)
             back == (IF target \div entry <= allowed \div distance THEN target
                      ELSE qty * entry) + rounding
  <1>1. distance \in Nat
    BY DEF Abs
  <1>2. target \in Int /\ target <= room
    BY TargetFits
  <1>3. allowed \in Int
    BY AllowedRiskType
  <1>4. room \in Int
    BY DEF AccountType, ProfileType
  <1>5. ASSUME entry > 0, distance > 0
        PROVE  /\ qty \in Int /\ target \div entry \in Int /\ allowed \div distance \in Int
               /\ qty > 0 => /\ 0 < qty * entry /\ qty * entry <= room
                             /\ 0 < qty * distance /\ qty * distance <= allowed
    <2>1. target \div entry \in Int /\ allowed \div distance \in Int
      BY <1>1, <1>2, <1>3, <1>5, QuotientTimes
    <2>2. qty \in Int
      BY <2>1 DEF Least
    <2>3. ASSUME qty > 0
          PROVE  /\ 0 < qty * entry /\ qty * entry <= target
                 /\ 0 < qty * distance /\ qty * distance <= allowed
      <3>1. entry \in Nat \ {0} /\ distance \in Nat \ {0}
        BY <1>1, <1>5
      <3> HIDE DEF distance, target, allowed
      <3> QED  BY <1>2, <1>3, <2>2, <2>3, <3>1, QuantitiesBounded
    <2>4. qty * entry \in Int
      BY <2>2
    <2> HIDE DEF qty, distance, target, allowed, room
    <2> QED  BY <1>2, <1>4, <2>1, <2>2, <2>3, <2>4
  <1>6. d = IF taken THEN Rejected("blocked_active_symbol_open_position")
            ELSE IF account.openCount >= account.maxConcurrent
              THEN Rejected("blocked_max_concurrent_positions")
            ELSE IF entry <= 0 THEN Rejected("blocked_invalid_entry_price")
            ELSE IF profile.riskPct <= 0 \/ account.equity <= 0 THEN Rejected("blocked_risk_invalid")
            ELSE IF distance <= 0 THEN Rejected("blocked_invalid_stop_distance")
            ELSE IF target \div entry <= 0 THEN Rejected("blocked_notional_cap")
            ELSE IF qty <= 0
              THEN Rejected(IF allowed \div distance <= 0 THEN "blocked_risk_clamped_to_zero"
                            ELSE "blocked_zero_or_negative_qty")
            ELSE IF qty * entry <= 0 \/ back > room
              THEN Rejected("blocked_margin_unavailable")
            ELSE [accepted |-> TRUE, reason |-> "none", qty |-> qty, notional |-> qty * entry,
                  risk |-> qty * distance]
    BY DEF Decision
  <1>7. ASSUME entry > 0, distance > 0, ~(target \div entry <= 0), qty <= 0
        PROVE  allowed \div distance <= 0
    BY <1>5, <1>7 DEF Least
  <1>10. ASSUME entry > 0, distance > 0, back > room
         PROVE  AllAsked(account, profile, rounding)
    <2>1. entry \in Nat \ {0} /\ allowed \div distance \in Int
      BY <1>5, <1>10
    <2> HIDE DEF distance, target, allowed, room
    <2>2. rounding = 1 /\ target = room
      BY <1>2, <1>4, <1>10, <2>1, BackFits
    <2> QED  BY <2>2 DEF AllAsked, target, room
  <1> HIDE DEF d, distance, target, allowed, room, qty, back
  <1>8. CASE entry > 0 /\ distance > 0 /\ qty > 0
    <2>1. /\ qty \in Int /\ 0 < qty * entry /\ qty * entry <= room
          /\ 0 < qty * distance /\ qty * distance <= allowed
      BY <1>5, <1>8
    <2>2. qty * entry \in Int
      BY <2>1
    <2>3. ~(qty * entry <= 0)
      BY <2>1, <2>2
    <2>4. \/ /\ d.accepted = FALSE /\ d.reason # "blocked_zero_or_negative_qty"
             /\ d.reason = "blocked_margin_unavailable" => back > room
          \/ d = [accepted |-> TRUE, reason |-> "none", qty |-> qty, notional |-> qty * entry,
                  risk |-> qty * distance]
      BY <1>6, <1>8, <2>1, <2>3 DEF Rejected
    <2>5. CASE /\ d.accepted = FALSE /\ d.reason # "blocked_zero_or_negative_qty"
               /\ d.reason = "blocked_margin_unavailable" => back > room
      BY <1>8, <1>10, <2>5 DEF d, Fits
    <2>6. CASE d = [accepted |-> TRUE, reason |-> "none", qty |-> qty, notional |-> qty * entry,
                    risk |-> qty * distance]
      <3>1. /\ d.accepted /\ d.reason = "none" /\ d.qty = qty /\ d.notional = qty * entry
            /\ d.risk = qty * distance
            /\ DOMAIN d = {"accepted", "reason", "qty", "notional", "risk"}
        BY <2>6
      <3>2. qty \in Nat \ {0}
        BY <1>8, <2>1
      <3> QED  BY <2>1, <3>1, <3>2 DEF d, distance, allowed, room, Fits
    <2> QED  BY <2>4, <2>5, <2>6
  <1>9. CASE ~(entry > 0 /\ distance > 0 /\ qty > 0)
    <2>1. /\ d.accepted = FALSE
          /\ d.reason \notin {"blocked_margin_unavailable", "blocked_zero_or_negative_qty"}
      <3>1. CASE entry <= 0 \/ distance <= 0
        BY <1>6, <3>1 DEF Rejected
      <3>2. CASE entry > 0 /\ distance > 0 /\ ~(target \div entry <= 0)
        <4>1. qty <= 0
          BY <1>5, <1>9, <3>2
        <4>2. allowed \div distance <= 0
          BY <1>7, <3>2, <4>1
        <4> QED  BY <1>6, <3>2, <4>1, <4>2 DEF Rejected
      <3>3. CASE entry > 0 /\ distance > 0 /\ target \div entry <= 0
        BY <1>6, <3>3 DEF Rejected
      <3>4. (entry <= 0 \/ distance <= 0) \/ (entry > 0 /\ distance > 0)
        BY <1>1
      <3> QED  BY <3>1, <3>2, <3>3, <3>4, Zenon
    <2> QED  BY <2>1 DEF d, Fits
  <1> QED  BY <1>8, <1>9

-----------------------------------------------------------------------------
(* The admission of a signal.                                              *)

SignalType == [id : STRING, symbol : STRING, marketType : {"crypto", "forex"},
               side : {"LONG", "SHORT"}, entry : Int, stop : Int, aPlus : BOOLEAN,
               assertedAPlus : BOOLEAN, hundredthLot : Nat \ {0}]

\* In personal mode a crypto signal is only taken for as much risk as the rows
\* that are open leave of one and a half percent of the equity: the open risk
\* never passes it by an admission (index.ts, allowedOpenRiskAmount).
THEOREM OpenRiskCapped ==
    ASSUME NEW account \in AccountType, NEW profile \in ProfileType, NEW openRisk \in Int,
           NEW taken \in BOOLEAN, NEW s \in SignalType, s.marketType = "crypto",
           NEW rounding \in Roundings
    PROVE  LET d == Admission("personal", account, openRisk, profile, taken, s, rounding)
           IN  d.accepted => openRisk + d.risk <= PersonalRiskCap(account)
  <1> DEFINE amount == AllowedOpenRisk("personal", account, openRisk)
             d == Decision(account, profile, s.entry, s.stop, taken, amount, rounding)
  <1>1. PersonalRiskCap(account) \in Int
    BY DEF PersonalRiskCap, AccountType
  <1>2. amount \in Nat /\ amount = Greatest(PersonalRiskCap(account) - openRisk, 0)
    BY <1>1 DEF AllowedOpenRisk, Greatest
  <1>3. s.entry \in Int /\ s.stop \in Int
    BY DEF SignalType
  <1>4. AllowedRisk(account, profile, amount) = amount
    BY <1>2 DEF AllowedRisk, NotGiven
  <1>5. Admission("personal", account, openRisk, profile, taken, s, rounding) = d
    BY DEF Admission
  <1> HIDE DEF amount, d
  <1>6. ASSUME d.accepted
        PROVE  openRisk + d.risk <= PersonalRiskCap(account)
    <2>1. /\ 0 < d.risk /\ d.risk <= amount
          /\ d.qty \in Nat \ {0} /\ d.risk = d.qty * Abs(s.entry - s.stop)
      <3>1. amount \in Int
        BY <1>2
      <3>2. Fits(d, account, profile, s.entry, s.stop, amount)
        BY <1>3, <3>1, DecisionsFit DEF d
      <3> QED  BY <1>4, <1>6, <3>2 DEF Fits
    <2>2. d.risk \in Int
      <3>1. Abs(s.entry - s.stop) \in Int
        BY <1>3 DEF Abs
      <3> QED  BY <2>1, <3>1
    <2> QED  BY <1>1, <1>2, <2>1, <2>2 DEF Greatest
  <1> QED  BY <1>5, <1>6

\* The share of the equity a profile of the personal mode risks per trade is
\* never looked at: with any other the admission is the same (index.ts passes
\* allowedOpenRiskAmount, which replaces it).
THEOREM RiskPerTradeIgnored ==
    ASSUME NEW account \in AccountType, NEW profile \in ProfileType, profile.riskPct > 0,
           NEW other \in Nat \ {0}, NEW openRisk \in Int, NEW taken \in BOOLEAN,
           NEW s \in SignalType, NEW rounding \in Roundings
    PROVE  Admission("personal", account, openRisk, [profile EXCEPT !.riskPct = other], taken, s, rounding)
             = Admission("personal", account, openRisk, profile, taken, s, rounding)
  <1> DEFINE amount == AllowedOpenRisk("personal", account, openRisk)
             changed == [profile EXCEPT !.riskPct = other]
  <1>1. PersonalRiskCap(account) \in Int
    BY DEF PersonalRiskCap, AccountType
  <1>2. amount # NotGiven
    BY <1>1 DEF AllowedOpenRisk, Greatest, NotGiven
  <1>3. /\ changed.leverage = profile.leverage /\ changed.share = profile.share
        /\ ~(changed.riskPct <= 0) /\ ~(profile.riskPct <= 0)
    BY DEF ProfileType
  <1> HIDE DEF amount, changed
  <1>4. AllowedRisk(account, changed, amount) = AllowedRisk(account, profile, amount)
    BY <1>2 DEF AllowedRisk
  <1>5. TargetNotional(account, changed) = TargetNotional(account, profile)
    BY <1>3 DEF TargetNotional, CapitalBasis
  <1>6. Decision(account, changed, s.entry, s.stop, taken, amount, rounding)
          = Decision(account, profile, s.entry, s.stop, taken, amount, rounding)
    BY <1>3, <1>4, <1>5, Zenon DEF Decision
  <1> QED  BY <1>6 DEF Admission, amount, changed

\* A snapped forex quantity is no more than the decision computed, unless it
\* is the smallest lot, which nothing has checked.
THEOREM SnappingOnlyAddsTheSmallestLot ==
    ASSUME NEW qty \in Nat, NEW lot \in Nat \ {0}
    PROVE  Snapped(qty, lot) <= qty \/ (Snapped(qty, lot) = lot /\ qty < lot)
  <1>1. (qty \div lot) * lot <= qty /\ qty \div lot \in Int /\ qty < (qty \div lot) * lot + lot
    BY QuotientTimes
  <1>2. CASE qty \div lot >= 1
    BY <1>1, <1>2 DEF Snapped, Greatest
  <1>3. CASE qty \div lot < 1
    <2>1. qty \div lot <= 0
      BY <1>1, <1>3
    <2>2. (qty \div lot) * lot <= 0
      BY <1>1, <2>1
    <2>3. (qty \div lot) * lot \in Int
      BY <1>1
    <2>4. qty < lot
      BY <1>1, <2>2, <2>3
    <2>5. Snapped(qty, lot) = lot
      BY <1>1, <1>3 DEF Snapped, Greatest
    <2> QED  BY <2>4, <2>5
  <1> QED  BY <1>1, <1>2, <1>3

\* What the worker takes of a signal, in any mode, needs no more than the free
\* margin and risks no more than the account allows, but for the smallest
\* forex lot, which is taken unchecked.  It refuses for want of margin only
\* what asks for the whole free margin and is rounded past it; the reason for
\* a quantity of zero is never given (runWorkerCycle, lines 4266 to 4308).
THEOREM AdmissionsFit ==
    ASSUME NEW account \in AccountType, NEW profile \in ProfileType, NEW openRisk \in Int,
           NEW mode, NEW taken \in BOOLEAN, NEW s \in SignalType, NEW rounding \in Roundings
    PROVE  LET d == Admission(mode, account, openRisk, profile, taken, s, rounding)
               amount == AllowedOpenRisk(mode, account, openRisk)
           IN  /\ d.accepted =>
                     \/ /\ d.notional <= account.freeMargin * profile.leverage
                        /\ d.risk <= AllowedRisk(account, profile, amount)
                     \/ s.marketType = "forex" /\ d.qty = s.hundredthLot
               /\ d.reason = "blocked_margin_unavailable" => AllAsked(account, profile, rounding)
               /\ d.reason # "blocked_zero_or_negative_qty"
  <1> DEFINE amount == AllowedOpenRisk(mode, account, openRisk)
             d == Decision(account, profile, s.entry, s.stop, taken, amount, rounding)
             a == Admission(mode, account, openRisk, profile, taken, s, rounding)
             lot == s.hundredthLot
             distance == Abs(s.entry - s.stop)
             room == account.freeMargin * profile.leverage
             allowed == AllowedRisk(account, profile, amount)
  <1>1. PersonalRiskCap(account) \in Int
    BY DEF PersonalRiskCap, AccountType
  <1>2. amount \in Int
    BY <1>1 DEF AllowedOpenRisk, Greatest, NotGiven
  <1>3. s.entry \in Int /\ s.stop \in Int /\ lot \in Nat \ {0}
    BY DEF SignalType
  <1>4. /\ distance \in Nat /\ room \in Int
    BY <1>3 DEF Abs, AccountType, ProfileType
  <1> HIDE DEF amount
  <1>5. allowed \in Int
    BY <1>2, AllowedRiskType
  <1>6. /\ d.reason # "blocked_zero_or_negative_qty"
        /\ d.reason = "blocked_margin_unavailable" => AllAsked(account, profile, rounding)
        /\ Fits(d, account, profile, s.entry, s.stop, amount)
    BY <1>2, <1>3, DecisionsFit
  <1>7. \/ a = Rejected("blocked_unsupported_sizing_model")
        \/ a = d
        \/ /\ d.accepted /\ s.marketType = "forex"
           /\ a = SnappedDecision(d, s.entry, s.stop, lot)
    BY Zenon DEF Admission, amount
  <1>8. Fits(d, account, profile, s.entry, s.stop, amount) =>
          (d.accepted => /\ d.qty \in Nat \ {0} /\ 0 < d.notional
                         /\ d.notional <= room /\ d.risk <= allowed
                         /\ d.risk = d.qty * distance /\ d.notional = d.qty * s.entry
                         /\ DOMAIN d = {"accepted", "reason", "qty", "notional", "risk"})
    BY Zenon DEF Fits
  <1> HIDE DEF d, a, lot, distance, room, allowed
  <1> DEFINE Claim == /\ a.accepted => \/ a.notional <= room /\ a.risk <= allowed
                                       \/ s.marketType = "forex" /\ a.qty = lot
                      /\ a.reason = "blocked_margin_unavailable" => AllAsked(account, profile, rounding)
                      /\ a.reason # "blocked_zero_or_negative_qty"
  <1>9. ASSUME a = Rejected("blocked_unsupported_sizing_model")
        PROVE  Claim
    BY <1>9 DEF Rejected
  <1>10. ASSUME a = d
         PROVE  Claim
    BY <1>6, <1>8, <1>10
  <1>11. ASSUME d.accepted, s.marketType = "forex", a = SnappedDecision(d, s.entry, s.stop, lot)
         PROVE  Claim
    <2> DEFINE qty == Snapped(d.qty, lot)
    <2>1. a = [d EXCEPT !.qty = qty, !.notional = qty * s.entry, !.risk = qty * distance]
      BY <1>11 DEF SnappedDecision, distance
    <2>2. /\ d.qty \in Nat \ {0} /\ 0 < d.notional /\ d.notional <= room /\ d.risk <= allowed
          /\ d.risk = d.qty * distance /\ d.notional = d.qty * s.entry
          /\ DOMAIN d = {"accepted", "reason", "qty", "notional", "risk"}
      BY <1>6, <1>8, <1>11
    <2> HIDE DEF qty
    <2>3. a.reason = d.reason /\ a.qty = qty /\ a.notional = qty * s.entry /\ a.risk = qty * distance
      BY <2>1, <2>2
    <2>4. qty \in Int /\ (qty <= d.qty \/ qty = lot)
      <3>1. d.qty \div lot \in Int
        BY <1>3, <2>2, QuotientTimes
      <3>2. qty \in Int
        BY <1>3, <3>1 DEF qty, Snapped, Greatest
      <3>3. Snapped(d.qty, lot) <= d.qty \/ Snapped(d.qty, lot) = lot
        BY <1>3, <2>2, SnappingOnlyAddsTheSmallestLot
      <3> QED  BY <3>2, <3>3 DEF qty
    <2>5. CASE qty <= d.qty
      <3>1. s.entry \in Nat
        <4>1. d.qty \in Int /\ d.qty > 0 /\ d.qty * s.entry \in Int /\ 0 < d.qty * s.entry
          BY <1>3, <2>2
        <4>2. ASSUME s.entry <= 0
              PROVE  s.entry * d.qty <= 0 * d.qty
          BY <1>3, <2>2, <4>2, ProductGrows
        <4> QED  BY <1>3, <4>1, <4>2
      <3>2. qty * s.entry <= d.qty * s.entry /\ qty * distance <= d.qty * distance
        BY <1>4, <2>2, <2>4, <2>5, <3>1, ProductGrows
      <3>3. /\ qty * s.entry \in Int /\ d.qty * s.entry \in Int
            /\ qty * distance \in Int /\ d.qty * distance \in Int
        BY <1>3, <1>4, <2>2, <2>4
      <3>4. a.notional <= room /\ a.risk <= allowed
        BY <1>4, <1>5, <2>2, <2>3, <3>2, <3>3
      <3> QED  BY <1>6, <2>3, <3>4
    <2> QED  BY <1>6, <1>11, <2>3, <2>4, <2>5
  <1>12. Claim
    BY <1>7, <1>9, <1>10, <1>11
  <1> QED  BY <1>12 DEF a, room, allowed, lot, amount

-----------------------------------------------------------------------------
(* Closing.                                                                *)

PositionType == [id : STRING, symbol : STRING, side : {"LONG", "SHORT"}, entry : Nat, qty : Nat,
                 notional : Int, leverage : Nat, riskAtEntry : Int,
                 status : {"open", "partially_closed", "closed"}, unrealized : Int, realized : Int]

LEMMA PnlAdds ==
    ASSUME NEW side, NEW entry \in Int, NEW price \in Int, NEW q \in Int, NEW r \in Int
    PROVE  /\ Pnl(side, entry, price, q) \in Int
           /\ Pnl(side, entry, price, q) + Pnl(side, entry, price, r) = Pnl(side, entry, price, q + r)
  BY DEF Pnl, Direction

\* A partial close takes what it realised out of the account, for as long as
\* the rest is open: the equity counts the realised profit of closed rows only
\* (buildPaperAccountSnapshot).
THEOREM PartialLeavesTheEquity ==
    ASSUME NEW p \in PositionType, p.status = "open", NEW price \in Nat, NEW qty \in Int,
           SafeCloseQty(p, qty) < p.qty
    PROVE  Contribution(PartlyClosed(p, price, qty))
             = Contribution(Marked(p, price)) - Pnl(p.side, p.entry, price, SafeCloseQty(p, qty))
  <1> DEFINE sold == SafeCloseQty(p, qty)
             half == PartlyClosed(p, price, qty)
  <1>1. sold \in Nat /\ p.qty \in Nat /\ p.entry \in Int
    BY DEF SafeCloseQty, Least, Greatest, PositionType
  <1>2. ~(p.qty - sold <= 0) /\ p.qty - sold \in Int
    BY <1>1
  <1>3. half = [p EXCEPT !.status = "partially_closed", !.qty = p.qty - sold,
                  !.notional = (p.qty - sold) * p.entry,
                  !.realized = @ + Pnl(p.side, p.entry, price, sold),
                  !.unrealized = Pnl(p.side, p.entry, price, p.qty - sold)]
    BY <1>2 DEF PartlyClosed
  <1> HIDE DEF sold, half
  <1>4. Contribution(half) = Pnl(p.side, p.entry, price, p.qty - sold)
    <2>1. half.status = "partially_closed" /\ half.unrealized = Pnl(p.side, p.entry, price, p.qty - sold)
      BY <1>3 DEF PositionType
    <2> QED  BY <2>1 DEF Contribution, IsOpen
  <1>5. Contribution(Marked(p, price)) = Pnl(p.side, p.entry, price, p.qty)
    BY DEF Contribution, Marked, IsOpen, PositionType, NotGiven
  <1>6. /\ Pnl(p.side, p.entry, price, p.qty - sold) \in Int
        /\ Pnl(p.side, p.entry, price, sold) \in Int
        /\ Pnl(p.side, p.entry, price, p.qty - sold) + Pnl(p.side, p.entry, price, sold)
              = Pnl(p.side, p.entry, price, p.qty)
    <2>1. (p.qty - sold) + sold = p.qty
      BY <1>1
    <2> QED  BY <1>1, <1>2, <2>1, PnlAdds
  <1> QED  BY <1>4, <1>5, <1>6 DEF half, sold

-----------------------------------------------------------------------------
(* The allocator.                                                          *)

SetupType == [symbol : STRING, marketType : {"crypto", "forex"}, score : Nat, confidence : Nat,
              grade : {"A+", "A", "B"}, entry : Nat, stop : Nat]

ParametersType == [mode : LiveModes, equity : Nat, openRisk : Int, available : Nat, cap : Nat,
                   symbolRisk : [STRING -> Int], multiplier : Int, locks : SUBSET Locks]

LEMMA ShareBounded ==
    ASSUME NEW requested \in Int, NEW room \in Nat, NEW remaining \in Nat
    PROVE  /\ Share(requested, room, remaining) \in Nat
           /\ Share(requested, room, remaining) <= remaining
           /\ Share(requested, room, remaining) > 0 =>
                Share(requested, room, remaining) <= room
  BY DEF Share, clamp, AtMost, AtLeast

LEMMA RoomType ==
    ASSUME NEW cap \in Nat, NEW risk \in Int
    PROVE  SymbolRoom(cap, risk) \in Nat /\ SymbolRoom(cap, risk) <= cap
  BY DEF SymbolRoom, AtLeast

\* A decision of the allocator takes no more than is left of the budget and of
\* the cap of its symbol, and what it does not take is left for the signals
\* ranked after it (allocatePortfolioCapital).
THEOREM DecisionsKeepTheBudget ==
    ASSUME NEW p \in ParametersType, NEW s \in SetupType, NEW requested \in Int,
           NEW remaining \in Nat
    PROVE  LET d == Decide(p, s, requested, remaining)
           IN  /\ d.share \in Nat
               /\ RemainingAfter(d, remaining) \in Nat
               /\ d.share + RemainingAfter(d, remaining) = remaining
               /\ d.share <= p.cap
               /\ d.share > 0 <=> d.blockedReason = "none"
  <1> DEFINE room == SymbolRoom(p.cap, p.symbolRisk[s.symbol])
             share == Share(requested, room, remaining)
             intent == Intent(p.mode, s, p.equity, AtLeast(p.openRisk, 0) + (p.available - remaining),
                              share, Governance[p.mode].openRiskCap, p.locks)
             d == Decide(p, s, requested, remaining)
  <1>1. room \in Nat /\ room <= p.cap /\ p.cap \in Nat
    <2>1. p.symbolRisk[s.symbol] \in Int /\ p.cap \in Nat
      BY DEF ParametersType, SetupType
    <2> QED  BY <2>1, RoomType
  <1>2. share \in Nat /\ share <= remaining /\ (share > 0 => share <= room)
    BY <1>1, ShareBounded
  <1>3. intent.allowed <=> intent.blockedReason = "none"
    BY DEF Intent
  <1>4. d = IF share <= 0
            THEN Unallocated(s, IF room <= 0 THEN "per_symbol_risk_cap_exceeded"
                                ELSE "portfolio_risk_budget_exhausted", NoIntent)
            ELSE IF ~intent.allowed THEN Unallocated(s, intent.blockedReason, intent)
            ELSE [signal |-> s, share |-> share, blockedReason |-> "none", intent |-> intent]
    BY DEF Decide
  <1> HIDE DEF room, share, intent, d
  <1>5. \/ d.share = 0 /\ d.blockedReason # "none"
        \/ d.share = share /\ share > 0 /\ d.blockedReason = "none"
    <2>1. CASE share <= 0
      BY <1>4, <2>1 DEF Unallocated
    <2>2. CASE ~(share <= 0) /\ ~intent.allowed
      <3>1. d = Unallocated(s, intent.blockedReason, intent)
        BY <1>4, <2>2
      <3>2. d.share = 0 /\ d.blockedReason = intent.blockedReason
        BY <3>1 DEF Unallocated
      <3> QED  BY <1>3, <2>2, <3>2
    <2>3. CASE ~(share <= 0) /\ intent.allowed
      BY <1>2, <1>4, <2>3
    <2> QED  BY <2>1, <2>2, <2>3
  <1>6. d.share \in Nat /\ d.share <= remaining /\ d.share <= p.cap
    BY <1>1, <1>2, <1>5
  <1>7. RemainingAfter(d, remaining) = remaining - d.share
    BY <1>6 DEF RemainingAfter, AtLeast
  <1>8. d.share > 0 <=> d.blockedReason = "none"
    BY <1>2, <1>5
  <1> QED  BY <1>6, <1>7, <1>8 DEF d

-----------------------------------------------------------------------------
(* The allocation of a whole cycle.  The reduce and the map of the code     *)
(* are functions that recur on the number of signals seen; what they        *)
(* compute is proved by induction over a set of numbers.                    *)

LEMMA SetInduction ==
    ASSUME NEW S, 0 \in S, \A k \in Nat : k \in S => k + 1 \in S
    PROVE  \A n \in Nat : n \in S
  <1> SUFFICES ASSUME Nat \ S # {} PROVE FALSE
    OBVIOUS
  <1>1. PICK least \in Nat \ S : \A n \in Nat \ S : <<n, least>> \notin OpToRel(<, Nat)
    BY NatLessThanWellFounded, WFMin, Zenon
  <1>2. least # 0 /\ least - 1 \in Nat
    OBVIOUS
  <1>3. <<least - 1, least>> \in OpToRel(<, Nat)
    BY <1>2 DEF OpToRel
  <1>4. least - 1 \in S
    BY <1>1, <1>2, <1>3
  <1> QED  BY <1>2, <1>4

LEMMA QualityType ==
    ASSUME NEW s \in SetupType
    PROVE  Quality(s) \in Nat
  BY DEF Quality, gradeWeight, SetupType

LEMMA TotalQualityType ==
    ASSUME NEW signals \in Seq(SetupType)
    PROVE  TotalQuality(signals) \in Nat
  <1> DEFINE n == Len(signals)
             Term(k) == AtLeast(Quality(signals[k]), 0)
             Sums(g, m) == [k \in 0..m |-> IF k = 0 THEN 0 ELSE g[k - 1] + Term(k)]
             Reached == {m \in Nat : m <= n => \E g : g = Sums(g, m)}
  <1>1. n \in Nat /\ \A k \in 1..n : Term(k) \in Nat
    BY QualityType DEF AtLeast
  <1> HIDE DEF n, Term
  <1>2. 0 \in Reached
    <2> DEFINE g == [k \in 0..0 |-> 0]
    <2>1. g = Sums(g, 0)
      OBVIOUS
    <2> QED BY <2>1
  <1>3. ASSUME NEW m \in Nat, m \in Reached
        PROVE  m + 1 \in Reached
    <2>1. SUFFICES ASSUME m + 1 <= n PROVE \E h : h = Sums(h, m + 1)
      OBVIOUS
    <2>2. PICK g : g = Sums(g, m)
      BY <1>1, <1>3, <2>1
    <2> DEFINE h == [k \in 0..(m + 1) |-> IF k = m + 1 THEN g[m] + Term(m + 1) ELSE g[k]]
    <2>3. ASSUME NEW k \in 0..(m + 1)
          PROVE  h[k] = IF k = 0 THEN 0 ELSE h[k - 1] + Term(k)
      <3>1. CASE k = m + 1
        BY <3>1
      <3>2. CASE k # m + 1
        <4>1. h[k] = g[k] /\ k \in 0..m /\ (k # 0 => h[k - 1] = g[k - 1])
          BY <3>2
        <4>2. g[k] = IF k = 0 THEN 0 ELSE g[k - 1] + Term(k)
          BY <2>2, <4>1
        <4> QED BY <4>1, <4>2
      <3> QED BY <3>1, <3>2
    <2>4. h = Sums(h, m + 1)
      BY <2>3
    <2> QED  BY <2>4
  <1>4. n \in Reached
    <2> HIDE DEF Reached
    <2> QED  BY <1>1, <1>2, <1>3, SetInduction
  <1> DEFINE sum == CHOOSE g : g = Sums(g, n)
  <1>5. sum = Sums(sum, n)
    <2>1. \E g : g = Sums(g, n)
      BY <1>1, <1>4
    <2> HIDE DEF Sums
    <2> QED  BY <2>1
  <1>6. TotalQuality(signals) = sum[n]
    BY DEF TotalQuality, n, Term
  <1> HIDE DEF sum
  <1> DEFINE Typed == {m \in Nat : m <= n => sum[m] \in Nat}
  <1>7. 0 \in Typed
    BY <1>1, <1>5
  <1>8. ASSUME NEW m \in Nat, m \in Typed
        PROVE  m + 1 \in Typed
    <2>1. SUFFICES ASSUME m + 1 <= n PROVE sum[m + 1] \in Nat
      OBVIOUS
    <2>2. sum[m + 1] = sum[m] + Term(m + 1)
      BY <1>1, <1>5, <2>1
    <2> QED  BY <1>1, <1>8, <2>1, <2>2
  <1>9. n \in Typed
    <2> HIDE DEF Typed
    <2> QED  BY <1>1, <1>7, <1>8, SetInduction
  <1> QED  BY <1>1, <1>6, <1>9

LEMMA RequestedType ==
    ASSUME NEW available \in Nat, NEW quality \in Int, NEW total \in Nat, NEW multiplier \in Int
    PROVE  Requested(available, quality, total, multiplier) \in Int
  <1>1. AtLeast(quality, 0) \in Int /\ clamp(multiplier, 0, 200) \in Int
    BY DEF AtLeast, clamp, AtMost
  <1>2. available * AtLeast(quality, 0) * clamp(multiplier, 0, 200) \in Int
    BY <1>1
  <1> QED  BY <1>2 DEF Requested

\* The budget as the k-th decision finds it and leaves it.
DecidedInTurn(p, ranked, decisions, before, k) ==
    /\ decisions[k] = Decide(p, ranked[k],
                             Requested(p.available, Quality(ranked[k]), TotalQuality(ranked), p.multiplier),
                             before[k - 1])
    /\ decisions[k].share \in Nat
    /\ before[k - 1] = decisions[k].share + before[k] /\ before[k - 1] <= p.available

LEMMA NextKeepsTheBudget ==
    ASSUME NEW p \in ParametersType, NEW ranked \in Seq(SetupType), NEW k \in 1..Len(ranked),
           NEW soFar, soFar.remaining \in Nat
    PROVE  LET d == Decide(p, ranked[k],
                           Requested(p.available, Quality(ranked[k]), TotalQuality(ranked), p.multiplier),
                           soFar.remaining)
               next == DecideNext(p, ranked, k, soFar)
           IN  /\ next.decisions = Append(soFar.decisions, d)
               /\ d.share \in Nat /\ next.remaining \in Nat
               /\ soFar.remaining = d.share + next.remaining
  <1> DEFINE requested == Requested(p.available, Quality(ranked[k]), TotalQuality(ranked), p.multiplier)
             d == Decide(p, ranked[k], requested, soFar.remaining)
             next == DecideNext(p, ranked, k, soFar)
  <1>1. ranked[k] \in SetupType
    OBVIOUS
  <1>2. p.available \in Nat /\ p.multiplier \in Int
    BY DEF ParametersType
  <1>3. requested \in Int
    <2>1. Quality(ranked[k]) \in Int /\ TotalQuality(ranked) \in Nat
      BY <1>1, QualityType, TotalQualityType
    <2> QED  BY <1>2, <2>1, RequestedType
  <1>4. next = [decisions |-> Append(soFar.decisions, d),
                remaining |-> RemainingAfter(d, soFar.remaining)]
    BY Zenon DEF DecideNext
  <1> HIDE DEF requested
  <1>5. /\ d.share \in Nat /\ RemainingAfter(d, soFar.remaining) \in Nat
        /\ d.share + RemainingAfter(d, soFar.remaining) = soFar.remaining
    BY <1>1, <1>3, DecisionsKeepTheBudget
  <1> HIDE DEF d, next
  <1>6. next.decisions = Append(soFar.decisions, d) /\ next.remaining = RemainingAfter(d, soFar.remaining)
    BY <1>4
  <1> QED  BY <1>5, <1>6 DEF d, next, requested

\* What the recursion has done after m signals.
RunTo(p, ranked, m, done) ==
    done = [k \in 0..m |->
              IF k = 0 THEN [decisions |-> << >>, remaining |-> p.available]
              ELSE DecideNext(p, ranked, k, done[k - 1])]

LEMMA RunExists ==
    ASSUME NEW p, NEW ranked, NEW n \in Nat
    PROVE  \E done : RunTo(p, ranked, n, done)
  <1> DEFINE Start == [decisions |-> << >>, remaining |-> p.available]
             Next(k, soFar) == DecideNext(p, ranked, k, soFar)
             Runs(g, m) == [k \in 0..m |-> IF k = 0 THEN Start ELSE Next(k, g[k - 1])]
             Reached == {m \in Nat : \E g : g = Runs(g, m)}
  <1> HIDE DEF Start, Next
  <1>1. 0 \in Reached
    <2> DEFINE g == [k \in 0..0 |-> Start]
    <2>1. g = Runs(g, 0)
      OBVIOUS
    <2> QED BY <2>1
  <1>2. ASSUME NEW m \in Nat, m \in Reached
        PROVE  m + 1 \in Reached
    <2>1. PICK g : g = Runs(g, m)
      BY <1>2
    <2> DEFINE h == [k \in 0..(m + 1) |-> IF k = m + 1 THEN Next(m + 1, g[m]) ELSE g[k]]
    <2>2. ASSUME NEW k \in 0..(m + 1)
          PROVE  h[k] = IF k = 0 THEN Start ELSE Next(k, h[k - 1])
      <3>1. CASE k = m + 1
        BY <3>1
      <3>2. CASE k # m + 1
        <4>1. h[k] = g[k] /\ k \in 0..m /\ (k # 0 => h[k - 1] = g[k - 1])
          BY <3>2
        <4>2. g[k] = IF k = 0 THEN Start ELSE Next(k, g[k - 1])
          BY <2>1, <4>1
        <4> QED BY <4>1, <4>2
      <3> QED BY <3>1, <3>2
    <2>3. \E f : f = Runs(f, m + 1)
      <3>1. h = Runs(h, m + 1)
        BY <2>2
      <3> QED  BY <3>1
    <2> QED  BY <2>3
  <1>3. n \in Reached
    <2> HIDE DEF Reached
    <2> QED  BY <1>1, <1>2, SetInduction
  <1> QED  BY <1>3 DEF RunTo, Start, Next

\* In an allocation every signal is decided once and in its turn, with the
\* budget its predecessors left: the shares of all of them and what is left
\* over make up the budget there was, for every ranking and every parameter.
THEOREM AllocationKeepsTheBudget ==
    ASSUME NEW p \in ParametersType, NEW ranked \in Seq(SetupType)
    PROVE  LET a == Allocated(p, ranked)
           IN  /\ Len(a.decisions) = Len(ranked)
               /\ \E before \in [0..Len(ranked) -> Nat] :
                    /\ before[0] = p.available /\ before[Len(ranked)] = a.remaining
                    /\ \A k \in 1..Len(ranked) : DecidedInTurn(p, ranked, a.decisions, before, k)
  <1> DEFINE n == Len(ranked)
             done == CHOOSE done : RunTo(p, ranked, n, done)
             Asked(k) == Requested(p.available, Quality(ranked[k]), TotalQuality(ranked), p.multiplier)
             D(k) == Decide(p, ranked[k], Asked(k), done[k - 1].remaining)
  <1>1. n \in Nat /\ p.available \in Nat
    BY DEF ParametersType
  <1>2. RunTo(p, ranked, n, done)
    BY <1>1, RunExists
  <1>3. Allocated(p, ranked) = done[n]
    BY DEF Allocated, RunTo
  <1> HIDE DEF done, Asked
  <1>4. done[0] = [decisions |-> << >>, remaining |-> p.available]
    BY <1>1, <1>2 DEF RunTo
  <1>5. ASSUME NEW k \in 1..n
        PROVE  done[k] = DecideNext(p, ranked, k, done[k - 1])
    BY <1>1, <1>2 DEF RunTo
  <1>6. ASSUME NEW k \in 1..n, done[k - 1].remaining \in Nat
        PROVE  /\ done[k].decisions = Append(done[k - 1].decisions, D(k))
               /\ D(k).share \in Nat /\ done[k].remaining \in Nat
               /\ done[k - 1].remaining = D(k).share + done[k].remaining
    <2>1. D(k) = Decide(p, ranked[k],
                        Requested(p.available, Quality(ranked[k]), TotalQuality(ranked), p.multiplier),
                        done[k - 1].remaining)
      BY DEF Asked
    <2> DEFINE soFar == done[k - 1]
               next == DecideNext(p, ranked, k, soFar)
    <2> HIDE DEF D
    <2>2. k \in 1..Len(ranked) /\ soFar.remaining \in Nat
      BY <1>6
    <2>3. done[k] = next
      BY <1>5
    <2>4. D(k) = Decide(p, ranked[k],
                        Requested(p.available, Quality(ranked[k]), TotalQuality(ranked), p.multiplier),
                        soFar.remaining)
      BY <2>1
    <2> HIDE DEF soFar
    <2>5. /\ next.decisions = Append(soFar.decisions, D(k))
          /\ D(k).share \in Nat /\ next.remaining \in Nat
          /\ soFar.remaining = D(k).share + next.remaining
      BY <2>2, <2>4, NextKeepsTheBudget
    <2> QED  BY <2>3, <2>5 DEF soFar
  <1> HIDE DEF n, D
  <1> DEFINE Good == {m \in Nat : m <= n =>
                        /\ done[m].remaining \in Nat /\ done[m].remaining <= p.available
                        /\ done[m].decisions = [k \in 1..m |-> D(k)]}
  <1>7. 0 \in Good
    <2>1. done[0].remaining = p.available /\ done[0].decisions = << >>
      BY <1>4
    <2>2. << >> = [k \in 1..0 |-> D(k)]
      OBVIOUS
    <2> QED  BY <1>1, <2>1, <2>2
  <1>8. ASSUME NEW m \in Nat, m \in Good
        PROVE  m + 1 \in Good
    <2> SUFFICES ASSUME m + 1 <= n
                 PROVE  /\ done[m + 1].remaining \in Nat /\ done[m + 1].remaining <= p.available
                        /\ done[m + 1].decisions = [k \in 1..(m + 1) |-> D(k)]
      OBVIOUS
    <2>1. /\ done[m].remaining \in Nat /\ done[m].remaining <= p.available
          /\ done[m].decisions = [k \in 1..m |-> D(k)]
          /\ m + 1 \in 1..n /\ (m + 1) - 1 = m
      BY <1>1, <1>8
    <2>2. /\ done[m + 1].decisions = Append(done[m].decisions, D(m + 1))
          /\ done[m + 1].remaining \in Nat /\ done[m + 1].remaining <= p.available
      <3>1. /\ D(m + 1).share \in Nat /\ done[m + 1].remaining \in Nat
            /\ done[m].remaining = D(m + 1).share + done[m + 1].remaining
            /\ done[m + 1].decisions = Append(done[m].decisions, D(m + 1))
        BY <1>6, <2>1
      <3> QED  BY <1>1, <2>1, <3>1
    <2>3. Append([k \in 1..m |-> D(k)], D(m + 1)) = [k \in 1..(m + 1) |-> D(k)]
      OBVIOUS
    <2> QED  BY <2>1, <2>2, <2>3
  <1>9. ASSUME NEW m \in 0..n
        PROVE  /\ done[m].remaining \in Nat /\ done[m].remaining <= p.available
               /\ done[m].decisions = [k \in 1..m |-> D(k)]
    <2>1. m \in Good
      <3> HIDE DEF Good
      <3> QED  BY <1>1, <1>7, <1>8, SetInduction
    <2> QED  BY <1>1, <2>1
  <1> HIDE DEF Good
  <1> DEFINE before == [m \in 0..n |-> done[m].remaining]
  <1>10. before \in [0..n -> Nat]
    BY <1>1, <1>9
  <1>11. before[0] = p.available /\ before[n] = Allocated(p, ranked).remaining
    BY <1>1, <1>3, <1>4
  <1>12. Allocated(p, ranked).decisions = [k \in 1..n |-> D(k)] /\ Len([k \in 1..n |-> D(k)]) = n
    BY <1>1, <1>3, <1>9
  <1>13. ASSUME NEW k \in 1..n
         PROVE  DecidedInTurn(p, ranked, Allocated(p, ranked).decisions, before, k)
    <2>1. k - 1 \in 0..n /\ k \in 0..n
      BY <1>1
    <2>2. before[k - 1] = done[k - 1].remaining /\ before[k] = done[k].remaining
      BY <2>1
    <2>3. Allocated(p, ranked).decisions[k] = D(k)
      BY <1>12
    <2>4. /\ D(k) = Decide(p, ranked[k], Asked(k), before[k - 1])
      BY <2>2 DEF D
    <2>5. D(k).share \in Nat /\ done[k - 1].remaining = D(k).share + done[k].remaining
      BY <1>6, <1>9, <2>1
    <2>6. before[k - 1] <= p.available
      BY <1>9, <2>1, <2>2
    <2> QED  BY <2>2, <2>3, <2>4, <2>5, <2>6 DEF DecidedInTurn, Asked
  <1> QED  BY <1>10, <1>11, <1>12, <1>13 DEF n

LEMMA OpenRiskIsNotTheReason ==
    ASSUME NEW p \in ParametersType, p.available = AvailableRisk(p.mode, p.openRisk),
           NEW s \in SetupType, NEW requested \in Int, NEW remaining \in Nat,
           remaining <= p.available
    PROVE  Decide(p, s, requested, remaining).blockedReason # "max_open_risk_exceeded"
  <1> DEFINE cap == Governance[p.mode].openRiskCap
             open == AtLeast(p.openRisk, 0) + (p.available - remaining)
             room == SymbolRoom(p.cap, p.symbolRisk[s.symbol])
             share == Share(requested, room, remaining)
  <1>1. cap \in Nat
    BY DEF Governance, ParametersType, LiveModes
  <1>2. p.openRisk \in Int /\ p.available = AtLeast(cap - AtLeast(p.openRisk, 0), 0)
    BY DEF ParametersType, AvailableRisk
  <1>3. room \in Nat
    <2>1. p.symbolRisk[s.symbol] \in Int /\ p.cap \in Nat
      BY DEF ParametersType, SetupType
    <2> QED  BY <2>1, RoomType
  <1>4. share \in Nat /\ share <= remaining
    BY <1>3, ShareBounded
  <1> HIDE DEF cap, room, share
  <1>5. ASSUME share > 0
        PROVE  ~(open >= cap)
    <2>1. p.available > 0
      BY <1>2, <1>4, <1>5 DEF AtLeast
    <2>2. p.available = cap - AtLeast(p.openRisk, 0) /\ AtLeast(p.openRisk, 0) \in Int
      BY <1>1, <1>2, <2>1 DEF AtLeast
    <2> QED  BY <1>1, <1>4, <1>5, <2>2
  <1>6. CASE share <= 0
    BY <1>6 DEF Decide, Unallocated, share, room
  <1>7. CASE ~(share <= 0)
    <2>1. ~(open >= cap)
      BY <1>4, <1>5, <1>7
    <2> HIDE DEF open
    <2>2. IntentBlocked(p.mode, open, cap, p.locks) # "max_open_risk_exceeded"
      BY <2>1 DEF IntentBlocked
    <2>3. Intent(p.mode, s, p.equity, open, share, cap, p.locks).blockedReason
            # "max_open_risk_exceeded"
      BY <2>2 DEF Intent
    <2>4. \/ Decide(p, s, requested, remaining).blockedReason = "none"
          \/ Decide(p, s, requested, remaining).blockedReason
               = Intent(p.mode, s, p.equity, open, share, cap, p.locks).blockedReason
      BY <1>7 DEF Decide, Unallocated, share, room, open, cap
    <2> QED  BY <2>3, <2>4
  <1> QED  BY <1>4, <1>6, <1>7

\* No signal of an allocation is refused for too much open risk: what is open
\* has already shrunk the budget, and the shares of the signals before it what
\* is left, so that the share is gone first (buildExecutionIntent,
\* max_open_risk_exceeded).
THEOREM OpenRiskIsNeverTheReason ==
    ASSUME NEW p \in ParametersType, p.available = AvailableRisk(p.mode, p.openRisk),
           NEW ranked \in Seq(SetupType), NEW k \in 1..Len(ranked)
    PROVE  Allocated(p, ranked).decisions[k].blockedReason # "max_open_risk_exceeded"
  <1> DEFINE requested == Requested(p.available, Quality(ranked[k]), TotalQuality(ranked), p.multiplier)
  <1>1. PICK before \in [0..Len(ranked) -> Nat] :
          DecidedInTurn(p, ranked, Allocated(p, ranked).decisions, before, k)
    BY AllocationKeepsTheBudget
  <1>2. before[k - 1] \in Nat /\ before[k - 1] <= p.available
    BY <1>1 DEF DecidedInTurn
  <1>3. requested \in Int
    <2>1. Quality(ranked[k]) \in Int /\ TotalQuality(ranked) \in Nat
      BY QualityType, TotalQualityType
    <2>2. p.available \in Nat /\ p.multiplier \in Int
      BY DEF ParametersType
    <2> QED  BY <2>1, <2>2, RequestedType
  <1>4. Allocated(p, ranked).decisions[k] = Decide(p, ranked[k], requested, before[k - 1])
    BY <1>1 DEF DecidedInTurn
  <1> HIDE DEF requested
  <1> QED  BY <1>2, <1>3, <1>4, OpenRiskIsNotTheReason

\* The locks, and with them the global kill switch, change nothing in personal
\* mode: the allocator decides every signal as if there were none
\* (docs/config-contract.md calls the switch a hard safety override).
THEOREM LocksSparePersonal ==
    ASSUME NEW p \in ParametersType, p.mode = "live_personal", NEW s \in SetupType,
           NEW requested \in Int, NEW remaining \in Nat
    PROVE  Decide([p EXCEPT !.locks = Locks], s, requested, remaining)
             = Decide(p, s, requested, remaining)
  <1> DEFINE q == [p EXCEPT !.locks = Locks]
  <1>1. /\ q.mode = "live_personal" /\ q.equity = p.equity /\ q.openRisk = p.openRisk
        /\ q.available = p.available /\ q.cap = p.cap /\ q.symbolRisk = p.symbolRisk
    BY DEF ParametersType
  <1>2. ASSUME NEW open, NEW cap
        PROVE  IntentBlocked("live_personal", open, cap, q.locks)
                 = IntentBlocked("live_personal", open, cap, p.locks)
    BY DEF IntentBlocked
  <1> HIDE DEF q
  <1>3. ASSUME NEW open, NEW share, NEW cap
        PROVE  Intent("live_personal", s, p.equity, open, share, cap, q.locks)
                 = Intent("live_personal", s, p.equity, open, share, cap, p.locks)
    BY <1>2, Zenon DEF Intent
  <1>4. Decide(q, s, requested, remaining) = Decide(p, s, requested, remaining)
    <2> DEFINE share == Share(requested, SymbolRoom(p.cap, p.symbolRisk[s.symbol]), remaining)
               open == AtLeast(p.openRisk, 0) + (p.available - remaining)
               cap == Governance["live_personal"].openRiskCap
               plain == Intent("live_personal", s, p.equity, open, share, cap, p.locks)
               locked == Intent("live_personal", s, p.equity, open, share, cap, q.locks)
               Out(intent) ==
                   IF share <= 0
                     THEN Unallocated(s, IF SymbolRoom(p.cap, p.symbolRisk[s.symbol]) <= 0
                                         THEN "per_symbol_risk_cap_exceeded"
                                         ELSE "portfolio_risk_budget_exhausted", NoIntent)
                   ELSE IF ~intent.allowed THEN Unallocated(s, intent.blockedReason, intent)
                   ELSE [signal |-> s, share |-> share, blockedReason |-> "none", intent |-> intent]
    <2>1. locked = plain
      BY <1>3
    <2>2. Decide(p, s, requested, remaining) = Out(plain)
      BY Zenon DEF Decide
    <2>3. Decide(q, s, requested, remaining) = Out(locked)
      BY <1>1, Zenon DEF Decide
    <2> HIDE DEF plain, locked, Out
    <2> QED  BY <2>1, <2>2, <2>3, Zenon
  <1> QED  BY <1>4 DEF q

\* Any lock in force ends every order of the prop mode (governanceBlocked).
THEOREM LocksEndProp ==
    ASSUME NEW d, NEW locks \in SUBSET Locks, locks # {}
    PROVE  ~PropOrder(d, locks).ordered
  <1>1. GovernanceBlocked(locks) # "none"
    BY DEF GovernanceBlocked, IntentBlocked, Locks
  <1> QED  BY <1>1 DEF PropOrder, NoOrder

\* A signal that is alone gets all that its mode and its symbol leave: its
\* grade, and the base risk of its grade, never come into it
\* (riskPercentOverride replaces riskPerTradeBasePct).
THEOREM LoneSignalTakesTheCap ==
    ASSUME NEW available \in Nat, NEW quality \in Nat \ {0}, NEW room \in Nat
    PROVE  Share(Requested(available, quality, quality, 100), room, available)
             = AtMost(available, room)
  <1> DEFINE whole == quality * 100
  <1>1. whole \in Nat \ {0} /\ available * quality * 100 = available * whole
    OBVIOUS
  <1>2. clamp(100, 0, 200) = 100 /\ AtLeast(quality, 0) = quality
    BY DEF clamp, AtMost, AtLeast
  <1>3. Requested(available, quality, quality, 100) = (available * quality * 100) \div whole
    BY <1>2 DEF Requested
  <1> HIDE DEF whole
  <1>4. (available * whole) \div whole = available
    BY <1>1
  <1> QED  BY <1>1, <1>3, <1>4 DEF Share, clamp, AtMost, AtLeast

=============================================================================
