------------------------------- MODULE Adapter -------------------------------
(***************************************************************************)
(* What one V2 command does on the exchange.  CommandQueue counts the      *)
(* calls of adapter.execute; this module says what a call is: the order it *)
(* places, what it expects to read back, what the worker makes of the      *)
(* outcome, and what a second call of the same command adds.               *)
(*                                                                         *)
(* A world is the account on one exchange together with the memory of the  *)
(* adapter in front of it: the signed position, the orders that wait for a *)
(* trigger, the client ids ever used, the keys the adapter has accepted.   *)
(* A market order is filled when it is placed.  0 stands for an absent     *)
(* stop, target, trigger or quantity.                                      *)
(***************************************************************************)
EXTENDS Integers

MAX_ATTEMPTS == 6   \* one call and DurableCommandQueue's five retries
MAX_SENDS == 4      \* one request and ExchangeRateLimiter's three repetitions

Abs(n) == IF n < 0 THEN -n ELSE n
Signed(side, quantity) == IF side = "BUY" THEN quantity ELSE -quantity

World(exchange, position) ==
    [exchange |-> exchange, position |-> position, book |-> {}, used |-> {}, accepted |-> {}]

\* A restart empties the adapter's memory and nothing else.
Restart(w) == [w EXCEPT !.accepted = {}]

Order(id, side, quantity, type, trigger, reduceOnly) ==
    [id |-> id, side |-> side, quantity |-> quantity, type |-> type, trigger |-> trigger,
     reduceOnly |-> reduceOnly]

-----------------------------------------------------------------------------
(* The exchange.  Bybit refuses an orderLinkId it has ever seen, Binance a *)
(* newClientOrderId only while an order with it is open.  An immediate     *)
(* reduce-only order must reduce.  market is the symbol's lot: its step    *)
(* and its smallest quantity.                                              *)

RoundDown(quantity, market) == (quantity \div market.step) * market.step

IdIsTaken(w, id) ==
    IF w.exchange = "bybit" THEN id \in w.used ELSE \E o \in w.book : o.id = id

Reduces(w, o) == Signed(o.side, 1) * w.position < 0

\* The one refusal that comes from the client itself, before anything is sent.
TooSmall(o, market) == RoundDown(o.quantity, market) < market.minQuantity

Refusal(w, o, market) ==
    IF TooSmall(o, market) THEN "below_minimum"
    ELSE IF IdIsTaken(w, o.id) THEN "duplicate_id"
    ELSE IF o.reduceOnly /\ o.trigger = 0 /\ ~Reduces(w, o) THEN "reduce_only"
    ELSE "none"

Filled(w, o, market) ==
    LET quantity == RoundDown(o.quantity, market)
    IN  IF o.reduceOnly /\ quantity > Abs(w.position) THEN Abs(w.position) ELSE quantity

Placed(w, o, market) ==
    [w EXCEPT !.used = @ \cup {o.id},
              !.book = IF o.trigger > 0 THEN @ \cup {o} ELSE @,
              !.position = IF o.trigger > 0 THEN @ ELSE @ + Signed(o.side, Filled(w, o, market))]

\* The rate limiter repeats a request that is turned away for its rate or whose
\* fate is unknown ("Timeout waiting for response"), and gives up after the last
\* repetition.  The fate of an order: how many of the requests the exchange had
\* handled although nothing came back, whether one was answered in the end, and
\* whether what the call reads afterwards is answered.
Fates == {f \in [unanswered : 0..MAX_SENDS, answered : BOOLEAN, readBack : BOOLEAN] :
             f.answered => f.unanswered < MAX_SENDS}
Prompt == [unanswered |-> 0, answered |-> TRUE, readBack |-> TRUE]

Post(w, o, market, fate) ==
    LET handled(v) == IF Refusal(v, o, market) = "none" THEN Placed(v, o, market) ELSE v
        sent[n \in 0..fate.unanswered] == IF n = 0 THEN w ELSE handled(sent[n - 1])
        last == sent[fate.unanswered]
    IN  IF fate.answered \/ TooSmall(o, market)
        THEN [refusal |-> Refusal(last, o, market), world |-> handled(last)]
        ELSE [refusal |-> "unknown", world |-> last]

-----------------------------------------------------------------------------
(* Verification: orders, position and protection are read back.            *)

\* The kind given with the order is not among what the exchange returns, and
\* the Bybit client sends every trigger order as a market order.
OrderTypeReadBack(w, o) == IF w.exchange = "bybit" THEN "MARKET" ELSE o.type
ProtectionKind(w, o) ==
    CASE OrderTypeReadBack(w, o) = "TAKE_PROFIT_MARKET" -> "TAKE_PROFIT"
      [] OrderTypeReadBack(w, o) \in {"STOP_MARKET", "TRAILING_STOP_MARKET"} -> "STOP_LOSS"
      [] OTHER -> "REDUCE_ONLY"

\* Within 0.2 % of the price asked for.
HasProtection(w, kind, price) ==
    \E o \in w.book : /\ ProtectionKind(w, o) = kind
                      /\ Abs(o.trigger - price) * 500 <= price

\* A quantity or price that is not expected is -1 or 0.
Expectation(quantity, stopLoss, takeProfit) ==
    [quantity |-> quantity, stopLoss |-> stopLoss, takeProfit |-> takeProfit]

\* slipped: the average entry is more than 0.5 % off the price of the signal.
verifyExecution(w, expected, slipped) ==
    /\ \/ expected.quantity = -1
       \/ Abs(Abs(w.position) - expected.quantity) * 1000 <= expected.quantity
    /\ expected.stopLoss = 0 \/ HasProtection(w, "STOP_LOSS", expected.stopLoss)
    /\ expected.takeProfit = 0 \/ HasProtection(w, "TAKE_PROFIT", expected.takeProfit)
    /\ ~slipped

Execute(w, o, market, expected, fate, slipped) ==
    IF o.id \in w.accepted THEN [world |-> w, answer |-> "verified"]
    ELSE LET post == Post(w, o, market, fate)
         IN  IF post.refusal # "none" THEN [world |-> post.world, answer |-> post.refusal]
             ELSE IF ~fate.readBack THEN [world |-> post.world, answer |-> "unknown"]
             ELSE IF verifyExecution(post.world, expected, slipped)
             THEN [world |-> [post.world EXCEPT !.accepted = @ \cup {o.id}], answer |-> "verified"]
             ELSE [world |-> post.world, answer |-> "FAILED"]

-----------------------------------------------------------------------------
(* The operations.  c is a command: its key, its action and its payload.   *)
(* circumstances has the fate of the command's order and of the orders for *)
(* the stop and the target of an entry; only an entry can have slipped.    *)

Circumstances == [order : Fates, stop : Fates, target : Fates, slipped : BOOLEAN]
Smooth == [order |-> Prompt, stop |-> Prompt, target |-> Prompt, slipped |-> FALSE]
AllSmooth == [n \in 1..MAX_ATTEMPTS |-> Smooth]

Protect(w, c, suffix, type, price, expected, market, fate) ==
    Execute(w, Order(<<c.key, suffix>>, "SELL", c.quantity, type, price, TRUE), market, expected,
            fate, FALSE)

moveStopLoss(w, c, suffix, market, fate) ==
    Protect(w, c, suffix, "STOP_MARKET", c.stopLoss, Expectation(-1, c.stopLoss, 0), market, fate)
moveTakeProfit(w, c, suffix, market, fate) ==
    Protect(w, c, suffix, "TAKE_PROFIT_MARKET", c.takeProfit, Expectation(-1, 0, c.takeProfit),
            market, fate)

\* What throws ends the call; a protective order that merely fails does not show.
Throws(answer) == answer \notin {"verified", "FAILED"}
Then(first, wanted, second) ==
    IF first.answer = "verified" /\ wanted
    THEN [second EXCEPT !.answer = IF Throws(@) THEN @ ELSE first.answer]
    ELSE first

openPosition(w, c, market, circumstances) ==
    LET side   == IF c.direction = "LONG" THEN "BUY" ELSE "SELL"
        entry  == Execute(w, Order(<<c.key, "">>, side, c.quantity, "MARKET", 0, FALSE), market,
                          Expectation(c.quantity, c.stopLoss, c.takeProfit),
                          circumstances.order, circumstances.slipped)
        stop   == Then(entry, c.stopLoss > 0,
                       moveStopLoss(entry.world, c, "sl", market, circumstances.stop))
    IN  Then(stop, c.takeProfit > 0,
             moveTakeProfit(stop.world, c, "tp", market, circumstances.target))

\* A partial close is a close: both expect that nothing is left.
closePosition(w, c, market, fate) ==
    LET side     == IF w.position > 0 THEN "SELL" ELSE "BUY"
        quantity == IF c.quantity > 0 THEN c.quantity ELSE Abs(w.position)
    IN  Execute(w, Order(<<c.key, "">>, side, quantity, "MARKET", 0, TRUE), market,
                Expectation(0, 0, 0), fate, FALSE)

Call(w, c, market, circumstances) ==
    CASE c.action = "OpenPosition"   -> openPosition(w, c, market, circumstances)
      [] c.action = "MoveStopLoss"   -> moveStopLoss(w, c, "", market, circumstances.order)
      [] c.action = "MoveTakeProfit" -> moveTakeProfit(w, c, "", market, circumstances.order)
      [] c.action \in {"PartialClose", "SafeClose"} ->
            closePosition(w, c, market, circumstances.order)

-----------------------------------------------------------------------------
(* The worker: a verified command is completed, one refused for its id is  *)
(* classified "Duplicate" and dead-lettered, any other is tried again.     *)
(* circumstances[n] are those of the n-th call.                            *)

Disposition(answer) ==
    CASE answer = "verified"     -> "completed"
      [] answer = "duplicate_id" -> "dead_lettered"
      [] OTHER                   -> "retry_scheduled"

Process(w, c, market, circumstances) ==
    LET after[n \in 0..MAX_ATTEMPTS] ==
            IF n = 0 THEN [world |-> w, status |-> "retry_scheduled"]
            ELSE IF after[n - 1].status # "retry_scheduled" THEN after[n - 1]
            ELSE LET call == Call(after[n - 1].world, c, market, circumstances[n])
                 IN  [world |-> call.world, status |-> Disposition(call.answer)]
        last == after[MAX_ATTEMPTS]
    IN  IF last.status = "retry_scheduled" THEN [last EXCEPT !.status = "dead_lettered"] ELSE last
=============================================================================
