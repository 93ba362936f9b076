----------------------------- MODULE EntrySizing -----------------------------
(***************************************************************************)
(* What one entry may spend: app/sizing.py and the budget walk of          *)
(* app/paper.py, as operators without state.                               *)
(*                                                                         *)
(* Money is counted in a small unit, a price in units of money per share;  *)
(* One is the price of a certain outcome.  The code's Decimals keep        *)
(* fractions, here a budget and a target are rounded down and a minimum is *)
(* rounded up to a unit.  A fee is rounded down as in the code.            *)
(***************************************************************************)
EXTENDS Integers, Sequences

CONSTANTS
    One,                    \* the price of a certain outcome
    FeeNum, FeeDen,         \* the taker fee rate as a fraction
    MinPrice, MaxPrice,     \* the leader's PriceRange
    Slippage,               \* policy.slippage_price
    MinNotional,            \* MIN_COPY_NOTIONAL
    MinShares,              \* book.min_order_size
    MaxMultiplier,          \* SMART_SIZING_MAX_MULTIPLIER
    FloorMultiple,          \* SIZING_FLOOR_MAX_MULTIPLE
    Power,                  \* SIZING_CONVICTION_POWER
    OddsWeight              \* SIZING_ODDS_WEIGHT in percent

ASSUME PriceAssumption ==
    /\ One \in Nat \ {0} /\ MinPrice \in Nat /\ MaxPrice \in Nat
    /\ MaxPrice <= One /\ Slippage \in Nat
ASSUME FeeAssumption == FeeNum \in Nat /\ FeeDen \in Nat \ {0}
ASSUME SizeAssumption ==
    /\ MinNotional \in Nat \ {0} /\ MinShares \in Nat
    /\ MaxMultiplier \in Nat \ {0} /\ FloorMultiple \in Nat /\ Power \in Nat
    /\ OddsWeight \in Nat

Least(a, b) == IF a <= b THEN a ELSE b
Greatest(a, b) == IF a <= b THEN b ELSE a

-----------------------------------------------------------------------------
(* Prices.  A series holds what the leader bought so far: its average      *)
(* price is notional / shares, compared here without dividing.             *)

Allowed(p) == MinPrice <= p /\ p <= MaxPrice
Ask(book) == IF book = <<>> THEN 0 ELSE book[1].price

VwapAllowed(s) ==
    MinPrice * s.shares <= s.notional /\ s.notional <= MaxPrice * s.shares

(* Not above the lower of the average and the event's price by more than   *)
(* the slippage, not below the higher of them by more than that.           *)
NotAbove(s, price, p) ==
    p <= price + Slippage /\ (p - Slippage) * s.shares <= s.notional
NotBelow(s, price, p) ==
    p >= price - Slippage /\ (p + Slippage) * s.shares >= s.notional

-----------------------------------------------------------------------------
(* The target of a series.                                                 *)

Odds(s) ==
    LET raw == Least(140, Greatest(60, 60 + (80 * s.notional) \div (s.shares * One)))
    IN  100 + ((raw - 100) * OddsWeight) \div 100

ToPower(x) ==
    LET power[i \in 0..Power] == IF i = 0 THEN 1 ELSE x * power[i - 1]
    IN  power[Power]

Conviction(s) ==
    Least(s.base * s.multiplier,
          (s.base * ToPower(s.notional)) \div ToPower(s.reference))

RawTarget(s, ask) ==
    LET sized == Conviction(s)
        priced == IF ask = 0 THEN 0 ELSE Least(sized, (sized * s.notional) \div (s.shares * ask))
    IN  (priced * Odds(s)) \div 100

(* One unit of notional at the ask or above costs at most Gross / Net      *)
(* units, the fee of a level being rate * (1 - price) of its notional.     *)
(* Slip: the reserve is left out.                                          *)
Net == FeeDen * One
Ungrossed(ask) == FeeDen * One
Gross(ask) == FeeDen * One + FeeNum * (One - ask)

MinimumAllIn(s, ask) ==
    LET order == Greatest(MinNotional, MinShares * ask)
        grossed == (order * Gross(ask) + Net - 1) \div Net
        meaningful == s.notional >= MinNotional /\ 5 * s.notional >= s.reference
    IN  IF meaningful THEN Least(grossed, s.base * FloorMultiple) ELSE 0

(* A share of what the leader put into the series, a fixed amount, or the  *)
(* adaptive size; never above the maximum frozen with the series nor above *)
(* today's.                                                                *)
Cap(s, max) == Least(s.max, max)
Target(s, ask, max) ==
    IF s.percent # 0 THEN Least(Cap(s, max), (s.notional * s.percent) \div 100)
    ELSE IF s.multiplier = 0 THEN Cap(s, max)
    ELSE Least(Cap(s, max), Greatest(RawTarget(s, ask), MinimumAllIn(s, ask)))

Remaining(s, ask, max) == Greatest(0, Target(s, ask, max) - s.spent)

(* The notional to order: what remains, within cash and exposure room,     *)
(* with the fee set aside.                                                 *)
OrderBudget(s, ask, max, cash, room) ==
    (Greatest(0, Least(Remaining(s, ask, max), Least(cash, room))) * Net) \div Gross(ask)

(* The reasons of a BudgetDecision in their order: those about the market  *)
(* leave the signal waiting, the others end it.                            *)
MarketUnfit(s, price, ask) ==
    \/ ask = 0 \/ ~Allowed(ask)
    \/ ~NotAbove(s, price, ask) \/ ~NotBelow(s, price, ask)

Retryable(s, price, ask) ==
    ~s.closed /\ Allowed(price) /\ VwapAllowed(s) /\ MarketUnfit(s, price, ask)

Orderable(s, price, ask, max, cash, room) ==
    /\ ~s.closed /\ Allowed(price) /\ VwapAllowed(s) /\ ~MarketUnfit(s, price, ask)
    /\ Remaining(s, ask, max) > 0 /\ room > 0
    /\ OrderBudget(s, ask, max, cash, room) >= Greatest(MinNotional, MinShares * ask)

-----------------------------------------------------------------------------
(* execute_buy_fak_by_budget: the asks within the limit are taken from the *)
(* best until the budget or the book ends; the fee of every level is       *)
(* added, the sum rounded down.                                            *)

Walk(levels, budget) ==
    LET taken[i \in 0..Len(levels)] ==
            IF i = 0 THEN [left |-> budget, fee |-> 0]
            ELSE LET before == taken[i - 1]
                     level == levels[i]
                     spend == Least(before.left, level.price * level.size)
                 IN  [left |-> before.left - spend,
                      fee |-> before.fee + spend * FeeNum * (One - level.price)]
        end == taken[Len(levels)]
    IN  [notional |-> budget - end.left, fee |-> end.fee \div Net]

(* All that the order debits.                                              *)
Cost(levels, budget) ==
    Walk(levels, budget).notional + Walk(levels, budget).fee
=============================================================================
