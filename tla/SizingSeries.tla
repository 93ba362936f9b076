----------------------------- MODULE SizingSeries -----------------------------
(***************************************************************************)
(* The adaptive entries of app/engine.py for one leader and one outcome:   *)
(* buys whose source time falls into one window share a SizingEntry, the   *)
(* first of them freezes its budget, later ones and their retries draw on  *)
(* what is left, a sell closes it.  Buys and sells reach the transaction   *)
(* in any order of their source times, a retry at any later moment, and    *)
(* the administrator changes the limits and the mode in between.           *)
(*                                                                         *)
(* Every action is one transaction under the ledger lock.  What stands     *)
(* before the sizing (age of the book, market state, an open exit, the     *)
(* live interlock) is a choice to refuse or to wait; a sell of the own     *)
(* position is only what it frees, at cost.                                *)
(***************************************************************************)
EXTENDS EntrySizing, FiniteSets, Sums

CONSTANTS
    Events, Source,         \* event -> side, ts, size, price
    Books,                  \* sequences of asks [price, size], best first
    StartCash,
    ReserveNum, ReserveDen, \* MIN_CASH_RESERVE_PCT as a fraction
    MaxExposure,            \* MAX_OUTCOME_EXPOSURE
    BalancePct,             \* COPY_BALANCE_PCT in percent
    Typical,                \* LeaderSizingProfile.reference_notional
    FixedSize, LeaderPct,   \* Leader.fixed_trade_size, fixed_trade_percent
    TradeSize, OrderScale,  \* /setsize, LEADER_ORDER_SCALE
    Modes,                  \* bound: how the leader's entries may be sized
    MaxSizes,               \* bound: values of /setmax
    Seconds,                \* bound: values of SMART_SIZING_BURST_SECONDS
    MaxChanges              \* bound: how often the settings change

VARIABLES
    cash, cost,             \* Account.paper_balance, Position.cost_basis
    status,                 \* CopyTrade.status of every event
    series,                 \* SizingEntry rows by bucket_start
    counted,                \* the series an event's size was added to
    order,                  \* the event's filled order: its series and its cost
    mode, max, seconds,     \* Leader, Account.max_trade_size, Settings
    changes                 \* settings changed so far

market == <<cash, cost>>
settings == <<mode, max, seconds, changes>>
vars == <<market, status, series, counted, order, settings>>

ASSUME EventsAssumption == IsFiniteSet(Events)
ASSUME SourceAssumption ==
    Source \in [Events -> [side : {"BUY", "SELL"}, ts : Nat,
                           size : Nat \ {0}, price : Nat \ {0}]]
ASSUME MoneyAssumption ==
    /\ StartCash \in Nat /\ MaxExposure \in Nat /\ BalancePct \in Nat
    /\ ReserveNum \in Nat /\ ReserveDen \in Nat \ {0}
    /\ Typical \in Nat \ {0} /\ FixedSize \in Nat \ {0} /\ LeaderPct \in Nat \ {0}
    /\ TradeSize \in Nat /\ OrderScale \in Nat
ASSUME ChoiceAssumption ==
    /\ Modes \subseteq {"adaptive", "fixed", "percent", "classic"} /\ Modes # {}
    /\ MaxSizes \subseteq Nat /\ MaxSizes # {}
    /\ Seconds \subseteq Nat \ {0} /\ Seconds # {}
    /\ MaxChanges \in Nat
    /\ \A book \in Books :
          /\ book \in Seq([price : 1..One, size : Nat])
          /\ \A i, j \in DOMAIN book : i <= j => book[i].price <= book[j].price

NoKey == -1                 \* no series
Row == [seconds : Nat \ {0}, base : Nat, reference : Nat \ {0}, max : Nat,
        multiplier : Nat, percent : Nat, notional : Nat, shares : Nat \ {0},
        spent : Nat, closed : BOOLEAN]

TypeOK ==
    /\ cash \in Nat /\ cost \in Nat
    /\ status \in [Events -> {"none", "skipped", "retry_pending", "executed"}]
    /\ DOMAIN series \subseteq Nat
    /\ \A k \in DOMAIN series : series[k] \in Row
    /\ counted \in [Events -> DOMAIN series \cup {NoKey}]
    /\ order \in [Events -> [key : DOMAIN series \cup {NoKey}, cost : Nat]]
    /\ mode \in Modes /\ max \in MaxSizes /\ seconds \in Seconds
    /\ changes \in 0..MaxChanges

Init ==
    /\ cash = StartCash /\ cost = 0
    /\ status = [e \in Events |-> "none"]
    /\ series = [k \in {} |-> {}]
    /\ counted = [e \in Events |-> NoKey]
    /\ order = [e \in Events |-> [key |-> NoKey, cost |-> 0]]
    /\ mode \in Modes /\ max \in MaxSizes /\ seconds \in Seconds
    /\ changes = 0

-----------------------------------------------------------------------------
(* Reading the ledger.                                                     *)

Recorded == {e \in Events : status[e] # "none"}
Buys == {e \in Events : Source[e].side = "BUY"}
Sells == {e \in Events : Source[e].side = "SELL"}
Ts(e) == Source[e].ts
Notional(e) == Source[e].size * Source[e].price

SoldSince(ts) == \E f \in Sells \cap Recorded : Ts(f) >= ts

(* _deployable_cash and exposure_room.                                     *)
(* Slip: what the outcome has cost so far is not subtracted.               *)
Deployable ==
    Greatest(0, (ReserveDen * cash - ReserveNum * (cash + cost)) \div ReserveDen)
WholeRoom == MaxExposure
Room == Greatest(0, MaxExposure - cost)

Bucket(ts) == (ts \div seconds) * seconds

(* _get_sizing_entry: a sell inside the window moves what follows it to    *)
(* the next key.  A later sell or a later window bars the entry.           *)
StartOf(e) ==
    LET start == Bucket(Ts(e))
    IN  IF \E f \in Sells \cap Recorded : start <= Ts(f) /\ Ts(f) <= Ts(e)
        THEN start + seconds ELSE start

Barred(start) ==
    \E f \in Recorded : \/ f \in Sells /\ Ts(f) >= start
                        \/ Ts(f) >= start + seconds

(* A window that another one overlaps, or that was bought without a        *)
(* series, opens no series.                                                *)
(* Slip: only fills are looked for.                                        *)
Filled(e) == e \in Buys /\ status[e] = "executed"
BoughtOnly(start) ==
    \E e \in Events : Filled(e) /\ start <= Ts(e) /\ Ts(e) < start + seconds
Taken(start) ==
    \/ \E k \in DOMAIN series : k < start + seconds /\ k + series[k].seconds > start
    \/ \E e \in Events : Filled(e) /\ start <= Ts(e) /\ Ts(e) < start + seconds

Joinable(start) ==
    /\ ~Barred(start)
    /\ IF start \in DOMAIN series
       THEN series[start].seconds = seconds /\ ~series[start].closed
       ELSE ~Taken(start)

(* The row the first buy of a window freezes.                              *)
Opened(e) ==
    LET own == Notional(e)
        row(base, reference, top, multiplier, percent) ==
            [seconds |-> seconds, base |-> base, reference |-> reference, max |-> top,
             multiplier |-> multiplier, percent |-> percent,
             notional |-> 0, shares |-> 0, spent |-> 0, closed |-> FALSE]
    IN  CASE mode = "fixed" -> row(FixedSize, own, Least(FixedSize, max), 0, 0)
          [] mode = "percent" -> row((own * LeaderPct) \div 100, own, max, 0, LeaderPct)
          [] OTHER -> row((cash * BalancePct) \div 100, Typical, max, MaxMultiplier, 0)

(* The series of e with e's size added.                                    *)
Joined(e, k) ==
    [(IF k \in DOMAIN series THEN series[k] ELSE Opened(e))
        EXCEPT !.notional = @ + Notional(e), !.shares = @ + Source[e].size]

-----------------------------------------------------------------------------
(* Writing the ledger.                                                     *)

Put(k, row) == series' = [j \in DOMAIN series \cup {k} |-> IF j = k THEN row ELSE series[j]]
Mark(e, s) == status' = [status EXCEPT ![e] = s]
Book(e, k, paid) ==
    /\ cash' = cash - paid /\ cost' = cost + paid
    /\ order' = [order EXCEPT ![e] = [key |-> k, cost |-> paid]]
    /\ Mark(e, "executed")

(* The asks as an order for a series sees them: the ones it may not take   *)
(* offer it nothing.                                                       *)
Within(s, price, book) ==
    [i \in DOMAIN book |->
        IF Allowed(book[i].price) /\ NotAbove(s, price, book[i].price)
        THEN book[i] ELSE [book[i] EXCEPT !.size = 0]]

(* An order of e for series k, whose row is `row' so far.                  *)
Spend(e, k, row, book) ==
    LET budget == OrderBudget(row, Ask(book), max, Deployable, Room)
        paid == Cost(Within(row, Source[e].price, book), budget)
    IN  /\ Orderable(row, Source[e].price, Ask(book), max, Deployable, Room)
        /\ Book(e, k, paid)
        /\ Put(k, [row EXCEPT !.spent = @ + paid])

(* The decision against an order: wait for the market, or the end.         *)
Decline(e, row, book, waiting) ==
    LET ask == Ask(book)
        price == Source[e].price
    IN  /\ ~Orderable(row, price, ask, max, Deployable, Room)
        /\ Mark(e, IF Retryable(row, price, ask) THEN waiting ELSE "skipped")
        /\ UNCHANGED <<market, order>>

-----------------------------------------------------------------------------
(* The classic mode: a share of the cash, no series.                       *)

OwnCapacity ==
    LET budget == (cash * FeeDen) \div (FeeDen + FeeNum)
    IN  Least(Least(budget, (budget * BalancePct) \div 100), Least(max, TradeSize))
ClassicBudget(e) ==
    IF OwnCapacity < MinNotional THEN Least(OwnCapacity, Notional(e))
    ELSE Least(OwnCapacity, Greatest(MinNotional, OrderScale * Notional(e)))

(* ensure_book_minimum_budget.                                             *)
RaisedToMinimum(budget, capacity, price, ask) ==
    IF ask # 0 /\ ask <= price + Slippage /\ budget < MinShares * ask
          /\ MinShares * ask <= capacity
    THEN MinShares * ask ELSE budget

(* A first attempt is held to the reserve and the exposure; a retry to the *)
(* exposure only, and its minimum to neither.                              *)
FirstBudget(e, ask) ==
    LET capacity == Least(OwnCapacity, Least(Deployable, Room))
    IN  RaisedToMinimum(Least(ClassicBudget(e), capacity), capacity, Source[e].price, ask)
RetryBudget(e, ask) ==
    RaisedToMinimum(Least(ClassicBudget(e), Room), OwnCapacity, Source[e].price, ask)

(* The classic order has the event's own price for its reference.  No      *)
(* order of either kind meets apply_fill's refusal for want of cash: every *)
(* budget sets the fee aside.                                              *)
Sole(e) == [notional |-> Notional(e), shares |-> Source[e].size, closed |-> FALSE]
ClassicOrder(e, budget, book, waiting) ==
    LET price == Source[e].price
        ask == Ask(book)
        fits == ~MarketUnfit(Sole(e), price, ask)
        paid == Cost(Within(Sole(e), price, book), budget)
        accepted == fits /\ budget > 0 /\ budget >= MinShares * ask
    IN  \/ accepted /\ Book(e, NoKey, paid)
        \/ /\ ~accepted
           /\ Mark(e, IF Retryable(Sole(e), price, ask) /\ budget > 0
                      THEN waiting ELSE "skipped")
           /\ UNCHANGED <<market, order>>

-----------------------------------------------------------------------------
(* process_event of a BUY, one action per way it can go.                   *)

New(e) == e \in Buys /\ status[e] = "none"

(* A filter, a newer sell, an open exit, no statistics or no market data.  *)
RefuseBuy(e) ==
    /\ New(e)
    /\ Mark(e, "skipped")
    /\ UNCHANGED <<market, series, counted, order, settings>>

(* The market takes no orders, or the exchange's state is not trusted:     *)
(* the signal waits, before it was sized.                                  *)
DelayBuy(e) ==
    /\ New(e) /\ ~SoldSince(Ts(e))
    /\ Mark(e, "retry_pending")
    /\ UNCHANGED <<market, series, counted, order, settings>>

(* The sizing; the book may expire once the size is counted.               *)
SizeBuy(e) ==
    LET k == StartOf(e)
        row == Joined(e, k)
    IN  /\ New(e) /\ ~SoldSince(Ts(e)) /\ mode # "classic"
        /\ Joinable(k)
        /\ counted' = [counted EXCEPT ![e] = k]
        /\ \/ \E book \in Books : Spend(e, k, row, book)
           \/ \E book \in Books : Decline(e, row, book, "retry_pending") /\ Put(k, row)
           \/ Mark(e, "skipped") /\ Put(k, row) /\ UNCHANGED <<market, order>>
        /\ UNCHANGED settings

ClassicBuy(e) ==
    /\ New(e) /\ ~SoldSince(Ts(e)) /\ mode = "classic"
    /\ \E book \in Books :
          LET budget == FirstBudget(e, Ask(book))
          IN  /\ Least(ClassicBudget(e), Least(OwnCapacity, Least(Deployable, Room)))
                    >= MinNotional
              /\ ClassicOrder(e, budget, book, "retry_pending")
    /\ UNCHANGED <<series, counted, settings>>

(* process_event of a SELL: it ends the waiting buys and the series up to  *)
(* its time; the exit it causes may free some or all of the position.      *)
(* Slip: a series that begins with the sell stays open.                    *)
ClosedBefore(ts) ==
    [k \in DOMAIN series |->
        IF k < ts THEN [series[k] EXCEPT !.closed = TRUE] ELSE series[k]]
ClosedUpTo(ts) ==
    [k \in DOMAIN series |->
        IF k <= ts THEN [series[k] EXCEPT !.closed = TRUE] ELSE series[k]]

(* What a sell or a payout releases.  Slip: released twice.                *)
FreedTwice(kept) == cost' = kept - cost /\ cash' = cash + cost - kept
Freed(kept) == cost' = kept /\ cash' = cash + cost - kept

Sell(e) ==
    /\ e \in Sells /\ status[e] = "none"
    /\ status' = [f \in Events |->
          IF f = e THEN "executed"
          ELSE IF status[f] = "retry_pending" /\ Ts(f) <= Ts(e) THEN "skipped"
          ELSE status[f]]
    /\ series' = ClosedUpTo(Ts(e))
    /\ \E kept \in {0, cost} : Freed(kept)
    /\ UNCHANGED <<counted, order, settings>>

-----------------------------------------------------------------------------
(* _retry_buy under the lock: the series is looked up by the event's own   *)
(* window, its size is not counted again.                                  *)

(* Slip: the retry counts the size as the first attempt does.              *)
RowRecounted(e, k) == Joined(e, k)
RowForRetry(e, k) == series[k]

Waiting(e) == status[e] = "retry_pending"

RetryLost(e) ==
    /\ Waiting(e)
    /\ SoldSince(Ts(e)) \/ (mode # "classic" /\ Bucket(Ts(e)) \notin DOMAIN series)
    /\ Mark(e, "skipped")
    /\ UNCHANGED <<market, series, counted, order, settings>>

RetrySeries(e) ==
    LET k == Bucket(Ts(e))
    IN  /\ Waiting(e) /\ ~SoldSince(Ts(e)) /\ mode # "classic"
        /\ k \in DOMAIN series
        /\ \E book \in Books :
              \/ Spend(e, k, RowForRetry(e, k), book)
              \/ Decline(e, series[k], book, "retry_pending") /\ UNCHANGED series
        /\ UNCHANGED <<counted, settings>>

RetryClassic(e) ==
    /\ Waiting(e) /\ ~SoldSince(Ts(e)) /\ mode = "classic"
    /\ \E book \in Books :
          ClassicOrder(e, RetryBudget(e, Ask(book)), book, "retry_pending")
    /\ UNCHANGED <<series, counted, settings>>

-----------------------------------------------------------------------------
(* A risk sell or a payout closes every series of the outcome and ends     *)
(* every waiting buy.                                                      *)
CloseOut ==
    /\ cost > 0
    /\ \E kept \in {0, cost \div 2} : Freed(kept)
    /\ series' = [k \in DOMAIN series |-> [series[k] EXCEPT !.closed = TRUE]]
    /\ status' = [e \in Events |-> IF Waiting(e) THEN "skipped" ELSE status[e]]
    /\ UNCHANGED <<counted, order, settings>>

(* /setmax, the leader's own size in the panel, and a restart with another *)
(* window.                                                                 *)
Change(setting, value, others) ==
    /\ changes < MaxChanges /\ changes' = changes + 1
    /\ setting # value
    /\ UNCHANGED <<market, status, series, counted, order, others>>

SetMax(m) == max' = m /\ Change(max, m, <<mode, seconds>>)
SetMode(m) == mode' = m /\ Change(mode, m, <<max, seconds>>)
SetSeconds(n) == seconds' = n /\ Change(seconds, n, <<mode, max>>)

Next ==
    \/ \E e \in Events :
          \/ RefuseBuy(e) \/ DelayBuy(e) \/ SizeBuy(e) \/ ClassicBuy(e)
          \/ RetryLost(e) \/ RetrySeries(e) \/ RetryClassic(e)
          \/ Sell(e)
    \/ CloseOut
    \/ \E m \in MaxSizes : SetMax(m)
    \/ \E m \in Modes : SetMode(m)
    \/ \E n \in Seconds : SetSeconds(n)

Spec == Init /\ [][Next]_vars

-----------------------------------------------------------------------------
PaidIn(k) == SumOver([e \in Events |-> order[e].cost], {e \in Events : order[e].key = k})
Members(k) == {e \in Events : counted[e] = k}

(* All that the orders of a series cost, first attempts and retries, fees  *)
(* included, is within the budget frozen when it began; in the percent     *)
(* mode it is within that share of what the leader put in.  A change of    *)
(* /setmax or of the mode in between makes no difference.                  *)
SeriesBudgetKept ==
    \A k \in DOMAIN series :
        /\ PaidIn(k) = series[k].spent
        /\ PaidIn(k) <= series[k].max
        /\ series[k].percent # 0 => 100 * PaidIn(k) <= series[k].percent * series[k].notional

(* The size of the leader's series, from which the target is computed, is  *)
(* the sum of the buys counted into it, each of them once, however often   *)
(* they were retried.                                                      *)
CountedOnce ==
    \A k \in DOMAIN series :
        /\ series[k].notional = SumOver([e \in Events |-> Notional(e)], Members(k))
        /\ series[k].shares = SumOver([e \in Events |-> Source[e].size], Members(k))

(* No moment of the leader's time belongs to two budgets, whatever windows *)
(* were configured and wherever a sell moved a series to.                  *)
OneBudgetPerMoment ==
    \A j, k \in DOMAIN series : j < k => j + series[j].seconds <= k

(* An order sized from a series leaves the reserve and the exposure limit  *)
(* of the outcome standing, fee included.                                  *)
Ordered(e) == order[e].cost # order'[e].cost
LimitsHold ==
    [][\A e \in Events : Ordered(e) /\ order'[e].key # NoKey =>
          /\ cost' <= MaxExposure
          /\ ReserveDen * cash' >= ReserveNum * (cash' + cost')]_vars

(* Once a sell of the leader at or after its start is recorded, or the     *)
(* market was left, nothing more is spent from a series.                   *)
SoldSeriesSpendsNothing ==
    [][\A k \in DOMAIN series :
          SoldSince(k) \/ series[k].closed => series'[k].spent = series[k].spent]_vars

(* A retry is given up for what its series says or because the leader sold *)
(* or the outcome was left, never because the entry was not sized yet: a   *)
(* signal that had to wait for the market or for the exchange's state      *)
(* stays eligible (record_buy_intent, RETRYABLE_BUY_REASONS).              *)
GivenUp(e) == Waiting(e) /\ status'[e] = "skipped"
RetryFindsItsSeries ==
    [][\A e \in Events : GivenUp(e) /\ UNCHANGED market /\ ~SoldSince(Ts(e))' =>
          Bucket(Ts(e)) \in DOMAIN series]_vars
=============================================================================
