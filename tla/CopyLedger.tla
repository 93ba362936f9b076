----------------------------- MODULE CopyLedger -----------------------------
(***************************************************************************)
(* The trading core of app/engine.py for one outcome token: what the       *)
(* transactions run under the ledger lock do to the paper account, to the  *)
(* shared position, to each leader's part of it and to the signals that    *)
(* wait (retried entries and unfinished exits).                            *)
(*                                                                         *)
(* A transaction holds the lock from its first read to its commit, so each *)
(* is one action.  The retries, the risk monitor and the settlement first  *)
(* read the database and the network without the lock; that reading is an  *)
(* action of its own, and whatever happens before the lock is acquired     *)
(* interleaves with it.                                                    *)
(*                                                                         *)
(* Shares and money are whole numbers of a small unit.  A cost or an exit  *)
(* that the code divides is only divided where the quotient is exact (a    *)
(* guard), because the code's Decimals do not round at these sizes; the    *)
(* part of a holding that a SELL asks for is rounded down to a unit.       *)
(*                                                                         *)
(* A definition introduced as a "slip" is a plausible mistake in the code  *)
(* below it; no action uses it.  The README says which property notices.   *)
(*                                                                         *)
(* Paper trading, one outcome token, one copy per source event; a price, a *)
(* filter or a sizing result is the choice to fill, to wait or to skip.    *)
(***************************************************************************)
EXTENDS Integers, Sequences, FiniteSets, Sums

CONSTANTS
    Leaders, Events,
    Source,         \* event -> leader, side, ts, size, price, valid
    StartCash,
    BuyFills,       \* bound: quantities one BUY may be filled with
    SellPrices,     \* bound: prices a SELL may be filled at
    Payouts,        \* what the resolution may pay for a share
    MinOrder,       \* book.min_order_size
    ReserveNum, ReserveDen,     \* MIN_CASH_RESERVE_PCT as a fraction
    SmartSizing,    \* SMART_SIZING_ENABLED
    RuleValues,     \* risk settings an administrator may save
    Off,            \* a disabled risk rule
    MaxQueue,       \* bound: copies scheduled at once for one leader
    ResetBelow,     \* bound: a reset happens while fewer positions were opened
    Environment     \* bound: what happens besides the leaders' trades

VARIABLES
    cash, realized,     \* Account.paper_balance, Account.realized_pnl
    position,           \* Position; id 0 when there is no row
    lastId,             \* last Position.id handed out
    own,                \* each leader's holding, as inventory() replays it
    trade, tid,         \* CopyTrade.status and the row's place in id order
    leaderShares,       \* LeaderPosition.shares
    exit,               \* ExitIntent rows; gen 0 when there is no row
    intent,             \* BuyIntent rows
    paused, active, rule,   \* Account.paused, Leader.active, RiskRule
    queue,              \* scheduled copies of each leader, in token order
    watermark,          \* _sell_watermarks
    exitJob, buyJob, riskJob, settleJob   \* what workers read before the lock

book == <<cash, realized, position, lastId, own>>
signals == <<trade, tid, leaderShares, exit, intent>>
control == <<paused, active, rule>>
jobs == <<exitJob, buyJob, riskJob, settleJob>>
vars == <<book, signals, control, queue, watermark, jobs>>

Sides == {"BUY", "SELL"}

ASSUME SourceAssumption ==
    Source \in [Events -> [leader : Leaders, side : Sides, ts : Nat \ {0},
                           size : Nat \ {0}, price : Nat, valid : BOOLEAN]]
ASSUME FiniteAssumption == IsFiniteSet(Leaders) /\ IsFiniteSet(Events)
ASSUME MoneyAssumption ==
    /\ StartCash \in Nat /\ MinOrder \in Nat
    /\ BuyFills \subseteq Nat \ {0} /\ SellPrices \subseteq Nat
    /\ Payouts \subseteq Nat
    /\ ReserveNum \in Nat /\ ReserveDen \in Nat \ {0}
    /\ SmartSizing \in BOOLEAN
ASSUME RuleAssumption == Off \notin RuleValues
ASSUME BoundsAssumption ==
    /\ MaxQueue \in Nat /\ ResetBelow \in Nat
    /\ Environment \subseteq {"pause", "switch", "risk", "settle", "restart", "redeliver"}

(* CopyTrade.status; "none" is no row yet, "failed" counts as skipped.     *)
Statuses == {"none", "skipped", "retry_pending", "executed", "exit_pending", "closed"}
NoPosition == [id |-> 0, shares |-> 0, cost |-> 0]
NoHolding == [shares |-> 0, cost |-> 0]
NoExit == [remaining |-> 0, pos |-> 0, trade |-> {}, ts |-> 0, gen |-> 0]
IdleExit == [step |-> "idle", gen |-> 0, pos |-> 0]
IdleRisk == [pos |-> 0, shares |-> 0, rule |-> Off]

BookTypes ==
    /\ cash \in Int /\ realized \in Int
    /\ position \in [id : Nat, shares : Nat, cost : Int]
    /\ lastId \in Nat
    /\ own \in [Leaders -> [shares : Nat, cost : Int]]

SignalTypes ==
    /\ trade \in [Events -> Statuses]
    /\ tid \in [Events -> Nat]
    /\ exit \in [Leaders -> [remaining : Nat, pos : Nat, trade : SUBSET Events,
                             ts : Nat, gen : Nat]]
    /\ intent \in [Events -> {"none", "active", "done"}]

ControlTypes ==
    /\ paused \in BOOLEAN
    /\ active \in [Leaders -> BOOLEAN]
    /\ rule \in RuleValues \cup {Off}
    /\ queue \in [Leaders -> Seq(Events)]
    /\ watermark \in [Leaders -> Nat]
    /\ exitJob \in [Leaders -> [step : {"idle", "read", "fill", "close"},
                                gen : Nat, pos : Nat]]
    /\ buyJob \in [Events -> BOOLEAN]
    /\ riskJob \in [pos : Nat, shares : Nat, rule : RuleValues \cup {Off}]
    /\ settleJob \in Nat

TypeOK ==
    /\ BookTypes /\ SignalTypes /\ ControlTypes
    /\ leaderShares \in [Leaders -> Nat]

Init ==
    /\ cash = StartCash /\ realized = 0
    /\ position = NoPosition /\ lastId = 0
    /\ own = [l \in Leaders |-> NoHolding]
    /\ trade = [e \in Events |-> "none"]
    /\ tid = [e \in Events |-> 0]
    /\ leaderShares = [l \in Leaders |-> 0]
    /\ exit = [l \in Leaders |-> NoExit]
    /\ intent = [e \in Events |-> "none"]
    /\ paused = FALSE
    /\ active = [l \in Leaders |-> TRUE]
    /\ rule = Off
    /\ queue = [l \in Leaders |-> <<>>]
    /\ watermark = [l \in Leaders |-> 0]
    /\ exitJob = [l \in Leaders |-> IdleExit]
    /\ buyJob = [e \in Events |-> FALSE]
    /\ riskJob = IdleRisk
    /\ settleJob = 0

-----------------------------------------------------------------------------
(* Reading the ledger.                                                     *)

Smaller(a, b) == IF a <= b THEN a ELSE b
Positive(a) == IF a > 0 THEN a ELSE 0
Exact(a, b) == a % b = 0

Leader(e) == Source[e].leader
IsBuy(e) == Source[e].side = "BUY"
IsSell(e) == Source[e].side = "SELL"

(* A receipt is committed with the first row of the event, whatever became *)
(* of it.  Slip: only signals that are finished count as received.         *)
FinishedOnly(e) == trade[e] \notin {"none", "retry_pending"}
Recorded(e) == trade[e] # "none"
OfLeader(l) == {e \in Events : Leader(e) = l}

(* A committed SELL of this leader that is not older than ts.              *)
SellAtOrAfter(l, ts) ==
    \E f \in OfLeader(l) : IsSell(f) /\ Recorded(f) /\ Source[f].ts >= ts

(* The row order of update_leader_position's replay.                       *)
Before(f, g, ids) ==
    \/ Source[f].ts < Source[g].ts
    \/ Source[f].ts = Source[g].ts /\ ids[f] < ids[g]

(* Slip: the clamp at zero is forgotten.                                   *)
Unclamped(shares, e) ==
    IF IsBuy(e) THEN shares + Source[e].size ELSE shares - Source[e].size
Traded(shares, e) ==
    IF IsBuy(e) THEN shares + Source[e].size
                ELSE Positive(shares - Source[e].size)

(* The leader's own shares once e is recorded: e applied to the stored     *)
(* number, or all valid rows replayed in time order when a newer row is    *)
(* already there.                                                          *)
LeaderAfter(e, ids) ==
    LET l == Leader(e)
        rows == {f \in OfLeader(l) : ids[f] # 0 /\ Source[f].valid}
        nth(i) == CHOOSE f \in rows :
                     Cardinality({g \in rows : Before(g, f, ids)}) = i - 1
        held[i \in 0..Cardinality(rows)] ==
            IF i = 0 THEN 0 ELSE Traded(held[i - 1], nth(i))
    IN  IF \E f \in OfLeader(l) : ids[f] # 0 /\ Source[f].ts > Source[e].ts
        THEN held[Cardinality(rows)]
        ELSE Traded(leaderShares[l], e)

NextTid(e) ==
    [tid EXCEPT ![e] = Cardinality({f \in OfLeader(Leader(e)) : tid[f] # 0}) + 1]

(* finish_exit_signals for the signals in `which'.                         *)
(* Slips: it is not called at all, or for every open row of the token.     *)
FinishNothing(tr, which) == tr
FinishEverything(tr, which) ==
    [e \in Events |-> IF e \in which /\ tr[e] # "none" THEN "closed" ELSE tr[e]]
Finish(tr, which) ==
    [e \in Events |->
        IF e \in which /\ tr[e] = "exit_pending" THEN "closed" ELSE tr[e]]

(* Deactivate the BuyIntents in `which' and give up their copies.          *)
DropIntents(which) ==
    intent' = [e \in Events |->
        IF e \in which /\ intent[e] = "active" THEN "done" ELSE intent[e]]

(* Slip: the intents end, their copies stay in the list of waiting ones.   *)
SkipNothing(tr, which) == tr
Skip(tr, which) ==
    [e \in Events |->
        IF e \in which /\ intent[e] = "active" /\ tr[e] = "retry_pending"
        THEN "skipped" ELSE tr[e]]

(* Cash a BUY may spend: what is left above the reserve of the equity.  A  *)
(* retry in the classic mode is sized from the whole balance.              *)
WithinReserve(cost) ==
    ReserveDen * cost <= ReserveDen * cash - ReserveNum * (cash + position.cost)
(* Slip: a fill is booked without looking at the balance.                  *)
AlwaysAffordable(cost, retried) == TRUE
Affordable(cost, retried) ==
    IF retried /\ ~SmartSizing THEN cost <= cash ELSE WithinReserve(cost)

(* execute_fak: nothing below the minimum order, else all or a part.       *)
SellFills(target) ==
    {q \in 1..target : target >= MinOrder /\ (q = target \/ 2 * q = target)}

-----------------------------------------------------------------------------
(* Writing the ledger: apply_fill and the order row that inventory() reads *)
(* back as the leader's holding.                                           *)

Buy(e, q) ==
    LET l == Leader(e)
        cost == Source[e].price * q
        id == IF position.id = 0 THEN lastId + 1 ELSE position.id
    IN  /\ cash' = cash - cost
        /\ lastId' = IF position.id = 0 THEN id ELSE lastId
        /\ position' = [id |-> id, shares |-> position.shares + q,
                        cost |-> position.cost + cost]
        /\ own' = [own EXCEPT ![l] = [shares |-> @.shares + q, cost |-> @.cost + cost]]
        /\ UNCHANGED realized

(* A sell of q shares at price p that releases `cost'; the row goes when   *)
(* nothing is left.                                                        *)
(* Slip: the cost of the shares that are gone stays in the position.       *)
SellKeepingCost(q, p, cost) ==
    /\ cash' = cash + p * q
    /\ realized' = realized + p * q - cost
    /\ position' = IF q = position.shares THEN NoPosition
                   ELSE [position EXCEPT !.shares = @ - q]
    /\ UNCHANGED lastId
Sell(q, p, cost) ==
    /\ cash' = cash + p * q
    /\ realized' = realized + p * q - cost
    /\ position' = IF q = position.shares THEN NoPosition
                   ELSE [position EXCEPT !.shares = @ - q, !.cost = @ - cost]
    /\ UNCHANGED lastId

(* What a sell of q of leader l's own shares takes out of the position:    *)
(* the leader's own cost, all that is left with the last share.            *)
(* Slip: the average cost of the whole position.                           *)
OwnCost(l, q) == (own[l].cost * q) \div own[l].shares
AverageCost(l, q) == (position.cost * q) \div position.shares
ReleasedCost(l, q) == IF q = position.shares THEN position.cost ELSE OwnCost(l, q)

(* Sell q of leader l's own shares for exit x, with the statuses `tr' so   *)
(* far; they release their own cost.                                       *)
SellPart(l, x, tr, q, p) ==
    LET done == [e \in Events |-> IF e \in x.trade THEN "executed" ELSE tr[e]]
    IN  /\ Exact(own[l].cost * q, own[l].shares)
        /\ Sell(q, p, ReleasedCost(l, q))
        /\ own' = [own EXCEPT ![l] = [shares |-> @.shares - q,
                                      cost |-> @.cost - OwnCost(l, q)]]
        /\ exit' = [exit EXCEPT ![l] = [x EXCEPT !.remaining = @ - q]]
        /\ trade' = IF q = x.remaining THEN Finish(done, OfLeader(l)) ELSE done

(* _fill_exit: a position that is gone ends the exit; with a usable book   *)
(* what it asks for and its leader owns may be sold.                       *)
Gone(l, x) == position.id = 0 \/ position.id # x.pos \/ own[l].shares = 0

FillExit(l, x, tr, usable) ==
    \/ /\ Gone(l, x)
       /\ exit' = [exit EXCEPT ![l] = [x EXCEPT !.remaining = 0]]
       /\ trade' = Finish(tr, OfLeader(l))
       /\ UNCHANGED book
    \/ /\ ~Gone(l, x)
       /\ exit' = [exit EXCEPT ![l] = x]
       /\ trade' = tr
       /\ UNCHANGED book
    \/ /\ ~Gone(l, x) /\ usable
       /\ \E q \in SellFills(Smaller(x.remaining, Smaller(own[l].shares, position.shares))),
             p \in SellPrices : SellPart(l, x, tr, q, p)

-----------------------------------------------------------------------------
(* Signals: RTDS and REST hand events to _schedule_copy, a worker chain    *)
(* per leader executes them in that order.                                 *)

Schedule(e) ==
    LET l == Leader(e)
    IN  /\ active[l]
        /\ \A i \in DOMAIN queue[l] : queue[l][i] # e
        /\ Len(queue[l]) < MaxQueue
        /\ Recorded(e) => "redeliver" \in Environment
        /\ queue' = [queue EXCEPT ![l] = Append(@, e)]
        /\ watermark' = IF IsSell(e) /\ Source[e].ts > watermark[l]
                        THEN [watermark EXCEPT ![l] = Source[e].ts] ELSE watermark
        /\ UNCHANGED <<book, signals, control, jobs>>

(* Paused or switched off while it waited: the copy leaves no trace, the   *)
(* next poll reports the event again.                                      *)
Forget(l) ==
    /\ queue[l] # <<>>
    /\ paused \/ ~active[l]
    /\ queue' = [queue EXCEPT ![l] = Tail(@)]
    /\ UNCHANGED <<book, signals, control, watermark, jobs>>

(* process_event of a SELL: it ends the leader's waiting entries up to its *)
(* time, then _accept_exit turns it into the leader's exit intent.         *)
OutOfOrderExit(l, ts) ==
    \/ \E f \in OfLeader(l) : IsBuy(f) /\ trade[f] = "executed" /\ Source[f].ts > ts
    \/ exit[l].remaining > 0 /\ ts < exit[l].ts

(* What an open exit of the same position has asked for already, and what  *)
(* of the rest a SELL of `size' out of `before' asks for.                  *)
Kept(l) ==
    IF exit[l].pos = position.id THEN Smaller(own[l].shares, exit[l].remaining) ELSE 0
Free(l) == own[l].shares - Kept(l)
PartOf(free, size, before) ==
    {n \in 0..free : n = Smaller(free, (free * size) \div before)}

(* Everything when the leader is flat; else no remainder below the minimum *)
(* order is left behind.                                                   *)
ExitTarget(l, part, after, minimum) ==
    LET mine == own[l].shares
        wanted == Kept(l) + part
    IN  CASE after = 0 -> mine
          [] after # 0 /\ mine - wanted \in 1..(minimum - 1) ->
                 Smaller(wanted, Positive(mine - minimum))
          [] OTHER -> wanted

AcceptSell(e) ==
    LET l == Leader(e)
        ts == Source[e].ts
        older == {f \in OfLeader(l) : Source[f].ts <= ts}
        before == leaderShares[l]
        after == LeaderAfter(e, NextTid(e))
        tr(status) == [Skip(trade, older) EXCEPT ![e] = status]
        sellable == position.id # 0 /\ own[l].shares > 0 /\ before > 0
    IN  /\ tid' = NextTid(e)
        /\ leaderShares' = [leaderShares EXCEPT ![l] = after]
        /\ DropIntents(older)
        /\ IF OutOfOrderExit(l, ts) \/ ~sellable
           THEN trade' = tr("skipped") /\ UNCHANGED <<book, exit>>
           ELSE \E minimum \in {0, MinOrder},
                   part \in PartOf(Free(l), Source[e].size, before) :
                FillExit(l,
                    [remaining |-> ExitTarget(l, part, after, minimum),
                     pos |-> position.id, trade |-> {e}, ts |-> ts,
                     gen |-> exit[l].gen + 1],
                    tr("exit_pending"), minimum = MinOrder)

(* process_event of a BUY.                                                 *)
(* Slip: only the watermarks in memory are asked.                          *)
SupersededInMemory(e) == watermark[Leader(e)] >= Source[e].ts
Superseded(e) ==
    \/ watermark[Leader(e)] >= Source[e].ts
    \/ SellAtOrAfter(Leader(e), Source[e].ts)

(* What becomes of a BUY that was looked at: refused (a filter, the age,   *)
(* the price, the sizing or the market), left waiting for its price, or    *)
(* filled and booked.                                                      *)
RefuseBuy(e) ==
    /\ trade' = [trade EXCEPT ![e] = "skipped"]
    /\ UNCHANGED <<book, intent>>

WaitBuy(e) ==
    /\ trade' = [trade EXCEPT ![e] = "retry_pending"]
    /\ intent' = [intent EXCEPT ![e] = "active"]
    /\ UNCHANGED book

FillBuy(e) ==
    /\ \E q \in BuyFills : Affordable(Source[e].price * q, FALSE) /\ Buy(e, q)
    /\ trade' = [trade EXCEPT ![e] = "executed"]
    /\ UNCHANGED intent

AcceptBuy(e) ==
    LET l == Leader(e)
    IN  /\ tid' = NextTid(e)
        /\ leaderShares' = [leaderShares EXCEPT ![l] = LeaderAfter(e, NextTid(e))]
        /\ UNCHANGED exit
        /\ \/ RefuseBuy(e)
           \/ /\ ~Superseded(e) /\ exit[l].remaining = 0
              /\ WaitBuy(e) \/ FillBuy(e)

(* A row whose size or price is invalid is recorded and goes no further.   *)
RejectInvalid(e) ==
    /\ trade' = [trade EXCEPT ![e] = "skipped"]
    /\ tid' = NextTid(e)
    /\ UNCHANGED <<book, leaderShares, exit, intent>>

Process(l) ==
    /\ queue[l] # <<>>
    /\ ~paused /\ active[l]
    /\ queue' = [queue EXCEPT ![l] = Tail(@)]
    /\ LET e == Head(queue[l])
       IN  \/ Recorded(e) /\ UNCHANGED <<book, signals>>
           \/ ~Recorded(e) /\ ~Source[e].valid /\ RejectInvalid(e)
           \/ ~Recorded(e) /\ Source[e].valid /\ IsSell(e) /\ AcceptSell(e)
           \/ ~Recorded(e) /\ Source[e].valid /\ IsBuy(e) /\ AcceptBuy(e)
    /\ UNCHANGED <<control, watermark, jobs>>

-----------------------------------------------------------------------------
(* _retry_exit: reads the intent and the position, prepares, then fills    *)
(* under the lock if the intent is still the one it read.                  *)

StartExit(l) ==
    /\ exitJob[l].step = "idle"
    /\ exit[l].remaining > 0 /\ ~paused /\ active[l]
    /\ exitJob' = [exitJob EXCEPT ![l] =
                     [step |-> "read", gen |-> exit[l].gen, pos |-> exit[l].pos]]
    /\ UNCHANGED <<book, signals, control, queue, watermark, buyJob, riskJob, settleJob>>

ReadExitPosition(l) ==
    /\ exitJob[l].step = "read"
    /\ exitJob' = [exitJob EXCEPT ![l].step =
                     IF position.id = exitJob[l].pos THEN "fill" ELSE "close"]
    /\ UNCHANGED <<book, signals, control, queue, watermark, buyJob, riskJob, settleJob>>

(* Slip: the pause is not read again.                                      *)
OpenWhenRead(l) ==
    exit[l].remaining > 0 /\ exit[l].gen = exitJob[l].gen /\ active[l]
StillOpen(l) ==
    exit[l].remaining > 0 /\ exit[l].gen = exitJob[l].gen /\ ~paused /\ active[l]

RunExit(l) ==
    /\ exitJob[l].step = "fill"
    /\ exitJob' = [exitJob EXCEPT ![l] = IdleExit]
    /\ IF StillOpen(l)
       THEN FillExit(l, exit[l], trade, TRUE)
       ELSE UNCHANGED <<book, exit, trade>>
    /\ UNCHANGED <<tid, leaderShares, intent, control, queue, watermark,
                   buyJob, riskJob, settleJob>>

CloseExit(l) ==
    /\ exitJob[l].step = "close"
    /\ exitJob' = [exitJob EXCEPT ![l] = IdleExit]
    /\ IF exit[l].gen = exitJob[l].gen
       THEN /\ exit' = [exit EXCEPT ![l].remaining = 0]
            /\ trade' = Finish(trade, OfLeader(l))
       ELSE UNCHANGED <<exit, trade>>
    /\ UNCHANGED <<book, tid, leaderShares, intent, control, queue, watermark,
                   buyJob, riskJob, settleJob>>

(* _retry_buy: a first look without the lock may already give the entry    *)
(* up; otherwise it is priced again and filled under the lock.             *)
LeaderSold(e) == SellAtOrAfter(Leader(e), Source[e].ts) \/ leaderShares[Leader(e)] = 0

StartBuy(e) ==
    /\ intent[e] = "active" /\ ~buyJob[e]
    /\ IF ~active[Leader(e)] \/ LeaderSold(e)
       THEN /\ trade' = Skip(trade, {e})
            /\ DropIntents({e})
            /\ UNCHANGED buyJob
       ELSE /\ buyJob' = [buyJob EXCEPT ![e] = TRUE]
            /\ UNCHANGED <<trade, intent>>
    /\ UNCHANGED <<book, tid, leaderShares, exit, control, queue, watermark,
                   exitJob, riskJob, settleJob>>

EndBuy(e, status) ==
    /\ trade' = [trade EXCEPT ![e] = status]
    /\ DropIntents({e})

(* A retry that is filled; its order does not ask for an open exit, nor    *)
(* whether the leader is still active.                                     *)
FillRetry(e) ==
    /\ ~LeaderSold(e)
    /\ \E q \in BuyFills : Affordable(Source[e].price * q, TRUE) /\ Buy(e, q)
    /\ EndBuy(e, "executed")

RunBuy(e) ==
    /\ buyJob[e]
    /\ buyJob' = [buyJob EXCEPT ![e] = FALSE]
    /\ \/ /\ UNCHANGED <<book, trade, intent>>      \* inactive, paused or delayed
          /\ intent[e] # "active" \/ paused \/ ~LeaderSold(e)
       \/ /\ intent[e] = "active" /\ ~paused        \* sold, or a final refusal
          /\ EndBuy(e, "skipped")
          /\ UNCHANGED book
       \/ /\ intent[e] = "active" /\ ~paused
          /\ FillRetry(e)
    /\ UNCHANGED <<tid, leaderShares, exit, control, queue, watermark,
                   exitJob, riskJob, settleJob>>

-----------------------------------------------------------------------------
(* _monitor_risk_token: a trigger is found, the book prepared, and the     *)
(* position sold if it and the rule are still the ones that triggered.     *)

StartRisk ==
    /\ riskJob = IdleRisk
    /\ ~paused /\ position.id # 0 /\ rule # Off
    /\ riskJob' = [pos |-> position.id, shares |-> position.shares, rule |-> rule]
    /\ UNCHANGED <<book, signals, control, queue, watermark, exitJob, buyJob, settleJob>>

(* Open exits after a sell of q of all `total' shares.                     *)
(* Slip: they keep what they asked for.                                    *)
Scaled(n, q, total) == (n * (total - q)) \div total
KeptExits(q, total) == exit
ScaledExits(q, total) ==
    [l \in Leaders |->
        IF exit[l].remaining > 0
        THEN [exit[l] EXCEPT !.remaining = Scaled(@, q, total), !.gen = @ + 1]
        ELSE exit[l]]

(* A risk sell belongs to nobody: replay() takes it from every holding in  *)
(* proportion, and the open exits shrink by the same factor.               *)
RiskSell(q, p) ==
    LET total == position.shares
        cost == IF q = total THEN position.cost ELSE (position.cost * q) \div total
        flat == q = total
    IN  /\ Exact(position.cost * q, total)
        /\ \A l \in Leaders :
              Exact(own[l].shares * q, total) /\ Exact(own[l].cost * q, total)
              /\ Exact(exit[l].remaining * q, total)
        /\ Sell(q, p, cost)
        /\ own' = [l \in Leaders |-> [shares |-> Scaled(own[l].shares, q, total),
                                      cost |-> Scaled(own[l].cost, q, total)]]
        /\ exit' = ScaledExits(q, total)
        /\ trade' = IF flat THEN Skip(Finish(trade, Events), Events)
                    ELSE Skip(trade, Events)
        /\ DropIntents(Events)
        /\ rule' = IF flat THEN Off ELSE rule

RunRisk ==
    /\ riskJob # IdleRisk
    /\ riskJob' = IdleRisk
    /\ \/ UNCHANGED <<book, trade, exit, intent, rule>>    \* no usable book or no fill
       \/ /\ ~paused /\ position.id = riskJob.pos /\ rule = riskJob.rule
          /\ \E q \in SellFills(Smaller(riskJob.shares, position.shares)),
                p \in SellPrices : RiskSell(q, p)
    /\ UNCHANGED <<tid, leaderShares, paused, active, queue, watermark,
                   exitJob, buyJob, settleJob>>

(* _settle_position: the resolution is fetched for a snapshot of the       *)
(* position and paid if that very row still exists, for what it holds now. *)
StartSettle ==
    /\ "settle" \in Environment
    /\ settleJob = 0 /\ position.id # 0
    /\ settleJob' = position.id
    /\ UNCHANGED <<book, signals, control, queue, watermark, exitJob, buyJob, riskJob>>

Settle(p) ==
    /\ Sell(position.shares, p, position.cost)
    /\ own' = [l \in Leaders |-> NoHolding]
    /\ exit' = [l \in Leaders |->
          IF exit[l].gen = 0 THEN exit[l]
          ELSE [exit[l] EXCEPT !.remaining = 0, !.gen = @ + 1]]
    /\ trade' = Skip(Finish(trade, Events), Events)
    /\ DropIntents(Events)
    /\ rule' = Off

RunSettle ==
    /\ settleJob # 0
    /\ settleJob' = 0
    /\ IF position.id = settleJob
       THEN \E p \in Payouts : Settle(p)
       ELSE UNCHANGED <<book, trade, exit, intent, rule>>
    /\ UNCHANGED <<tid, leaderShares, paused, active, queue, watermark,
                   exitJob, buyJob, riskJob>>

-----------------------------------------------------------------------------
(* The administrator, and a restart: the database stays, the queue, the    *)
(* watermarks and what the workers had read are gone.                      *)

TogglePause ==
    /\ "pause" \in Environment
    /\ paused' = ~paused
    /\ UNCHANGED <<book, signals, active, rule, queue, watermark, jobs>>

ToggleLeader(l) ==
    /\ "switch" \in Environment
    /\ active' = [active EXCEPT ![l] = ~@]
    /\ UNCHANGED <<book, signals, paused, rule, queue, watermark, jobs>>

SetRule(r) ==
    /\ "risk" \in Environment
    /\ rule' = r
    /\ UNCHANGED <<book, signals, paused, active, queue, watermark, jobs>>

Restart ==
    /\ "restart" \in Environment
    /\ queue' = [l \in Leaders |-> <<>>]
    /\ watermark' = [l \in Leaders |-> 0]
    /\ exitJob' = [l \in Leaders |-> IdleExit]
    /\ buyJob' = [e \in Events |-> FALSE]
    /\ riskJob' = IdleRisk
    /\ settleJob' = 0
    /\ UNCHANGED <<book, signals, control>>

(* _reset_database, then reset_runtime_state: every row of the trading is  *)
(* gone and the account starts anew; workers and queues go on with what    *)
(* they had read.  Row numbers are not used again, so a worker of a waiting *)
(* entry finds nothing; an exit is known by its leader and token only.     *)
Reset ==
    /\ lastId < ResetBelow
    /\ cash' = StartCash /\ realized' = 0
    /\ position' = NoPosition
    /\ own' = [l \in Leaders |-> NoHolding]
    /\ trade' = [e \in Events |-> "none"]
    /\ tid' = [e \in Events |-> 0]
    /\ leaderShares' = [l \in Leaders |-> 0]
    /\ exit' = [l \in Leaders |-> NoExit]
    /\ intent' = [e \in Events |-> "none"]
    /\ rule' = Off
    /\ watermark' = [l \in Leaders |-> 0]
    /\ buyJob' = [e \in Events |-> FALSE]
    /\ UNCHANGED <<lastId, paused, active, queue, exitJob, riskJob, settleJob>>

Next ==
    \/ \E e \in Events : Schedule(e) \/ StartBuy(e) \/ RunBuy(e)
    \/ \E l \in Leaders :
          \/ Process(l) \/ Forget(l)
          \/ StartExit(l) \/ ReadExitPosition(l) \/ RunExit(l) \/ CloseExit(l)
          \/ ToggleLeader(l)
    \/ StartRisk \/ RunRisk \/ StartSettle \/ RunSettle
    \/ TogglePause
    \/ \E r \in RuleValues \cup {Off} : SetRule(r)
    \/ Restart \/ Reset

Spec == Init /\ [][Next]_vars

-----------------------------------------------------------------------------
(* The reading of a property in terms of the code: `own' is what the order *)
(* rows say each leader holds, `position' is the row the account values.   *)

TotalOf(f) == SumOver(f, Leaders)

(* The shared position is exactly the sum of what the order history gives  *)
(* to each leader, in shares and in cost: no sell, risk sell or payout     *)
(* takes one leader's part and books it to another (repository.apply_fill  *)
(* against accounting.replay).                                             *)
Attributed ==
    /\ position.shares = TotalOf([l \in Leaders |-> own[l].shares])
    /\ position.cost = TotalOf([l \in Leaders |-> own[l].cost])
    /\ \A l \in Leaders : own[l].shares >= 0 /\ (own[l].shares = 0 => own[l].cost = 0)

(* Money is neither made nor lost: cash and open cost add up to the start  *)
(* and the realized result after every fill, payout and retry (what        *)
(* ledger_audit.summarize reports as balance_identity_gap).                *)
LedgerIdentity == cash + position.cost = StartCash + realized

(* The account is never overdrawn, whichever entries were sized while      *)
(* others were filled.                                                     *)
Solvent == cash >= 0

(* An open exit always refers to the position that is there and never asks *)
(* for more than its leader still owns, after risk sells, payouts, other   *)
(* leaders' exits and re-opened positions alike.                           *)
ExitCovered ==
    \A l \in Leaders : exit[l].remaining > 0 =>
        /\ exit[l].pos = position.id
        /\ exit[l].remaining <= own[l].shares

(* A SELL signal shown as pending has shares left to sell: whoever closed  *)
(* the holding also closed the signal.                                     *)
PendingExitOwnsShares ==
    \A e \in Events : trade[e] = "exit_pending" => own[Leader(e)].shares > 0

(* A copy is waiting for a better price exactly while its retry is armed,  *)
(* so no entry is shown waiting that nobody will retry, and none is        *)
(* retried that the history calls finished.                                *)
WaitingIsArmed ==
    \A e \in Events : trade[e] = "retry_pending" <=> intent[e] = "active"

(* A leader's holding grows only by a copy of one of its own buys that was *)
(* not executed before: first attempt, retry and redelivery together fill  *)
(* a signal at most once, until a reset wipes the history.                 *)
Wiped == \A e \in Events : trade[e] = "none"
Filled(e) == trade[e] = "executed" /\ IsBuy(e)

FilledOnce ==
    [][/\ \A e \in Events : Filled(e) => Filled(e)' \/ Wiped'
       /\ \A l \in Leaders : own'[l].shares > own[l].shares =>
             \E e \in OfLeader(l) : ~Filled(e) /\ Filled(e)']_vars

(* No entry is executed once a SELL of the same leader that is not older   *)
(* has been recorded, however late the BUY arrives or is retried.          *)
NoBuyAfterRecordedSell ==
    [][\A e \in Events : ~Filled(e) /\ Filled(e)' =>
          ~SellAtOrAfter(Leader(e), Source[e].ts)]_vars

(* While the account is paused nothing is bought or sold, also not by      *)
(* workers that began before the pause; payouts are still booked, and a    *)
(* reset wipes everything.                                                 *)
PauseHolds ==
    [][paused => \/ position' = position \/ Wiped'
                 \/ position' = NoPosition /\ settleJob' # settleJob]_vars

(* No new entry of a leader is opened while its exit of the same outcome   *)
(* is unfinished.                                                          *)
NoEntryDuringExit ==
    [][\A e \in Events : ~Filled(e) /\ Filled(e)' => exit[Leader(e)].remaining = 0]_vars

-----------------------------------------------------------------------------
Lifecycle == INSTANCE SignalLifecycle WITH status <- trade, Wipes <- ResetBelow > 0

(* The rows of CopyTrade move as the order history promises, whatever the  *)
(* queue, the retries, the risk monitor and the settlement interleave to.  *)
ImplementsLifecycle == Lifecycle!LSpec
=============================================================================
